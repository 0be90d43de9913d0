----------------------------- MODULE MCHashTable -----------------------------
(***************************************************************************)
(* HashTable with the hash function of table.c over keys that collide.     *)
(***************************************************************************)
EXTENDS HashTable, SequencesExt

\* The keys "a", "ab", "abcdefg", "b" and "c\377", in the order of strcmp, as
\* the codes of their characters.
Chars == << <<97>>, <<97, 98>>, <<97, 98, 99, 100, 101, 102, 103>>, <<98>>, <<99, 255>> >>

\* char is signed.
Signed(b) == IF b < 128 THEN b ELSE b - 256
SumOf(s) == FoldSeq(LAMBDA x, y : Signed(x) + y, 0, s)

\* The remainder of C, which has the sign of a.
Rem(a, l) == IF a >= 0 THEN a % l ELSE -((-a) % l)

\* key_hash: of a long key only the first three and the last three count.
key_hash(s, l) ==
  LET n == Len(s) IN
  Rem(IF n <= 5 THEN SumOf(s)
                ELSE SumOf(SubSeq(s, 1, 3)) + SumOf(SubSeq(s, n - 2, n)), l)

HashOf == [k \in DOMAIN Chars |-> key_hash(Chars[k], N)]
KeyHash(k) == HashOf[k]
=============================================================================
