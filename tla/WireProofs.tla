------------------------------ MODULE WireProofs -----------------------------
(***************************************************************************)
(* What is serialised is parsed as what it was: buffer_to_message undoes   *)
(* message_to_buffer on every message that a client or invoke() builds.    *)
(* The argument is about which bytes are where (Holds); the loops over a   *)
(* list of keys are inductions on their number.                            *)
(***************************************************************************)
EXTENDS Wire, TableSkelProofs, SequenceTheorems

Bytes == Seq(0..255)

\* The bytes x are in b from position i on.
Holds(b, i, x) == \A q \in 1..Len(x) : b[i + q - 1] = x[q]

\* The numbers that 16 bits and 32 bits hold.
Short == {n \in Nat : n <= USHRT_MAX}
IntRange == {n \in Int : -INT_MAX - 1 <= n /\ n <= INT_MAX}

-----------------------------------------------------------------------------
\* A set of numbers that is not empty has a least member, and Min is it.
LEMMA MinIsLeast ==
  ASSUME NEW T \in SUBSET Nat, T # {}
  PROVE  Min(T) \in T /\ \A y \in T : Min(T) <= y
<1>1. \E x \in T : \A y \in T : ~(<<y, x>> \in OpToRel(<, Nat))
  BY NatLessThanWellFounded, WFMin
<1>2. \A x, y \in Nat : <<y, x>> \in OpToRel(<, Nat) <=> y < x
  BY DEF OpToRel
<1>3. PICK x \in T : \A y \in T : ~(<<y, x>> \in OpToRel(<, Nat))
  BY <1>1
<1>4. ASSUME NEW y \in T PROVE x <= y
  <2>1. x \in Nat /\ y \in Nat /\ ~(y < x)
    BY <1>2, <1>3
  <2> QED
    BY <2>1
<1> QED
  BY <1>4 DEF Min

\* Induction, on the set of the numbers for which something holds.
LEMMA Induction ==
  ASSUME NEW S, 0 \in S, \A n \in Nat : n \in S => n + 1 \in S
  PROVE  Nat \subseteq S
<1> SUFFICES ASSUME Nat \ S # {} PROVE FALSE
  OBVIOUS
<1>1. PICK n : n = Min(Nat \ S)
  OBVIOUS
<1>2. n \in Nat \ S /\ \A y \in Nat \ S : n <= y
  BY <1>1, MinIsLeast
<1>3. n - 1 \in Nat /\ n - 1 \in S
  BY <1>2
<1> QED
  BY <1>2, <1>3

-----------------------------------------------------------------------------
\* The digits of a number in base 256.
LEMMA Digits ==
  ASSUME NEW n \in Int
  PROVE  /\ (n \div 16777216) % 256 \in 0..255 /\ (n \div 65536) % 256 \in 0..255
         /\ (n \div 256) % 256 \in 0..255 /\ n % 256 \in 0..255
         /\ 0 <= n /\ n <= 65535 => (((n \div 256) % 256) * 256) + (n % 256) = n
BY SMT

\* ntohs undoes htons.
LEMMA ShortBytes ==
  ASSUME NEW n \in Short
  PROVE  /\ U16(n) \in Bytes /\ Len(U16(n)) = 2
         /\ U16(n)[1] * 256 + U16(n)[2] = n
<1>1. n \in Int /\ 0 <= n /\ n <= 65535
  BY SMT DEF Short, USHRT_MAX
<1>2. /\ (n \div 256) % 256 \in 0..255 /\ n % 256 \in 0..255
      /\ (((n \div 256) % 256) * 256) + (n % 256) = n
  BY <1>1, Digits
<1> QED
  BY <1>1, <1>2, SMT DEF U16, Bytes

\* htonl makes four bytes.
LEMMA IntDigits ==
  ASSUME NEW n \in Int
  PROVE  /\ U32(n) \in Bytes /\ Len(U32(n)) = 4
         /\ U32(n)[1] = (n \div 16777216) % 256 /\ U32(n)[2] = (n \div 65536) % 256
         /\ U32(n)[3] = (n \div 256) % 256 /\ U32(n)[4] = n % 256
<1>1. /\ (n \div 16777216) % 256 \in 0..255 /\ (n \div 65536) % 256 \in 0..255
      /\ (n \div 256) % 256 \in 0..255 /\ n % 256 \in 0..255
  BY Digits
<1> QED
  BY <1>1, SMT DEF U32, U16, Bytes

\* ntohl undoes htonl, for negative numbers too.
LEMMA IntBytes ==
  ASSUME NEW n \in IntRange
  PROVE  U32(n) \in Bytes /\ Len(U32(n)) = 4 /\ N32(U32(n), 1) = n
<1> DEFINE a == (n \div 16777216) % 256
           b == (n \div 65536) % 256
           c == (n \div 256) % 256
           d == n % 256
<1>1. n \in Int /\ n >= -2147483648 /\ n <= 2147483647
  BY SMT DEF IntRange, INT_MAX
<1>2. (IF a < 128 THEN a ELSE a - 256) * 16777216 + b * 65536 + (c * 256 + d) = n
  BY <1>1, SMT
<1>3. /\ U32(n) \in Bytes /\ Len(U32(n)) = 4
      /\ U32(n)[1] = a /\ U32(n)[2] = b /\ U32(n)[3] = c /\ U32(n)[4] = d
  BY <1>1, IntDigits, SMT
<1> HIDE DEF a, b, c, d
<1>4. N32(U32(n), 1) =
        (IF a < 128 THEN a ELSE a - 256) * 16777216 + b * 65536 + (c * 256 + d)
  BY <1>3, SMT DEF N32, N16
<1> QED
  BY <1>2, <1>3, <1>4, SMT

\* A short that is in b at i is read from there.
LEMMA ShortAt ==
  ASSUME NEW n \in Short, NEW b, NEW i \in Nat, Holds(b, i, U16(n))
  PROVE  N16(b, i) = n
<1>1. b[i + 1 - 1] = U16(n)[1] /\ b[i + 2 - 1] = U16(n)[2]
  BY ShortBytes DEF Holds
<1>2. i + 1 - 1 = i /\ i + 2 - 1 = i + 1
  OBVIOUS
<1> QED
  BY <1>1, <1>2, ShortBytes DEF N16

\* An int that is in b at i is read from there.
LEMMA IntAt ==
  ASSUME NEW n \in IntRange, NEW b, NEW i \in Nat, Holds(b, i, U32(n))
  PROVE  N32(b, i) = n
<1>1. PICK u : u = U32(n)
  OBVIOUS
<1>2. Len(u) = 4 /\ N32(u, 1) = n
  BY <1>1, IntBytes
<1>3. /\ b[i + 1 - 1] = u[1] /\ b[i + 2 - 1] = u[2]
      /\ b[i + 3 - 1] = u[3] /\ b[i + 4 - 1] = u[4]
  BY <1>1, <1>2 DEF Holds
<1>4. /\ i + 1 - 1 = i /\ i + 2 - 1 = i + 1
      /\ i + 3 - 1 = i + 2 /\ i + 4 - 1 = (i + 2) + 1
  OBVIOUS
<1>5. /\ b[i] = u[1] /\ b[i + 1] = u[2] /\ b[i + 2] = u[3] /\ b[(i + 2) + 1] = u[4]
  BY <1>3, <1>4
<1>6. N32(b, i) = N32(u, 1)
  BY <1>5, SMT DEF N32, N16
<1> QED
  BY <1>2, <1>6

-----------------------------------------------------------------------------
\* Both parts of a concatenation are where they should be.
LEMMA Parts ==
  ASSUME NEW s \in Bytes, NEW t \in Bytes
  PROVE  /\ s \o t \in Bytes /\ Len(s) \in Nat /\ Len(t) \in Nat
         /\ Len(s \o t) = Len(s) + Len(t)
         /\ \A b, i : i \in Nat /\ Holds(b, i, s \o t) =>
              Holds(b, i, s) /\ Holds(b, i + Len(s), t)
<1>1. PICK u : u = s \o t
  OBVIOUS
<1>2. /\ u \in Bytes /\ Len(s) \in Nat /\ Len(t) \in Nat /\ Len(u) = Len(s) + Len(t)
      /\ \A q \in 1..Len(s) + Len(t) : u[q] = IF q <= Len(s) THEN s[q] ELSE t[q - Len(s)]
  BY <1>1, ConcatProperties, LenProperties DEF Bytes
<1>3. ASSUME NEW b, NEW i \in Nat, Holds(b, i, u)
      PROVE  Holds(b, i, s) /\ Holds(b, i + Len(s), t)
  <2>1. ASSUME NEW q \in 1..Len(s) PROVE b[i + q - 1] = s[q]
    <3>1. q \in 1..Len(u) /\ u[q] = s[q]
      BY <1>2
    <3> QED
      BY <1>3, <3>1 DEF Holds
  <2>2. ASSUME NEW q \in 1..Len(t) PROVE b[(i + Len(s)) + q - 1] = t[q]
    <3>1. /\ Len(s) + q \in 1..Len(u) /\ u[Len(s) + q] = t[q]
          /\ i + (Len(s) + q) - 1 = (i + Len(s)) + q - 1
      BY <1>2
    <3> QED
      BY <1>3, <3>1 DEF Holds
  <2> QED
    BY <2>1, <2>2 DEF Holds
<1> QED
  BY <1>1, <1>2, <1>3

\* A sequence of bytes holds itself.
LEMMA HoldsItself ==
  ASSUME NEW b \in Bytes
  PROVE  Holds(b, 1, b)
<1>1. Len(b) \in Nat
  BY LenProperties DEF Bytes
<1>2. \A q \in 1..Len(b) : 1 + q - 1 = q
  BY <1>1
<1> QED
  BY <1>2 DEF Holds

\* A piece of b that holds x is x.
LEMMA Piece ==
  ASSUME NEW x \in Bytes, NEW b, NEW i \in Nat, Holds(b, i, x)
  PROVE  SubSeq(b, i, i + Len(x) - 1) = x
<1>1. PICK n : n = Len(x) /\ n \in Nat
  BY LenProperties DEF Bytes
<1>2. ASSUME NEW p \in i..i + n - 1 PROVE b[p] \in 0..255 /\ b[p] = x[p - i + 1]
  <2>1. p - i + 1 \in 1..n /\ i + (p - i + 1) - 1 = p
    BY <1>1
  <2>2. b[p] = x[p - i + 1]
    BY <1>1, <2>1 DEF Holds
  <2> QED
    BY <1>1, <2>1, <2>2, ElementOfSeq DEF Bytes
<1>3. PICK y : y = SubSeq(b, i, i + n - 1)
  OBVIOUS
<1>4. i + n - 1 \in Int
  BY <1>1
<1>5. /\ y \in Seq(0..255)
      /\ Len(y) = IF i <= i + n - 1 THEN (i + n - 1) - i + 1 ELSE 0
      /\ \A q \in 1..(i + n - 1) - i + 1 : y[q] = b[i + q - 1]
  BY <1>2, <1>3, <1>4, SubSeqProperties
<1>6. Len(y) = n
  BY <1>1, <1>5
<1>7. \A q \in 1..n : y[q] = x[q]
  <2>1. (i + n - 1) - i + 1 = n
    BY <1>1
  <2> QED
    BY <1>1, <1>5, <2>1 DEF Holds
<1>8. y = x
  BY <1>1, <1>5, <1>6, <1>7, SeqEqual DEF Bytes
<1> QED
  BY <1>1, <1>3, <1>8

-----------------------------------------------------------------------------
\* Keys and data are bytes, and their sizes are read as they were written.
LEMMA KeyTypes ==
  ASSUME NEW k \in Key
  PROVE  /\ k \in Bytes /\ Len(k) \in Short /\ Len(k) \in Nat /\ Len(k) > 0
         /\ k # AllKeys
<1>1. k \in Seq(1..255) /\ Len(k) > 0 /\ Len(k) <= USHRT_MAX /\ k # AllKeys
  BY WireAssumption
<1>2. 1..255 \subseteq 0..255
  OBVIOUS
<1>3. k \in Bytes
  BY <1>1, <1>2, SeqMonotonic DEF Bytes
<1>4. Len(k) \in Short /\ Len(k) \in Nat /\ Len(k) > 0
  BY <1>1, <1>3, LenProperties DEF Short, Bytes
<1> QED
  BY <1>1, <1>3, <1>4

\* The same of data that some key has in the table.
LEMMA DataTypes ==
  ASSUME NEW k \in Key, NEW v \in Val
  PROVE  /\ v \in Bytes /\ Len(v) \in IntRange /\ Len(v) \in Nat /\ Len(v) > 0
         /\ 10 + Len(k) + Len(v) <= INT_MAX
<1>1. v \in Bytes /\ Len(v) > 0
  BY WireAssumption DEF Bytes
<1>2. 10 + Len(k) + Len(v) <= INT_MAX
  BY MessagesFit, Zenon
<1>3. Len(v) \in Nat /\ Len(k) \in Nat
  BY <1>1, KeyTypes, LenProperties DEF Bytes
<1>4. Len(v) \in IntRange
  BY <1>2, <1>3, SMT DEF IntRange, INT_MAX
<1> QED
  BY <1>1, <1>2, <1>3, <1>4

\* A key is read from where it was put.
LEMMA KeyIsAt ==
  ASSUME NEW k \in Bytes, Len(k) \in Short
  PROVE  /\ KeyBytes(k) \in Bytes /\ Len(KeyBytes(k)) = 2 + Len(k)
         /\ \A b, i : i \in Nat /\ Holds(b, i, KeyBytes(k)) =>
              N16(b, i) = Len(k) /\ KeyAt(b, i) = k
<1>1. PICK u : u = U16(Len(k))
  OBVIOUS
<1>2. u \in Bytes /\ Len(u) = 2 /\ Len(k) \in Nat
  BY <1>1, ShortBytes, LenProperties DEF Bytes
<1>3. KeyBytes(k) = u \o k
  BY <1>1 DEF KeyBytes
<1>4. u \o k \in Bytes /\ Len(u \o k) = 2 + Len(k)
  BY <1>2, Parts
<1>5. ASSUME NEW b, NEW i \in Nat, Holds(b, i, u \o k)
      PROVE  N16(b, i) = Len(k) /\ KeyAt(b, i) = k
  <2>1. Holds(b, i, u) /\ Holds(b, i + 2, k)
    BY <1>2, <1>5, Parts
  <2>2. N16(b, i) = Len(k)
    BY <1>1, <1>2, <2>1, ShortAt
  <2>3. i + 2 \in Nat /\ (i + 2) + Len(k) - 1 = i + 1 + Len(k)
    BY <1>2
  <2>4. SubSeq(b, i + 2, (i + 2) + Len(k) - 1) = k
    BY <1>2, <2>1, <2>3, Piece
  <2> QED
    BY <2>2, <2>3, <2>4 DEF KeyAt
<1> QED
  BY <1>3, <1>4, <1>5

\* And so is data.
LEMMA DataIsAt ==
  ASSUME NEW v \in Bytes, Len(v) \in IntRange
  PROVE  /\ DataBytes(v) \in Bytes /\ Len(DataBytes(v)) = 4 + Len(v)
         /\ \A b, i : i \in Nat /\ Holds(b, i, DataBytes(v)) => DataAt(b, i) = v
<1>1. PICK u : u = U32(Len(v))
  OBVIOUS
<1>2. u \in Bytes /\ Len(u) = 4 /\ Len(v) \in Nat
  BY <1>1, IntBytes, LenProperties DEF Bytes
<1>3. DataBytes(v) = u \o v
  BY <1>1 DEF DataBytes
<1>4. u \o v \in Bytes /\ Len(u \o v) = 4 + Len(v)
  BY <1>2, Parts
<1>5. ASSUME NEW b, NEW i \in Nat, Holds(b, i, u \o v)
      PROVE  DataAt(b, i) = v
  <2>1. Holds(b, i, u) /\ Holds(b, i + 4, v)
    BY <1>2, <1>5, Parts
  <2>2. N32(b, i) = Len(v)
    BY <1>1, <2>1, IntAt
  <2>3. i + 4 \in Nat /\ (i + 4) + Len(v) - 1 = i + 3 + Len(v)
    BY <1>2
  <2>4. SubSeq(b, i + 4, (i + 4) + Len(v) - 1) = v
    BY <2>1, <2>3, Piece
  <2> QED
    BY <2>2, <2>3, <2>4 DEF DataAt
<1> QED
  BY <1>3, <1>4, <1>5

-----------------------------------------------------------------------------
\* The message b has a code, a type, and its content from the fifth byte on.
Headed(b, op, ty, x) ==
  /\ b \in Bytes /\ Len(b) = 4 + Len(x) /\ Len(x) \in Nat
  /\ N16(b, 1) = op /\ N16(b, 3) = ty /\ Holds(b, 5, x)

\* The opcode and the type of a message are read as they were written.
LEMMA Header ==
  ASSUME NEW b, NEW op \in Short, NEW ty \in Short, NEW x \in Bytes,
         b = U16(op) \o U16(ty) \o x
  PROVE  Headed(b, op, ty, x)
<1>1. PICK u : u = U16(op)
  OBVIOUS
<1>2. PICK w : w = U16(ty)
  OBVIOUS
<1>3. u \in Bytes /\ Len(u) = 2 /\ w \in Bytes /\ Len(w) = 2
  BY <1>1, <1>2, ShortBytes
<1>4. PICK h : h = u \o w
  OBVIOUS
<1>5. b = h \o x
  BY <1>1, <1>2, <1>4
<1>6. h \in Bytes /\ Len(h) = Len(u) + Len(w)
  BY <1>3, <1>4, Parts
<1>7. Len(h) = 4 /\ 1 + Len(u) = 3 /\ 1 + Len(h) = 5
  BY <1>3, <1>6
<1>8. /\ b \in Bytes /\ Len(b) = Len(h) + Len(x) /\ Len(x) \in Nat
      /\ Holds(b, 1, h) /\ Holds(b, 1 + Len(h), x)
  <2>1. b \in Bytes /\ Len(b) = Len(h) + Len(x) /\ Len(x) \in Nat
    BY <1>5, <1>6, Parts
  <2>2. Holds(b, 1, h \o x)
    BY <1>5, <2>1, HoldsItself
  <2> QED
    BY <1>6, <2>1, <2>2, Parts
<1>9. Holds(b, 1, u) /\ Holds(b, 1 + Len(u), w)
  BY <1>3, <1>4, <1>8, Parts
<1>10. N16(b, 1) = op /\ N16(b, 3) = ty
  BY <1>1, <1>2, <1>7, <1>9, ShortAt
<1> QED
  BY <1>7, <1>8, <1>10 DEF Headed

\* The types of messages are different and valid.
LEMMA Types ==
  /\ {CT_RESULT, CT_VALUE, CT_KEY, CT_KEYS, CT_ENTRY} \subseteq Short
  /\ \A ty \in {CT_RESULT, CT_VALUE, CT_KEY, CT_KEYS, CT_ENTRY} : valid(ty)
  /\ CT_RESULT = 10 /\ CT_VALUE = 20 /\ CT_KEY = 30 /\ CT_KEYS = 40 /\ CT_ENTRY = 50
BY SMT DEF Short, USHRT_MAX, CT_RESULT, CT_VALUE, CT_KEY, CT_KEYS, CT_ENTRY, valid

\* A message with a number.
LEMMA ResultMessage ==
  ASSUME NEW op \in Short, NEW n \in IntRange
  PROVE  LET m == message_t(op, CT_RESULT, n) IN
         /\ message_to_buffer(m) \in Bytes /\ Len(message_to_buffer(m)) = 8
         /\ buffer_to_message(message_to_buffer(m)) = m
<1>1. PICK m : m = message_t(op, CT_RESULT, n)
  OBVIOUS
<1>2. PICK b : b = message_to_buffer(m)
  OBVIOUS
<1>3. m.opcode = op /\ m.c_type = CT_RESULT /\ m.content = n
  BY <1>1 DEF message_t
<1>4. b = U16(op) \o U16(CT_RESULT) \o U32(n)
  BY <1>2, <1>3, Types DEF message_to_buffer
<1>5. PICK x : x = U32(n)
  OBVIOUS
<1>6. x \in Bytes /\ Len(x) = 4 /\ CT_RESULT \in Short
  BY <1>5, IntBytes, Types
<1>7. Headed(b, op, CT_RESULT, x)
  BY <1>4, <1>5, <1>6, Header
<1>8. N32(b, 5) = n /\ Len(b) = 8
  BY <1>5, <1>6, <1>7, IntAt DEF Headed
<1>9. buffer_to_message(b) = message_t(op, CT_RESULT, n)
  BY <1>7, <1>8, Types DEF buffer_to_message, Headed
<1> QED
  BY <1>1, <1>2, <1>7, <1>8, <1>9 DEF Headed

\* The key that means all of them is one byte.
LEMMA AllKeysType == AllKeys \in Bytes /\ Len(AllKeys) = 1 /\ Len(AllKeys) \in Short
BY SMT DEF AllKeys, Bytes, Short, USHRT_MAX

\* A message with a key.
LEMMA KeyMessage ==
  ASSUME NEW op \in Short, NEW k \in Bytes, Len(k) \in Short
  PROVE  LET m == message_t(op, CT_KEY, k) IN
         /\ message_to_buffer(m) \in Bytes /\ Len(message_to_buffer(m)) = 6 + Len(k)
         /\ buffer_to_message(message_to_buffer(m)) = m
<1>1. PICK m : m = message_t(op, CT_KEY, k)
  OBVIOUS
<1>2. PICK b : b = message_to_buffer(m)
  OBVIOUS
<1>3. m.opcode = op /\ m.c_type = CT_KEY /\ m.content = k
  BY <1>1 DEF message_t
<1>4. b = U16(op) \o U16(CT_KEY) \o KeyBytes(k)
  BY <1>2, <1>3, Types DEF message_to_buffer
<1>5. PICK x : x = KeyBytes(k)
  OBVIOUS
<1>6. x \in Bytes /\ Len(x) = 2 + Len(k) /\ CT_KEY \in Short /\ Len(k) \in Nat
  BY <1>5, KeyIsAt, LenProperties, Types DEF Bytes
<1>7. Headed(b, op, CT_KEY, x)
  BY <1>4, <1>5, <1>6, Header
<1>8. KeyAt(b, 5) = k /\ Len(b) = 6 + Len(k)
  BY <1>5, <1>6, <1>7, KeyIsAt DEF Headed
<1>9. buffer_to_message(b) = message_t(op, CT_KEY, k)
  BY <1>7, <1>8, Types DEF buffer_to_message, Headed
<1> QED
  BY <1>1, <1>2, <1>7, <1>8, <1>9 DEF Headed

\* A message with data.
LEMMA ValueMessage ==
  ASSUME NEW op \in Short, NEW v \in Bytes, Len(v) \in IntRange
  PROVE  LET m == message_t(op, CT_VALUE, v) IN
         /\ message_to_buffer(m) \in Bytes /\ Len(message_to_buffer(m)) = 8 + Len(v)
         /\ buffer_to_message(message_to_buffer(m)) = m
<1>1. PICK m : m = message_t(op, CT_VALUE, v)
  OBVIOUS
<1>2. PICK b : b = message_to_buffer(m)
  OBVIOUS
<1>3. m.opcode = op /\ m.c_type = CT_VALUE /\ m.content = v
  BY <1>1 DEF message_t
<1>4. b = U16(op) \o U16(CT_VALUE) \o DataBytes(v)
  BY <1>2, <1>3, Types DEF message_to_buffer
<1>5. PICK x : x = DataBytes(v)
  OBVIOUS
<1>6. x \in Bytes /\ Len(x) = 4 + Len(v) /\ CT_VALUE \in Short /\ Len(v) \in Nat
  BY <1>5, DataIsAt, LenProperties, Types DEF Bytes
<1>7. Headed(b, op, CT_VALUE, x)
  BY <1>4, <1>5, <1>6, Header
<1>8. DataAt(b, 5) = v /\ Len(b) = 8 + Len(v)
  BY <1>5, <1>6, <1>7, DataIsAt DEF Headed
<1>9. buffer_to_message(b) = message_t(op, CT_VALUE, v)
  BY <1>7, <1>8, Types DEF buffer_to_message, Headed
<1> QED
  BY <1>1, <1>2, <1>7, <1>8, <1>9 DEF Headed

\* A message with a key and data.
LEMMA EntryMessage ==
  ASSUME NEW op \in Short, NEW k \in Bytes, Len(k) \in Short,
         NEW v \in Bytes, Len(v) \in IntRange
  PROVE  LET m == message_t(op, CT_ENTRY, [key |-> k, value |-> v]) IN
         /\ message_to_buffer(m) \in Bytes
         /\ Len(message_to_buffer(m)) = 10 + Len(k) + Len(v)
         /\ buffer_to_message(message_to_buffer(m)) = m
<1>1. PICK e : e = [key |-> k, value |-> v]
  OBVIOUS
<1>2. PICK m : m = message_t(op, CT_ENTRY, e)
  OBVIOUS
<1>3. PICK b : b = message_to_buffer(m)
  OBVIOUS
<1>4. m.opcode = op /\ m.c_type = CT_ENTRY /\ m.content = e /\ e.key = k /\ e.value = v
  BY <1>1, <1>2 DEF message_t
<1>5. PICK y : y = KeyBytes(k)
  OBVIOUS
<1>6. PICK z : z = DataBytes(v)
  OBVIOUS
<1>7. PICK x : x = y \o z
  OBVIOUS
<1>8. b = U16(op) \o U16(CT_ENTRY) \o x
  <2>1. message_to_buffer(m) =
          U16(m.opcode) \o U16(m.c_type) \o (KeyBytes(m.content.key) \o DataBytes(m.content.value))
    BY <1>4, Types DEF message_to_buffer
  <2>2. KeyBytes(m.content.key) \o DataBytes(m.content.value) = x
    BY <1>4, <1>5, <1>6, <1>7
  <2> QED
    BY <1>3, <1>4, <2>1, <2>2
<1>9. /\ y \in Bytes /\ Len(y) = 2 + Len(k) /\ Len(k) \in Nat
      /\ z \in Bytes /\ Len(z) = 4 + Len(v) /\ Len(v) \in Nat
  BY <1>5, <1>6, KeyIsAt, DataIsAt, LenProperties DEF Bytes
<1>10. x \in Bytes /\ Len(x) = Len(y) + Len(z) /\ CT_ENTRY \in Short
  BY <1>7, <1>9, Parts, Types
<1>11. Headed(b, op, CT_ENTRY, x)
  BY <1>8, <1>10, Header
<1>12. Holds(b, 5, y) /\ Holds(b, 5 + Len(y), z)
  BY <1>7, <1>9, <1>11, Parts DEF Headed
<1>13. 5 + Len(y) = 7 + Len(k) /\ 5 + Len(y) \in Nat
  BY <1>9
<1>14. KeyAt(b, 5) = k /\ N16(b, 5) = Len(k)
  BY <1>5, <1>12, KeyIsAt
<1>15. DataAt(b, 5 + Len(y)) = v
  BY <1>6, <1>12, <1>13, DataIsAt
<1>16. ValueAfterKey(b) = v
  BY <1>13, <1>14, <1>15 DEF ValueAfterKey
<1>17. buffer_to_message(b) = message_t(op, CT_ENTRY, e)
  BY <1>1, <1>11, <1>14, <1>16, Types DEF buffer_to_message, Headed
<1>18. Len(b) = 10 + Len(k) + Len(v)
  BY <1>9, <1>10, <1>11 DEF Headed
<1> QED
  BY <1>1, <1>2, <1>3, <1>11, <1>17, <1>18 DEF Headed

-----------------------------------------------------------------------------
\* F joins the sequences of s one after the other: the function within
\* FlattenSeq.
Joins(F, s) ==
  F = [i \in 1..Len(s) |-> IF i = 1 THEN s[i] ELSE F[i - 1] \o s[i]]

\* How many bytes come before the i-th sequence.
Before(F, i) == IF i = 1 THEN 0 ELSE Len(F[i - 1])

\* There is one.
LEMMA JoinExists ==
  ASSUME NEW s, Len(s) \in Nat
  PROVE  \E F : Joins(F, s)
<1> DEFINE P(n) == \E F : F = [i \in 1..n |-> IF i = 1 THEN s[i] ELSE F[i - 1] \o s[i]]
           S == {n \in Nat : P(n)}
<1>1. P(0)
  <2>1. \A F : [i \in 1..0 |-> IF i = 1 THEN s[i] ELSE F[i - 1] \o s[i]] = <<>>
    OBVIOUS
  <2> QED
    BY <2>1
<1>2. ASSUME NEW n \in Nat, P(n) PROVE P(n + 1)
  <2>1. PICK F : F = [i \in 1..n |-> IF i = 1 THEN s[i] ELSE F[i - 1] \o s[i]]
    BY <1>2
  <2>2. PICK G : G = [i \in 1..n + 1 |-> IF i = 1 THEN s[i] ELSE F[i - 1] \o s[i]]
    OBVIOUS
  <2>3. ASSUME NEW i \in 1..n + 1, i # 1 PROVE G[i - 1] = F[i - 1]
    <3>1. i - 1 \in 1..n /\ i - 1 \in 1..n + 1
      BY <2>3
    <3>2. F[i - 1] = IF i - 1 = 1 THEN s[i - 1] ELSE F[(i - 1) - 1] \o s[i - 1]
      BY <2>1, <3>1
    <3>3. G[i - 1] = IF i - 1 = 1 THEN s[i - 1] ELSE F[(i - 1) - 1] \o s[i - 1]
      BY <2>2, <3>1
    <3> QED
      BY <3>2, <3>3
  <2>4. \A i \in 1..n + 1 : (IF i = 1 THEN s[i] ELSE F[i - 1] \o s[i])
                             = (IF i = 1 THEN s[i] ELSE G[i - 1] \o s[i])
    BY <2>3
  <2>5. G = [i \in 1..n + 1 |-> IF i = 1 THEN s[i] ELSE G[i - 1] \o s[i]]
    BY <2>2, <2>4
  <2> QED
    BY <2>5
<1> HIDE DEF P
<1>3. 0 \in S /\ \A n \in Nat : n \in S => n + 1 \in S
  BY <1>1, <1>2
<1>4. Nat \subseteq S
  BY ONLY <1>3, Induction
<1>5. P(Len(s))
  BY <1>4
<1> QED
  BY <1>5 DEF P, Joins

\* FlattenSeq is its last value.
LEMMA Flattened ==
  ASSUME NEW s, Len(s) \in Nat, Len(s) # 0
  PROVE  \E F : Joins(F, s) /\ FlattenSeq(s) = F[Len(s)]
<1> DEFINE F == CHOOSE F : Joins(F, s)
<1>1. Joins(F, s)
  BY JoinExists
<1>2. F = CHOOSE G : G = [i \in 1..Len(s) |-> IF i = 1 THEN s[i] ELSE G[i - 1] \o s[i]]
  BY DEF Joins
<1> HIDE DEF F
<1>3. FlattenSeq(s) = F[Len(s)]
  BY <1>2 DEF FlattenSeq
<1> QED
  BY <1>1, <1>3

\* Every value is the one before, and then one sequence more; it grows with each.
LEMMA Joined ==
  ASSUME NEW s \in Seq(Bytes), \A i \in 1..Len(s) : Len(s[i]) > 0, NEW F, Joins(F, s)
  PROVE  \A i \in 1..Len(s) :
           /\ s[i] \in Bytes
           /\ F[i] \in Bytes /\ Len(F[i]) \in Nat /\ Len(F[i]) >= i
           /\ F[i] = IF i = 1 THEN s[i] ELSE F[i - 1] \o s[i]
           /\ Before(F, i) \in Nat /\ Len(F[i]) = Before(F, i) + Len(s[i])
<1>1. PICK n : n = Len(s) /\ n \in Nat
  BY LenProperties
<1>2. \A i \in 1..n : F[i] = IF i = 1 THEN s[i] ELSE F[i - 1] \o s[i]
  BY <1>1 DEF Joins
<1>3. \A i \in 1..n : s[i] \in Bytes /\ Len(s[i]) \in Nat
  BY <1>1, ElementOfSeq, LenProperties DEF Bytes
<1> DEFINE P(i) == i \in 1..n => F[i] \in Bytes /\ Len(F[i]) \in Nat /\ Len(F[i]) >= i
           S == {i \in Nat : P(i)}
<1>4. P(0)
  OBVIOUS
<1>5. ASSUME NEW i \in Nat, P(i), i + 1 \in 1..n PROVE P(i + 1)
  <2>1. s[i + 1] \in Bytes /\ Len(s[i + 1]) \in Nat /\ Len(s[i + 1]) > 0
    BY <1>1, <1>3, <1>5
  <2>2. CASE i = 0
    <3>1. i + 1 = 1 /\ F[i + 1] = s[i + 1]
      BY <1>2, <1>5, <2>2
    <3> QED
      BY <2>1, <3>1
  <2>3. CASE i # 0
    <3>1. i \in 1..n /\ i + 1 # 1 /\ (i + 1) - 1 = i
      BY <1>1, <1>5, <2>3
    <3>2. F[i + 1] = F[i] \o s[i + 1]
      BY <1>2, <1>5, <3>1
    <3>3. F[i] \in Bytes /\ Len(F[i]) \in Nat /\ Len(F[i]) >= i
      BY <1>5, <3>1
    <3>4. F[i + 1] \in Bytes /\ Len(F[i + 1]) = Len(F[i]) + Len(s[i + 1])
      BY <2>1, <3>2, <3>3, Parts
    <3>5. PICK a \in Nat, c \in Nat : a = Len(F[i]) /\ c = Len(s[i + 1])
      BY <2>1, <3>3
    <3>6. a >= i /\ c > 0 /\ Len(F[i + 1]) = a + c
      BY <2>1, <3>3, <3>4, <3>5
    <3>7. a + c \in Nat /\ a + c >= i + 1
      BY <3>6
    <3> QED
      BY <3>4, <3>6, <3>7
  <2> QED
    BY <2>2, <2>3
<1>6. \A i \in Nat : P(i) => P(i + 1)
  BY <1>5
<1> HIDE DEF P
<1>7. 0 \in S /\ \A i \in Nat : i \in S => i + 1 \in S
  BY <1>4, <1>6
<1>8. Nat \subseteq S
  BY ONLY <1>7, Induction
<1>9. \A i \in 1..n : P(i)
  BY <1>1, <1>8
<1>10. \A i \in 1..n : F[i] \in Bytes /\ Len(F[i]) \in Nat /\ Len(F[i]) >= i
  BY <1>9 DEF P
<1>11. ASSUME NEW i \in 1..n
       PROVE  Before(F, i) \in Nat /\ Len(F[i]) = Before(F, i) + Len(s[i])
  <2>1. CASE i = 1
    BY <1>2, <1>3, <2>1 DEF Before
  <2>2. CASE i # 1
    <3>1. i - 1 \in 1..n
      BY <1>1, <2>2
    <3>2. F[i - 1] \in Bytes /\ s[i] \in Bytes /\ F[i] = F[i - 1] \o s[i]
      BY <1>2, <1>3, <1>10, <2>2, <3>1
    <3>3. Len(F[i]) = Len(F[i - 1]) + Len(s[i]) /\ Len(F[i - 1]) \in Nat
      BY <3>2, Parts
    <3> QED
      BY <2>2, <3>3 DEF Before
  <2> QED
    BY <2>1, <2>2
<1> QED
  BY <1>1, <1>2, <1>3, <1>10, <1>11

\* Where the last value is, so is every one, followed by the next sequence.
LEMMA JoinParts ==
  ASSUME NEW s \in Seq(Bytes), Len(s) # 0, \A i \in 1..Len(s) : Len(s[i]) > 0,
         NEW F, Joins(F, s), NEW b, NEW p \in Nat, Holds(b, p, F[Len(s)])
  PROVE  \A i \in 1..Len(s) :
           Holds(b, p + Before(F, i), s[i])
<1>1. PICK n : n = Len(s) /\ n \in Nat /\ n # 0
  BY LenProperties
<1>2. \A i \in 1..n : /\ s[i] \in Bytes /\ F[i] \in Bytes
                      /\ F[i] = IF i = 1 THEN s[i] ELSE F[i - 1] \o s[i]
  BY <1>1, Joined
<1>3. ASSUME NEW i \in 1..n, i # 1, Holds(b, p, F[i])
      PROVE  Holds(b, p, F[i - 1]) /\ Holds(b, p + Len(F[i - 1]), s[i])
  <2>1. i - 1 \in 1..n
    BY <1>1, <1>3
  <2>2. F[i - 1] \in Bytes /\ s[i] \in Bytes /\ Holds(b, p, F[i - 1] \o s[i])
    BY <1>2, <1>3, <2>1
  <2> QED
    BY <2>2, Parts
<1> DEFINE P(d) == d < n => Holds(b, p, F[n - d])
           S == {d \in Nat : P(d)}
<1>4. P(0)
  BY <1>1
<1>5. ASSUME NEW d \in Nat, P(d), d + 1 < n PROVE P(d + 1)
  <2>1. n - d \in 1..n /\ n - d # 1 /\ (n - d) - 1 = n - (d + 1) /\ d < n
    BY <1>1, <1>5
  <2> QED
    BY <1>3, <1>5, <2>1
<1>6. \A d \in Nat : P(d) => P(d + 1)
  BY <1>5
<1> HIDE DEF P
<1>7. 0 \in S /\ \A d \in Nat : d \in S => d + 1 \in S
  BY <1>4, <1>6
<1>8. Nat \subseteq S
  BY ONLY <1>7, Induction
<1>9. ASSUME NEW i \in 1..n PROVE Holds(b, p, F[i])
  <2>1. n - i \in Nat /\ n - i < n /\ n - (n - i) = i
    BY <1>1, <1>9
  <2>2. P(n - i)
    BY <1>8, <2>1
  <2> QED
    BY <2>1, <2>2 DEF P
<1>10. ASSUME NEW i \in 1..n
       PROVE  Holds(b, p + Before(F, i), s[i])
  <2>1. CASE i = 1
    <3>1. p + Before(F, i) = p /\ F[i] = s[i]
      BY <1>2, <2>1 DEF Before
    <3> QED
      BY <1>9, <3>1
  <2>2. CASE i # 1
    BY <1>3, <1>9, <2>2 DEF Before
  <2> QED
    BY <2>1, <2>2
<1> QED
  BY <1>1, <1>10

-----------------------------------------------------------------------------
\* The positions that the loop over n keys goes through: the function within
\* KeysFrom.
Walks(G, b, n) ==
  G = [i \in 1..n |-> IF i = 1 THEN 9 ELSE G[i - 1] + 2 + N16(b, G[i - 1])]

\* There are such positions.
LEMMA WalkExists ==
  ASSUME NEW b, NEW n \in Nat
  PROVE  \E G : Walks(G, b, n)
<1> DEFINE P(m) == \E G : Walks(G, b, m)
           S == {m \in Nat : P(m)}
<1>1. P(0)
  <2>1. \A G : [i \in 1..0 |-> IF i = 1 THEN 9 ELSE G[i - 1] + 2 + N16(b, G[i - 1])] = <<>>
    OBVIOUS
  <2> QED
    BY <2>1 DEF Walks
<1>2. ASSUME NEW m \in Nat, P(m) PROVE P(m + 1)
  <2> DEFINE next(x) == x + 2 + N16(b, x)
  <2>1. PICK F : F = [i \in 1..m |-> IF i = 1 THEN 9 ELSE next(F[i - 1])]
    BY <1>2 DEF Walks
  <2>2. PICK G : G = [i \in 1..m + 1 |-> IF i = 1 THEN 9 ELSE next(F[i - 1])]
    OBVIOUS
  <2> HIDE DEF next
  <2>3. ASSUME NEW i \in 1..m + 1, i # 1 PROVE G[i - 1] = F[i - 1]
    <3>1. i - 1 \in 1..m /\ i - 1 \in 1..m + 1
      BY <2>3
    <3>2. F[i - 1] = IF i - 1 = 1 THEN 9 ELSE next(F[(i - 1) - 1])
      BY <2>1, <3>1
    <3>3. G[i - 1] = IF i - 1 = 1 THEN 9 ELSE next(F[(i - 1) - 1])
      BY <2>2, <3>1
    <3> QED
      BY <3>2, <3>3
  <2>4. \A i \in 1..m + 1 : (IF i = 1 THEN 9 ELSE next(F[i - 1]))
                             = (IF i = 1 THEN 9 ELSE next(G[i - 1]))
    BY <2>3
  <2>5. G = [i \in 1..m + 1 |-> IF i = 1 THEN 9 ELSE next(G[i - 1])]
    BY <2>2, <2>4
  <2> QED
    BY <2>5 DEF Walks, next
<1> HIDE DEF P
<1>3. 0 \in S /\ \A m \in Nat : m \in S => m + 1 \in S
  BY <1>1, <1>2
<1>4. Nat \subseteq S
  BY ONLY <1>3, Induction
<1>5. P(n)
  BY <1>4
<1> QED
  BY <1>5 DEF P

\* KeysFrom reads the keys from them.
LEMMA KeysWalked ==
  ASSUME NEW b, NEW n \in Nat
  PROVE  \E G : Walks(G, b, n) /\ KeysFrom(b, n) = [i \in 1..n |-> KeyAt(b, G[i])]
<1> DEFINE G == CHOOSE G : Walks(G, b, n)
<1>1. Walks(G, b, n)
  BY WalkExists
<1>2. G = CHOOSE F : F = [i \in 1..n |-> IF i = 1 THEN 9 ELSE F[i - 1] + 2 + N16(b, F[i - 1])]
  BY DEF Walks
<1> HIDE DEF G
<1>3. KeysFrom(b, n) = [i \in 1..n |-> KeyAt(b, G[i])]
  BY <1>2 DEF KeysFrom
<1> QED
  BY <1>1, <1>3

\* The keys of a list are read from where they were put.
LEMMA KeysRead ==
  ASSUME NEW ks \in Seq(Key), Len(ks) # 0,
         NEW s \in Seq(Bytes), Len(s) = Len(ks),
         \A i \in 1..Len(ks) : s[i] = KeyBytes(ks[i]),
         NEW F, Joins(F, s), NEW b, Holds(b, 9, F[Len(s)])
  PROVE  KeysFrom(b, Len(ks)) = ks
<1>1. PICK n : n = Len(ks) /\ n \in Nat /\ n # 0
  BY LenProperties
<1>2. \A i \in 1..n : ks[i] \in Key
  BY <1>1, ElementOfSeq
<1>3. ASSUME NEW i \in 1..n
      PROVE  /\ ks[i] \in Bytes /\ Len(ks[i]) \in Short /\ Len(ks[i]) \in Nat
             /\ Len(s[i]) = 2 + Len(ks[i]) /\ Len(s[i]) > 0
  <2>1. PICK k \in Key : k = ks[i]
    BY <1>2
  <2>2. s[i] = KeyBytes(k)
    BY <1>1, <2>1
  <2>3. k \in Bytes /\ Len(k) \in Short /\ Len(k) \in Nat
    BY KeyTypes
  <2>4. Len(KeyBytes(k)) = 2 + Len(k)
    BY <2>3, KeyIsAt
  <2> QED
    BY <2>1, <2>2, <2>3, <2>4
<1>4. \A i \in 1..Len(s) : Len(s[i]) > 0
  BY <1>1, <1>3
<1>5. \A i \in 1..n : Before(F, i) \in Nat /\ Len(F[i]) = Before(F, i) + Len(s[i])
  BY <1>1, <1>4, Joined
<1>6. \A i \in 1..n : Holds(b, 9 + Before(F, i), KeyBytes(ks[i]))
  <2>1. \A i \in 1..n : Holds(b, 9 + Before(F, i), s[i])
    BY <1>1, <1>4, JoinParts
  <2> QED
    BY <1>1, <2>1
<1>7. ASSUME NEW i \in 1..n
      PROVE  /\ N16(b, 9 + Before(F, i)) = Len(ks[i])
             /\ KeyAt(b, 9 + Before(F, i)) = ks[i]
  <2>1. 9 + Before(F, i) \in Nat
    BY <1>5
  <2> QED
    BY <1>3, <1>6, <2>1, KeyIsAt
<1>8. PICK G : Walks(G, b, n) /\ KeysFrom(b, n) = [i \in 1..n |-> KeyAt(b, G[i])]
  BY <1>1, KeysWalked
<1>9. \A i \in 1..n : G[i] = IF i = 1 THEN 9 ELSE G[i - 1] + 2 + N16(b, G[i - 1])
  BY <1>8 DEF Walks
<1> DEFINE P(i) == i \in 1..n => G[i] = 9 + Before(F, i)
           S == {i \in Nat : P(i)}
<1>10. P(0)
  OBVIOUS
<1>11. ASSUME NEW i \in Nat, P(i), i + 1 \in 1..n PROVE P(i + 1)
  <2>1. CASE i = 0
    <3>1. G[i + 1] = 9 /\ Before(F, i + 1) = 0
      BY <1>9, <1>11, <2>1 DEF Before
    <3> QED
      BY <3>1
  <2>2. CASE i # 0
    <3>1. i \in 1..n /\ i + 1 # 1 /\ (i + 1) - 1 = i
      BY <1>1, <1>11, <2>2
    <3>2. PICK p \in Nat, l \in Nat : p = Before(F, i) /\ l = Len(ks[i])
      BY <1>3, <1>5, <3>1
    <3>3. G[i] = 9 + p
      BY <1>11, <3>1, <3>2
    <3>4. N16(b, G[i]) = l
      BY <1>7, <3>1, <3>2, <3>3
    <3>5. G[i + 1] = G[i] + 2 + N16(b, G[i])
      BY <1>9, <1>11, <3>1
    <3>6. Before(F, i + 1) = Len(F[i])
      BY <3>1 DEF Before
    <3>7. Len(F[i]) = p + (2 + l)
      BY <1>3, <1>5, <3>1, <3>2
    <3>8. G[i + 1] = (9 + p) + 2 + l
      BY <3>3, <3>4, <3>5
    <3>9. (9 + p) + 2 + l = 9 + (p + (2 + l))
      OBVIOUS
    <3> QED
      BY <3>6, <3>7, <3>8, <3>9
  <2> QED
    BY <2>1, <2>2
<1>12. \A i \in Nat : P(i) => P(i + 1)
  BY <1>11
<1> HIDE DEF P
<1>13. 0 \in S /\ \A i \in Nat : i \in S => i + 1 \in S
  BY <1>10, <1>12
<1>14. Nat \subseteq S
  BY ONLY <1>13, Induction
<1>15. \A i \in 1..n : P(i)
  BY <1>1, <1>14
<1>16. \A i \in 1..n : KeyAt(b, G[i]) = ks[i]
  BY <1>7, <1>15 DEF P
<1>17. ks = [i \in 1..n |-> ks[i]]
  BY <1>1, LenProperties
<1> QED
  BY <1>1, <1>8, <1>16, <1>17

\* The list of the keys of the table has each of them.
LEMMA SeqOfSet ==
  ASSUME NEW S, IsFiniteSet(S)
  PROVE  /\ SetToSeq(S) \in Seq(S) /\ Len(SetToSeq(S)) = Cardinality(S)
         /\ Cardinality(S) \in Nat
         /\ ToSet(SetToSeq(S)) = S
<1>1. PICK n : n = Cardinality(S) /\ n \in Nat /\ ExistsBijection(1..n, S)
  BY FS_CardinalityType
<1>2. \E f \in [1..n -> S] : IsInjective(f)
  BY <1>1 DEF ExistsBijection, Bijection, Injection
<1>3. PICK f : f = SetToSeq(S)
  OBVIOUS
<1>4. f \in [1..n -> S] /\ IsInjective(f)
  BY <1>1, <1>2, <1>3 DEF SetToSeq
<1>5. f \in Seq(S) /\ Len(f) = n
  BY <1>1, <1>4
<1>6. f \in Injection(1..n, S)
  BY <1>4 DEF Injection
<1>7. Cardinality(1..n) = n
  BY <1>1, FS_Interval
<1>8. f \in Surjection(1..n, S)
  BY <1>1, <1>6, <1>7, FS_Injection
<1>9. ToSet(f) = S
  BY <1>4, <1>8 DEF ToSet, Surjection
<1> QED
  BY <1>1, <1>3, <1>5, <1>9

\* A message with a list of keys.
LEMMA KeysMessage ==
  ASSUME NEW S \in SUBSET Key, S # {}
  PROVE  LET m == message_t(Opcode["KEYS"] + 1, CT_KEYS, SetToSeq(S)) IN
         /\ message_to_buffer(m) \in Bytes /\ Len(message_to_buffer(m)) > 0
         /\ Len(message_to_buffer(m)) <= INT_MAX
         /\ buffer_to_message(message_to_buffer(m)) = m
         /\ Cardinality(S) \in IntRange /\ ToSet(SetToSeq(S)) = S
<1>1. PICK op : op = Opcode["KEYS"] + 1
  OBVIOUS
<1>2. PICK ks : ks = SetToSeq(S)
  OBVIOUS
<1>3. PICK m : m = message_t(op, CT_KEYS, ks)
  OBVIOUS
<1>4. PICK b : b = message_to_buffer(m)
  OBVIOUS
<1>5. op \in Short /\ CT_KEYS \in Short
  BY <1>1, Types, SMT DEF Opcode, Short, USHRT_MAX
<1>6. IsFiniteSet(S)
  BY KeyValAssumption, FS_Subset
<1>7. PICK n : n = Cardinality(S) /\ n \in Nat /\ n # 0
  BY <1>6, FS_CardinalityType, FS_EmptySet
<1>8. ks \in Seq(S) /\ Len(ks) = n /\ ToSet(ks) = S
  BY <1>2, <1>6, <1>7, SeqOfSet
<1>9. ks \in Seq(Key) /\ DOMAIN ks = 1..n
  BY <1>8, SeqMonotonic, LenProperties
<1>10. PICK s : s = [i \in 1..n |-> KeyBytes(ks[i])]
  OBVIOUS
<1>11. \A i \in 1..n : KeyBytes(ks[i]) \in Bytes /\ Len(KeyBytes(ks[i])) > 0
  <2>1. ASSUME NEW k \in Key PROVE KeyBytes(k) \in Bytes /\ Len(KeyBytes(k)) > 0
    <3>1. k \in Bytes /\ Len(k) \in Short /\ Len(k) \in Nat
      BY KeyTypes
    <3>2. KeyBytes(k) \in Bytes /\ Len(KeyBytes(k)) = 2 + Len(k)
      BY <3>1, KeyIsAt
    <3> QED
      BY <3>1, <3>2
  <2>2. \A i \in 1..n : ks[i] \in Key
    BY <1>8, <1>9, ElementOfSeq
  <2> QED
    BY <2>1, <2>2
<1>12. s \in Seq(Bytes) /\ Len(s) = n
  BY <1>7, <1>10, <1>11
<1>13. PICK F : Joins(F, s) /\ FlattenSeq(s) = F[n]
  BY <1>7, <1>12, Flattened
<1>14. \A i \in 1..Len(s) : Len(s[i]) > 0
  BY <1>10, <1>11, <1>12
<1>15. PICK f : f = F[n]
  OBVIOUS
<1>16. f \in Bytes /\ Len(f) \in Nat /\ Len(f) >= n
  <2>1. n \in 1..Len(s)
    BY <1>7, <1>12
  <2> QED
    BY <1>12, <1>13, <1>14, <1>15, <2>1, Joined
<1>17. PICK u : u = U32(n)
  OBVIOUS
<1>18. u \in Bytes /\ Len(u) = 4
  BY <1>7, <1>17, IntDigits
<1>19. PICK x : x = u \o f
  OBVIOUS
<1>20. x \in Bytes /\ Len(x) = Len(u) + Len(f)
  BY <1>16, <1>18, <1>19, Parts
<1>21. b = U16(op) \o U16(CT_KEYS) \o x
  <2>1. m.opcode = op /\ m.c_type = CT_KEYS /\ m.content = ks
    BY <1>3 DEF message_t
  <2>2. message_to_buffer(m) =
          U16(m.opcode) \o U16(m.c_type) \o
            (U32(Len(m.content)) \o
               FlattenSeq([i \in DOMAIN m.content |-> KeyBytes(m.content[i])]))
    BY <2>1, Types DEF message_to_buffer
  <2>3. FlattenSeq([i \in DOMAIN ks |-> KeyBytes(ks[i])]) = f
    BY <1>9, <1>10, <1>13, <1>15
  <2> QED
    BY <1>4, <1>8, <1>17, <1>19, <2>1, <2>2, <2>3
<1>22. Headed(b, op, CT_KEYS, x)
  BY <1>5, <1>20, <1>21, Header
<1>23. Len(b) = 4 + (4 + Len(f))
  BY <1>18, <1>20, <1>22 DEF Headed
<1>24. Len(b) <= INT_MAX
  BY <1>1, <1>2, <1>3, <1>4, MessagesFit, Zenon
<1>25. n \in IntRange /\ Len(b) > 0
  <2>1. n <= Len(b) /\ Len(b) \in Nat /\ Len(b) > 0
    BY <1>7, <1>16, <1>23
  <2> QED
    BY <1>7, <1>24, <2>1, SMT DEF IntRange, INT_MAX
<1>26. Holds(b, 5, u) /\ Holds(b, 9, f)
  <2>1. Holds(b, 5, u) /\ Holds(b, 5 + Len(u), f)
    BY <1>16, <1>18, <1>19, <1>22, Parts DEF Headed
  <2>2. 5 + Len(u) = 9
    BY <1>18
  <2> QED
    BY <2>1, <2>2
<1>27. N32(b, 5) = n
  BY <1>17, <1>25, <1>26, IntAt
<1>28. KeysFrom(b, n) = ks
  <2>1. \A i \in 1..Len(ks) : s[i] = KeyBytes(ks[i])
    BY <1>8, <1>10
  <2>2. Holds(b, 9, F[Len(s)])
    BY <1>12, <1>15, <1>26
  <2> QED
    BY <1>7, <1>8, <1>9, <1>12, <1>13, <2>1, <2>2, KeysRead
<1>29. buffer_to_message(b) = message_t(op, CT_KEYS, ks)
  BY <1>22, <1>27, <1>28, Types DEF buffer_to_message, Headed
<1>30. b \in Bytes
  BY <1>22 DEF Headed
<1> QED
  BY <1>1, <1>2, <1>3, <1>4, <1>7, <1>8, <1>24, <1>25, <1>29, <1>30

-----------------------------------------------------------------------------
\* A message whose bytes are taken for it: the size that is sent before it is
\* an int above 0.
Arrives(x) ==
  /\ message_to_buffer(x) \in Bytes
  /\ Len(message_to_buffer(x)) \in IntRange /\ Len(message_to_buffer(x)) > 0
  /\ buffer_to_message(message_to_buffer(x)) = x

\* A size within the limits of an int.
LEMMA SizeFits ==
  ASSUME NEW n \in Int, n > 0, n <= INT_MAX
  PROVE  n \in IntRange
BY SMT DEF IntRange, INT_MAX

\* Small sizes are.
LEMMA SmallSizes ==
  /\ 0 \in IntRange /\ 1 \in IntRange /\ 2 \in IntRange /\ 7 \in IntRange /\ 8 \in IntRange
  /\ -1 \in IntRange /\ -10 \in IntRange /\ -100 \in IntRange
  /\ \A n \in Short : 6 + n \in IntRange
BY SMT DEF IntRange, INT_MAX, Short, USHRT_MAX

\* The codes of the operations, and of their replies, fit in a short.
LEMMA Opcodes ==
  /\ Opcode["SIZE"] = 10 /\ Opcode["DEL"] = 20 /\ Opcode["UPDATE"] = 30
  /\ Opcode["GET"] = 40 /\ Opcode["KEYS"] = 40 /\ Opcode["PUT"] = 50
  /\ Opcode["STATUS"] = 102 /\ OC_RT_ERROR = 99
  /\ \A n \in 0..110 : n \in Short
BY SMT DEF Opcode, OC_RT_ERROR, Short, USHRT_MAX

\* Every message with a number arrives, ...
LEMMA ResultArrives ==
  ASSUME NEW op \in Short, NEW n \in IntRange
  PROVE  Arrives(message_t(op, CT_RESULT, n))
<1>1. PICK b : b = message_to_buffer(message_t(op, CT_RESULT, n))
  OBVIOUS
<1>2. b \in Bytes /\ Len(b) = 8 /\ buffer_to_message(b) = message_t(op, CT_RESULT, n)
  BY <1>1, ResultMessage
<1> QED
  BY <1>1, <1>2, SmallSizes DEF Arrives

\* ... with a key, ...
LEMMA KeyArrives ==
  ASSUME NEW op \in Short, NEW k \in Bytes, Len(k) \in Short
  PROVE  Arrives(message_t(op, CT_KEY, k))
<1>1. Len(k) \in Nat /\ 6 + Len(k) > 0 /\ 6 + Len(k) \in IntRange
  BY LenProperties, SmallSizes DEF Bytes
<1>2. PICK b : b = message_to_buffer(message_t(op, CT_KEY, k))
  OBVIOUS
<1>3. /\ b \in Bytes /\ Len(b) = 6 + Len(k)
      /\ buffer_to_message(b) = message_t(op, CT_KEY, k)
  BY <1>2, KeyMessage
<1> QED
  BY <1>1, <1>2, <1>3 DEF Arrives

\* ... with data of the table, ...
LEMMA ValueArrives ==
  ASSUME NEW op \in Short, NEW k \in Key, NEW v \in Val
  PROVE  Arrives(message_t(op, CT_VALUE, v))
<1>1. /\ v \in Bytes /\ Len(v) \in IntRange /\ Len(v) \in Nat
      /\ Len(k) \in Nat /\ Len(k) > 0 /\ 10 + Len(k) + Len(v) <= INT_MAX
  BY DataTypes, KeyTypes
<1>2. INT_MAX \in Int
  BY SMT DEF INT_MAX
<1>3. 8 + Len(v) \in Int /\ 8 + Len(v) > 0 /\ 8 + Len(v) <= INT_MAX
  BY <1>1, <1>2
<1>4. 8 + Len(v) \in IntRange
  BY <1>3, SizeFits
<1>5. PICK b : b = message_to_buffer(message_t(op, CT_VALUE, v))
  OBVIOUS
<1>6. /\ b \in Bytes /\ Len(b) = 8 + Len(v)
      /\ buffer_to_message(b) = message_t(op, CT_VALUE, v)
  BY <1>1, <1>5, ValueMessage
<1> QED
  BY <1>3, <1>4, <1>5, <1>6 DEF Arrives

\* ... and with a key and data of the table.
LEMMA EntryArrives ==
  ASSUME NEW op \in Short, NEW k \in Key, NEW v \in Val
  PROVE  Arrives(message_t(op, CT_ENTRY, [key |-> k, value |-> v]))
<1>1. /\ v \in Bytes /\ Len(v) \in IntRange /\ Len(v) \in Nat
      /\ k \in Bytes /\ Len(k) \in Short
      /\ Len(k) \in Nat /\ 10 + Len(k) + Len(v) <= INT_MAX
  BY DataTypes, KeyTypes
<1>2. 10 + Len(k) + Len(v) \in Int /\ 10 + Len(k) + Len(v) > 0
  BY <1>1
<1>3. 10 + Len(k) + Len(v) \in IntRange
  BY <1>1, <1>2, SizeFits
<1>4. PICK x : x = message_t(op, CT_ENTRY, [key |-> k, value |-> v])
  OBVIOUS
<1>5. PICK b : b = message_to_buffer(x)
  OBVIOUS
<1>6. b \in Bytes /\ Len(b) = 10 + Len(k) + Len(v) /\ buffer_to_message(b) = x
  BY <1>1, <1>4, <1>5, EntryMessage
<1> QED
  BY <1>2, <1>3, <1>4, <1>5, <1>6 DEF Arrives

\* So does every list of keys of the table.
LEMMA KeysArrive ==
  ASSUME NEW S \in SUBSET Key, S # {}
  PROVE  Arrives(message_t(Opcode["KEYS"] + 1, CT_KEYS, SetToSeq(S)))
<1>1. PICK x : x = message_t(Opcode["KEYS"] + 1, CT_KEYS, SetToSeq(S))
  OBVIOUS
<1>2. PICK b : b = message_to_buffer(x)
  OBVIOUS
<1>3. b \in Bytes /\ Len(b) > 0 /\ Len(b) <= INT_MAX /\ buffer_to_message(b) = x
  BY <1>1, <1>2, KeysMessage
<1>4. Len(b) \in Int
  BY <1>3, LenProperties DEF Bytes
<1>5. Len(b) \in IntRange
  BY <1>3, <1>4, SizeFits
<1> QED
  BY <1>1, <1>2, <1>3, <1>5 DEF Arrives

-----------------------------------------------------------------------------
\* What a client asks is what the server takes its message for.
LEMMA RequestArrives ==
  \A m \in ClientRequest :
    /\ Arrives(RequestMessage(m)) /\ RequestMessage(m) # NullMessage
    /\ Requested(RequestMessage(m)) = m
<1> SUFFICES ASSUME NEW m \in ClientRequest
             PROVE  /\ Arrives(RequestMessage(m)) /\ RequestMessage(m) # NullMessage
                    /\ Requested(RequestMessage(m)) = m
  OBVIOUS
<1>1. \A op, ty, x : message_t(op, ty, x) = [opcode |-> op, c_type |-> ty, content |-> x]
  BY DEF message_t
<1>2. \A op \in 1..110 : \A ty, x : message_t(op, ty, x) # NullMessage
  BY <1>1 DEF NullMessage
<1>3. CASE m.op \in {"PUT", "UPDATE"}
  <2>1. /\ m.key \in Key /\ m.val \in Val /\ m = Msg(m.op, m.key, m.val)
    BY <1>3 DEF ClientRequest, Request, Plain, Msg, Writes
  <2>2. PICK k \in Key, v \in Val : k = m.key /\ v = m.val
    BY <2>1
  <2>3. PICK op \in {30, 50} : op = Opcode[m.op]
    BY <1>3, Opcodes
  <2>4. PICK x : x = message_t(op, CT_ENTRY, [key |-> k, value |-> v])
    OBVIOUS
  <2>5. RequestMessage(m) = x
    BY <1>3, <2>2, <2>3, <2>4 DEF RequestMessage
  <2>6. Arrives(x) /\ x # NullMessage
    <3>1. op \in Short /\ op \in 1..110
      BY Opcodes
    <3> QED
      BY <1>2, <2>4, <3>1, EntryArrives
  <2>7. x.opcode = op /\ x.content.key = k /\ x.content.value = v
    BY <2>4 DEF message_t
  <2>8. Requested(x) = m
    <3>1. CASE m.op = "PUT"
      <4>1. op = 50
        BY <2>3, <3>1, Opcodes
      <4> QED
        BY <2>1, <2>2, <2>7, <3>1, <4>1 DEF Requested
    <3>2. CASE m.op = "UPDATE"
      <4>1. op = 30
        BY <2>3, <3>2, Opcodes
      <4> QED
        BY <2>1, <2>2, <2>7, <3>2, <4>1 DEF Requested
    <3> QED
      BY <1>3, <3>1, <3>2
  <2> QED
    BY <2>5, <2>6, <2>8
<1>4. CASE m.op \in {"GET", "DEL"}
  <2>1. m.key \in Key /\ m.val = NoVal /\ m = Msg(m.op, m.key, NoVal)
    BY <1>4 DEF ClientRequest, Request, Plain, Msg, Writes
  <2>2. PICK k \in Key : k = m.key
    BY <2>1
  <2>3. PICK op \in {20, 40} : op = Opcode[m.op]
    BY <1>4, Opcodes
  <2>4. PICK x : x = message_t(op, CT_KEY, k)
    OBVIOUS
  <2>5. RequestMessage(m) = x
    BY <1>4, <2>2, <2>3, <2>4 DEF RequestMessage
  <2>6. Arrives(x) /\ x # NullMessage /\ k # AllKeys
    <3>1. op \in Short /\ op \in 1..110
      BY Opcodes
    <3>2. k \in Bytes /\ Len(k) \in Short /\ k # AllKeys
      BY KeyTypes
    <3> QED
      BY <1>2, <2>4, <3>1, <3>2, KeyArrives
  <2>7. x.opcode = op /\ x.content = k
    BY <2>4 DEF message_t
  <2>8. Requested(x) = m
    <3>1. CASE m.op = "GET"
      <4>1. op = 40
        BY <2>3, <3>1, Opcodes
      <4> QED
        BY <2>1, <2>2, <2>6, <2>7, <3>1, <4>1 DEF Requested
    <3>2. CASE m.op = "DEL"
      <4>1. op = 20
        BY <2>3, <3>2, Opcodes
      <4> QED
        BY <2>1, <2>2, <2>7, <3>2, <4>1 DEF Requested
    <3> QED
      BY <1>4, <3>1, <3>2
  <2> QED
    BY <2>5, <2>6, <2>8
<1>5. CASE m.op \notin {"PUT", "UPDATE", "GET", "DEL"}
  <2>1. m.op \in {"KEYS", "SIZE", "STATUS"} /\ m = Plain(m.op)
    BY <1>5 DEF ClientRequest, Request, Plain, Msg, Writes
  <2>2. 10 \in Short /\ 40 \in Short /\ 102 \in Short
    BY Opcodes
  <2>3. CASE m.op = "KEYS"
    <3>1. PICK x : x = message_t(40, CT_KEY, AllKeys)
      OBVIOUS
    <3>2. RequestMessage(m) = x
      BY <2>3, <3>1, Opcodes DEF RequestMessage
    <3>3. Arrives(x) /\ x # NullMessage
      <4>1. Arrives(x)
        BY <2>2, <3>1, AllKeysType, KeyArrives
      <4>2. 40 \in 1..110
        OBVIOUS
      <4> QED
        BY <1>2, <3>1, <4>1, <4>2
    <3>4. Requested(x) = m
      BY <2>1, <2>3, <3>1 DEF Requested, message_t
    <3> QED
      BY <3>2, <3>3, <3>4
  <2>4. CASE m.op = "SIZE"
    <3>1. PICK x : x = message_t(10, CT_RESULT, 0)
      OBVIOUS
    <3>2. RequestMessage(m) = x
      BY <2>4, <3>1, Opcodes DEF RequestMessage
    <3>3. Arrives(x) /\ x # NullMessage
      <4>1. 0 \in IntRange
        BY SmallSizes
      <4> QED
        BY <1>2, <2>2, <3>1, <4>1, ResultArrives
    <3>4. Requested(x) = m
      BY <2>1, <2>4, <3>1 DEF Requested, message_t
    <3> QED
      BY <3>2, <3>3, <3>4
  <2>5. CASE m.op = "STATUS"
    <3>0. PICK n : n = -100
      OBVIOUS
    <3>1. PICK x : x = message_t(102, CT_RESULT, n)
      OBVIOUS
    <3>2. RequestMessage(m) = x
      BY <2>5, <3>0, <3>1, Opcodes DEF RequestMessage
    <3>3. Arrives(x) /\ x # NullMessage
      <4>1. n \in IntRange
        BY <3>0, SmallSizes
      <4> QED
        BY <1>2, <2>2, <3>1, <4>1, ResultArrives
    <3>4. Requested(x) = m
      BY <2>1, <2>5, <3>1 DEF Requested, message_t
    <3> QED
      BY <3>2, <3>3, <3>4
  <2> QED
    BY <2>1, <2>3, <2>4, <2>5
<1> QED
  BY <1>3, <1>4, <1>5

\* The replies that invoke() gives, and the status.
LEMMA Replies ==
  ASSUME NEW m \in ClientRequest, NEW t \in Table, m.op # "STATUS"
  PROVE  \/ Answer(m, t) = ErrorReply
         \/ \E n \in IntRange : Answer(m, t) = Result(n)
         \/ \E k \in Key, v \in Val : Answer(m, t) = ValueOf(v)
         \/ m.op = "KEYS" /\ \E S \in SUBSET Key : S # {} /\ Answer(m, t) = KeyList(S)
<1>1. m.op \in {"PUT", "UPDATE", "DEL", "GET", "KEYS", "SIZE"}
  BY DEF ClientRequest, Request, Plain, Msg, Writes
<1>2. m.op \in {"PUT", "UPDATE", "DEL", "GET"} => m.key \in Key /\ t[m.key] \in Val \cup {NoVal}
  BY DEF ClientRequest, Request, Plain, Msg, Writes, Table
<1>3. PICK S : S = KeysOf(t)
  OBVIOUS
<1>4. S \in SUBSET Key
  BY <1>3 DEF KeysOf
<1>5. Cardinality(S) \in IntRange
  <2>1. CASE S = {}
    BY <2>1, FS_EmptySet, SmallSizes
  <2>2. CASE S # {}
    BY <1>4, <2>2, KeysMessage
  <2> QED
    BY <2>1, <2>2
<1>6. CASE m.op = "PUT"
  <2>1. PICK n : n = IF t[m.key] = NoVal THEN 0 ELSE -10
    OBVIOUS
  <2>2. n \in IntRange
    BY <2>1, SmallSizes
  <2>3. Answer(m, t) = Result(n)
    BY <1>6, <2>1 DEF Answer
  <2> QED
    BY <2>2, <2>3
<1>7. CASE m.op \in {"UPDATE", "DEL"}
  <2>1. Answer(m, t) = ErrorReply \/ Answer(m, t) = Result(0)
    BY <1>7 DEF Answer
  <2> QED
    BY <2>1, SmallSizes
<1>8. CASE m.op = "GET"
  <2>1. Answer(m, t) = IF t[m.key] = NoVal THEN ErrorReply ELSE ValueOf(t[m.key])
    BY <1>8 DEF Answer
  <2> QED
    BY <1>2, <1>8, <2>1
<1>9. CASE m.op = "KEYS"
  <2>1. Answer(m, t) = IF S = {} THEN Result(0) ELSE KeyList(S)
    BY <1>3, <1>9 DEF Answer
  <2> QED
    BY <1>4, <1>9, <2>1, SmallSizes
<1>10. CASE m.op = "SIZE"
  <2>1. Answer(m, t) = Result(Cardinality(S))
    BY <1>3, <1>10 DEF Answer
  <2> QED
    BY <1>5, <2>1
<1> QED
  BY <1>1, <1>6, <1>7, <1>8, <1>9, <1>10

\* The reply r can be given to m: its message arrives, and is taken for it.
Returns(m, r) ==
  /\ r \in Reply /\ r # NoReply
  /\ Arrives(ReplyMessage(m, r)) /\ Returned(ReplyMessage(m, r)) = r

\* The code of a reply, and of STATUS, which is not counted up.
LEMMA ReplyOpcodes ==
  ASSUME NEW m \in ClientRequest
  PROVE  /\ Opcode[m.op] + 1 \in Short /\ Opcode[m.op] \in Short
         /\ Opcode[m.op] # OC_RT_ERROR /\ Opcode[m.op] + 1 # OC_RT_ERROR
<1>1. m.op \in {"PUT", "UPDATE", "DEL", "GET", "KEYS", "SIZE", "STATUS"}
  BY DEF ClientRequest, Request, Plain, Msg, Writes
<1>2. Opcode[m.op] \in {10, 20, 30, 40, 50, 102}
  BY <1>1, Opcodes
<1>3. \A n \in {10, 20, 30, 40, 50, 102} :
        n \in 0..110 /\ n + 1 \in 0..110 /\ n # 99 /\ n + 1 # 99
  OBVIOUS
<1> QED
  BY <1>2, <1>3, Opcodes

\* A number is returned to any request.
LEMMA ResultReturns ==
  ASSUME NEW m \in ClientRequest, NEW n \in IntRange
  PROVE  Returns(m, Result(n))
<1>1. PICK op : op = Opcode[m.op] + (IF m.op = "STATUS" THEN 0 ELSE 1)
  OBVIOUS
<1>2. op \in Short /\ op # OC_RT_ERROR
  <2>1. CASE m.op = "STATUS"
    <3>1. op = 102
      BY <1>1, <2>1, Opcodes
    <3> QED
      BY <3>1, Opcodes
  <2>2. CASE m.op # "STATUS"
    BY <1>1, <2>2, ReplyOpcodes
  <2> QED
    BY <2>1, <2>2
<1>3. PICK r : r = Result(n)
  OBVIOUS
<1>4. r.type = "RESULT" /\ r.result = n
  BY <1>3 DEF Result
<1>5. n \in Int
  BY DEF IntRange
<1>6. r \in Reply /\ r # NoReply
  <2>1. NoReply.type = "NONE"
    BY DEF NoReply
  <2> QED
    BY <1>3, <1>4, <1>5, <2>1, ConstantMessages
<1>7. PICK x : x = message_t(op, CT_RESULT, n)
  OBVIOUS
<1>8. ReplyMessage(m, r) = x
  BY <1>1, <1>4, <1>7 DEF ReplyMessage
<1>9. x.opcode = op /\ x.c_type = CT_RESULT /\ x.content = n
  BY <1>7 DEF message_t
<1>10. Returned(x) = r
  BY <1>2, <1>3, <1>9, Types DEF Returned
<1>11. Arrives(x)
  BY <1>2, <1>7, ResultArrives
<1> QED
  BY <1>3, <1>6, <1>8, <1>10, <1>11 DEF Returns

\* So is an error.
LEMMA ErrorReturns ==
  ASSUME NEW m \in ClientRequest
  PROVE  Returns(m, ErrorReply)
<1>1. PICK r : r = ErrorReply
  OBVIOUS
<1>2. PICK n : n = -1
  OBVIOUS
<1>3. r.type = "ERROR" /\ r.result = n
  BY <1>1, <1>2 DEF ErrorReply
<1>4. r \in Reply /\ r # NoReply
  <2>1. NoReply.type = "NONE"
    BY DEF NoReply
  <2> QED
    BY <1>1, <1>3, <2>1, ConstantMessages
<1>5. PICK x : x = message_t(OC_RT_ERROR, CT_RESULT, n)
  OBVIOUS
<1>6. ReplyMessage(m, r) = x
  BY <1>3, <1>5 DEF ReplyMessage
<1>7. x.opcode = OC_RT_ERROR /\ x.c_type = CT_RESULT
  BY <1>5 DEF message_t
<1>8. Returned(x) = r
  BY <1>1, <1>7, Types DEF Returned
<1>9. Arrives(x)
  <2>1. n \in IntRange /\ OC_RT_ERROR \in Short
    BY <1>2, SmallSizes, Opcodes
  <2> QED
    BY <1>5, <2>1, ResultArrives
<1> QED
  BY <1>1, <1>4, <1>6, <1>8, <1>9 DEF Returns

\* So is a value of the table, ...
LEMMA ValueReturns ==
  ASSUME NEW m \in ClientRequest, NEW k \in Key, NEW v \in Val
  PROVE  Returns(m, ValueOf(v))
<1>1. PICK r : r = ValueOf(v)
  OBVIOUS
<1>2. r.type = "VALUE" /\ r.val = v
  BY <1>1 DEF ValueOf
<1>3. r \in Reply /\ r # NoReply
  <2>1. NoReply.type = "NONE"
    BY DEF NoReply
  <2> QED
    BY <1>1, <1>2, <2>1, ConstantMessages
<1>4. PICK op : op = Opcode[m.op] + 1
  OBVIOUS
<1>5. op \in Short /\ op # OC_RT_ERROR
  BY <1>4, ReplyOpcodes
<1>6. PICK x : x = message_t(op, CT_VALUE, v)
  OBVIOUS
<1>7. ReplyMessage(m, r) = x
  BY <1>2, <1>4, <1>6 DEF ReplyMessage
<1>8. x.opcode = op /\ x.c_type = CT_VALUE /\ x.content = v
  BY <1>6 DEF message_t
<1>9. Returned(x) = r
  BY <1>1, <1>5, <1>8, Types DEF Returned
<1>10. Arrives(x)
  BY <1>5, <1>6, ValueArrives
<1> QED
  BY <1>1, <1>3, <1>7, <1>9, <1>10 DEF Returns

\* ... and a list of its keys.
LEMMA KeysReturn ==
  ASSUME NEW m \in ClientRequest, m.op = "KEYS", NEW S \in SUBSET Key, S # {}
  PROVE  Returns(m, KeyList(S))
<1>1. PICK r : r = KeyList(S)
  OBVIOUS
<1>2. r.type = "KEYS" /\ r.keys = S
  BY <1>1 DEF KeyList
<1>3. r \in Reply /\ r # NoReply
  <2>1. NoReply.type = "NONE"
    BY DEF NoReply
  <2> QED
    BY <1>1, <1>2, <2>1, ConstantMessages
<1>4. PICK op : op = Opcode["KEYS"] + 1
  OBVIOUS
<1>5. op # OC_RT_ERROR
  BY <1>4, Opcodes
<1>6. PICK x : x = message_t(op, CT_KEYS, SetToSeq(S))
  OBVIOUS
<1>7. ReplyMessage(m, r) = x
  BY <1>2, <1>4, <1>6 DEF ReplyMessage
<1>8. x.opcode = op /\ x.c_type = CT_KEYS /\ x.content = SetToSeq(S)
  BY <1>6 DEF message_t
<1>9. ToSet(SetToSeq(S)) = S
  BY KeysMessage
<1>10. Returned(x) = r
  BY <1>1, <1>5, <1>8, <1>9, Types DEF Returned
<1>11. Arrives(x)
  BY <1>4, <1>6, KeysArrive
<1> QED
  BY <1>1, <1>3, <1>7, <1>10, <1>11 DEF Returns

\* Every reply of invoke() is returned as what it was.
LEMMA AnswerReturns ==
  ASSUME NEW m \in ClientRequest, NEW t \in Table, m.op # "STATUS"
  PROVE  Returns(m, Answer(m, t))
<1>1. CASE Answer(m, t) = ErrorReply
  BY <1>1, ErrorReturns
<1>2. CASE \E n \in IntRange : Answer(m, t) = Result(n)
  BY <1>2, ResultReturns
<1>3. CASE \E k \in Key, v \in Val : Answer(m, t) = ValueOf(v)
  BY <1>3, ValueReturns
<1>4. CASE m.op = "KEYS" /\ \E S \in SUBSET Key : S # {} /\ Answer(m, t) = KeyList(S)
  BY <1>4, KeysReturn
<1> QED
  BY <1>1, <1>2, <1>3, <1>4, Replies

-----------------------------------------------------------------------------
\* What invoke() takes the message of a client for is what the client asked,
\* for every request (client_stub.c, message.c, table_skel.c).
THEOREM RequestRoundTrip ==
  \A m \in ClientRequest :
    Requested(buffer_to_message(message_to_buffer(RequestMessage(m)))) = m
BY RequestArrives DEF Arrives

\* What the stub returns is what invoke() answered, for every request and every
\* table, a list of keys of any length among them.
THEOREM ReplyRoundTrip ==
  \A m \in ClientRequest, t \in Table :
    m.op # "STATUS" =>
      Returned(buffer_to_message(message_to_buffer(ReplyMessage(m, Answer(m, t)))))
        = Answer(m, t)
BY AnswerReturns DEF Returns, Arrives
=============================================================================
