--------------------------- MODULE TableSkelProofs ---------------------------
(***************************************************************************)
(* What invoke() returns, and what it keeps.                               *)
(***************************************************************************)
EXTENDS TableSkel, FiniteSetTheorems, TLAPS

\* The constant messages are messages.
LEMMA ConstantMessages ==
  /\ NoReq \in Request
  /\ \A op \in {"KEYS", "SIZE", "STATUS", "UP", "NONE"} : Plain(op) \in Request
  /\ NoReply \in Reply /\ ErrorReply \in Reply /\ GarbageReply \in Reply
  /\ \A n \in Int : Result(n) \in Reply
  /\ \A v \in Val \cup {NoVal} : ValueOf(v) \in Reply
  /\ \A ks \in SUBSET Key : KeyList(ks) \in Reply
BY DEF NoReq, Plain, Request, Reply, NoReply, ErrorReply, GarbageReply, Result,
       ValueOf, KeyList, Msg

\* invoke() keeps the table a table.
LEMMA ApplyType ==
  ASSUME NEW m \in Request, NEW t \in Table
  PROVE  Apply(m, t) \in Table
BY DEF Apply, Table, Request, Plain, Msg

\* Every reply that invoke() builds is a reply.
LEMMA AnswerType ==
  ASSUME NEW m \in Request, NEW t \in Table
  PROVE  Answer(m, t) \in Reply
<1>1. Cardinality(KeysOf(t)) \in Int
  <2>1. IsFiniteSet(KeysOf(t))
    BY KeyValAssumption, FS_Subset DEF KeysOf
  <2>2. Cardinality(KeysOf(t)) \in Nat
    BY <2>1, FS_CardinalityType
  <2> QED
    BY <2>2
<1>2. KeysOf(t) \in SUBSET Key
  BY DEF KeysOf
<1>3. m.op \in {"UPDATE", "DEL", "GET", "PUT"} => t[m.key] \in Val \cup {NoVal}
  BY DEF Request, Table, Plain, Msg, Writes
<1> QED
  BY <1>1, <1>2, <1>3, ConstantMessages DEF Answer
=============================================================================
