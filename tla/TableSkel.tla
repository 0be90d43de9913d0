------------------------------ MODULE TableSkel ------------------------------
(***************************************************************************)
(* The messages of message.h and the dispatcher invoke() of table_skel.c.  *)
(* A table is its contents, a function from keys to values; buckets and    *)
(* lists are left to the modules of list.c and table.c.  malloc and strdup *)
(* are assumed to succeed.                                                 *)
(***************************************************************************)
EXTENDS Integers, FiniteSets

CONSTANTS Key,     \* the keys of the table
          Val,     \* the data blocks
          NoKey,   \* the key of a message that carries none
          NoVal    \* "no entry": what table_get answers with NULL

ASSUME KeyValAssumption ==
  /\ IsFiniteSet(Key)
  /\ NoKey \notin Key
  /\ NoVal \notin Val

Writes == {"PUT", "UPDATE", "DEL"}
Reads  == {"GET", "KEYS", "SIZE"}

Reply == [type   : {"RESULT", "ERROR", "VALUE", "KEYS", "GARBAGE", "NONE"},
          result : Int,
          val    : Val \cup {NoVal},
          keys   : SUBSET Key]

Msg(op, k, v) == [op |-> op, key |-> k, val |-> v]
Plain(op) == Msg(op, NoKey, NoVal)

Request == [op : Writes \cup {"GET"}, key : Key, val : Val \cup {NoVal}]
             \cup {Plain(op) : op \in {"KEYS", "SIZE", "STATUS", "UP", "NONE"}}

Result(n) == [type |-> "RESULT", result |-> n, val |-> NoVal, keys |-> {}]
ValueOf(v) == [type |-> "VALUE", result |-> 0, val |-> v, keys |-> {}]
KeyList(ks) == [type |-> "KEYS", result |-> 0, val |-> NoVal, keys |-> ks]

\* build_error_msg
ErrorReply == [type |-> "ERROR", result |-> -1, val |-> NoVal, keys |-> {}]

\* A reply that invoke() allocated and nobody filled in.
GarbageReply == [type |-> "GARBAGE", result |-> 0, val |-> NoVal, keys |-> {}]

NoReq   == Plain("NONE")
NoReply == [type |-> "NONE", result |-> 0, val |-> NoVal, keys |-> {}]

Table == [Key -> Val \cup {NoVal}]
EmptyTable == [k \in Key |-> NoVal]
KeysOf(t) == {k \in Key : t[k] # NoVal}

\* The contents after a request: table_put keeps the value of a key that is
\* already there, table_update and table_del need the key to be there.
Apply(m, t) ==
  CASE m.op = "PUT"    /\ t[m.key] = NoVal -> [t EXCEPT ![m.key] = m.val]
    [] m.op = "UPDATE" /\ t[m.key] # NoVal -> [t EXCEPT ![m.key] = m.val]
    [] m.op = "DEL"                        -> [t EXCEPT ![m.key] = NoVal]
    [] OTHER                               -> t

\* The reply that invoke() builds.  A KEYS request is OC_GET of "!": an empty
\* table answers CT_RESULT 0.  STATUS and UP fall to the default branch.
Answer(m, t) ==
  CASE m.op = "PUT"  -> Result(IF t[m.key] = NoVal THEN 0 ELSE -10)
    [] m.op \in {"UPDATE", "DEL"} ->
                        IF t[m.key] = NoVal THEN ErrorReply ELSE Result(0)
    [] m.op = "GET"  -> IF t[m.key] = NoVal THEN ErrorReply ELSE ValueOf(t[m.key])
    [] m.op = "KEYS" -> IF KeysOf(t) = {} THEN Result(0) ELSE KeyList(KeysOf(t))
    [] m.op = "SIZE" -> Result(Cardinality(KeysOf(t)))
    [] OTHER         -> GarbageReply
=============================================================================
