------------------------------ MODULE HashTable ------------------------------
(***************************************************************************)
(* The table of table.c, an array of lists and a counter of entries, as    *)
(* invoke() of table_skel.c calls it: one action per request.              *)
(***************************************************************************)
EXTENDS SortedList

CONSTANTS N,        \* n_lists
          Hash(_)   \* key_hash(key, n_lists)

ASSUME HashAssumption ==
  /\ N \in Nat \ {0}
  /\ \A k \in Key : Hash(k) \in 0..N - 1

VARIABLES buckets,   \* table->buckets
          quantity,  \* table->quantity_entry
          reply      \* the message that invoke() returned

vars == <<buckets, quantity, reply>>

table_get(k) == list_get(buckets[Hash(k)], k)

table_get_keys == UNION {list_get_keys(buckets[b]) : b \in 0..N - 1}

Init ==
  /\ buckets = [b \in 0..N - 1 |-> list_create]
  /\ quantity = 0
  /\ reply = NoReply

PutWithoutCheck(k, v) ==
  /\ buckets' = [buckets EXCEPT ![Hash(k)] = list_add(@, [key |-> k, val |-> v])]
  /\ quantity' = quantity + 1
  /\ reply' = Result(0)

Put(k, v) ==
  \/ /\ table_get(k) # NoVal
     /\ reply' = Result(-10)
     /\ UNCHANGED <<buckets, quantity>>
  \/ /\ table_get(k) = NoVal
     /\ buckets' = [buckets EXCEPT ![Hash(k)] = list_add(@, [key |-> k, val |-> v])]
     /\ quantity' = quantity + 1
     /\ reply' = Result(0)

Update(k, v) ==
  IF HasKey(buckets[Hash(k)], k)
  THEN /\ buckets' = [buckets EXCEPT ![Hash(k)] = list_set(@, k, v)]
       /\ reply' = Result(0)
       /\ UNCHANGED quantity
  ELSE reply' = ErrorReply /\ UNCHANGED <<buckets, quantity>>

Del(k) ==
  IF HasKey(buckets[Hash(k)], k)
  THEN /\ buckets' = [buckets EXCEPT ![Hash(k)] = list_remove(@, k)]
       /\ quantity' = quantity - 1
       /\ reply' = Result(0)
  ELSE reply' = ErrorReply /\ UNCHANGED <<buckets, quantity>>

Get(k) ==
  /\ reply' = IF table_get(k) = NoVal THEN ErrorReply ELSE ValueOf(table_get(k))
  /\ UNCHANGED <<buckets, quantity>>

GetKeys ==
  /\ reply' = IF quantity = 0 THEN Result(0) ELSE KeyList(table_get_keys)
  /\ UNCHANGED <<buckets, quantity>>

Size == reply' = Result(quantity) /\ UNCHANGED <<buckets, quantity>>

Next == \/ \E k \in Key, v \in Val : Put(k, v) \/ Update(k, v)
        \/ \E k \in Key : Del(k) \/ Get(k)
        \/ GetKeys \/ Size

Spec == Init /\ [][Next]_vars

-----------------------------------------------------------------------------
\* The contents of the table.
Contents == [k \in Key |-> table_get(k)]

\* The list of a bucket is in strictly descending order of its keys and holds
\* only keys of the bucket, so that a search for a key looks in the right one.
BucketsSorted ==
  \A b \in 0..N - 1 :
    /\ Sorted(buckets[b])
    /\ \A i \in 1..Len(buckets[b].node) : Hash(buckets[b].node[i].key) = b

\* The counters that size the arrays of keys are exact: list->size is the
\* number of nodes and table->quantity_entry the number of keys.
CountsExact ==
  /\ \A b \in 0..N - 1 : buckets[b].size = Len(buckets[b].node)
  /\ quantity = Cardinality(KeysOf(Contents))

TypeOK ==
  /\ buckets \in [0..N - 1 -> List]
  /\ quantity \in Int
  /\ reply \in Reply

\* The table does what KVStore promises: every request changes the contents
\* and is answered as TableServer assumes.
KV == INSTANCE KVStore WITH table <- Contents
ImplementsKVStore == KV!Spec
=============================================================================
