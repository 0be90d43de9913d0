------------------------------- MODULE KVStore -------------------------------
(***************************************************************************)
(* What a table-server promises of its table: one map from keys to values, *)
(* and to each request the answer of TableSkel.                            *)
(***************************************************************************)
EXTENDS TableSkel

VARIABLES table,   \* the map
          reply    \* the answer to the last request

\* The requests that read or write the table, as a client builds them.
TableRequest ==
       {Msg(op, k, v) : op \in {"PUT", "UPDATE"}, k \in Key, v \in Val}
  \cup {Msg(op, k, NoVal) : op \in {"DEL", "GET"}, k \in Key}
  \cup {Plain("KEYS"), Plain("SIZE")}

Init == table = EmptyTable /\ reply = NoReply

Next == \E m \in TableRequest : /\ table' = Apply(m, table)
                                /\ reply' = Answer(m, table)

Spec == Init /\ [][Next]_<<table, reply>>
=============================================================================
