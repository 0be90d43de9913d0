------------------------- MODULE PrimaryBackupClaims -------------------------
(***************************************************************************)
(* What comments of the source say of the replicated program, and what the *)
(* code does not do.  Each is refuted by a run of its own.                 *)
(***************************************************************************)
EXTENDS PrimaryBackup

\* table-server.c:489 - a secundary is promoted when the primary is down.
PromotedOnlyIfPeerDown ==
  [][\A s, t \in Server : s # t /\ status[s] = SECUNDARY /\ status'[s] = PRIMARY
       => t \notin listening]_vars

\* table-server.c:453 - the file "secundary" only ever holds the address of
\* the primary.
FileNamesPrimary == file # "stranger"

\* table-server.c:453 - with that address the secundary gets the state of the
\* table: when OC_UP has been answered and the primary is between two
\* requests, the tables are the same.
TransferIsComplete ==
  [][\A s, t \in Server :
       s # t /\ pc[s] = "up" /\ pc'[s] = "loop" /\ Answered(chan[s]) /\ pc[t] = "loop"
         => table[s] = table[t]]_vars

\* primary_backup.c:20 - update_state returns, with 0 or with -1.
UpdateStateReturns ==
  \A s \in Server : pc[s] \in {"keys", "get"} ~> pc[s] \notin {"keys", "get"}

\* primary_backup.c:20 - a failed update_state returns -1, it does not end the
\* process.
FailedTransferReturns ==
  [][\A s \in Server : pc[s] \in {"keys", "get"} /\ pc'[s] = "down"
       => crashes' > crashes]_vars
=============================================================================
