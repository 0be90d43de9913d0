---------------------------- MODULE PrimaryBackup ----------------------------
(***************************************************************************)
(* The replicated table: the two servers of TableServer and the clients of *)
(* ClientStub over one set of connections, with the history variable that  *)
(* says on which keys the two tables are allowed to differ.                *)
(***************************************************************************)
EXTENDS TableServer, ClientStub

VARIABLE exposed   \* history: keys whose last write the backup was not sent

sockVars == <<conn, listening>>
vars == <<sockVars, serverVars, clientVars, exposed>>

Init ==
  /\ conn = [i \in Conn |-> FreeConn]
  /\ listening = {}
  /\ ServerInit
  /\ ClientInit
  /\ exposed = {}

-----------------------------------------------------------------------------
\* The history variable.

\* The write on i has been answered by s in this step, and s is not, after
\* it, a primary with a backup; or nobody waits for the answer any more.
AnsweredAlone(s, i) ==
  /\ conn[i].to = s /\ conn'[i].req = NoReq /\ conn'[i].acc
  /\ conn[i].req.op \in Writes
  /\ conn[i].from \in Client \/ ~conn[i].cOpen
  /\ ~Replicates(s)'

\* A server that is waiting for its start-up transfer has been sent the keys.
TransferStarts(i) ==
  /\ conn[i].req.op = "KEYS" /\ conn[i].from \in Server /\ conn[i].cOpen
  /\ conn'[i].req = NoReq /\ conn'[i].acc

\* s starts to serve without the contents of the other table.
StartsAlone(s) == pc[s] \in {"boot", "ask"} /\ pc'[s] = "loop"

Exposed ==
  exposed' =
    IF \E s \in Server : StartsAlone(s)
    THEN UNION {KeysOf(table[t]) : t \in Server}
    ELSE IF \E i \in Conn : TransferStarts(i) THEN {}
    ELSE exposed \cup {conn[i].req.key : i \in
                         {j \in Conn : \E s \in Server : AnsweredAlone(s, j)}}

AtServers(A) == A /\ UNCHANGED clientVars /\ Exposed
AtClients(A) == A /\ UNCHANGED <<serverVars, exposed>>

Next == AtServers(ServerNext) \/ AtClients(ClientNext)

Spec == Init /\ [][Next]_vars

\* A process that is not blocked keeps running, and the poll loop gets to
\* every connection that is ready: each round accepts one and serves all.
\* Users, crashes and restarts are under no obligation.
Fairness ==
  /\ \A s \in Server :
       /\ WF_vars(AtServers(Boot(s)))
       /\ WF_vars(AtServers(ForwardDone(s)))
       /\ \A i \in Conn : WF_vars(AtServers(Serve(s, i)))
  /\ WF_vars(AtServers(Thread))
  /\ \A c \in Client : WF_vars(AtClients(ClientStep(c)))

FairSpec == Spec /\ Fairness

-----------------------------------------------------------------------------
TypeOK ==
  /\ SocketsTypeOK
  /\ ServerTypeOK
  /\ ClientTypeOK
  /\ exposed \subseteq Key

\* At most one server forwards writes: a backup that promotes itself marks
\* its peer DOWN, and a primary that comes back joins the one it finds.
NoTwoReplicators == ~(Replicates(S1) /\ Replicates(S2))

\* The link of p leads to q, and both serve requests.
Linked(p, q) ==
  /\ pc[p] = "loop" /\ pc[q] \in {"loop", "repl"}
  /\ Replicates(p)
  /\ link[p] # NoConn
  /\ conn[link[p]].to = q /\ conn[link[p]].sOpen

\* Between two requests of a primary its backup holds what it holds, except
\* for keys that were written while the backup was thought to be down, at
\* the backup itself, or while its start-up transfer was running.
ReplicasAgree ==
  \A p, q \in Server :
    Linked(p, q) => \A k \in Key \ exposed : table[p][k] = table[q][k]

\* A primary that believes in its backup holds a descriptor that is open and
\* its own: network_send_receive() is not called on a closed one.
LiveBackupPointer ==
  \A p \in Server :
    Replicates(p) /\ link[p] # NoConn /\ pc[p] # "repl" =>
      conn[link[p]].from = p /\ conn[link[p]].cOpen

\* S1 copies its table from a primary only: as long as the connection of its
\* start-up transfer lives, the server at the other end is the primary.
TransferFromPrimary ==
  pc[S1] \in {"keys", "get", "up"} /\ conn[chan[S1]].sOpen => status[S2] = PRIMARY

\* Every call of a client comes back, with an answer or without.
CallsReturn == \A c \in Client : cpc[c] = "wait" ~> cpc[c] # "wait"

\* A server that starts gets to its poll loop.
BootsEnd ==
  \A s \in Server : pc[s] \in Booting \cup {"boot"} ~> pc[s] \in {"loop", "down"}

\* A backup notices that the process at the other end of a connection of the
\* other server is gone, and does not stay a backup.
FailureDetected ==
  \A s \in Server :
    status[s] = SECUNDARY
      /\ (\E i \in Conn : conn[i].to = s /\ conn[i].from \in Server
                         /\ conn[i].sOpen /\ ~conn[i].cOpen)
      ~> status[s] # SECUNDARY
=============================================================================
