------------------------ MODULE PrimaryBackupSafety -------------------------
(***************************************************************************)
(* NoTwoReplicators, TransferFromPrimary and LiveBackupPointer hold in     *)
(* every reachable state.  None of them is inductive.  What keeps two      *)
(* servers from forwarding to each other is the OC_UP request: while one   *)
(* is on its way to a server, the other one is not a primary with a backup *)
(* (UpRequests), even if the process that sent it has died since and is    *)
(* asking again (AskOutcome).                                              *)
(***************************************************************************)
EXTENDS PrimaryBackupTypes

Polling(s) == pc[s] \in {"loop", "repl"}

\* An OC_UP request is waiting to be served by s.
PendingUp(s) ==
  \E i \in Conn : conn[i].to = s /\ conn[i].sOpen /\ conn[i].req.op = "UP"

\* The globals follow the program counter.
Modes ==
  /\ \A s \in Server :
       /\ s \in listening <=> pc[s] # "down"
       /\ status[s] # 0 <=> Polling(s)
       /\ status[s] = 0 => state[s] = NONE /\ link[s] = NoConn
       /\ pc[s] = "repl" => Replicates(s)
  /\ pc[S2] # "ask"
  /\ thread # "none" => Polling(S1)

\* The server end of a connection is held by a process, and a reply on it
\* was written by a process that polls.
ServerEnds ==
  \A i \in Conn :
    conn[i].sOpen => /\ conn[i].from # conn[i].to
                     /\ pc[conn[i].to] # "down"
                     /\ conn[i].resp # NoReply => Polling(conn[i].to)

\* A server that starts holds its end of the connection to the other one.
BootConn ==
  \A s \in Server :
    pc[s] \in Booting =>
      /\ conn[chan[s]].from = s /\ conn[chan[s]].to = OtherServer(s)
      /\ conn[chan[s]].cOpen
      /\ conn[chan[s]].req.op \notin Writes
      /\ pc[s] = "ask" => conn[chan[s]].req.op \in {"STATUS", "NONE"}
      /\ pc[s] \in {"get", "up"} /\ conn[chan[s]].sOpen => Polling(OtherServer(s))

\* S1 learns what S2 is, and does not miss a primary that will have a backup.
AskOutcome ==
  pc[S1] = "ask" =>
    /\ conn[chan[S1]].sOpen /\ conn[chan[S1]].resp.result = PRIMARY
         => status[S2] = PRIMARY
    /\ Replicates(S2) \/ PendingUp(S2) =>
         /\ conn[chan[S1]].sOpen
         /\ Answered(chan[S1]) => conn[chan[S1]].resp.result = PRIMARY

UpRequests ==
  \A s \in Server :
    PendingUp(s) => /\ Polling(s)
                    /\ ~Replicates(OtherServer(s))
                    /\ ~PendingUp(OtherServer(s))
                    /\ s = S2 => status[S2] = PRIMARY

\* The descriptors that a server uses after it has opened them are its own.
OwnLinks ==
  /\ \A s \in Server :
       /\ state[s] = UP /\ link[s] # NoConn =>
            conn[link[s]].from = s /\ conn[link[s]].cOpen
       /\ pc[s] = "repl" =>
            /\ conn[chan[s]].from = s /\ conn[chan[s]].cOpen
            /\ conn[serving[s]].to = s /\ conn[serving[s]].sOpen
            /\ pc[OtherServer(s)] \in Booting => serving[s] # chan[OtherServer(s)]
  /\ thread = "assign" /\ tconn # NoConn =>
       /\ conn[tconn].from = S1 /\ conn[tconn].cOpen
       /\ state[S1] = UP => tconn # link[S1]
       /\ pc[S1] = "repl" => tconn # chan[S1]

\* A client holds its end of its connection, and never sends OC_UP.
ClientEnds ==
  \A c \in Client :
    /\ sock[c] # NoConn => conn[sock[c]].from = c /\ conn[sock[c]].cOpen
    /\ creq[c].op # "UP"

Safe ==
  /\ Modes
  /\ ServerEnds
  /\ BootConn
  /\ AskOutcome
  /\ TransferFromPrimary
  /\ UpRequests
  /\ NoTwoReplicators
  /\ OwnLinks
  /\ ClientEnds

SafetyInv == TypeInv /\ Safe

-----------------------------------------------------------------------------
\* The two servers.
LEMMA TwoServers ==
  /\ S1 \in Server /\ S2 \in Server /\ S1 # S2
  /\ OtherServer(S1) = S2 /\ OtherServer(S2) = S1
  /\ \A s \in Server : /\ OtherServer(s) \in Server /\ OtherServer(s) # s
                        /\ OtherServer(OtherServer(s)) = s
  /\ \A s, t \in Server : s # t => t = OtherServer(s)
  /\ \A c \in Client : c \notin Server
BY SocketsAssumption DEF Server, OtherServer

\* What each call does to the connection it is made on.
LEMMA Fields ==
  ASSUME NEW c \in Connection
  PROVE  /\ CutAtClient(c).sOpen = c.sOpen
         /\ ~CutAtClient(c).cOpen
         /\ CutAtServer(c).cOpen = c.cOpen
         /\ ~CutAtServer(c).sOpen
         /\ c.sOpen => /\ CutAtClient(c).from = c.from /\ CutAtClient(c).to = c.to
                       /\ CutAtClient(c).req = c.req
                       /\ CutAtClient(c).resp = NoReply
         /\ c.cOpen => /\ CutAtServer(c).from = c.from /\ CutAtServer(c).to = c.to
                       /\ CutAtServer(c).req = NoReq
                       /\ CutAtServer(c).resp = c.resp
BY DEF CutAtClient, CutAtServer, Tidy, Closed, FreeConn, Connection

-----------------------------------------------------------------------------
\* Steps of the poll loop.

\* What the service of one request may do to a connection: read the request,
\* and write a reply which, to a STATUS request, is the status.
Served(a, b) ==
  /\ b.from = a.from /\ b.to = a.to /\ b.cOpen = a.cOpen /\ b.sOpen = a.sOpen
  /\ b.req = a.req \/ b.req = NoReq
  /\ b.resp = a.resp
       \/ /\ Polling(a.to) /\ a.req.op # "NONE"
          /\ a.cOpen /\ a.req.op = "STATUS" => b.resp.result = status[a.to]

\* A step of the poll loop that opens and closes no connection, may lose a
\* backup and gains none.
LEMMA RequestSafe ==
  ASSUME TypeInv, TypeInv', Safe,
         \A j \in Conn : Served(conn[j], conn'[j]),
         \A t \in Server : \/ state'[t] = state[t]
                           \/ state'[t] = DOWN /\ pc[t] = "loop",
         \A t \in Server : link'[t] \in {link[t], NoConn},
         UNCHANGED <<pc, status, chan, serving, thread, tconn, listening, clientVars>>
  PROVE  Safe'
<1> USE TwoServers DEF Safe, TypeInv, TypeOK, BlockedOK, ServerTypeOK, Served
<1>1. \A t \in Server : PendingUp(t)' => PendingUp(t)
  BY DEF PendingUp, NoReq, Plain, Msg
<1>2. \A t \in Server : Replicates(t)' => Replicates(t)
  BY DEF Replicates, UP, DOWN
<1>4. Modes'
  BY DEF Modes, Polling, Replicates
<1>5. ServerEnds'
  BY DEF ServerEnds, Polling
<1>6. BootConn'
  BY DEF BootConn, Polling, NoReq, Plain, Msg, Writes
<1>7. AskOutcome'
  BY <1>1, <1>2 DEF AskOutcome, Replicates, Answered, Booting, BootConn, UpRequests
<1>8. TransferFromPrimary'
  BY DEF TransferFromPrimary, Booting
<1>9. UpRequests'
  BY <1>1, <1>2 DEF UpRequests, Polling
<1>10. NoTwoReplicators'
  BY <1>2 DEF NoTwoReplicators
<1>11. OwnLinks'
  BY DEF OwnLinks, UP, DOWN
<1>12. ClientEnds'
  BY DEF ClientEnds, clientVars, ClientTypeOK
<1> QED
  BY <1>4, <1>5, <1>6, <1>7, <1>8, <1>9, <1>10, <1>11, <1>12

\* A request that leaves the table alone is answered and keeps the invariant.
LEMMA ReadSafe ==
  ASSUME TypeInv, TypeInv', Safe, NEW s \in Server, NEW i \in Conn,
         Accept(s, i) \/ ServeRead(s, i) \/ ServeUpFailed(s, i),
         UNCHANGED clientVars
  PROVE  Safe'
<1> USE DEF TypeInv, TypeOK, SocketsTypeOK, ServerTypeOK, memory
<1>0. conn[i] \in Connection /\ conn[i].sOpen /\ conn[i].to = s /\ Polling(s)
  BY DEF Accept, ServeRead, ServeUpFailed, Inbound, Polling
<1>1. CASE Accept(s, i)
  <2>1. \A j \in Conn : Served(conn[j], conn'[j])
    BY <1>0, <1>1 DEF Accept, Served, Connection
  <2> QED
    BY <1>1, <2>1, RequestSafe DEF Accept
<1>2. CASE ServeRead(s, i)
  <2>1. \A j \in Conn : Served(conn[j], conn'[j])
    BY <1>0, <1>2 DEF ServeRead, Served, Connection, Replied, Result, Answerable, Reads
  <2> QED
    BY <1>2, <2>1, RequestSafe DEF ServeRead, serverVars
<1>3. CASE ServeUpFailed(s, i)
  <2>1. \A j \in Conn : Served(conn[j], conn'[j])
    BY <1>0, <1>3 DEF ServeUpFailed, Served, Connection, Replied
  <2>2. \A t \in Server : link'[t] \in {link[t], NoConn}
    BY <1>3 DEF ServeUpFailed
  <2> QED
    BY <1>3, <2>1, <2>2, RequestSafe DEF ServeUpFailed
<1> QED
  BY <1>1, <1>2, <1>3

\* The write is answered at once, or forwarded on the server's own link.
LEMMA WriteSafe ==
  ASSUME TypeInv, TypeInv', Safe, NEW s \in Server, NEW i \in Conn, ServeWrite(s, i),
         UNCHANGED clientVars
  PROVE  Safe'
<1> USE DEF TypeInv, TypeOK, SocketsTypeOK, ServerTypeOK
<1> DEFINE r == Answer(conn[i].req, table[s])
<1>0. /\ conn[i] \in Connection /\ conn[i].sOpen /\ conn[i].to = s /\ Polling(s)
      /\ pc[s] = "loop" /\ conn[i].req.op \in Writes
  BY DEF ServeWrite, Inbound, Polling
<1>1. CASE ~(Replicates(s) /\ Forwarded(conn[i].req) /\ link[s] # NoConn)
  <2>1. /\ conn' = Replied(conn, i, r)
        /\ UNCHANGED <<pc, chan, serving, answer>>
        /\ state' = [state EXCEPT ![s] =
                       IF Replicates(s) /\ Forwarded(conn[i].req) THEN DOWN ELSE @]
        /\ UNCHANGED <<status, todo, link, thread, tconn, file, crashes, listening>>
    BY <1>1 DEF ServeWrite
  <2>2. \A j \in Conn : Served(conn[j], conn'[j])
    BY <1>0, <2>1 DEF Served, Connection, Replied, Writes
  <2>3. \A t \in Server : \/ state'[t] = state[t]
                          \/ state'[t] = DOWN /\ pc[t] = "loop"
    BY <1>0, <2>1
  <2> QED
    BY <2>1, <2>2, <2>3, RequestSafe
<1>2. CASE Replicates(s) /\ Forwarded(conn[i].req) /\ link[s] # NoConn
  <2>1. /\ pc' = [pc EXCEPT ![s] = "repl"]
        /\ chan' = [chan EXCEPT ![s] = link[s]]
        /\ serving' = [serving EXCEPT ![s] = i]
        /\ conn' = Sent(conn, link[s], conn[i].req)
        /\ UNCHANGED <<status, state, link, thread, tconn, listening, clientVars>>
    BY <1>2 DEF ServeWrite
  <2>2. /\ link[s] \in Conn /\ conn[link[s]].from = s /\ conn[link[s]].cOpen
    BY <1>2 DEF Replicates, Safe, OwnLinks
  <2>3. \A j \in Conn : /\ conn'[j].from = conn[j].from /\ conn'[j].to = conn[j].to
                        /\ conn'[j].cOpen = conn[j].cOpen /\ conn'[j].sOpen = conn[j].sOpen
                        /\ conn'[j].resp = conn[j].resp
                        /\ conn'[j].req.op = "UP" => conn[j].req.op = "UP"
                        /\ conn[j].from # s => conn'[j].req = conn[j].req
    BY <1>0, <2>1, <2>2 DEF Sent, Connection, NoReq, Plain, Msg, Writes
  <2>4. \A t \in Server : PendingUp(t)' => PendingUp(t)
    BY <2>3 DEF PendingUp
  <2> USE TwoServers DEF Safe, BlockedOK
  <2>5. Modes'
    BY <1>0, <1>2, <2>1 DEF Modes, Polling, Replicates
  <2>6. ServerEnds'
    BY <1>0, <2>1, <2>3 DEF ServerEnds, Polling
  <2>7. BootConn'
    BY <1>0, <2>1, <2>3 DEF BootConn, Polling, Booting
  <2>8. AskOutcome'
    BY <1>0, <2>1, <2>3, <2>4 DEF AskOutcome, Replicates, Answered, Booting
  <2>9. TransferFromPrimary'
    BY <1>0, <2>1, <2>3 DEF TransferFromPrimary, Booting
  <2>10. UpRequests'
    BY <1>0, <2>1, <2>4 DEF UpRequests, Polling, Replicates
  <2>11. NoTwoReplicators'
    BY <2>1 DEF NoTwoReplicators, Replicates
  <2>12. OwnLinks'
    BY <1>0, <1>2, <2>1, <2>2, <2>3 DEF OwnLinks, BootConn, Booting, Replicates
  <2>13. ClientEnds'
    BY <2>1, <2>3 DEF ClientEnds, clientVars, ClientTypeOK
  <2> QED
    BY <2>5, <2>6, <2>7, <2>8, <2>9, <2>10, <2>11, <2>12, <2>13
<1> QED
  BY <1>1, <1>2

\* A served OC_UP makes s a primary with a backup only if the other is not.
LEMMA UpSafe ==
  ASSUME TypeInv, TypeInv', Safe, NEW s \in Server, NEW i \in Conn, ServeUp(s, i),
         UNCHANGED clientVars
  PROVE  Safe'
<1> USE DEF TypeInv, TypeOK, SocketsTypeOK, ServerTypeOK
<1> DEFINE u == conn[i].from
<1>0. /\ conn[i] \in Connection /\ conn[i].sOpen /\ conn[i].to = s /\ Polling(s)
      /\ pc[s] = "loop" /\ conn[i].req.op = "UP" /\ PendingUp(s)
      /\ u \in listening /\ u \in Server /\ u # s
      /\ NewConn \in Conn /\ ~conn[NewConn].sOpen /\ ~conn[NewConn].cOpen
  BY NewConnType DEF ServeUp, Inbound, Polling, PendingUp, Safe, ServerEnds, Closed
<1>1. /\ link' = [link EXCEPT ![s] = NewConn]
      /\ state' = [state EXCEPT ![s] = UP]
      /\ UNCHANGED <<pc, status, chan, serving, thread, tconn, listening, clientVars>>
  BY DEF ServeUp
<1>2. /\ conn'[NewConn] = NewConnection(s, u, NoReq)
      /\ \A j \in Conn : j # NewConn =>
           /\ conn'[j].from = conn[j].from /\ conn'[j].to = conn[j].to
           /\ conn'[j].cOpen = conn[j].cOpen /\ conn'[j].sOpen = conn[j].sOpen
           /\ conn'[j].req \in {conn[j].req, NoReq}
           /\ j # i => conn'[j] = conn[j]
  BY <1>0 DEF ServeUp, Opened, Replied, Connection
<1>3. /\ conn'[NewConn].from = s /\ conn'[NewConn].to = u
      /\ conn'[NewConn].req.op = "NONE" /\ conn'[NewConn].resp = NoReply
      /\ conn'[NewConn].cOpen
  BY <1>2 DEF NewConnection, NoReq, Plain, Msg
<1>4. \A t \in Server : PendingUp(t)' => PendingUp(t)
  BY <1>2, <1>3 DEF PendingUp, NoReq, Plain, Msg
<1>5. \A t \in Server : Replicates(t)' => Replicates(t) \/ t = s
  BY <1>1 DEF Replicates
<1> USE TwoServers DEF Safe, BlockedOK
<1>6. Modes'
  BY <1>0, <1>1 DEF Modes, Polling, Replicates
<1>7. ServerEnds'
  BY <1>0, <1>1, <1>2, <1>3 DEF ServerEnds, Polling, Modes
<1>8. BootConn'
  BY <1>0, <1>1, <1>2 DEF BootConn, Polling, NoReq, Plain, Msg, Writes
<1>9. AskOutcome'
  <2>1. pc[S1] = "ask" => chan[S1] # i /\ chan[S1] # NewConn /\ chan[S1] \in Conn
    BY <1>0 DEF BootConn, Booting
  <2>2. Replicates(S2)' \/ PendingUp(S2)' => Replicates(S2) \/ PendingUp(S2)
    BY <1>0, <1>4, <1>5
  <2> QED
    BY <1>1, <1>2, <2>1, <2>2 DEF AskOutcome, Answered
<1>10. TransferFromPrimary'
  BY <1>0, <1>1, <1>2 DEF TransferFromPrimary, BootConn, Booting
<1>11. UpRequests'
  BY <1>0, <1>1, <1>4, <1>5 DEF UpRequests, Polling
<1>12. NoTwoReplicators'
  BY <1>0, <1>5 DEF NoTwoReplicators, UpRequests
<1>13. OwnLinks'
  BY <1>0, <1>1, <1>2, <1>3 DEF OwnLinks
<1>14. ClientEnds'
  BY <1>0, <1>1, <1>2 DEF ClientEnds, clientVars, ClientTypeOK
<1> QED
  BY <1>6, <1>7, <1>8, <1>9, <1>10, <1>11, <1>12, <1>13, <1>14

\* The server closes a connection whose other end is closed.
LEMMA EofSafe ==
  ASSUME TypeInv, TypeInv', Safe, NEW s \in Server, NEW i \in Conn, HandleEof(s, i),
         UNCHANGED clientVars
  PROVE  Safe'
<1> USE DEF TypeInv, TypeOK, SocketsTypeOK, ServerTypeOK
<1>1. /\ status' = [status EXCEPT ![s] = PromotedStatus(@)]
      /\ state' = [state EXCEPT ![s] = PromotedState(status[s], @)]
      /\ UNCHANGED <<pc, chan, serving, link, thread, tconn, listening, clientVars>>
      /\ conn[i] \in Connection /\ ~conn[i].cOpen /\ conn[i].to = s /\ pc[s] = "loop"
  BY DEF HandleEof, Inbound
<1>2. /\ ~conn'[i].sOpen
      /\ \A j \in Conn : j # i => conn'[j] = conn[j]
  BY <1>1, Fields DEF HandleEof, Dropped
<1>3. /\ \A t \in Server : /\ Replicates(t)' => Replicates(t)
                           /\ t # s => (Replicates(t)' <=> Replicates(t))
      /\ \A t \in Server : state'[t] = UP => state[t] = UP
      /\ \A t \in Server : status[t] = PRIMARY => status'[t] = PRIMARY
      /\ \A t \in Server : status'[t] = 0 <=> status[t] = 0
      /\ \A t \in Server : status[t] = 0 => state'[t] = state[t]
  BY <1>1 DEF PromotedStatus, PromotedState, Replicates, PRIMARY, SECUNDARY, UP, DOWN
<1>4. \A t \in Server : PendingUp(t)' => PendingUp(t)
  BY <1>2 DEF PendingUp
<1> USE TwoServers DEF Safe, BlockedOK
<1>5. Modes'
  <2>1. \A t \in Server : pc[t] = "repl" => Replicates(t)'
    BY <1>1, <1>3 DEF Modes
  <2> QED
    BY <1>1, <1>3, <2>1 DEF Modes, Polling
<1>6. ServerEnds'
  BY <1>1, <1>2 DEF ServerEnds, Polling
<1>7. BootConn'
  BY <1>1, <1>2 DEF BootConn, Polling
<1>8. AskOutcome'
  BY <1>1, <1>2, <1>3, <1>4 DEF AskOutcome, Answered, Booting, BootConn
<1>9. TransferFromPrimary'
  BY <1>1, <1>2, <1>3 DEF TransferFromPrimary, Booting
<1>10. UpRequests'
  BY <1>1, <1>3, <1>4 DEF UpRequests, Polling
<1>11. NoTwoReplicators'
  BY <1>3 DEF NoTwoReplicators
<1>12. OwnLinks'
  <2>1. \A j \in Conn : conn[j].cOpen \/ (conn[j].sOpen /\ conn[j].to # s) => conn'[j] = conn[j]
    BY <1>1, <1>2
  <2>2. ASSUME NEW t \in Server
        PROVE  /\ state'[t] = UP /\ link[t] # NoConn =>
                    conn'[link[t]].from = t /\ conn'[link[t]].cOpen
               /\ pc[t] = "repl" =>
                    /\ conn'[chan[t]].from = t /\ conn'[chan[t]].cOpen
                    /\ conn'[serving[t]].to = t /\ conn'[serving[t]].sOpen
    <3>1. state'[t] = UP /\ link[t] # NoConn =>
            conn'[link[t]].from = t /\ conn'[link[t]].cOpen
      BY <1>3, <2>1 DEF OwnLinks
    <3>2. pc[t] = "repl" => t # s /\ chan[t] \in Conn /\ serving[t] \in Conn
      BY <1>1
    <3> QED
      BY <2>1, <3>1, <3>2 DEF OwnLinks
  <2>3. thread = "assign" /\ tconn # NoConn => conn'[tconn].from = S1 /\ conn'[tconn].cOpen
    BY <2>1 DEF OwnLinks
  <2> QED
    BY <1>1, <1>3, <2>2, <2>3 DEF OwnLinks
<1>13. ClientEnds'
  BY <1>1, <1>2 DEF ClientEnds, clientVars, ClientTypeOK
<1> QED
  BY <1>5, <1>6, <1>7, <1>8, <1>9, <1>10, <1>11, <1>12, <1>13

\* The backup answered a forwarded write, or its connection broke.
LEMMA ForwardSafe ==
  ASSUME TypeInv, TypeInv', Safe, NEW s \in Server, ForwardDone(s), UNCHANGED clientVars
  PROVE  Safe'
<1> USE DEF TypeInv, TypeOK, SocketsTypeOK, ServerTypeOK
<1> DEFINE i == chan[s]
           k == serving[s]
<1>0. /\ i \in Conn /\ k \in Conn /\ i # k /\ pc[s] = "repl" /\ Replicates(s)
      /\ conn[i].from = s /\ conn[i].cOpen
      /\ conn[k].to = s /\ conn[k].sOpen /\ conn[k].from # s
      /\ conn[i] \in Connection /\ conn[k] \in Connection
      /\ pc[OtherServer(s)] \in Booting => k # chan[OtherServer(s)]
  BY DEF ForwardDone, BlockedOK, Safe, OwnLinks, ServerEnds, Modes
<1>1. /\ state' = [state EXCEPT ![s] = AfterForward(Answered(i), @)]
      /\ pc' = [pc EXCEPT ![s] = "loop"]
      /\ chan' = [chan EXCEPT ![s] = NoConn]
      /\ serving' = [serving EXCEPT ![s] = NoConn]
      /\ UNCHANGED <<status, link, thread, tconn, listening, clientVars>>
  BY DEF ForwardDone
<1>2. /\ \A j \in Conn : j # i /\ j # k => conn'[j] = conn[j]
      /\ conn'[k].from = conn[k].from /\ conn'[k].to = s
      /\ conn'[k].cOpen = conn[k].cOpen /\ conn'[k].sOpen = conn[k].sOpen
      /\ conn'[k].req.op = "NONE"
  BY <1>0 DEF ForwardDone, Taken, Hungup, Replied, Connection, NoReq, Plain, Msg
<1>3. /\ conn'[i].sOpen = conn[i].sOpen
      /\ conn[i].sOpen => conn'[i].to = conn[i].to /\ conn'[i].from = s
      /\ conn[i].sOpen => conn'[i].req = conn[i].req /\ conn'[i].resp = NoReply
      /\ Answered(i) => conn'[i].from = s /\ conn'[i].cOpen
  <2>1. CASE Answered(i)
    <3>1. conn'[i] = [conn[i] EXCEPT !.resp = NoReply]
      BY <1>0, <2>1 DEF ForwardDone, Taken, Replied, Connection
    <3> QED
      BY <1>0, <3>1 DEF Connection
  <2>2. CASE ~Answered(i)
    <3>1. conn'[i] = CutAtClient(conn[i])
      BY <1>0, <2>2 DEF ForwardDone, Hungup, Replied, Connection
    <3> QED
      BY <1>0, <2>2, <3>1, Fields
  <2> QED
    BY <2>1, <2>2
<1>4. /\ \A t \in Server : Replicates(t)' => Replicates(t)
      /\ state'[s] = UP => Answered(i)
      /\ \A t \in Server : state'[t] = UP => state[t] = UP
      /\ \A t \in Server : t # s => (Replicates(t)' <=> Replicates(t))
  BY <1>0, <1>1 DEF AfterForward, Replicates, UP, DOWN
<1>5. \A t \in Server : PendingUp(t)' => PendingUp(t)
  BY <1>0, <1>2, <1>3 DEF PendingUp
<1>6. \A t \in Server : /\ Polling(t)' <=> Polling(t)
                        /\ pc'[t] = "down" <=> pc[t] = "down"
                        /\ pc'[t] \in Booting => pc'[t] = pc[t] /\ chan'[t] = chan[t]
                                               /\ chan[t] # i /\ chan[t] # k
  BY <1>0, <1>1, TwoServers DEF Polling, Booting, Safe, BootConn
<1> USE TwoServers DEF Safe, BlockedOK
<1>7. Modes'
  <2>1. \A t \in Server : pc'[t] = "repl" => Replicates(t)'
    BY <1>1, <1>4 DEF Modes
  <2>2. status[s] # 0
    BY <1>0 DEF Replicates, PRIMARY
  <2> QED
    BY <1>1, <1>6, <2>1, <2>2 DEF Modes
<1>8. ServerEnds'
  <2>1. \A j \in Conn : conn'[j].sOpen =>
          /\ conn[j].sOpen /\ conn'[j].from = conn[j].from /\ conn'[j].to = conn[j].to
          /\ j # k => conn'[j].resp \in {conn[j].resp, NoReply}
    BY <1>0, <1>2, <1>3
  <2>2. pc'[s] = "loop" /\ conn'[k].to = s
    BY <1>0, <1>1, <1>2
  <2>3. \A j \in Conn : conn[j].to \in Server
    BY DEF Connection
  <2>4. \A t \in Server : /\ pc[t] # "down" => pc'[t] # "down"
                         /\ pc[t] \in {"loop", "repl"} => pc'[t] \in {"loop", "repl"}
    BY <1>0, <1>1
  <2>5. ASSUME NEW j \in Conn, conn'[j].sOpen
        PROVE  /\ conn'[j].from # conn'[j].to
               /\ pc'[conn'[j].to] # "down"
               /\ conn'[j].resp # NoReply => pc'[conn'[j].to] \in {"loop", "repl"}
    <3>1. CASE j = k
      BY <1>0, <1>2, <2>2, <3>1
    <3>2. CASE j # k
      BY <1>1, <2>1, <2>3, <2>4, <2>5, <3>2 DEF ServerEnds, Polling
    <3> QED
      BY <3>1, <3>2
  <2> QED
    BY <2>5 DEF ServerEnds, Polling
<1>9. BootConn'
  BY <1>2, <1>6 DEF BootConn, Booting
<1>10. AskOutcome'
  BY <1>1, <1>2, <1>4, <1>5, <1>6 DEF AskOutcome, Answered, Booting
<1>11. TransferFromPrimary'
  BY <1>1, <1>2, <1>6 DEF TransferFromPrimary, Booting
<1>12. UpRequests'
  BY <1>1, <1>4, <1>5, <1>6 DEF UpRequests
<1>13. NoTwoReplicators'
  BY <1>4 DEF NoTwoReplicators
<1>14. OwnLinks'
  <2>1. \A t \in Server : pc'[t] # "repl"
    BY <1>0, <1>1 DEF NoTwoReplicators, Modes
  <2>2. \A j \in Conn : conn[j].cOpen /\ (j = i => Answered(i)) =>
          conn'[j].from = conn[j].from /\ conn'[j].cOpen
    BY <1>0, <1>2, <1>3
  <2>3. \A t \in Server : t # s /\ state[t] = UP /\ link[t] # NoConn => link[t] # i
    BY <1>0 DEF OwnLinks
  <2>4. thread = "assign" /\ tconn # NoConn => tconn # i
    BY <1>0 DEF OwnLinks
  <2> QED
    BY <1>1, <1>4, <2>1, <2>2, <2>3, <2>4 DEF OwnLinks
<1>15. ClientEnds'
  BY <1>0, <1>1, <1>2 DEF ClientEnds, clientVars, ClientTypeOK
<1> QED
  BY <1>7, <1>8, <1>9, <1>10, <1>11, <1>12, <1>13, <1>14, <1>15

-----------------------------------------------------------------------------
\* Steps of the start-up, of its thread, and the end of a process.

\* The first step of main() only opens the port.
LEMMA ListenSafe ==
  ASSUME TypeInv, TypeInv', Safe, NEW s \in Server, Listen(s), UNCHANGED clientVars
  PROVE  Safe'
<1> USE TwoServers DEF TypeInv, TypeOK, SocketsTypeOK, ServerTypeOK, Safe
<1>1. /\ pc[s] = "down" /\ pc' = [pc EXCEPT ![s] = "boot"]
      /\ listening' = listening \cup {s}
      /\ UNCHANGED <<conn, memory, clientVars>>
  BY DEF Listen
<1>2. \A t \in Server : /\ PendingUp(t)' <=> PendingUp(t)
                        /\ Replicates(t)' <=> Replicates(t)
                        /\ Polling(t)' <=> Polling(t)
  BY <1>1 DEF PendingUp, Replicates, Polling, memory
<1>3. Modes'
  BY <1>1 DEF Modes, Polling, Replicates, memory
<1>4. ServerEnds'
  BY <1>1 DEF ServerEnds, Polling, Connection
<1>5. BootConn'
  BY <1>1, <1>2 DEF BootConn, Booting, memory
<1>6. AskOutcome'
  BY <1>1, <1>2 DEF AskOutcome, Answered, memory
<1>7. TransferFromPrimary'
  BY <1>1 DEF TransferFromPrimary, memory
<1>8. UpRequests'
  BY <1>1, <1>2 DEF UpRequests, memory
<1>9. NoTwoReplicators'
  BY <1>2 DEF NoTwoReplicators
<1>10. OwnLinks'
  BY <1>1 DEF OwnLinks, Booting, memory
<1>11. ClientEnds'
  BY <1>1 DEF ClientEnds, clientVars
<1> QED
  BY <1>3, <1>4, <1>5, <1>6, <1>7, <1>8, <1>9, <1>10, <1>11

\* s asks the other server something on a new connection.
LEMMA OpensSafe ==
  ASSUME TypeInv, TypeInv', Safe, NEW s \in Server, pc[s] = "boot",
         NEW p \in {"ask", "keys"}, NEW m \in Request, Wait(s, p, NewConn),
         HasRoom, OtherServer(s) \in listening,
         conn' = Opened(conn, NewConn, s, OtherServer(s), m),
         p = "ask" => s = S1 /\ m.op = "STATUS",
         p = "keys" => s = S2 /\ m.op = "KEYS",
         UNCHANGED clientVars
  PROVE  Safe'
<1> USE TwoServers DEF TypeInv, TypeOK, BlockedOK, SocketsTypeOK, ServerTypeOK, Safe
<1>1. /\ pc' = [pc EXCEPT ![s] = p] /\ chan' = [chan EXCEPT ![s] = NewConn]
      /\ UNCHANGED <<status, state, link, serving, thread, tconn, listening, clientVars>>
      /\ NewConn \in Conn /\ ~conn[NewConn].sOpen /\ ~conn[NewConn].cOpen
  BY NewConnType DEF Wait, Closed
<1>2. /\ \A j \in Conn : j # NewConn => conn'[j] = conn[j]
      /\ conn'[NewConn].from = s /\ conn'[NewConn].to = OtherServer(s)
      /\ conn'[NewConn].cOpen /\ conn'[NewConn].sOpen
      /\ conn'[NewConn].req = m /\ conn'[NewConn].resp = NoReply
  BY <1>1 DEF Opened, NewConnection
<1>3. \A t \in Server : /\ PendingUp(t)' => PendingUp(t)
                        /\ Replicates(t)' <=> Replicates(t)
                        /\ Polling(t)' <=> Polling(t)
  BY <1>1, <1>2 DEF PendingUp, Replicates, Polling
<1>4. Modes'
  BY <1>1, <1>3 DEF Modes
<1>5. ServerEnds'
  <2>1. pc[OtherServer(s)] # "down" /\ \A j \in Conn : conn[j].to \in Server
    BY DEF Modes, Connection
  <2> QED
    BY <1>1, <1>2, <2>1 DEF ServerEnds, Polling
<1>6. BootConn'
  BY <1>1, <1>2, <1>3 DEF BootConn, Booting, Writes
<1>7. AskOutcome'
  <2>1. CASE s = S1
    BY <1>1, <1>2, <2>1 DEF AskOutcome, Answered, NoReply, PRIMARY
  <2>2. CASE s = S2
    <3>1. pc[S1] = "ask" => chan[S1] \in Conn /\ chan[S1] # NewConn
      BY <1>1 DEF BootConn, Booting
    <3> QED
      BY <1>1, <1>2, <1>3, <2>2, <3>1 DEF AskOutcome, Answered
  <2> QED
    BY <2>1, <2>2
<1>8. TransferFromPrimary'
  BY <1>1, <1>2 DEF TransferFromPrimary, BootConn, Booting
<1>9. UpRequests'
  BY <1>1, <1>3 DEF UpRequests
<1>10. NoTwoReplicators'
  BY <1>3 DEF NoTwoReplicators
<1>11. OwnLinks'
  BY <1>1, <1>2 DEF OwnLinks, Booting
<1>12. ClientEnds'
  <2>1. \A j \in Conn : conn[j].cOpen => conn'[j] = conn[j]
    BY <1>1, <1>2
  <2>2. UNCHANGED <<sock, creq>>
    BY <1>1 DEF clientVars
  <2> QED
    BY <2>1, <2>2 DEF ClientEnds, ClientTypeOK
<1> QED
  BY <1>4, <1>5, <1>6, <1>7, <1>8, <1>9, <1>10, <1>11, <1>12

\* s reads the reply and asks the next thing on the same connection.
LEMMA GoesOnSafe ==
  ASSUME TypeInv, TypeInv', Safe, NEW s \in Server, pc[s] \in {"ask", "keys", "get"},
         NEW p \in {"keys", "get", "up"}, NEW m \in Request, Wait(s, p, chan[s]),
         conn' = Sent(Taken(conn, chan[s]), chan[s], m),
         m.op \notin Writes, m.op = "UP" => p = "up",
         p # "keys" /\ conn[chan[s]].sOpen => Polling(OtherServer(s)),
         s = S1 /\ conn[chan[s]].sOpen => status[S2] = PRIMARY,
         UNCHANGED clientVars
  PROVE  Safe'
<1> USE TwoServers DEF TypeInv, TypeOK, BlockedOK, SocketsTypeOK, ServerTypeOK, Safe
<1> DEFINE i == chan[s]
<1>1. /\ pc' = [pc EXCEPT ![s] = p] /\ chan' = chan /\ i \in Conn
      /\ UNCHANGED <<status, state, link, serving, thread, tconn, listening, clientVars>>
      /\ conn[i].from = s /\ conn[i].to = OtherServer(s) /\ conn[i].cOpen
      /\ status[s] = 0 /\ ~Polling(s)
  BY DEF Wait, BootConn, Booting, Modes, Polling
<1>2. /\ \A j \in Conn : j # i => conn'[j] = conn[j]
      /\ conn'[i].from = s /\ conn'[i].to = OtherServer(s)
      /\ conn'[i].cOpen /\ conn'[i].sOpen = conn[i].sOpen
      /\ conn'[i].req = IF conn[i].sOpen THEN m ELSE NoReq
      /\ conn'[i].resp = NoReply
  BY <1>1 DEF Sent, Taken, Connection
<1>3. \A t \in Server : /\ Replicates(t)' <=> Replicates(t)
                        /\ Polling(t)' <=> Polling(t)
  BY <1>1 DEF Replicates, Polling
<1>4. \A t \in Server :
        PendingUp(t)' => \/ PendingUp(t)
                         \/ t = OtherServer(s) /\ p = "up" /\ conn[i].sOpen
  BY <1>1, <1>2 DEF PendingUp, NoReq, Plain, Msg
<1>5. Modes'
  BY <1>1, <1>3 DEF Modes
<1>6. ServerEnds'
  <2>1. \A j \in Conn : conn[j].to \in Server
    BY DEF Connection
  <2> QED
    BY <1>1, <1>2, <2>1 DEF ServerEnds, Polling
<1>7. BootConn'
  BY <1>1, <1>2, <1>3 DEF BootConn, Booting, NoReq, Plain, Msg, Writes
<1>8. AskOutcome'
  BY <1>1, <1>2, <1>3, <1>4 DEF AskOutcome, Answered, BootConn, Booting
<1>9. TransferFromPrimary'
  BY <1>1, <1>2 DEF TransferFromPrimary, BootConn, Booting
<1>10. UpRequests'
  <2>1. ~Replicates(s) /\ ~PendingUp(s)
    BY <1>1 DEF UpRequests, Replicates, PRIMARY
  <2> QED
    BY <1>1, <1>3, <1>4, <2>1 DEF UpRequests
<1>11. NoTwoReplicators'
  BY <1>3 DEF NoTwoReplicators
<1>12. OwnLinks'
  BY <1>1, <1>2 DEF OwnLinks, Booting
<1>13. ClientEnds'
  BY <1>1, <1>2 DEF ClientEnds, clientVars, ClientTypeOK
<1> QED
  BY <1>5, <1>6, <1>7, <1>8, <1>9, <1>10, <1>11, <1>12, <1>13

\* s starts to poll.  It becomes a primary only when the other server is not
\* one with a backup and is not about to be.
LEMMA StartsPollingSafe ==
  ASSUME TypeInv, TypeInv', Safe, NEW s \in Server,
         pc[s] \in Booting \cup {"boot"},
         pc' = [pc EXCEPT ![s] = "loop"], chan' = [chan EXCEPT ![s] = NoConn],
         state' = [state EXCEPT ![s] = UP],
         NEW x \in {PRIMARY, SECUNDARY}, status' = [status EXCEPT ![s] = x],
         x = PRIMARY => s = S1 /\ ~Replicates(S2) /\ ~PendingUp(S2),
         thread' = thread \/ (s = S1 /\ thread' = "connect"),
         \/ pc[s] = "boot" /\ UNCHANGED conn
         \/ pc[s] \in Booting /\ conn' = Hungup(conn, chan[s]),
         UNCHANGED <<link, serving, tconn, listening, clientVars>>
  PROVE  Safe'
<1> USE TwoServers DEF TypeInv, TypeOK, BlockedOK, SocketsTypeOK, ServerTypeOK, Safe
<1>1. /\ status[s] = 0 /\ ~Polling(s) /\ ~PendingUp(s) /\ link[s] = NoConn
      /\ \A j \in Conn : conn[j].to \in Server
  BY DEF Polling, Booting, Modes, UpRequests, Connection
<1>2. /\ \A j \in Conn : conn[j].from # s => conn'[j] = conn[j]
      /\ \A j \in Conn : conn'[j].sOpen = conn[j].sOpen
      /\ \A j \in Conn : conn[j].sOpen =>
           /\ conn'[j].from = conn[j].from /\ conn'[j].to = conn[j].to
           /\ conn'[j].req = conn[j].req /\ conn'[j].resp \in {conn[j].resp, NoReply}
  <2>1. CASE UNCHANGED conn
    BY <2>1
  <2>2. CASE pc[s] \in Booting /\ conn' = Hungup(conn, chan[s])
    <3>1. chan[s] \in Conn /\ conn[chan[s]].from = s
      BY <2>2 DEF BootConn
    <3>2. /\ \A j \in Conn : j # chan[s] => conn'[j] = conn[j]
          /\ conn'[chan[s]] = CutAtClient(conn[chan[s]])
      BY <2>2, <3>1 DEF Hungup
    <3>3. /\ conn'[chan[s]].sOpen = conn[chan[s]].sOpen
          /\ conn[chan[s]].sOpen =>
               /\ conn'[chan[s]].from = conn[chan[s]].from
               /\ conn'[chan[s]].to = conn[chan[s]].to
               /\ conn'[chan[s]].req = conn[chan[s]].req
               /\ conn'[chan[s]].resp = NoReply
      BY <3>1, <3>2, Fields
    <3> QED
      BY <3>1, <3>2, <3>3
  <2> QED
    BY <2>1, <2>2
<1>3. \A t \in Server : /\ PendingUp(t)' => PendingUp(t)
                        /\ t # s => (Replicates(t)' <=> Replicates(t))
                        /\ t # s => (Polling(t)' <=> Polling(t))
  BY <1>2 DEF PendingUp, Replicates, Polling
<1>4. Polling(s)' /\ (x = SECUNDARY => ~Replicates(s)')
  BY DEF Polling, Replicates, PRIMARY, SECUNDARY
<1>5. Modes'
  <2>1. \A t \in Server : t # s => (status'[t] = status[t] /\ state'[t] = state[t]
                                    /\ pc'[t] = pc[t])
    OBVIOUS
  <2>2. status'[s] # 0 /\ pc'[s] = "loop" /\ pc[s] # "down"
    BY DEF PRIMARY, SECUNDARY, Booting
  <2> QED
    BY <1>1, <1>3, <1>4, <2>1, <2>2 DEF Modes
<1>6. ServerEnds'
  BY <1>2 DEF ServerEnds, Polling, Booting
<1>7. BootConn'
  <2>1. \A t \in Server : pc'[t] \in Booting => /\ t # s /\ pc'[t] = pc[t]
                                               /\ chan'[t] = chan[t] /\ chan[t] \in Conn
                                               /\ conn[chan[t]].from # s
    BY DEF BootConn, Booting
  <2> QED
    BY <1>2, <1>3, <1>4, <2>1 DEF BootConn
<1>8. AskOutcome'
  <2>1. pc'[S1] = "ask" => /\ s = S2 /\ pc[S1] = "ask" /\ chan'[S1] = chan[S1]
                           /\ conn'[chan[S1]] = conn[chan[S1]]
    BY <1>2 DEF BootConn, Booting
  <2>2. pc'[S1] = "ask" => ~Replicates(S2)' /\ ~PendingUp(S2)'
    BY <1>1, <1>3, <1>4, <2>1
  <2> QED
    BY <1>1, <2>1, <2>2 DEF AskOutcome, Answered, PRIMARY
<1>9. TransferFromPrimary'
  <2>1. pc'[S1] \in {"keys", "get", "up"} =>
          /\ s = S2 /\ pc'[S1] = pc[S1] /\ chan'[S1] = chan[S1]
          /\ conn'[chan[S1]] = conn[chan[S1]]
    BY <1>2 DEF BootConn, Booting
  <2> QED
    BY <1>1, <2>1 DEF TransferFromPrimary, PRIMARY
<1>10. UpRequests'
  <2>1. \A t \in Server : PendingUp(t)' => t = OtherServer(s)
    BY <1>1, <1>3
  <2>2. PendingUp(OtherServer(s))' => ~Replicates(s)'
    BY <1>3, <1>4
  <2> QED
    BY <1>1, <1>3, <2>1, <2>2 DEF UpRequests
<1>11. NoTwoReplicators'
  BY <1>3, <1>4 DEF NoTwoReplicators
<1>12. OwnLinks'
  <2>1. \A t \in Server : t # s => (state'[t] = state[t] /\ pc'[t] = pc[t] /\ chan'[t] = chan[t])
    OBVIOUS
  <2>2. pc'[s] = "loop" /\ (thread' = "assign" => s # S1)
    BY <1>1 DEF Modes
  <2> QED
    BY <1>1, <1>2, <2>1, <2>2 DEF OwnLinks, Booting
<1>13. ClientEnds'
  BY <1>2 DEF ClientEnds, clientVars, ClientTypeOK
<1> QED
  BY <1>5, <1>6, <1>7, <1>8, <1>9, <1>10, <1>11, <1>12, <1>13

\* The process is gone; a request that it had sent may still be served.
LEMMA GoneSafe ==
  ASSUME TypeInv, TypeInv', Safe, NEW s \in Server, Gone(s), UNCHANGED clientVars
  PROVE  Safe'
<1> USE TwoServers DEF TypeInv, TypeOK, BlockedOK, SocketsTypeOK, ServerTypeOK, Safe
<1>1. /\ pc' = [pc EXCEPT ![s] = "down"]
      /\ status' = [status EXCEPT ![s] = 0]
      /\ state' = [state EXCEPT ![s] = NONE]
      /\ chan' = [chan EXCEPT ![s] = NoConn]
      /\ link' = [link EXCEPT ![s] = NoConn]
      /\ serving' = [serving EXCEPT ![s] = NoConn]
      /\ thread' = IF s = S1 THEN "none" ELSE thread
      /\ tconn' = IF s = S1 THEN NoConn ELSE tconn
      /\ listening' = listening \ {s}
      /\ UNCHANGED clientVars
  BY DEF Gone
<1>2. \A j \in Conn :
        /\ conn'[j].sOpen => /\ conn[j].sOpen /\ conn[j].to # s
                             /\ conn'[j].from = conn[j].from /\ conn'[j].to = conn[j].to
                             /\ conn'[j].req = conn[j].req
                             /\ conn'[j].resp \in {conn[j].resp, NoReply}
        /\ conn[j].sOpen /\ conn[j].to # s => /\ conn'[j].sOpen
                                              /\ conn'[j].to = conn[j].to
        /\ conn[j].cOpen /\ conn[j].from # s =>
             /\ conn'[j].cOpen
             /\ conn'[j].from = conn[j].from /\ conn'[j].to = conn[j].to
             /\ conn'[j].req \in {conn[j].req, NoReq} /\ conn'[j].resp = conn[j].resp
             /\ conn[j].to # s => conn'[j] = conn[j]
  <2> SUFFICES ASSUME NEW j \in Conn
               PROVE  /\ conn'[j].sOpen =>
                           /\ conn[j].sOpen /\ conn[j].to # s
                           /\ conn'[j].from = conn[j].from /\ conn'[j].to = conn[j].to
                           /\ conn'[j].req = conn[j].req
                           /\ conn'[j].resp \in {conn[j].resp, NoReply}
                      /\ conn[j].sOpen /\ conn[j].to # s =>
                           conn'[j].sOpen /\ conn'[j].to = conn[j].to
                      /\ conn[j].cOpen /\ conn[j].from # s =>
                           /\ conn'[j].cOpen
                           /\ conn'[j].from = conn[j].from /\ conn'[j].to = conn[j].to
                           /\ conn'[j].req \in {conn[j].req, NoReq}
                           /\ conn'[j].resp = conn[j].resp
                           /\ conn[j].to # s => conn'[j] = conn[j]
    OBVIOUS
  <2>1. conn'[j] = IF conn[j].from = s THEN CutAtClient(conn[j])
                   ELSE IF conn[j].to = s THEN CutAtServer(conn[j]) ELSE conn[j]
    BY DEF Gone, Vanished
  <2>2. conn[j].sOpen => conn[j].from # conn[j].to
    BY DEF ServerEnds
  <2> QED
    BY <2>1, <2>2, Fields
<1>3. \A t \in Server : /\ PendingUp(t)' => PendingUp(t) /\ t # s
                        /\ t # s => (Replicates(t)' <=> Replicates(t))
                        /\ t # s => (Polling(t)' <=> Polling(t))
                        /\ t # s => pc'[t] = pc[t] /\ chan'[t] = chan[t]
                                    /\ status'[t] = status[t] /\ state'[t] = state[t]
                                    /\ link'[t] = link[t] /\ serving'[t] = serving[t]
  BY <1>1, <1>2 DEF PendingUp, Replicates, Polling
<1>4. /\ ~Replicates(s)' /\ ~Polling(s)' /\ pc'[s] = "down"
      /\ status'[s] = 0 /\ state'[s] = NONE /\ link'[s] = NoConn
  BY <1>1 DEF Replicates, Polling, PRIMARY
<1>5. Modes'
  BY <1>1, <1>3, <1>4 DEF Modes
<1>6. ServerEnds'
  <2>1. \A j \in Conn : conn[j].to \in Server
    BY DEF Connection
  <2> QED
    BY <1>1, <1>2, <2>1 DEF ServerEnds, Polling
<1>7. BootConn'
  <2>1. \A t \in Server : pc'[t] \in Booting =>
          /\ t # s /\ pc[t] \in Booting /\ chan[t] \in Conn
          /\ conn[chan[t]].from = t /\ conn[chan[t]].to = s /\ conn[chan[t]].cOpen
    BY <1>3, <1>4 DEF BootConn, Booting
  <2> QED
    BY <1>2, <1>3, <2>1 DEF BootConn, NoReq, Plain, Msg, Writes
<1>8. AskOutcome'
  <2>1. pc'[S1] = "ask" => /\ s = S2 /\ ~conn'[chan'[S1]].sOpen
                           /\ ~Replicates(S2)' /\ ~PendingUp(S2)'
    BY <1>2, <1>3, <1>4 DEF BootConn, Booting
  <2> QED
    BY <2>1 DEF AskOutcome
<1>9. TransferFromPrimary'
  <2>1. pc'[S1] \in {"keys", "get", "up"} => s = S2 /\ ~conn'[chan'[S1]].sOpen
    BY <1>2, <1>3, <1>4 DEF BootConn, Booting
  <2> QED
    BY <2>1 DEF TransferFromPrimary
<1>10. UpRequests'
  BY <1>3, <1>4 DEF UpRequests
<1>11. NoTwoReplicators'
  BY <1>4 DEF NoTwoReplicators
<1>12. OwnLinks'
  <2>1. ASSUME NEW t \in Server, t # s
        PROVE  /\ state'[t] = UP /\ link'[t] # NoConn =>
                    conn'[link'[t]].from = t /\ conn'[link'[t]].cOpen
               /\ pc'[t] = "repl" =>
                    /\ conn'[chan'[t]].from = t /\ conn'[chan'[t]].cOpen
                    /\ conn'[serving'[t]].to = t /\ conn'[serving'[t]].sOpen
                    /\ pc'[OtherServer(t)] = "down"
    <3>1. /\ state[t] = UP /\ link[t] # NoConn =>
               link[t] \in Conn /\ conn[link[t]].from = t /\ conn[link[t]].cOpen
          /\ pc[t] = "repl" =>
               /\ chan[t] \in Conn /\ serving[t] \in Conn
               /\ conn[chan[t]].from = t /\ conn[chan[t]].cOpen
               /\ conn[serving[t]].to = t /\ conn[serving[t]].sOpen
      BY DEF OwnLinks
    <3> QED
      BY <1>2, <1>3, <1>4, <2>1, <3>1
  <2>2. state'[s] # UP /\ pc'[s] # "repl"
    BY <1>4 DEF NONE, UP
  <2>3. thread' = "assign" /\ tconn' # NoConn =>
          /\ conn'[tconn'].from = S1 /\ conn'[tconn'].cOpen
          /\ state'[S1] = UP => tconn' # link'[S1]
          /\ pc'[S1] = "repl" => tconn' # chan'[S1]
    BY <1>1, <1>2, <1>3 DEF OwnLinks
  <2> QED
    BY <2>1, <2>2, <2>3 DEF OwnLinks, Booting
<1>13. ClientEnds'
  BY <1>1, <1>2 DEF ClientEnds, clientVars, ClientTypeOK
<1> QED
  BY <1>5, <1>6, <1>7, <1>8, <1>9, <1>10, <1>11, <1>12, <1>13

\* The thread of primary() connects, and then assigns its link.
LEMMA ThreadSafe ==
  ASSUME TypeInv, TypeInv', Safe, Thread, UNCHANGED clientVars
  PROVE  Safe'
<1> USE TwoServers DEF TypeInv, TypeOK, BlockedOK, SocketsTypeOK, ServerTypeOK, Safe
<1>1. /\ thread # "none" /\ Polling(S1)
      /\ thread' \in {"none", "assign"}
      /\ UNCHANGED <<pc, status, state, chan, serving, listening, clientVars>>
      /\ \A t \in Server : t # S1 => link'[t] = link[t]
  BY DEF Thread, ThreadConnect, ThreadAssign, Modes
<1>2. /\ \A j \in Conn :
           \/ conn'[j] = conn[j]
           \/ /\ ~conn[j].sOpen /\ ~conn[j].cOpen
              /\ conn'[j].from = S1 /\ conn'[j].to = S2 /\ conn'[j].cOpen
              /\ conn'[j].req.op = "NONE" /\ conn'[j].resp = NoReply
              /\ S2 \in listening
  BY NewConnType DEF Thread, ThreadConnect, ThreadAssign, Opened, NewConnection, Closed,
     NoReq, Plain, Msg
<1>3. \A t \in Server : /\ PendingUp(t)' => PendingUp(t)
                        /\ Replicates(t)' <=> Replicates(t)
                        /\ Polling(t)' <=> Polling(t)
  BY <1>1, <1>2 DEF PendingUp, Replicates, Polling
<1>4. Modes'
  <2>1. status[S1] # 0
    BY <1>1 DEF Modes
  <2> QED
    BY <1>1, <1>3, <2>1 DEF Modes
<1>5. ServerEnds'
  BY <1>1, <1>2 DEF ServerEnds, Polling, Modes
<1>6. BootConn'
  BY <1>1, <1>2, <1>3 DEF BootConn
<1>7. AskOutcome'
  BY <1>1 DEF AskOutcome, Polling
<1>8. TransferFromPrimary'
  BY <1>1 DEF TransferFromPrimary, Polling
<1>9. UpRequests'
  BY <1>1, <1>3 DEF UpRequests
<1>10. NoTwoReplicators'
  BY <1>3 DEF NoTwoReplicators
<1>11. OwnLinks'
  <2>1. \A j \in Conn : conn[j].cOpen \/ conn[j].sOpen => conn'[j] = conn[j]
    BY <1>2
  <2>2. state[S1] = UP /\ link'[S1] # NoConn =>
          conn'[link'[S1]].from = S1 /\ conn'[link'[S1]].cOpen
    BY <2>1 DEF Thread, ThreadConnect, ThreadAssign, OwnLinks
  <2>3. thread' = "assign" /\ tconn' # NoConn =>
          /\ conn'[tconn'].from = S1 /\ conn'[tconn'].cOpen
          /\ state[S1] = UP => tconn' # link'[S1]
          /\ pc[S1] = "repl" => tconn' # chan[S1]
    <3>1. CASE ThreadAssign
      BY <3>1 DEF ThreadAssign
    <3>2. CASE ThreadConnect
      BY <3>2, NewConnType DEF ThreadConnect, OwnLinks, Opened, NewConnection, Closed
    <3> QED
      BY <3>1, <3>2 DEF Thread
  <2> QED
    BY <1>1, <2>1, <2>2, <2>3 DEF OwnLinks
<1>12. ClientEnds'
  BY <1>1, <1>2 DEF ClientEnds, clientVars, ClientTypeOK
<1> QED
  BY <1>4, <1>5, <1>6, <1>7, <1>8, <1>9, <1>10, <1>11, <1>12

-----------------------------------------------------------------------------
\* Steps of a client.

\* What a step of client c may do to a connection: nothing, to its own end
\* of its connection anything but an OC_UP, or open it.
ClientTouch(c, a, b) ==
  \/ b = a
  \/ /\ a.from = c /\ b.sOpen = a.sOpen
     /\ a.sOpen => b.from = c /\ b.to = a.to
     /\ b.req.op = "UP" => a.req.op = "UP"
     /\ b.resp \in {a.resp, NoReply}
  \/ /\ Closed(a)
     /\ \E t \in listening, m \in Request :
          m.op # "UP" /\ b = NewConnection(c, t, m)

\* A step that touches only a client's own connections keeps the invariant.
LEMMA ClientSafe ==
  ASSUME TypeInv, TypeInv', Safe, NEW c \in Client,
         \A j \in Conn : ClientTouch(c, conn[j], conn'[j]),
         ClientEnds',
         UNCHANGED <<serverVars, listening>>
  PROVE  Safe'
<1> USE TwoServers DEF Safe, TypeInv, TypeOK, BlockedOK, ServerTypeOK, serverVars, memory
<1>0. /\ \A j \in Conn : conn[j].from # c /\ conn[j].cOpen => conn'[j] = conn[j]
      /\ \A j \in Conn : conn[j].sOpen => conn'[j].sOpen /\ conn'[j].to = conn[j].to
      /\ \A j \in Conn : conn[j].sOpen => conn'[j].from = conn[j].from
  BY DEF ClientTouch, Closed
<1>1. \A t \in Server : PendingUp(t)' => PendingUp(t)
  <2>1. ASSUME NEW t \in Server, NEW j \in Conn, conn'[j].to = t, conn'[j].sOpen,
               conn'[j].req.op = "UP"
        PROVE  PendingUp(t)
    <3>1. CASE conn'[j] = conn[j]
      BY <2>1, <3>1 DEF PendingUp
    <3>2. CASE \E u \in listening, m \in Request :
                 m.op # "UP" /\ conn'[j] = NewConnection(c, u, m)
      BY <2>1, <3>2 DEF NewConnection
    <3>3. CASE /\ conn'[j].sOpen = conn[j].sOpen
               /\ conn[j].sOpen => conn'[j].to = conn[j].to
               /\ conn'[j].req.op = "UP" => conn[j].req.op = "UP"
      BY <2>1, <3>3 DEF PendingUp
    <3> QED
      BY <3>1, <3>2, <3>3 DEF ClientTouch
  <2> QED
    BY <2>1 DEF PendingUp
<1>4. Modes'
  BY DEF Modes, Polling, Replicates
<1>5. ServerEnds'
  BY DEF ServerEnds, Polling, Modes, ClientTouch, NewConnection, SocketsTypeOK
<1>6. BootConn'
  BY <1>0 DEF BootConn, Polling
<1>7. AskOutcome'
  BY <1>0, <1>1 DEF AskOutcome, Replicates, Answered, Booting, BootConn
<1>8. TransferFromPrimary'
  BY <1>0 DEF TransferFromPrimary, Booting, BootConn
<1>9. UpRequests'
  BY <1>1 DEF UpRequests, Polling, Replicates
<1>10. NoTwoReplicators'
  BY DEF NoTwoReplicators, Replicates
<1>11. OwnLinks'
  BY <1>0 DEF OwnLinks
<1> QED
  BY <1>4, <1>5, <1>6, <1>7, <1>8, <1>9, <1>10, <1>11

\* Every step of a client is of that kind.
LEMMA ClientStepSafe ==
  ASSUME TypeInv, TypeInv', Safe, NEW c \in Client,
         \/ Bind(c) \/ ClientStep(c) \/ Exit(c)
         \/ \E m \in CallRequest : Call(c, m),
         UNCHANGED serverVars
  PROVE  Safe'
<1> USE TwoServers DEF TypeInv, TypeOK, SocketsTypeOK, ClientTypeOK
<1>0. /\ listening' = listening /\ c \in Proc
      /\ sock[c] # NoConn => /\ sock[c] \in Conn
                             /\ conn[sock[c]].from = c /\ conn[sock[c]].cOpen
      /\ creq[c].op # "UP" /\ creq[c] \in Request
  BY DEF Bind, ClientStep, Exit, Call, Receive, Switch, GiveUp, Done, Safe, ClientEnds,
     Proc
<1>1. ASSUME \A j \in Conn : ClientTouch(c, conn[j], conn'[j]), ClientEnds'
      PROVE  Safe'
  BY <1>0, <1>1, ClientSafe
<1>a. ASSUME \A j \in Conn : ClientTouch(c, conn[j], conn'[j]),
             \A d \in Client : d # c => sock'[d] = sock[d] /\ creq'[d] = creq[d],
             sock'[c] # NoConn => conn'[sock'[c]].from = c /\ conn'[sock'[c]].cOpen,
             creq'[c].op # "UP"
      PROVE  Safe'
  <2>1. ASSUME NEW d \in Client, d # c, sock[d] # NoConn
        PROVE  conn'[sock[d]].from = d /\ conn'[sock[d]].cOpen
    <3>1. sock[d] \in Conn /\ conn[sock[d]].from = d /\ conn[sock[d]].cOpen
      BY <2>1 DEF Safe, ClientEnds
    <3> QED
      BY <1>a, <2>1, <3>1 DEF ClientTouch, Closed
  <2> QED
    BY <1>a, <1>1, <2>1 DEF Safe, ClientEnds
\* The end of c is closed, or its request is sent, or its reply is read.
<1>b. ASSUME NEW j \in Conn PROVE
        /\ sock[c] # NoConn => ClientTouch(c, conn[j], Hungup(conn, sock[c])[j])
        /\ sock[c] # NoConn => ClientTouch(c, conn[j], Taken(conn, sock[c])[j])
        /\ sock[c] # NoConn => \A m \in Request : m.op # "UP" =>
              ClientTouch(c, conn[j], Sent(conn, sock[c], m)[j])
        /\ ClientTouch(c, conn[j], Vanished(conn, c)[j])
        /\ ClientTouch(c, conn[j], Closing(c)[j])
  <2>1. conn[j] \in Connection
    OBVIOUS
  <2>2. conn[j].from = c => ClientTouch(c, conn[j], CutAtClient(conn[j]))
    <3>1. conn[j].sOpen \/ CutAtClient(conn[j]).req.op = "NONE"
      BY <2>1 DEF CutAtClient, Tidy, Closed, FreeConn, NoReq, Plain, Msg, Connection
    <3>2. CutAtClient(conn[j]).resp = NoReply
      BY <2>1 DEF CutAtClient, Tidy, FreeConn, Connection
    <3> QED
      BY <2>1, <3>1, <3>2, Fields DEF ClientTouch
  <2>3. sock[c] # NoConn => ClientTouch(c, conn[j], Hungup(conn, sock[c])[j])
    BY <1>0, <2>2 DEF Hungup, ClientTouch
  <2>4. conn[j].to # c
    BY <2>1 DEF Connection
  <2>5. ClientTouch(c, conn[j], Vanished(conn, c)[j])
    BY <2>2, <2>4 DEF Vanished, ClientTouch
  <2>6. sock[c] # NoConn => ClientTouch(c, conn[j], Taken(conn, sock[c])[j])
    BY <1>0, <2>1 DEF Taken, ClientTouch, Connection
  <2>7. sock[c] # NoConn => \A m \in Request : m.op # "UP" =>
          ClientTouch(c, conn[j], Sent(conn, sock[c], m)[j])
    BY <1>0, <2>1 DEF Sent, ClientTouch, Connection, NoReq, Plain, Msg
  <2>8. ClientTouch(c, conn[j], Closing(c)[j])
    BY <2>3 DEF Closing, ClientTouch
  <2> QED
    BY <2>3, <2>5, <2>6, <2>7, <2>8
<1>2. CASE Bind(c)
  <2>1. \A j \in Conn : ClientTouch(c, conn[j], conn'[j])
    BY <1>2, NewConnType, ConstantMessages
       DEF Bind, Opened, ClientTouch, NoReq, Plain, Msg
  <2>2. conn'[NewConn].from = c /\ conn'[NewConn].cOpen
    BY <1>2, NewConnType DEF Bind, Opened, NewConnection
  <2> QED
    BY <1>0, <1>2, <1>a, <2>1, <2>2 DEF Bind
<1>3. ASSUME NEW m \in CallRequest, Call(c, m) PROVE Safe'
  <2>1. m.op # "UP" /\ m \in Request
    BY CallRequestType DEF CallRequest, Msg, Plain
  <2>2. \A j \in Conn : ClientTouch(c, conn[j], conn'[j])
    BY <1>3, <1>b, <2>1 DEF Call, ClientTouch
  <2>3. sock[c] # NoConn => conn'[sock[c]].from = c /\ conn'[sock[c]].cOpen
    BY <1>0, <1>3 DEF Call, Sent, Connection
  <2> QED
    BY <1>3, <1>a, <2>1, <2>2, <2>3 DEF Call
<1>4. CASE Receive(c)
  <2>1. \A j \in Conn : ClientTouch(c, conn[j], conn'[j])
    BY <1>4, <1>b DEF Receive
  <2>2. conn'[sock[c]].from = c /\ conn'[sock[c]].cOpen
    BY <1>0, <1>4 DEF Receive, Taken, Connection
  <2> QED
    BY <1>4, <1>a, <2>1, <2>2 DEF Receive, Done, NoReq, Plain, Msg
<1>5. CASE Switch(c)
  <2>1. CASE NewConn \in Conn /\ Closed(conn[NewConn])
             /\ conn' = Opened(Closing(c), NewConn, c, OtherServer(cur[c]), creq[c])
             /\ sock' = [sock EXCEPT ![c] = NewConn]
             /\ OtherServer(cur[c]) \in listening
    <3>1. Closing(c) \in [Conn -> Connection]
      BY ConnOpsType DEF Closing
    <3>2. \A j \in Conn : ClientTouch(c, conn[j], conn'[j])
      BY <1>0, <1>b, <2>1, <3>1 DEF Opened, ClientTouch
    <3>3. conn'[NewConn].from = c /\ conn'[NewConn].cOpen
      BY <2>1, <3>1 DEF Opened, NewConnection
    <3> QED
      BY <1>0, <1>5, <1>a, <2>1, <3>2, <3>3 DEF Switch
  <2>2. CASE conn' = Closing(c) /\ sock' = [sock EXCEPT ![c] = NoConn]
    BY <1>0, <1>5, <1>a, <1>b, <2>2 DEF Switch
  <2> QED
    BY <1>5, <2>1, <2>2, NewConnType DEF Switch
<1>6. CASE GiveUp(c)
  BY <1>6, <1>a, <1>b DEF GiveUp, Done, NoReq, Plain, Msg
<1>7. CASE Exit(c)
  BY <1>7, <1>a, <1>b DEF Exit, NoReq, Plain, Msg
<1> QED
  BY <1>2, <1>3, <1>4, <1>5, <1>6, <1>7 DEF ClientStep

-----------------------------------------------------------------------------
\* Every step of the start-up keeps the invariant.
LEMMA BootSafe ==
  ASSUME TypeInv, TypeInv', Safe, NEW s \in Server, Boot(s), UNCHANGED clientVars
  PROVE  Safe'
<1> USE TwoServers DEF TypeInv, TypeOK, BlockedOK, SocketsTypeOK, ServerTypeOK
<1>0. /\ \A op \in {"KEYS", "SIZE", "STATUS", "UP", "NONE"} :
           Plain(op) \in Request /\ Plain(op).op = op
      /\ \A k \in Key : /\ Msg("GET", k, NoVal) \in Request
                        /\ Msg("GET", k, NoVal).op = "GET"
  BY ConstantMessages DEF Plain, Msg, Request
<1>1. CASE s = S1 /\ BootPrimary
  <2>1. CASE S2 \in listening
    BY <1>0, <1>1, <2>1, OpensSafe DEF BootPrimary
  <2>2. CASE S2 \notin listening
    <3>1. ~Replicates(S2) /\ ~PendingUp(S2)
      BY <2>2 DEF Safe, Modes, Polling, Replicates, PRIMARY, UpRequests
    <3> QED
      BY <1>1, <2>2, <3>1, StartsPollingSafe DEF BootPrimary, BecomePrimary
  <2> QED
    BY <2>1, <2>2
<1>2. CASE s = S1 /\ AskDone
  <2>0. pc[S1] = "ask" /\ chan[S1] \in Conn
    BY <1>2 DEF AskDone, Booting
  <2>1. CASE Answered(chan[S1]) /\ Joins(conn[chan[S1]].resp.result)
    <3>1. conn[chan[S1]].sOpen => status[S2] = PRIMARY
      BY <2>0, <2>1 DEF Safe, AskOutcome, Joins
    <3>2. /\ conn' = Sent(Taken(conn, chan[S1]), chan[S1], Plain("KEYS"))
          /\ Wait(S1, "keys", chan[S1])
      BY <1>2, <2>1 DEF AskDone, Answered, Broken
    <3> QED
      BY <1>0, <1>2, <2>0, <3>1, <3>2, GoesOnSafe DEF Writes
  <2>2. CASE Broken(chan[S1]) \/ (Answered(chan[S1]) /\ ~Joins(conn[chan[S1]].resp.result))
    <3>1. ~Replicates(S2) /\ ~PendingUp(S2)
      BY <2>0, <2>2 DEF Safe, AskOutcome, Joins, Answered, Broken
    <3>2. conn' = Hungup(conn, chan[S1]) /\ BecomePrimary
      BY <1>2, <2>2 DEF AskDone, Answered, Broken
    <3> QED
      BY <1>2, <2>0, <3>1, <3>2, StartsPollingSafe DEF BecomePrimary, Booting
  <2> QED
    BY <1>2, <2>1, <2>2 DEF AskDone
<1>3. CASE s = S2 /\ BootSecundary
  <2>1. CASE file = "primary" /\ S1 \in listening
    BY <1>0, <1>3, <2>1, OpensSafe DEF BootSecundary
  <2>2. CASE ~(file = "primary" /\ S1 \in listening)
    BY <1>3, <2>2, StartsPollingSafe DEF BootSecundary, BecomeSecundary, PRIMARY, SECUNDARY
  <2> QED
    BY <2>1, <2>2
<1>4. ASSUME NEW ks \in SUBSET Key, pc[s] \in {"keys", "get"},
             conn[chan[s]].sOpen => Polling(OtherServer(s)),
             AskNext(s, Taken(conn, chan[s]), chan[s], ks)
      PROVE  Safe'
  <2>1. s = S1 /\ conn[chan[s]].sOpen => status[S2] = PRIMARY
    BY <1>4 DEF Safe, TransferFromPrimary
  <2>2. CASE ks = {}
    BY <1>0, <1>4, <2>1, <2>2, GoesOnSafe DEF AskNext, Writes
  <2>3. CASE ks # {}
    <3>1. NextKey(ks) \in Key
      BY <2>3, NextKeyType
    <3> QED
      BY <1>0, <1>4, <2>1, <2>3, <3>1, GoesOnSafe DEF AskNext, Writes
  <2> QED
    BY <2>2, <2>3
<1>5. CASE KeysDone(s)
  <2>1. chan[s] \in Conn /\ conn[chan[s]].resp.keys \in SUBSET Key
    BY <1>5 DEF KeysDone, Booting, Connection, Reply
  <2>2. conn[chan[s]].sOpen => Polling(OtherServer(s))
    BY <1>5, <2>1 DEF KeysDone, Answered, Safe, ServerEnds, BootConn, Booting
  <2> QED
    BY <1>4, <1>5, <2>1, <2>2 DEF KeysDone
<1>6. CASE ValueDone(s)
  <2>1. todo[s] \ {NextKey(todo[s])} \in SUBSET Key
    OBVIOUS
  <2>2. conn[chan[s]].sOpen => Polling(OtherServer(s))
    BY <1>6 DEF ValueDone, Safe, BootConn, Booting
  <2> QED
    BY <1>4, <1>6, <2>1, <2>2 DEF ValueDone
<1>7. CASE UpDone(s)
  <2>1. /\ pc[s] \in Booting /\ conn' = Hungup(conn, chan[s])
        /\ BecomeSecundary(s)
    BY <1>7 DEF UpDone, Booting
  <2>2. pc[s] \in Booting \cup {"boot"} /\ SECUNDARY # PRIMARY
    BY <2>1 DEF PRIMARY, SECUNDARY
  <2>3. /\ pc' = [pc EXCEPT ![s] = "loop"] /\ chan' = [chan EXCEPT ![s] = NoConn]
        /\ state' = [state EXCEPT ![s] = UP]
        /\ status' = [status EXCEPT ![s] = SECUNDARY]
        /\ thread' = thread
        /\ UNCHANGED <<link, serving, tconn, listening, clientVars>>
    BY <2>1 DEF BecomeSecundary
  <2> QED
    BY <2>1, <2>2, <2>3, StartsPollingSafe
<1>8. CASE TransferDies(s)
  BY <1>8, GoneSafe DEF TransferDies
<1> QED
  BY <1>1, <1>2, <1>3, <1>5, <1>6, <1>7, <1>8 DEF Boot

\* The initial state satisfies the strengthening.
LEMMA SafetyInit == Init => Safe
<1> SUFFICES ASSUME Init PROVE Safe
  OBVIOUS
<1> USE TwoServers DEF Init, ServerInit, ClientInit
<1>1. /\ \A s \in Server : pc[s] = "down" /\ status[s] = 0 /\ state[s] = NONE
                          /\ link[s] = NoConn /\ ~Replicates(s)
      /\ \A i \in Conn : ~conn[i].sOpen
      /\ \A c \in Client : sock[c] = NoConn /\ creq[c].op = "NONE"
  BY DEF FreeConn, Replicates, PRIMARY, NoReq, Plain, Msg
<1>2. \A s \in Server : ~PendingUp(s)
  BY <1>1 DEF PendingUp
<1>3. Modes
  BY <1>1 DEF Modes, Polling
<1>4. ServerEnds /\ BootConn /\ AskOutcome /\ TransferFromPrimary
  BY <1>1 DEF ServerEnds, BootConn, AskOutcome, TransferFromPrimary, Booting
<1>5. UpRequests /\ NoTwoReplicators
  BY <1>1, <1>2 DEF UpRequests, NoTwoReplicators
<1>6. OwnLinks /\ ClientEnds
  BY <1>1 DEF OwnLinks, ClientEnds, NONE, UP
<1> QED
  BY <1>3, <1>4, <1>5, <1>6 DEF Safe

\* Every step of the system keeps it.
LEMMA SafetyStep == SafetyInv /\ [Next]_vars => SafetyInv'
<1> SUFFICES ASSUME SafetyInv, [Next]_vars PROVE SafetyInv'
  OBVIOUS
<1>0. TypeInv /\ TypeInv' /\ Safe
  BY TypeStep DEF SafetyInv
<1>1. CASE AtServers(ServerNext)
  <2>0. UNCHANGED clientVars
    BY <1>1 DEF AtServers
  <2>1. ASSUME NEW s \in Server, Listen(s) PROVE Safe'
    BY <1>0, <2>0, <2>1, ListenSafe
  <2>2. ASSUME NEW s \in Server, Boot(s) PROVE Safe'
    BY <1>0, <2>0, <2>2, BootSafe
  <2>3. ASSUME NEW s \in Server, Crash(s) PROVE Safe'
    BY <1>0, <2>0, <2>3, GoneSafe DEF Crash
  <2>4. ASSUME NEW s \in Server, ForwardDone(s) PROVE Safe'
    BY <1>0, <2>0, <2>4, ForwardSafe
  <2>5. ASSUME NEW s \in Server, NEW i \in Conn, Serve(s, i) PROVE Safe'
    BY <1>0, <2>0, <2>5, ReadSafe, WriteSafe, UpSafe, EofSafe DEF Serve
  <2>6. ASSUME Thread PROVE Safe'
    BY <1>0, <2>0, <2>6, ThreadSafe
  <2> QED
    BY <1>0, <1>1, <2>1, <2>2, <2>3, <2>4, <2>5, <2>6
       DEF AtServers, ServerNext, ServerStep, SafetyInv
<1>2. CASE AtClients(ClientNext)
  BY <1>0, <1>2, ClientStepSafe DEF AtClients, ClientNext, SafetyInv
<1>3. CASE UNCHANGED vars
  <2> USE <1>3 DEF vars, sockVars, serverVars, memory, clientVars
  <2>1. \A s \in Server : /\ PendingUp(s)' <=> PendingUp(s)
                          /\ Replicates(s)' <=> Replicates(s)
                          /\ Polling(s)' <=> Polling(s)
    BY DEF PendingUp, Replicates, Polling
  <2>2. Modes' /\ ServerEnds' /\ BootConn'
    BY <1>0, <2>1, TwoServers
       DEF Safe, Modes, ServerEnds, BootConn, Polling, Replicates
  <2>3. AskOutcome' /\ TransferFromPrimary'
    BY <1>0, <2>1, TwoServers DEF Safe, AskOutcome, TransferFromPrimary, Answered
  <2>4. UpRequests' /\ NoTwoReplicators'
    BY <1>0, <2>1, TwoServers DEF Safe, UpRequests, NoTwoReplicators
  <2>5. OwnLinks' /\ ClientEnds'
    BY <1>0 DEF Safe, OwnLinks, ClientEnds
  <2> QED
    BY <1>0, <2>2, <2>3, <2>4, <2>5 DEF Safe, SafetyInv
<1> QED
  BY <1>1, <1>2, <1>3 DEF Next

-----------------------------------------------------------------------------
\* The inductive invariant holds in every reachable state.
THEOREM SafetyInductive == Spec => []SafetyInv
<1>1. Init => SafetyInv
  BY TypeInit, SafetyInit DEF SafetyInv
<1> QED
  BY <1>1, SafetyStep, PTL DEF Spec

\* Two servers never both forward writes, whatever crashes and restarts.
THEOREM NoTwoReplicatorsHolds == Spec => []NoTwoReplicators
<1>1. SafetyInv => NoTwoReplicators
  BY DEF SafetyInv, Safe
<1> QED
  BY <1>1, SafetyInductive, PTL

\* S1 copies its table from a server that is, then, the primary.
THEOREM TransferFromPrimaryHolds == Spec => []TransferFromPrimary
<1>1. SafetyInv => TransferFromPrimary
  BY DEF SafetyInv, Safe
<1> QED
  BY <1>1, SafetyInductive, PTL

\* A primary that believes in its backup forwards on an open descriptor.
THEOREM LiveBackupPointerHolds == Spec => []LiveBackupPointer
<1>1. SafetyInv => LiveBackupPointer
  BY DEF SafetyInv, Safe, OwnLinks, LiveBackupPointer, Replicates
<1> QED
  BY <1>1, SafetyInductive, PTL
=============================================================================
