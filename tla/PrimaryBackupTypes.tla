------------------------- MODULE PrimaryBackupTypes --------------------------
(***************************************************************************)
(* Type correctness of the replicated table.  A step that reads the reply  *)
(* on the connection it is blocked on needs that connection to be one, so  *)
(* the inductive invariant is TypeOK with BlockedOK.                       *)
(***************************************************************************)
EXTENDS PrimaryBackup, TableSkelProofs

\* What one connection is after each call on it.
LEMMA FreeConnType == FreeConn \in Connection
BY ConstantMessages DEF FreeConn, Connection, Proc, Server

\* A fresh connection is a connection.
LEMMA NewConnectionType ==
  ASSUME NEW p \in Proc, NEW s \in Server, NEW m \in Request
  PROVE  NewConnection(p, s, m) \in Connection
BY ConstantMessages DEF NewConnection, Connection

\* So is one that either side has closed.
LEMMA CutType ==
  ASSUME NEW c \in Connection
  PROVE  CutAtClient(c) \in Connection /\ CutAtServer(c) \in Connection
BY ConstantMessages, FreeConnType DEF CutAtClient, CutAtServer, Tidy, Connection

\* The calls keep the connections well typed.
LEMMA ConnOpsType ==
  ASSUME NEW cs \in [Conn -> Connection], NEW i
  PROVE  /\ \A p \in Proc, s \in Server, m \in Request :
              Opened(cs, i, p, s, m) \in [Conn -> Connection]
         /\ \A m \in Request : Sent(cs, i, m) \in [Conn -> Connection]
         /\ Taken(cs, i) \in [Conn -> Connection]
         /\ \A r \in Reply : Replied(cs, i, r) \in [Conn -> Connection]
         /\ Hungup(cs, i) \in [Conn -> Connection]
         /\ Dropped(cs, i) \in [Conn -> Connection]
         /\ \A p \in Proc : Vanished(cs, p) \in [Conn -> Connection]
<1>1. \A p \in Proc, s \in Server, m \in Request :
        Opened(cs, i, p, s, m) \in [Conn -> Connection]
  BY NewConnectionType DEF Opened
<1>2. \A m \in Request : Sent(cs, i, m) \in [Conn -> Connection]
  BY ConstantMessages DEF Sent, Connection
<1>3. Taken(cs, i) \in [Conn -> Connection]
  BY ConstantMessages DEF Taken, Connection
<1>4. \A r \in Reply : Replied(cs, i, r) \in [Conn -> Connection]
  BY ConstantMessages DEF Replied, Connection
<1>5. Hungup(cs, i) \in [Conn -> Connection] /\ Dropped(cs, i) \in [Conn -> Connection]
  BY CutType DEF Hungup, Dropped
<1>6. \A p \in Proc : Vanished(cs, p) \in [Conn -> Connection]
  BY CutType DEF Vanished
<1> QED
  BY <1>1, <1>2, <1>3, <1>4, <1>5, <1>6

-----------------------------------------------------------------------------
\* A process that is blocked knows on what.
BlockedOK ==
  \A s \in Server :
    /\ pc[s] \in Booting \cup {"repl"} => chan[s] \in Conn
    /\ pc[s] = "repl" => serving[s] \in Conn

ServerSide == SocketsTypeOK /\ ServerTypeOK /\ BlockedOK

\* While there is room, connect() finds an unused connection.
LEMMA NewConnType == HasRoom => NewConn \in Conn /\ Closed(conn[NewConn])
BY DEF HasRoom, NewConn

\* update_state asks for a key of the list that it got.
LEMMA NextKeyType == \A ks \in SUBSET Key : ks # {} => NextKey(ks) \in ks
BY DEF NextKey

\* A process that is gone leaves well-typed variables behind.
LEMMA GoneTypes ==
  ASSUME ServerSide, NEW s \in Server, Gone(s),
         file' = file, crashes' \in 0..MaxCrash
  PROVE  ServerSide'
<1>1. conn' \in [Conn -> Connection]
  BY ConnOpsType DEF Gone, ServerSide, SocketsTypeOK, Proc
<1>2. NoReply \in Reply /\ EmptyTable \in Table
  BY ConstantMessages DEF EmptyTable, Table
<1> QED
  BY <1>1, <1>2 DEF Gone, ServerSide, SocketsTypeOK, ServerTypeOK, BlockedOK,
     PC, Booting, NONE

\* The steps of the start-up keep the types of the server's variables.
LEMMA BootTypes ==
  ASSUME ServerSide, NEW s \in Server,
         Listen(s) \/ Boot(s)
  PROVE  ServerSide'
<1> USE DEF ServerSide
<1>1. CASE Listen(s)
  BY <1>1 DEF Listen, SocketsTypeOK, ServerTypeOK, BlockedOK, memory, PC, Booting
<1>2. CASE s = S1 /\ BootPrimary
  <2>1. CASE S2 \notin listening
    BY <1>2, <2>1 DEF BootPrimary, BecomePrimary, SocketsTypeOK, ServerTypeOK,
       BlockedOK, PC, Booting, Server, PRIMARY, UP
  <2>2. CASE S2 \in listening
    <3>1. /\ NewConn \in Conn
          /\ conn' = Opened(conn, NewConn, S1, S2, Plain("STATUS"))
          /\ Wait(S1, "ask", NewConn) /\ UNCHANGED <<table, todo>>
      BY <1>2, <2>2, NewConnType DEF BootPrimary
    <3>2. conn' \in [Conn -> Connection]
      BY <3>1, ConnOpsType, ConstantMessages DEF SocketsTypeOK, Server, Proc
    <3> QED
      BY <3>1, <3>2 DEF Wait, SocketsTypeOK, ServerTypeOK, BlockedOK, PC, Booting, Server
  <2> QED
    BY <2>1, <2>2
<1>3. CASE s = S1 /\ AskDone
  <2>0. chan[S1] \in Conn /\ conn \in [Conn -> Connection]
    BY <1>3 DEF AskDone, BlockedOK, Booting, SocketsTypeOK, Server
  <2>1. CASE /\ conn' = Hungup(conn, chan[S1])
             /\ BecomePrimary
    <3>1. conn' \in [Conn -> Connection]
      BY <2>0, <2>1, ConnOpsType
    <3> QED
      BY <2>1, <3>1 DEF BecomePrimary, SocketsTypeOK, ServerTypeOK,
         BlockedOK, PC, Booting, Server, PRIMARY, UP
  <2>2. CASE /\ conn' = Sent(Taken(conn, chan[S1]), chan[S1], Plain("KEYS"))
             /\ Wait(S1, "keys", chan[S1]) /\ UNCHANGED <<table, todo>>
    <3>1. conn' \in [Conn -> Connection]
      BY <2>0, <2>2, ConnOpsType, ConstantMessages
    <3> QED
      BY <2>0, <2>2, <3>1 DEF Wait, SocketsTypeOK, ServerTypeOK, BlockedOK, PC, Booting, Server
  <2> QED
    BY <1>3, <2>1, <2>2 DEF AskDone
<1>4. CASE s = S2 /\ BootSecundary
  <2>1. CASE /\ NewConn \in Conn
             /\ conn' = Opened(conn, NewConn, S2, S1, Plain("KEYS"))
             /\ Wait(S2, "keys", NewConn) /\ UNCHANGED <<table, todo>>
    <3>1. conn' \in [Conn -> Connection]
      BY <2>1, ConnOpsType, ConstantMessages DEF SocketsTypeOK, Server, Proc
    <3> QED
      BY <2>1, <3>1 DEF Wait, SocketsTypeOK, ServerTypeOK, BlockedOK, PC, Booting, Server
  <2>2. CASE BecomeSecundary(S2) /\ UNCHANGED conn
    BY <2>2 DEF BecomeSecundary, SocketsTypeOK, ServerTypeOK,
       BlockedOK, PC, Booting, Server, SECUNDARY, UP
  <2> QED
    BY <1>4, <2>1, <2>2, NewConnType DEF BootSecundary
<1>5. ASSUME NEW ks \in SUBSET Key, chan[s] \in Conn,
             AskNext(s, Taken(conn, chan[s]), chan[s], ks),
             todo' = [todo EXCEPT ![s] = ks], table' \in [Server -> Table]
      PROVE  ServerSide'
  <2>1. conn' \in [Conn -> Connection]
    <3>1. Taken(conn, chan[s]) \in [Conn -> Connection]
      BY ConnOpsType DEF SocketsTypeOK
    <3>2. CASE ks = {}
      <4>1. Sent(Taken(conn, chan[s]), chan[s], Plain("UP")) \in [Conn -> Connection]
        BY <3>1, ConnOpsType, ConstantMessages
      <4> QED
        BY <1>5, <3>2, <4>1 DEF AskNext
    <3>3. CASE ks # {}
      <4>1. Msg("GET", NextKey(ks), NoVal) \in Request
        BY <3>3, NextKeyType DEF Msg, Request
      <4>2. Sent(Taken(conn, chan[s]), chan[s], Msg("GET", NextKey(ks), NoVal))
              \in [Conn -> Connection]
        BY <3>1, <4>1, ConnOpsType
      <4> QED
        BY <1>5, <3>3, <4>2 DEF AskNext
    <3> QED
      BY <3>2, <3>3
  <2>2. \E p \in {"get", "up"} : Wait(s, p, chan[s])
    BY <1>5 DEF AskNext
  <2> QED
    BY <1>5, <2>1, <2>2 DEF Wait, SocketsTypeOK, ServerTypeOK, BlockedOK, PC, Booting
<1>6. CASE KeysDone(s)
  <2>1. chan[s] \in Conn /\ conn[chan[s]].resp.keys \in SUBSET Key
    BY <1>6 DEF KeysDone, BlockedOK, Booting, SocketsTypeOK, Connection, Reply
  <2> QED
    BY <1>5, <1>6, <2>1 DEF KeysDone, ServerTypeOK
<1>7. CASE ValueDone(s)
  <2>1. chan[s] \in Conn /\ conn[chan[s]].resp.val \in Val \cup {NoVal}
    BY <1>7 DEF ValueDone, BlockedOK, Booting, SocketsTypeOK, Connection, Reply
  <2>2. todo[s] \ {NextKey(todo[s])} \in SUBSET Key
    BY DEF ServerTypeOK
  <2>3. table' \in [Server -> Table]
    <3>1. table[s] \in Table
      BY DEF ServerTypeOK
    <3>2. Apply(Copy(NextKey(todo[s]), conn[chan[s]].resp.val), table[s]) \in Table
      BY <2>1, <3>1 DEF Apply, Copy, Msg, Table
    <3> QED
      BY <1>7, <3>2 DEF ValueDone, ServerTypeOK
  <2>4. todo' = [todo EXCEPT ![s] = todo[s] \ {NextKey(todo[s])}]
    BY <1>7 DEF ValueDone, ServerTypeOK
  <2> QED
    BY <1>5, <1>7, <2>1, <2>2, <2>3, <2>4 DEF ValueDone
<1>8. CASE UpDone(s)
  <2>1. conn' \in [Conn -> Connection]
    BY <1>8, ConnOpsType DEF UpDone, SocketsTypeOK
  <2> QED
    BY <1>8, <2>1 DEF UpDone, BecomeSecundary, SocketsTypeOK, ServerTypeOK,
       BlockedOK, PC, Booting, SECUNDARY, UP
<1>9. CASE TransferDies(s)
  BY <1>9, GoneTypes DEF TransferDies, ServerTypeOK
<1> QED
  BY <1>1, <1>2, <1>3, <1>4, <1>6, <1>7, <1>8, <1>9 DEF Boot

\* So do the steps of the thread of primary().
LEMMA ThreadTypes ==
  ASSUME ServerSide, Thread
  PROVE  ServerSide'
<1> USE DEF ServerSide
<1>1. CASE ThreadConnect
  <2>1. conn' \in [Conn -> Connection] /\ tconn' \in Conn \cup {NoConn}
    <3>1. CASE S2 \in listening
      <4>1. Opened(conn, NewConn, S1, S2, NoReq) \in [Conn -> Connection]
        BY ConnOpsType, ConstantMessages DEF SocketsTypeOK, Server, Proc
      <4> QED
        BY <1>1, <3>1, <4>1, NewConnType DEF ThreadConnect
    <3> QED
      BY <1>1, <3>1 DEF ThreadConnect, SocketsTypeOK
  <2> QED
    BY <1>1, <2>1 DEF ThreadConnect, SocketsTypeOK, ServerTypeOK, BlockedOK
<1>2. CASE ThreadAssign
  BY <1>2 DEF ThreadAssign, SocketsTypeOK, ServerTypeOK, BlockedOK, Server
<1> QED
  BY <1>1, <1>2 DEF Thread

\* And the steps of the poll loop.
LEMMA LoopTypes ==
  ASSUME ServerSide, NEW s \in Server, NEW i \in Conn,
         Serve(s, i) \/ ForwardDone(s)
  PROVE  ServerSide'
<1> USE DEF ServerSide
<1>0. /\ conn[i] \in Connection /\ conn[i].req \in Request
      /\ conn[i].from \in Proc /\ table[s] \in Table
  BY DEF SocketsTypeOK, ServerTypeOK, Connection
<1>1. CASE Accept(s, i)
  <2>1. conn' \in [Conn -> Connection]
    BY <1>1 DEF Accept, SocketsTypeOK, Connection
  <2> QED
    BY <1>1, <2>1 DEF Accept, SocketsTypeOK, ServerTypeOK, BlockedOK, memory
<1>2. CASE ServeRead(s, i)
  <2>1. status[s] \in Int
    BY DEF ServerTypeOK, PRIMARY, SECUNDARY
  <2>2. conn' \in [Conn -> Connection]
    BY <1>0, <1>2, <2>1, AnswerType, ConnOpsType, ConstantMessages
       DEF ServeRead, SocketsTypeOK
  <2> QED
    BY <1>2, <2>2 DEF ServeRead, SocketsTypeOK, ServerTypeOK, BlockedOK, serverVars, memory
<1>3. CASE ServeWrite(s, i)
  <2>1. Answer(conn[i].req, table[s]) \in Reply /\ Apply(conn[i].req, table[s]) \in Table
    BY <1>0, AnswerType, ApplyType
  <2>2. conn' \in [Conn -> Connection]
    <3>1. /\ Sent(conn, link[s], conn[i].req) \in [Conn -> Connection]
          /\ Replied(conn, i, Answer(conn[i].req, table[s])) \in [Conn -> Connection]
      BY <1>0, <2>1, ConnOpsType DEF SocketsTypeOK
    <3> QED
      BY <1>3, <3>1 DEF ServeWrite
  <2>3. CASE Replicates(s) /\ Forwarded(conn[i].req) /\ link[s] # NoConn
    <3>1. link[s] \in Conn
      BY <2>3 DEF ServerTypeOK
    <3> QED
      BY <1>3, <2>1, <2>2, <2>3, <3>1
         DEF ServeWrite, SocketsTypeOK, ServerTypeOK, BlockedOK, PC, Booting
  <2>4. CASE ~(Replicates(s) /\ Forwarded(conn[i].req) /\ link[s] # NoConn)
    <3>1. /\ table' = [table EXCEPT ![s] = Apply(conn[i].req, table[s])]
          /\ state' = [state EXCEPT ![s] =
                         IF Replicates(s) /\ Forwarded(conn[i].req) THEN DOWN ELSE @]
          /\ UNCHANGED <<pc, chan, serving, answer>>
          /\ UNCHANGED <<status, todo, link, thread, tconn, file, crashes, listening>>
      BY <1>3, <2>4 DEF ServeWrite
    <3> QED
      BY <2>1, <2>2, <3>1 DEF SocketsTypeOK, ServerTypeOK, BlockedOK, DOWN
  <2> QED
    BY <2>3, <2>4
<1>4. CASE ServeUp(s, i)
  <2>1. conn[i].from \in Server
    BY <1>4 DEF ServeUp, SocketsTypeOK
  <2>2. Replied(conn, i, Result(UP)) \in [Conn -> Connection]
    <3>1. Result(UP) \in Reply
      BY ConstantMessages DEF UP
    <3> QED
      BY <3>1, ConnOpsType DEF SocketsTypeOK
  <2>3. Opened(Replied(conn, i, Result(UP)), NewConn, s, conn[i].from, NoReq)
          \in [Conn -> Connection]
    BY <2>1, <2>2, ConnOpsType, ConstantMessages DEF Proc
  <2>4. conn' \in [Conn -> Connection] /\ NewConn \in Conn
    BY <1>4, <2>3, NewConnType DEF ServeUp
  <2> QED
    BY <1>4, <2>4 DEF ServeUp, SocketsTypeOK, ServerTypeOK, BlockedOK, UP
<1>5. CASE ServeUpFailed(s, i)
  <2>1. conn' \in [Conn -> Connection]
    BY <1>5, ConnOpsType, ConstantMessages DEF ServeUpFailed, SocketsTypeOK
  <2> QED
    BY <1>5, <2>1 DEF ServeUpFailed, SocketsTypeOK, ServerTypeOK, BlockedOK
<1>6. CASE HandleEof(s, i)
  <2>1. conn' \in [Conn -> Connection]
    BY <1>6, ConnOpsType DEF HandleEof, SocketsTypeOK
  <2> QED
    BY <1>6, <2>1 DEF HandleEof, SocketsTypeOK, ServerTypeOK, BlockedOK,
       PromotedStatus, PromotedState, PRIMARY, DOWN
<1>7. CASE ForwardDone(s)
  <2>1. chan[s] \in Conn /\ serving[s] \in Conn /\ answer[s] \in Reply
    BY <1>7 DEF ForwardDone, BlockedOK, ServerTypeOK
  <2>2. /\ Taken(conn, chan[s]) \in [Conn -> Connection]
        /\ Hungup(conn, chan[s]) \in [Conn -> Connection]
    BY <2>1, ConnOpsType DEF SocketsTypeOK
  <2>3. /\ Replied(Taken(conn, chan[s]), serving[s], answer[s]) \in [Conn -> Connection]
        /\ Replied(Hungup(conn, chan[s]), serving[s], answer[s]) \in [Conn -> Connection]
    BY <2>1, <2>2, ConnOpsType
  <2>4. conn' \in [Conn -> Connection]
    BY <1>7, <2>3 DEF ForwardDone
  <2> QED
    BY <1>7, <2>4, ConstantMessages DEF ForwardDone, SocketsTypeOK, ServerTypeOK,
       BlockedOK, AfterForward, PC, Booting, DOWN
<1> QED
  BY <1>1, <1>2, <1>3, <1>4, <1>5, <1>6, <1>7 DEF Serve

\* A client sends requests only.
LEMMA CallRequestType == CallRequest \subseteq Request
BY DEF CallRequest, Request, Msg, Plain, Writes

\* Each step of a client keeps the types of its own variables.
LEMMA ClientTypes ==
  ASSUME SocketsTypeOK, ClientTypeOK, NEW c \in Client,
         \/ Bind(c) \/ ClientStep(c) \/ Exit(c)
         \/ \E m \in CallRequest : Call(c, m)
  PROVE  SocketsTypeOK' /\ ClientTypeOK'
<1> USE DEF SocketsTypeOK, ClientTypeOK
<1>0. /\ NoReq \in Request /\ c \in Proc /\ S1 \in Server
      /\ OtherServer(cur[c]) \in Server /\ MaxTries = 4
  BY ConstantMessages DEF Proc, Server, OtherServer, MaxTries
<1>1. CASE Bind(c)
  <2>1. Opened(conn, NewConn, c, S1, NoReq) \in [Conn -> Connection]
    BY <1>0, ConnOpsType
  <2>2. inputs[c] + 1 \in 0..MaxInputs
    BY <1>1, ClientAssumption DEF Bind
  <2> QED
    BY <1>0, <1>1, <2>1, <2>2, NewConnType DEF Bind
<1>2. ASSUME NEW m \in CallRequest, Call(c, m)
      PROVE  SocketsTypeOK' /\ ClientTypeOK'
  <2>1. m \in Request /\ Sent(conn, sock[c], m) \in [Conn -> Connection]
    BY CallRequestType, ConnOpsType
  <2>2. inputs[c] + 1 \in 0..MaxInputs
    BY <1>2, ClientAssumption DEF Call
  <2> QED
    BY <1>0, <1>2, <2>1, <2>2 DEF Call
<1>3. CASE Receive(c)
  <2>1. Taken(conn, sock[c]) \in [Conn -> Connection]
    BY ConnOpsType
  <2> QED
    BY <1>0, <1>3, <2>1 DEF Receive, Done
<1>4. Closing(c) \in [Conn -> Connection]
  BY ConnOpsType DEF Closing
<1>5. CASE Switch(c)
  <2>1. Opened(Closing(c), NewConn, c, OtherServer(cur[c]), creq[c])
          \in [Conn -> Connection]
    BY <1>0, <1>4, ConnOpsType
  <2>2. /\ conn' \in [Conn -> Connection]
        /\ sock' \in [Client -> Conn \cup {NoConn}]
    BY <1>4, <1>5, <2>1, NewConnType DEF Switch
  <2>3. tries[c] + 1 \in 0..MaxTries
    BY <1>0, <1>5 DEF Switch, MoreTries
  <2> QED
    BY <1>0, <1>5, <2>2, <2>3 DEF Switch
<1>6. CASE GiveUp(c)
  BY <1>0, <1>4, <1>6 DEF GiveUp, Done
<1>7. CASE Exit(c)
  <2>1. Vanished(conn, c) \in [Conn -> Connection]
    BY <1>0, ConnOpsType
  <2> QED
    BY <1>0, <1>7, <2>1 DEF Exit
<1> QED
  BY <1>1, <1>2, <1>3, <1>5, <1>6, <1>7 DEF ClientStep

\* The history variable holds keys.
LEMMA ExposedType ==
  ASSUME SocketsTypeOK, exposed \subseteq Key, Exposed
  PROVE  exposed' \subseteq Key
<1>1. \A j \in Conn : (\E s \in Server : AnsweredAlone(s, j)) => conn[j].req.key \in Key
  BY DEF AnsweredAlone, SocketsTypeOK, Connection, Request, Writes, Plain, Msg
<1>2. \A s \in Server : KeysOf(table[s]) \subseteq Key
  BY DEF KeysOf
<1> QED
  BY <1>1, <1>2 DEF Exposed

\* What a step keeps.
TypeInv == TypeOK /\ BlockedOK

\* The initial state is well typed.
LEMMA TypeInit == Init => TypeInv
<1> SUFFICES ASSUME Init PROVE TypeInv
  OBVIOUS
<1>1. SocketsTypeOK
  BY FreeConnType DEF Init, SocketsTypeOK
<1>2. ServerTypeOK /\ BlockedOK
  BY ConstantMessages, ServerAssumption
     DEF Init, ServerInit, ServerTypeOK, BlockedOK, PC, Booting, NONE, EmptyTable, Table
<1>3. ClientTypeOK
  BY ConstantMessages, ClientAssumption
     DEF Init, ClientInit, ClientTypeOK, Server, MaxTries
<1> QED
  BY <1>1, <1>2, <1>3 DEF Init, TypeInv, TypeOK

\* Every step of the system keeps the types.
LEMMA TypeStep == TypeInv /\ [Next]_vars => TypeInv'
<1> SUFFICES ASSUME TypeInv, [Next]_vars PROVE TypeInv'
  OBVIOUS
<1>0. ServerSide /\ ClientTypeOK /\ exposed \subseteq Key
  BY DEF TypeInv, TypeOK, ServerSide
<1>1. CASE AtServers(ServerNext)
  <2>1. ServerSide'
    <3>1. ASSUME NEW s \in Server, Crash(s) PROVE ServerSide'
      <4>1. crashes' \in 0..MaxCrash
        BY <1>0, <3>1, ServerAssumption DEF Crash, ServerSide, ServerTypeOK
      <4> QED
        BY <1>0, <3>1, <4>1, GoneTypes DEF Crash
    <3>2. ASSUME NEW s \in Server, Listen(s) \/ Boot(s) PROVE ServerSide'
      BY <1>0, <3>2, BootTypes
    <3>3. ASSUME NEW s \in Server, ForwardDone(s) PROVE ServerSide'
      <4>1. chan[s] \in Conn
        BY <3>3 DEF ForwardDone, TypeInv, BlockedOK
      <4> QED
        BY <1>0, <3>3, <4>1, LoopTypes
    <3>4. ASSUME NEW s \in Server, NEW i \in Conn, Serve(s, i) PROVE ServerSide'
      BY <1>0, <3>4, LoopTypes
    <3>5. Thread => ServerSide'
      BY <1>0, ThreadTypes
    <3> QED
      BY <1>1, <3>1, <3>2, <3>3, <3>4, <3>5 DEF AtServers, ServerNext, ServerStep
  <2>2. ClientTypeOK'
    BY <1>0, <1>1 DEF AtServers, clientVars, ClientTypeOK
  <2>3. exposed' \subseteq Key
    BY <1>0, <1>1, ExposedType DEF AtServers, ServerSide
  <2> QED
    BY <2>1, <2>2, <2>3 DEF TypeInv, TypeOK, ServerSide
<1>2. CASE AtClients(ClientNext)
  <2>1. SocketsTypeOK' /\ ClientTypeOK'
    BY <1>0, <1>2, ClientTypes DEF AtClients, ClientNext, ServerSide
  <2> QED
    BY <1>0, <1>2, <2>1 DEF AtClients, serverVars, memory, ServerSide, ServerTypeOK,
       BlockedOK, TypeInv, TypeOK
<1>3. CASE UNCHANGED vars
  BY <1>3 DEF vars, sockVars, serverVars, memory, clientVars, TypeInv, TypeOK,
     SocketsTypeOK, ServerTypeOK, ClientTypeOK, BlockedOK
<1> QED
  BY <1>1, <1>2, <1>3 DEF Next

\* Every variable keeps its type, and no process is blocked on nothing.
THEOREM TypeCorrect == Spec => [](TypeOK /\ BlockedOK)
<1>1. TypeInv => TypeOK /\ BlockedOK
  BY DEF TypeInv
<1> QED
  BY <1>1, TypeInit, TypeStep, PTL DEF Spec
=============================================================================
