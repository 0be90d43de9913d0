----------------------------- MODULE TableServer -----------------------------
(***************************************************************************)
(* The two table-server processes: main() of table-server.c with its poll  *)
(* loop and the start-up thread, and the start-up exchanges of             *)
(* primary_backup.c.  S1 is started with three arguments (it knows the     *)
(* address of S2), S2 with two (it finds S1 in the file "secundary").      *)
(*                                                                         *)
(* A step goes from one blocking call of a process to its next one.  In    *)
(* the poll loop any connection that is ready may be served next.          *)
(***************************************************************************)
EXTENDS Sockets

CONSTANTS PrimaryHost,  \* the processes that run on the machine of S1
          InitFile,     \* what the file "secundary" may hold at first
          MayCrash,     \* the servers that may be killed
          MaxCrash      \* bound: how many times a server is killed

ASSUME ServerAssumption ==
  /\ S1 \in PrimaryHost
  /\ InitFile \subseteq {"none", "primary", "stranger"}
  /\ MaxCrash \in Nat

VARIABLES
  pc,       \* where each process is: see PC
  status,   \* the global status
  state,    \* the global state: what the process believes of its backup
  table,    \* the contents of the global tabela
  todo,     \* keys that update_state() has still to fetch
  chan,     \* the connection a process is blocked on in network_send_receive
  link,     \* shared.current_backup
  serving,  \* the inbound connection whose write is being forwarded
  answer,   \* the reply that invoke() built for it
  thread,   \* main_secundary() in S1: not running, to connect, to assign
  tconn,    \* what its network_connect returned
  file,     \* whose address the file "secundary" of S2 holds
  crashes   \* processes killed so far

memory == <<status, state, table, todo, chan, link, serving, answer, thread, tconn>>
serverVars == <<pc, memory, file, crashes>>

PRIMARY == 1
SECUNDARY == 2
UP == 1
DOWN == 0
NONE == -1

Booting == {"ask", "keys", "get", "up"}   \* blocked in primary() or secundary()
PC == {"down", "boot", "loop", "repl"} \cup Booting

ServerTypeOK ==
  /\ pc \in [Server -> PC]
  /\ status \in [Server -> {0, PRIMARY, SECUNDARY}]
  /\ state \in [Server -> {NONE, UP, DOWN}]
  /\ table \in [Server -> Table]
  /\ todo \in [Server -> SUBSET Key]
  /\ chan \in [Server -> Conn \cup {NoConn}]
  /\ link \in [Server -> Conn \cup {NoConn}]
  /\ serving \in [Server -> Conn \cup {NoConn}]
  /\ answer \in [Server -> Reply]
  /\ thread \in {"none", "connect", "assign"}
  /\ tconn \in Conn \cup {NoConn}
  /\ file \in {"none", "primary", "stranger"}
  /\ crashes \in 0..MaxCrash

ServerInit ==
  /\ pc = [s \in Server |-> "down"]
  /\ status = [s \in Server |-> 0]
  /\ state = [s \in Server |-> NONE]
  /\ table = [s \in Server |-> EmptyTable]
  /\ todo = [s \in Server |-> {}]
  /\ chan = [s \in Server |-> NoConn]
  /\ link = [s \in Server |-> NoConn]
  /\ serving = [s \in Server |-> NoConn]
  /\ answer = [s \in Server |-> NoReply]
  /\ thread = "none"
  /\ tconn = NoConn
  /\ file \in InitFile
  /\ crashes = 0

Replicates(s) == status[s] = PRIMARY /\ state[s] = UP

-----------------------------------------------------------------------------
\* Start-up.

\* make_server_socket and table_skel_init.
Listen(s) ==
  /\ pc[s] = "down"
  /\ pc' = [pc EXCEPT ![s] = "boot"]
  /\ listening' = listening \cup {s}
  /\ UNCHANGED <<conn, memory, file, crashes>>

\* The end of primary() when no other primary answered.
BecomePrimary ==
  /\ pc' = [pc EXCEPT ![S1] = "loop"]
  /\ status' = [status EXCEPT ![S1] = PRIMARY]
  /\ state' = [state EXCEPT ![S1] = UP]
  /\ chan' = [chan EXCEPT ![S1] = NoConn]
  /\ thread' = "connect"
  /\ UNCHANGED <<table, todo, link, serving, answer, tconn, file, crashes, listening>>

\* The end of secundary(), and of primary() when it joins a primary.
BecomeSecundary(s) ==
  /\ pc' = [pc EXCEPT ![s] = "loop"]
  /\ status' = [status EXCEPT ![s] = SECUNDARY]
  /\ state' = [state EXCEPT ![s] = UP]
  /\ chan' = [chan EXCEPT ![s] = NoConn]
  /\ UNCHANGED <<table, todo, link, serving, answer, thread, tconn, file,
                 crashes, listening>>

\* s blocks on connection i at step p of its start-up.
Wait(s, p, i) ==
  /\ pc' = [pc EXCEPT ![s] = p]
  /\ chan' = [chan EXCEPT ![s] = i]
  /\ UNCHANGED <<status, state, link, serving, answer, thread, tconn, file,
                 crashes, listening>>

BootPrimary ==
  /\ pc[S1] = "boot"
  /\ \/ /\ S2 \in listening
        /\ HasRoom
        /\ conn' = Opened(conn, NewConn, S1, S2, Plain("STATUS"))
        /\ Wait(S1, "ask", NewConn)
        /\ UNCHANGED <<table, todo>>
     \/ S2 \notin listening /\ BecomePrimary /\ UNCHANGED conn

\* main() joins only a server that says it is the primary.
JoinsAny(st) == st \in {PRIMARY, SECUNDARY}
Joins(st) == st = PRIMARY

AskDone ==
  LET i == chan[S1] IN
  /\ pc[S1] = "ask"
  /\ \/ /\ Answered(i)
        /\ Joins(conn[i].resp.result)
        /\ conn' = Sent(Taken(conn, i), i, Plain("KEYS"))
        /\ Wait(S1, "keys", i)
        /\ UNCHANGED <<table, todo>>
     \/ /\ Broken(i) \/ (Answered(i) /\ ~Joins(conn[i].resp.result))
        /\ conn' = Hungup(conn, i)
        /\ BecomePrimary

BootSecundary ==
  /\ pc[S2] = "boot"
  /\ \/ /\ file = "primary" /\ S1 \in listening
        /\ HasRoom
        /\ conn' = Opened(conn, NewConn, S2, S1, Plain("KEYS"))
        /\ Wait(S2, "keys", NewConn)
        /\ UNCHANGED <<table, todo>>
     \/ /\ file # "primary" \/ S1 \notin listening
        /\ BecomeSecundary(S2)
        /\ UNCHANGED conn

NextKey(ks) == CHOOSE k \in ks : TRUE

\* update_state() asks for the next key; after the last one send_connect_ip()
\* sends OC_UP on the same connection.
AskNext(s, cs, i, ks) ==
  IF ks = {} THEN /\ conn' = Sent(cs, i, Plain("UP"))
                  /\ Wait(s, "up", i)
             ELSE /\ conn' = Sent(cs, i, Msg("GET", NextKey(ks), NoVal))
                  /\ Wait(s, "get", i)

KeysDone(s) ==
  LET i == chan[s] IN
  /\ pc[s] = "keys"
  /\ Answered(i)
  /\ todo' = [todo EXCEPT ![s] = conn[i].resp.keys]
  /\ AskNext(s, Taken(conn, i), i, conn[i].resp.keys)
  /\ UNCHANGED table

\* The request that update_state() hands to its own invoke().
CopyByUpdate(k, v) == Msg("UPDATE", k, v)
Copy(k, v) == Msg("PUT", k, v)

ValueDone(s) ==
  LET i == chan[s]
      k == NextKey(todo[s])
      m == Copy(k, conn[i].resp.val) IN
  /\ pc[s] = "get"
  /\ conn[i].resp.type = "VALUE"
  /\ table' = [table EXCEPT ![s] = Apply(m, @)]
  /\ todo' = [todo EXCEPT ![s] = @ \ {k}]
  /\ AskNext(s, Taken(conn, i), i, todo[s] \ {k})

UpDone(s) ==
  LET i == chan[s] IN
  /\ pc[s] = "up"
  /\ Answered(i) \/ Broken(i)
  /\ conn' = Hungup(conn, i)
  /\ BecomeSecundary(s)

\* The process is gone; only the file "secundary" survives.
Gone(s) ==
  /\ pc' = [pc EXCEPT ![s] = "down"]
  /\ status' = [status EXCEPT ![s] = 0]
  /\ state' = [state EXCEPT ![s] = NONE]
  /\ table' = [table EXCEPT ![s] = EmptyTable]
  /\ todo' = [todo EXCEPT ![s] = {}]
  /\ chan' = [chan EXCEPT ![s] = NoConn]
  /\ link' = [link EXCEPT ![s] = NoConn]
  /\ serving' = [serving EXCEPT ![s] = NoConn]
  /\ answer' = [answer EXCEPT ![s] = NoReply]
  /\ thread' = IF s = S1 THEN "none" ELSE thread
  /\ tconn' = IF s = S1 THEN NoConn ELSE tconn
  /\ conn' = Vanished(conn, s)
  /\ listening' = listening \ {s}

\* update_state() uses the NULL reply of a broken connection, or the data
\* pointer of an error reply: the process dies of it.
TransferDies(s) ==
  /\ \/ pc[s] \in {"keys", "get"} /\ Broken(chan[s])
     \/ pc[s] = "get" /\ conn[chan[s]].resp.type = "ERROR"
  /\ Gone(s)
  /\ UNCHANGED <<file, crashes>>

Crash(s) ==
  /\ s \in MayCrash /\ pc[s] # "down"
  /\ crashes < MaxCrash
  /\ crashes' = crashes + 1
  /\ Gone(s)
  /\ UNCHANGED file

-----------------------------------------------------------------------------
\* The thread that primary() creates.  Its connect and its assignment to
\* shared.current_backup take no lock.

ThreadConnect ==
  /\ thread = "connect"
  /\ \/ /\ S2 \in listening
        /\ HasRoom
        /\ conn' = Opened(conn, NewConn, S1, S2, NoReq)
        /\ tconn' = NewConn
     \/ S2 \notin listening /\ tconn' = NoConn /\ UNCHANGED conn
  /\ thread' = "assign"
  /\ UNCHANGED <<pc, status, state, table, todo, chan, link, serving, answer,
                 file, crashes, listening>>

ThreadAssign ==
  /\ thread = "assign"
  /\ link' = [link EXCEPT ![S1] = tconn]
  /\ thread' = "none"
  /\ tconn' = NoConn
  /\ UNCHANGED <<conn, pc, status, state, table, todo, chan, serving, answer,
                 file, crashes, listening>>

-----------------------------------------------------------------------------
\* The poll loop.

Inbound(s, i) ==
  /\ pc[s] = "loop"
  /\ conn[i].to = s /\ conn[i].sOpen /\ conn[i].acc

Accept(s, i) ==
  /\ pc[s] = "loop"
  /\ conn[i].to = s /\ conn[i].sOpen /\ ~conn[i].acc
  /\ conn' = [conn EXCEPT ![i].acc = TRUE]
  /\ file' = IF s = S2 /\ status[s] = SECUNDARY
             THEN IF conn[i].from \in PrimaryHost THEN "primary" ELSE "stranger"
             ELSE file
  /\ UNCHANGED <<pc, memory, crashes, listening>>

\* OC_GET, OC_SIZE, and OC_STATUS, whose reply from invoke() is overwritten.
AnswerableByInvoke == Reads
Answerable == Reads \cup {"STATUS"}

ServeRead(s, i) ==
  LET m == conn[i].req IN
  /\ Inbound(s, i)
  /\ m.op \in Answerable
  /\ conn' = Replied(conn, i, IF m.op = "STATUS" THEN Result(status[s])
                                                 ELSE Answer(m, table[s]))
  /\ UNCHANGED <<serverVars, listening>>

\* OC_UP: connect back to the address the sender gave.
ServeUp(s, i) ==
  /\ Inbound(s, i)
  /\ conn[i].req.op = "UP"
  /\ conn[i].from \in listening
  /\ HasRoom
  /\ conn' = Opened(Replied(conn, i, Result(UP)), NewConn, s, conn[i].from, NoReq)
  /\ link' = [link EXCEPT ![s] = NewConn]
  /\ state' = [state EXCEPT ![s] = UP]
  /\ UNCHANGED <<pc, status, table, todo, chan, serving, answer, thread, tconn,
                 file, crashes, listening>>

\* The sender is no longer there: the reply that nobody filled in is sent,
\* or refused by message_to_buffer, which ends the connection (HandleEof).
ServeUpFailed(s, i) ==
  /\ Inbound(s, i)
  /\ conn[i].req.op = "UP"
  /\ conn[i].from \notin listening
  /\ conn' = Replied(conn, i, GarbageReply)
  /\ link' = [link EXCEPT ![s] = NoConn]
  /\ UNCHANGED <<pc, status, state, table, todo, chan, serving, answer, thread,
                 tconn, file, crashes, listening>>

\* A write is applied first and forwarded after, by a primary whose backup
\* is thought to be up.
ForwardedButDel(m) == m.op \in {"PUT", "UPDATE"}
Forwarded(m) == m.op \in Writes

ServeWrite(s, i) ==
  LET m == conn[i].req
      r == Answer(m, table[s]) IN
  /\ Inbound(s, i)
  /\ m.op \in Writes
  /\ table' = [table EXCEPT ![s] = Apply(m, @)]
  /\ IF Replicates(s) /\ Forwarded(m) /\ link[s] # NoConn
     THEN /\ pc' = [pc EXCEPT ![s] = "repl"]
          /\ chan' = [chan EXCEPT ![s] = link[s]]
          /\ serving' = [serving EXCEPT ![s] = i]
          /\ answer' = [answer EXCEPT ![s] = r]
          /\ conn' = Sent(conn, link[s], m)
          /\ UNCHANGED state
     ELSE /\ state' = [state EXCEPT ![s] =
                         IF Replicates(s) /\ Forwarded(m) THEN DOWN ELSE @]
          /\ conn' = Replied(conn, i, r)
          /\ UNCHANGED <<pc, chan, serving, answer>>
  /\ UNCHANGED <<status, todo, link, thread, tconn, file, crashes, listening>>

\* The global state after network_send_receive() to the backup.
KeptState(answered, st) == st
AfterForward(answered, st) == IF answered THEN st ELSE DOWN

\* The backup answered, whatever it said; or its connection is broken.  The
\* pointer in shared.current_backup stays, closed.
ForwardDone(s) ==
  LET i == chan[s]
      rest == IF Answered(i) THEN Taken(conn, i) ELSE Hungup(conn, i) IN
  /\ pc[s] = "repl"
  /\ Answered(i) \/ Broken(i)
  /\ conn' = Replied(rest, serving[s], answer[s])
  /\ state' = [state EXCEPT ![s] = AfterForward(Answered(i), @)]
  /\ pc' = [pc EXCEPT ![s] = "loop"]
  /\ chan' = [chan EXCEPT ![s] = NoConn]
  /\ serving' = [serving EXCEPT ![s] = NoConn]
  /\ answer' = [answer EXCEPT ![s] = NoReply]
  /\ UNCHANGED <<status, table, todo, link, thread, tconn, file, crashes, listening>>

\* The promotion of a secundary.
NoPromotion(st) == st
PromotedStatus(st) == IF st = SECUNDARY THEN PRIMARY ELSE st
PromotedStillUp(st, x) == x
PromotedState(st, x) == IF st = SECUNDARY THEN DOWN ELSE x

\* The end of the stream on any connection promotes a secundary.
HandleEof(s, i) ==
  /\ Inbound(s, i)
  /\ conn[i].req = NoReq /\ ~conn[i].cOpen
  /\ conn' = Dropped(conn, i)
  /\ status' = [status EXCEPT ![s] = PromotedStatus(@)]
  /\ state' = [state EXCEPT ![s] = PromotedState(status[s], @)]
  /\ UNCHANGED <<pc, table, todo, chan, link, serving, answer, thread, tconn,
                 file, crashes, listening>>

-----------------------------------------------------------------------------
Boot(s) == \/ KeysDone(s) \/ ValueDone(s) \/ UpDone(s) \/ TransferDies(s)
           \/ s = S1 /\ (BootPrimary \/ AskDone)
           \/ s = S2 /\ BootSecundary

Serve(s, i) == \/ Accept(s, i) \/ ServeRead(s, i) \/ ServeWrite(s, i)
               \/ ServeUp(s, i) \/ ServeUpFailed(s, i) \/ HandleEof(s, i)

Thread == ThreadConnect \/ ThreadAssign

\* The steps that a running process takes by itself.
ServerStep == \/ \E s \in Server : Boot(s) \/ ForwardDone(s) \/ \E i \in Conn : Serve(s, i)
              \/ Thread

ServerNext == ServerStep \/ \E s \in Server : Listen(s) \/ Crash(s)
=============================================================================
