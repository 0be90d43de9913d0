------------------------------ MODULE PollLoop -------------------------------
(***************************************************************************)
(* The poll loop of table-server.c over its array of descriptors, with     *)
(* network_receive_send() and network_send_receive() at the two ends of    *)
(* each connection, down to the bytes under way and to what read_all and   *)
(* write_all return.                                                       *)
(*                                                                         *)
(* The server is one that forwards nothing: a secundary, or one that has   *)
(* promoted itself.  A step goes from one call that may block to the next; *)
(* sockets block, so that write_all writes everything in one call, or      *)
(* fails.  A connection is used once.                                      *)
(***************************************************************************)
EXTENDS Wire

CONSTANTS Conn,         \* the connections, numbered as they are made
          NoConn,       \* the -1 of a free position
          MAX_SOCKETS,  \* positions of connections[]
          InitTable,    \* the contents update_state() has left in the table
          Asked,        \* bound: the requests that clients make
          MaxCalls,     \* bound: how many requests they make
          MayDie        \* whether the server may be killed

LISTENING_SOCKET_POS == 0
STDIN_POS == 1
N_POS_NOT_FREE == 2
LISTEN_BACKLOG == 0

ASSUME PollAssumption ==
  /\ Conn \subseteq Nat /\ NoConn \notin Conn
  /\ InitTable \in Table
  /\ MAX_SOCKETS \in Nat /\ MAX_SOCKETS > N_POS_NOT_FREE
  /\ Asked \subseteq ClientRequest
  /\ MaxCalls \in Nat
  /\ MayDie \in BOOLEAN

Slot == N_POS_NOT_FREE..MAX_SOCKETS - 1

PRIMARY == 1
SECUNDARY == 2

VARIABLES
  at,        \* the call the server is in: see At
  fds,       \* connections[].fd, from N_POS_NOT_FREE on
  number_clients,
  revents,   \* the clients' positions with POLLIN when poll() returned
  result,    \* what poll() returned, less what has been dealt with
  j,         \* the position of the scan
  size,      \* message_size
  reply,     \* message_resposta, serialised
  table,     \* the contents of tabela
  status,    \* the global status
  backlog,   \* connections that accept() has not returned yet
  toServer, toClient,   \* the bytes under way on each connection
  cOpen, sOpen,         \* whether each end of it is open
  cpc,       \* the call each client is in: see CallState
  creq,      \* the request of its call
  csize,     \* msg_returned of its call
  got,       \* what its last call returned
  calls,     \* requests made so far
  served     \* history: the last request of the client, and its reply

serverVars == <<at, fds, number_clients, revents, result, j, size, reply, table, status>>
streamVars == <<backlog, toServer, toClient, cOpen, sOpen>>
clientVars == <<cpc, creq, csize, got, calls>>
vars == <<serverVars, streamVars, clientVars, served>>

At == {"poll", "scan", "size", "body", "data", "dead"}
Calling == {"body", "size", "data"}
CallState == {"new", "idle", "failed", "done"} \cup Calling
NothingServed == [req |-> NoReq, reply |-> NoReply]

TypeOK ==
  /\ at \in At
  /\ fds \in [Slot -> Conn \cup {NoConn}]
  /\ number_clients \in 0..MAX_SOCKETS - N_POS_NOT_FREE
  /\ revents \subseteq Slot
  /\ result \in -1..MAX_SOCKETS
  /\ j \in N_POS_NOT_FREE..MAX_SOCKETS
  /\ size \in Int
  /\ reply \in Seq(0..255)
  /\ table \in Table
  /\ status \in {PRIMARY, SECUNDARY}
  /\ backlog \in Seq(Conn)
  /\ toServer \in [Conn -> Seq(0..255)]
  /\ toClient \in [Conn -> Seq(0..255)]
  /\ cOpen \in [Conn -> BOOLEAN]
  /\ sOpen \in [Conn -> BOOLEAN]
  /\ cpc \in [Conn -> CallState]
  /\ creq \in [Conn -> Request]
  /\ csize \in [Conn -> Int]
  /\ got \in [Conn -> Reply]
  /\ calls \in 0..MaxCalls
  /\ served \in [Conn -> [req : Request, reply : Reply]]

Init ==
  /\ at = "poll"
  /\ fds = [k \in Slot |-> NoConn]
  /\ number_clients = 0
  /\ revents = {} /\ result = 0 /\ j = N_POS_NOT_FREE
  /\ size = 0 /\ reply = <<>>
  /\ table = InitTable
  /\ status = SECUNDARY
  /\ backlog = <<>>
  /\ toServer = [c \in Conn |-> <<>>] /\ toClient = [c \in Conn |-> <<>>]
  /\ cOpen = [c \in Conn |-> FALSE] /\ sOpen = [c \in Conn |-> FALSE]
  /\ cpc = [c \in Conn |-> "new"]
  /\ creq = [c \in Conn |-> NoReq]
  /\ csize = [c \in Conn |-> 0]
  /\ got = [c \in Conn |-> NoReply]
  /\ calls = 0
  /\ served = [c \in Conn |-> NothingServed]

-----------------------------------------------------------------------------
\* The stream of a connection.

\* read_all of n bytes out of b returns the size of the last piece it read:
\* n only if the bytes came in one piece.
ReadAllResult(b, n) == IF Len(b) >= n THEN 1..n ELSE {}
Rest(b, n) == SubSeq(b, n + 1, Len(b))
First(b, n) == SubSeq(b, 1, n)

\* The stream ends before n bytes have come: read_all returns 0.
Ends(b, n, open) == Len(b) < n /\ ~open

-----------------------------------------------------------------------------
\* main(): one round of the loop.

Readable(c) == toServer[c] # <<>> \/ ~cOpen[c]

Ready == {k \in Slot : fds[k] # NoConn /\ Readable(fds[k])}
           \cup (IF backlog = <<>> THEN {} ELSE {LISTENING_SOCKET_POS})

Free == {k \in Slot : fds[k] = NoConn}
FindsLaterOnly == LET later == Free \ {N_POS_NOT_FREE} IN
                  IF later = {} THEN -1 ELSE Min(later)
find_free_connection == IF Free = {} THEN -1 ELSE Min(Free)

\* What result is counted down by: for the listening socket, even when no
\* position was free, and for stdin.
CountsBoth(typed) == IF backlog = <<>> THEN 1 ELSE 2
CountsDown(typed) ==
  Cardinality(typed) +
    (IF backlog # <<>> /\ number_clients - N_POS_NOT_FREE < MAX_SOCKETS THEN 1 ELSE 0)

Accept ==
  LET k == find_free_connection IN
  IF /\ backlog # <<>>
     /\ number_clients - N_POS_NOT_FREE < MAX_SOCKETS
     /\ k # -1
  THEN /\ fds' = [fds EXCEPT ![k] = Head(backlog)]
       /\ number_clients' = number_clients + 1
       /\ backlog' = Tail(backlog)
  ELSE UNCHANGED <<fds, number_clients, backlog>>

\* poll() returns, and a waiting connection and a line on stdin are dealt with.
Poll ==
  /\ at = "poll"
  /\ \E typed \in SUBSET {STDIN_POS} :
       /\ Ready \cup typed # {}
       /\ result' = Cardinality(Ready \cup typed) - CountsDown(typed)
  /\ Accept
  /\ revents' = Ready \cap Slot
  /\ at' = "scan"
  /\ j' = N_POS_NOT_FREE
  /\ UNCHANGED <<size, reply, table, status, toServer, toClient, cOpen, sOpen,
                 clientVars, served>>

\* The positions that the scan has still to serve.
Pending == {k \in revents : k >= j}

\* The scan goes to the next ready position, or the round ends; what it used
\* is written again by the next poll().
Scan ==
  /\ at = "scan"
  /\ \/ /\ Pending # {} /\ result > 0
        /\ j' = Min(Pending)
        /\ at' = "size"
        /\ UNCHANGED <<revents, result>>
     \/ /\ Pending = {} \/ result <= 0
        /\ at' = "poll"
        /\ revents' = {} /\ result' = 0 /\ j' = N_POS_NOT_FREE
  /\ UNCHANGED <<fds, number_clients, size, reply, table, status,
                 streamVars, clientVars, served>>

-----------------------------------------------------------------------------
\* network_receive_send() on position j.

\* It returned 1, and the scan goes on.
NextPosition == at' = "scan" /\ j' = j + 1 /\ size' = 0 /\ reply' = <<>>

FreedLater(c) == sOpen' = [sOpen EXCEPT ![c] = FALSE] /\ UNCHANGED fds
NotClosed(c) == fds' = [fds EXCEPT ![j] = NoConn] /\ UNCHANGED sOpen
Freed(c) == /\ sOpen' = [sOpen EXCEPT ![c] = FALSE]
            /\ fds' = [fds EXCEPT ![j] = NoConn]

\* It returned -1: main() closes the connection, and promotes a secundary.
Drop(c) ==
  /\ Freed(c)
  /\ toServer' = [toServer EXCEPT ![c] = <<>>]
  /\ number_clients' = number_clients - 1
  /\ status' = PRIMARY
  /\ NextPosition
  /\ UNCHANGED <<revents, result, backlog, cOpen, clientVars>>

ReadSize ==
  LET c == fds[j] IN
  /\ at = "size"
  /\ \/ /\ ReadAllResult(toServer[c], 4) # {}
        /\ size' = N32(toServer[c], 1)
        /\ toServer' = [toServer EXCEPT ![c] = Rest(@, 4)]
        /\ at' = "body"
        /\ UNCHANGED <<fds, number_clients, revents, result, j, reply, table, status,
                       backlog, toClient, cOpen, sOpen, clientVars, served>>
     \/ /\ Ends(toServer[c], 4, cOpen[c])
        /\ Drop(c)
        /\ UNCHANGED <<table, toClient, served>>

\* The message is applied, and the size of the answer written: lost, or
\* refused, when the client is gone.
Invoke(c, m) ==
  LET r == Answer(m, table)
      s == IF m.op = "STATUS" THEN Result(status) ELSE r
      b == message_to_buffer(ReplyMessage(m, s)) IN
  /\ table' = Apply(m, table)
  /\ served' = [served EXCEPT ![c] = [req |-> m, reply |-> s]]
  /\ \/ /\ toServer' = [toServer EXCEPT ![c] = Rest(@, size)]
        /\ toClient' = IF cOpen[c] THEN [toClient EXCEPT ![c] = @ \o U32(Len(b))]
                                   ELSE toClient
        /\ reply' = b
        /\ at' = "data"
        /\ UNCHANGED <<fds, number_clients, revents, result, j, size, status, backlog,
                       cOpen, sOpen, clientVars>>
     \/ /\ ~cOpen[c]
        /\ Drop(c)
        /\ UNCHANGED toClient

ReadBody ==
  LET c == fds[j]
      x == buffer_to_message(First(toServer[c], size)) IN
  /\ at = "body"
  /\ \/ \E n \in ReadAllResult(toServer[c], size) :
          IF n = size /\ x # NullMessage
          THEN Invoke(c, Requested(x))
          ELSE Drop(c) /\ UNCHANGED <<table, toClient, served>>
     \/ /\ Ends(toServer[c], size, cOpen[c])
        /\ Drop(c)
        /\ UNCHANGED <<table, toClient, served>>

WriteData ==
  LET c == fds[j] IN
  /\ at = "data"
  /\ \/ /\ toClient' = IF cOpen[c] THEN [toClient EXCEPT ![c] = @ \o reply] ELSE toClient
        /\ NextPosition
        /\ UNCHANGED <<fds, number_clients, revents, result, status, backlog, toServer,
                       cOpen, sOpen, clientVars>>
     \/ /\ ~cOpen[c]
        /\ Drop(c)
        /\ UNCHANGED toClient
  /\ UNCHANGED <<table, served>>

\* The server is killed; what it has written can still be read.
Die ==
  /\ MayDie /\ at # "dead"
  /\ at' = "dead"
  /\ fds' = [k \in Slot |-> NoConn]
  /\ number_clients' = 0
  /\ revents' = {} /\ result' = 0 /\ j' = N_POS_NOT_FREE
  /\ size' = 0 /\ reply' = <<>>
  /\ table' = EmptyTable /\ status' = SECUNDARY
  /\ backlog' = <<>>
  /\ toServer' = [c \in Conn |-> <<>>]
  /\ sOpen' = [c \in Conn |-> FALSE]
  /\ UNCHANGED <<toClient, cOpen, clientVars, served>>

ServerStep == Poll \/ Scan \/ ReadSize \/ ReadBody \/ WriteData

-----------------------------------------------------------------------------
\* network_connect() and network_send_receive() of a client on c.

Connect(c) ==
  /\ cpc[c] = "new" /\ at # "dead"
  /\ \A d \in Conn : d < c => cpc[d] # "new"
  /\ Len(backlog) <= LISTEN_BACKLOG
  /\ backlog' = Append(backlog, c)
  /\ cOpen' = [cOpen EXCEPT ![c] = TRUE]
  /\ sOpen' = [sOpen EXCEPT ![c] = TRUE]
  /\ cpc' = [cpc EXCEPT ![c] = "idle"]
  /\ UNCHANGED <<serverVars, toServer, toClient, creq, csize, got, calls, served>>

\* The call returned NULL, with the descriptor closed or still open.
Fail(c, closed) ==
  /\ cpc' = [cpc EXCEPT ![c] = IF closed THEN "done" ELSE "failed"]
  /\ cOpen' = [cOpen EXCEPT ![c] = ~closed]
  /\ toClient' = [toClient EXCEPT ![c] = <<>>]
  /\ creq' = [creq EXCEPT ![c] = NoReq]
  /\ csize' = [csize EXCEPT ![c] = 0]
  /\ got' = [got EXCEPT ![c] = NoReply]
  /\ served' = [served EXCEPT ![c] = NothingServed]
  /\ UNCHANGED <<serverVars, backlog, sOpen>>

\* Bytes b are written; without effect when the server's end is closed.
Written(c, b) ==
  toServer' = IF sOpen[c] THEN [toServer EXCEPT ![c] = @ \o b] ELSE toServer

RequestBytes(m) == message_to_buffer(RequestMessage(m))

Call(c, m) ==
  /\ cpc[c] = "idle" /\ calls < MaxCalls
  /\ calls' = calls + 1
  /\ \/ /\ Written(c, U32(Len(RequestBytes(m))))
        /\ cpc' = [cpc EXCEPT ![c] = "body"]
        /\ creq' = [creq EXCEPT ![c] = m]
        /\ got' = [got EXCEPT ![c] = NoReply]
        /\ UNCHANGED <<serverVars, backlog, toClient, cOpen, sOpen, csize, served>>
     \/ ~sOpen[c] /\ Fail(c, TRUE) /\ UNCHANGED toServer

WriteBody(c) ==
  /\ cpc[c] = "body"
  /\ \/ /\ Written(c, RequestBytes(creq[c]))
        /\ cpc' = [cpc EXCEPT ![c] = "size"]
        /\ UNCHANGED <<serverVars, backlog, toClient, cOpen, sOpen, creq, csize, got,
                       calls, served>>
     \/ ~sOpen[c] /\ Fail(c, FALSE) /\ UNCHANGED <<toServer, calls>>

ReadReplySize(c) ==
  /\ cpc[c] = "size"
  /\ \/ \E n \in ReadAllResult(toClient[c], 4) :
          IF n = 4
          THEN /\ csize' = [csize EXCEPT ![c] = N32(toClient[c], 1)]
               /\ toClient' = [toClient EXCEPT ![c] = Rest(@, 4)]
               /\ cpc' = [cpc EXCEPT ![c] = "data"]
               /\ UNCHANGED <<serverVars, backlog, toServer, cOpen, sOpen, creq, got,
                              calls, served>>
          ELSE Fail(c, TRUE) /\ UNCHANGED <<toServer, calls>>
     \/ Ends(toClient[c], 4, sOpen[c]) /\ Fail(c, TRUE) /\ UNCHANGED <<toServer, calls>>

\* The last read_all returns with n bytes, or at the end of the stream.
NeverBlocks(b, n, open) == TRUE
ReadReturns(b, n, open) == Len(b) >= n \/ ~open

\* Its result is not looked at: at the end of the stream a buffer that nothing
\* was read into is taken for the reply.
ReadReplyData(c) ==
  LET b == toClient[c] IN
  /\ cpc[c] = "data"
  /\ \/ /\ ReadReturns(b, csize[c], sOpen[c])
        /\ got' = [got EXCEPT ![c] =
                     IF Len(b) >= csize[c]
                     THEN Returned(buffer_to_message(First(b, csize[c])))
                     ELSE GarbageReply]
        /\ toClient' = [toClient EXCEPT ![c] = Rest(@, csize[c])]
        /\ csize' = [csize EXCEPT ![c] = 0]
        /\ cpc' = [cpc EXCEPT ![c] = "idle"]
        /\ UNCHANGED <<serverVars, backlog, toServer, cOpen, sOpen, creq, calls, served>>
     \/ Ends(b, csize[c], sOpen[c]) /\ Fail(c, FALSE) /\ UNCHANGED <<toServer, calls>>

\* The client ends, or is killed.
Exit(c) ==
  /\ cpc[c] \notin {"new", "done"}
  /\ cpc' = [cpc EXCEPT ![c] = "done"]
  /\ cOpen' = [cOpen EXCEPT ![c] = FALSE]
  /\ toClient' = [toClient EXCEPT ![c] = <<>>]
  /\ creq' = [creq EXCEPT ![c] = NoReq]
  /\ csize' = [csize EXCEPT ![c] = 0]
  /\ got' = [got EXCEPT ![c] = NoReply]
  /\ served' = [served EXCEPT ![c] = NothingServed]
  /\ UNCHANGED <<serverVars, backlog, toServer, sOpen, calls>>

ClientStep(c) == WriteBody(c) \/ ReadReplySize(c) \/ ReadReplyData(c)

Next == \/ ServerStep \/ Die
        \/ \E c \in Conn : \/ Connect(c) \/ ClientStep(c) \/ Exit(c)
                           \/ \E m \in Asked : Call(c, m)

Spec == Init /\ [][Next]_vars
FairSpec == /\ Spec
            /\ WF_vars(ServerStep)
            /\ \A c \in Conn : WF_vars(ClientStep(c))

-----------------------------------------------------------------------------
Occupied == {k \in Slot : fds[k] # NoConn}
Accepted == {fds[k] : k \in Occupied}

\* Every connection whose server end is open is in the backlog or in exactly
\* one slot of connections[], every other one is in neither, and
\* number_clients counts the slots in use: no descriptor leaks, and none is
\* polled after its close (main, accept and close).
SlotsExact ==
  /\ number_clients = Cardinality(Occupied)
  /\ Cardinality(Accepted) = Cardinality(Occupied)
  /\ ToSet(backlog) \cap Accepted = {}
  /\ ToSet(backlog) \cup Accepted = {c \in Conn : sOpen[c]}

\* A reply that network_send_receive returns is the one invoke() gave to this
\* very request, whatever was sent on the connection before and however the
\* bytes were parsed at both ends.  The exception is a server killed between
\* the size of the reply and the reply.
CallAnswered ==
  \A c \in Conn : got[c] # NoReply =>
    \/ served[c] = [req |-> creq[c], reply |-> got[c]]
    \/ got[c] = GarbageReply /\ at = "dead"

\* A round of the loop ends only when every position that poll() reported has
\* been looked at: counting result down for the listening socket and for stdin
\* never stops the scan before the last ready client.
RoundServesAll ==
  [][at = "scan" /\ at' = "poll" => Pending = {}]_vars

\* A connection waits in the backlog only as long as no slot is free:
\* find_free_connection finds a slot wherever it was freed, and accept() gets
\* its turn however many clients keep the server busy.
WaitingIsAccepted ==
  (backlog # <<>> /\ Free # {}) ~> (backlog = <<>> \/ Free = {})

\* A client that has been accepted gets out of network_send_receive: with its
\* reply, or because the server closed its end or died.  Requests of the other
\* clients, half-sent ones included, only delay it.
AcceptedCallReturns ==
  \A c \in Conn : (cpc[c] \in Calling /\ c \in Accepted) ~> cpc[c] \notin Calling

\* The server closes a connection only after its client did: read_all "garante
\* a receção de len bytes", so that a short message means the end of the stream.
DropsOnlyHungUp ==
  [][\A c \in Conn : sOpen[c] /\ ~sOpen'[c] /\ at' # "dead" => ~cOpen[c]]_vars
=============================================================================
