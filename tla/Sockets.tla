------------------------------- MODULE Sockets -------------------------------
(***************************************************************************)
(* The TCP connections of network_client.c.  Every process sends one       *)
(* request at a time on a connection and blocks until the reply or the end *)
(* of the stream arrives, so a connection holds at most one request and    *)
(* one reply.  Each end is closed on its own: a request that was sent      *)
(* before its sender died is still read and served.  A connection closed   *)
(* at both ends is forgotten and its identifier is used again.             *)
(***************************************************************************)
EXTENDS TableSkel

CONSTANTS S1,       \* the server that is told the address of the other one
          S2,       \* the server that is not
          Client,   \* the table-client processes
          Conn,     \* connection identifiers: bounds the connections open at once
          NoConn    \* the NULL struct server_t *

Server == {S1, S2}
Proc == Server \cup Client

ASSUME SocketsAssumption ==
  /\ S1 # S2 /\ S1 \notin Client /\ S2 \notin Client
  /\ NoConn \notin Conn

VARIABLES conn,       \* the connections
          listening   \* the servers whose port accepts connections

Connection == [from  : Proc,     to    : Server,
               acc   : BOOLEAN,  \* accept() has returned it to the server
               req   : Request,  resp  : Reply,
               cOpen : BOOLEAN,  \* the end of the process that connected
               sOpen : BOOLEAN]  \* the end of the server

SocketsTypeOK ==
  /\ conn \in [Conn -> Connection]
  /\ listening \subseteq Server

NewConnection(p, s, m) ==
  [from |-> p, to |-> s, acc |-> FALSE, req |-> m, resp |-> NoReply,
   cOpen |-> TRUE, sOpen |-> TRUE]

FreeConn ==
  [from |-> S1, to |-> S1, acc |-> FALSE, req |-> NoReq, resp |-> NoReply,
   cOpen |-> FALSE, sOpen |-> FALSE]

Closed(c) == ~c.cOpen /\ ~c.sOpen
Tidy(c) == IF Closed(c) THEN FreeConn ELSE c

HasRoom == \E i \in Conn : Closed(conn[i])
NewConn == CHOOSE i \in Conn : Closed(conn[i])

\* The connections cs after p connected to s, with request m sent.
Opened(cs, i, p, s, m) == [cs EXCEPT ![i] = NewConnection(p, s, m)]

\* network_send_receive() on i up to the blocking read.
Sent(cs, i, m) == [cs EXCEPT ![i].req = IF cs[i].sOpen THEN m ELSE NoReq]

\* The blocking read ends with a reply, or with the end of the stream.
Answered(i) == conn[i].resp # NoReply
Broken(i)   == conn[i].resp = NoReply /\ ~conn[i].sOpen

\* The reply has been read.
Taken(cs, i) == [cs EXCEPT ![i].resp = NoReply]

\* The server has written reply r; it is lost when the other end is gone.
Replied(cs, i, r) ==
  [cs EXCEPT ![i].req  = NoReq,
             ![i].resp = IF cs[i].cOpen THEN r ELSE NoReply]

\* close() by the process that connected, and by the server.
CutAtClient(c) == Tidy([c EXCEPT !.cOpen = FALSE, !.resp = NoReply])
CutAtServer(c) == Tidy([c EXCEPT !.sOpen = FALSE, !.acc = FALSE, !.req = NoReq])
Hungup(cs, i)  == [cs EXCEPT ![i] = CutAtClient(@)]
Dropped(cs, i) == [cs EXCEPT ![i] = CutAtServer(@)]

\* Process p is gone and the kernel closes all its ends.
Vanished(cs, p) ==
  [i \in Conn |-> IF cs[i].from = p THEN CutAtClient(cs[i])
                  ELSE IF cs[i].to = p THEN CutAtServer(cs[i])
                  ELSE cs[i]]
=============================================================================
