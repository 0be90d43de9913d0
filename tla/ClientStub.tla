----------------------------- MODULE ClientStub ------------------------------
(***************************************************************************)
(* The table-client processes: rtable_bind, the calls of client_stub.c,    *)
(* which all go through retry_servers(), and rtable_unbind.  S1 is the     *)
(* server of the first argument (server_one), S2 that of the second.       *)
(***************************************************************************)
EXTENDS Sockets

CONSTANTS ClientOps,   \* bound: the operations that the users ask for
          MaxInputs    \* bound: how often each user starts a client or enters a command

ASSUME ClientAssumption ==
  /\ ClientOps \subseteq Writes \cup Reads
  /\ MaxInputs \in Nat

VARIABLES
  cpc,    \* "off", "idle" at the prompt, "wait" in network_send_receive
  cur,    \* rtable->current_server
  sock,   \* the open connection to it, NoConn when there is none
  tries,  \* which of the sends of retry_servers() this is
  creq,   \* the request of the call
  inputs   \* inputs of the user so far

clientVars == <<cpc, cur, sock, tries, creq, inputs>>

MaxTries == 4

ClientTypeOK ==
  /\ cpc \in [Client -> {"off", "idle", "wait"}]
  /\ cur \in [Client -> Server]
  /\ sock \in [Client -> Conn \cup {NoConn}]
  /\ tries \in [Client -> 0..MaxTries]
  /\ creq \in [Client -> Request]
  /\ inputs \in [Client -> 0..MaxInputs]

ClientInit ==
  /\ cpc = [c \in Client |-> "off"]
  /\ cur = [c \in Client |-> S1]
  /\ sock = [c \in Client |-> NoConn]
  /\ tries = [c \in Client |-> 0]
  /\ creq = [c \in Client |-> NoReq]
  /\ inputs = [c \in Client |-> 0]

\* The messages that the rtable_ operations build.
CallRequest ==
  {Msg(op, k, v) : op \in ClientOps \cap {"PUT", "UPDATE"}, k \in Key, v \in Val}
    \cup {Msg(op, k, NoVal) : op \in ClientOps \cap {"DEL", "GET"}, k \in Key}
    \cup {Plain(op) : op \in ClientOps \cap {"KEYS", "SIZE"}}

\* Without a connection to the first server the program ends.
Bind(c) ==
  /\ cpc[c] = "off" /\ inputs[c] < MaxInputs
  /\ S1 \in listening /\ HasRoom
  /\ conn' = Opened(conn, NewConn, c, S1, NoReq)
  /\ cpc' = [cpc EXCEPT ![c] = "idle"]
  /\ cur' = [cur EXCEPT ![c] = S1]
  /\ sock' = [sock EXCEPT ![c] = NewConn]
  /\ inputs' = [inputs EXCEPT ![c] = @ + 1]
  /\ UNCHANGED <<tries, creq, listening>>

Call(c, m) ==
  /\ cpc[c] = "idle" /\ inputs[c] < MaxInputs
  /\ cpc' = [cpc EXCEPT ![c] = "wait"]
  /\ tries' = [tries EXCEPT ![c] = 1]
  /\ creq' = [creq EXCEPT ![c] = m]
  /\ inputs' = [inputs EXCEPT ![c] = @ + 1]
  /\ conn' = IF sock[c] = NoConn THEN conn ELSE Sent(conn, sock[c], m)
  /\ UNCHANGED <<cur, sock, listening>>

Done(c) ==
  /\ cpc' = [cpc EXCEPT ![c] = "idle"]
  /\ tries' = [tries EXCEPT ![c] = 0]
  /\ creq' = [creq EXCEPT ![c] = NoReq]
  /\ UNCHANGED <<cur, inputs, listening>>

Receive(c) ==
  /\ cpc[c] = "wait" /\ sock[c] # NoConn
  /\ Answered(sock[c])
  /\ conn' = Taken(conn, sock[c])
  /\ UNCHANGED sock
  /\ Done(c)

\* network_send_receive() returned NULL; it has closed the descriptor.
FailedButEof(c) == cpc[c] = "wait" /\ sock[c] = NoConn
Failed(c) == cpc[c] = "wait" /\ (sock[c] # NoConn => Broken(sock[c]))
Closing(c) == IF sock[c] = NoConn THEN conn ELSE Hungup(conn, sock[c])

MoreTriesByOne(n) == n <= MaxTries
MoreTries(n) == n < MaxTries

OtherServer(s) == IF s = S1 THEN S2 ELSE S1

\* switch_server(), and the next send of retry_servers().
Switch(c) ==
  LET t == OtherServer(cur[c]) IN
  /\ Failed(c) /\ MoreTries(tries[c])
  /\ cur' = [cur EXCEPT ![c] = t]
  /\ tries' = [tries EXCEPT ![c] = @ + 1]
  /\ \/ /\ t \in listening /\ HasRoom
        /\ conn' = Opened(Closing(c), NewConn, c, t, creq[c])
        /\ sock' = [sock EXCEPT ![c] = NewConn]
     \/ /\ t \notin listening
        /\ conn' = Closing(c)
        /\ sock' = [sock EXCEPT ![c] = NoConn]
  /\ UNCHANGED <<cpc, creq, inputs, listening>>

\* The fourth send failed too: the call prints "There was no answer".
GiveUp(c) ==
  /\ Failed(c) /\ ~MoreTries(tries[c])
  /\ conn' = Closing(c)
  /\ sock' = [sock EXCEPT ![c] = NoConn]
  /\ Done(c)

\* The user quits, or kills the client in the middle of a call.
Exit(c) ==
  /\ cpc[c] # "off"
  /\ conn' = Vanished(conn, c)
  /\ cpc' = [cpc EXCEPT ![c] = "off"]
  /\ sock' = [sock EXCEPT ![c] = NoConn]
  /\ tries' = [tries EXCEPT ![c] = 0]
  /\ creq' = [creq EXCEPT ![c] = NoReq]
  /\ cur' = [cur EXCEPT ![c] = S1]
  /\ UNCHANGED <<inputs, listening>>

ClientStep(c) == Receive(c) \/ Switch(c) \/ GiveUp(c)
ClientNext == \E c \in Client : \/ Bind(c) \/ ClientStep(c) \/ Exit(c)
                                \/ \E m \in CallRequest : Call(c, m)
=============================================================================
