----------------------- MODULE PrimaryBackupAgreement ------------------------
(***************************************************************************)
(* ReplicasAgree holds in every reachable state.  It compares the tables   *)
(* only between two requests, so the invariant says what is still missing  *)
(* in between: at the backup, a write that is being forwarded (Unsettled); *)
(* at a server that starts, the keys that it has still to fetch, and the   *)
(* value that it has been sent and not yet read (KeysListed, Fetching).    *)
(***************************************************************************)
EXTENDS PrimaryBackupSafety

\* The write that s is forwarding.
Forwarding(s) == conn[serving[s]].req

\* s has applied a write on k, and its backup has not answered it.
Unsettled(s, k) ==
  /\ pc[s] = "repl"
  /\ conn[chan[s]].resp = NoReply
  /\ k = Forwarding(s).key

\* On k, q has what p has, or will have it when it serves p's forward.
AgreeOn(p, q, k) ==
  IF Unsettled(p, k)
  THEN conn[chan[p]].sOpen => table[p][k] = Apply(Forwarding(p), table[q])[k]
  ELSE table[p][k] = table[q][k]

\* A connection carries a request or a reply, and a server's own connection
\* only while the server is blocked on it.
OneCall ==
  /\ \A j \in Conn : conn[j].req # NoReq => conn[j].sOpen
  /\ \A j \in Conn : conn[j].resp # NoReply => conn[j].req = NoReq
  /\ \A j \in Conn :
       conn[j].from \in Server /\ conn[j].cOpen
         /\ (conn[j].req # NoReq \/ conn[j].resp # NoReply) =>
           pc[conn[j].from] \in Booting \cup {"repl"} /\ j = chan[conn[j].from]
  /\ \A c \in Client :
       cpc[c] = "idle" /\ sock[c] # NoConn =>
         conn[sock[c]].req = NoReq /\ conn[sock[c]].resp = NoReply

\* What a server that starts has asked for, until it is answered; and before
\* the list of keys arrives its table is empty.
Waits(s) == conn[chan[s]].sOpen /\ conn[chan[s]].resp = NoReply

Asking(s) ==
  /\ pc[s] = "keys" /\ Waits(s) => conn[chan[s]].req.op = "KEYS"
  /\ pc[s] = "get" /\ Waits(s) =>
       conn[chan[s]].req.op = "GET" /\ conn[chan[s]].req.key = NextKey(todo[s])
  /\ pc[s] = "up" /\ Waits(s) => conn[chan[s]].req.op = "UP"
  /\ pc[s] = "get" => todo[s] # {}
  /\ pc[s] \in {"down", "boot", "ask", "keys"} => table[s] = EmptyTable

\* A write that is being forwarded has been applied, waits to be answered, and
\* is at the backup or was.
ForwardOK(s) ==
  pc[s] = "repl" =>
    /\ conn[serving[s]].acc
    /\ Forwarding(s).op \in Writes
    /\ conn[serving[s]].from \in Client \/ ~conn[serving[s]].cOpen
    /\ conn[chan[s]].sOpen /\ conn[chan[s]].resp = NoReply
         => conn[chan[s]].req = Forwarding(s)
    /\ table[s][Forwarding(s).key] = Apply(Forwarding(s), table[s])[Forwarding(s).key]

\* A server whose start-up transfer was cut off does not get a primary, and
\* S1 learns of the death of S2 before the transfer of its successor is cut off.
CutTransfer ==
  /\ \A s \in Server :
       pc[s] \in {"keys", "get", "up"} /\ ~conn[chan[s]].sOpen =>
         ~Replicates(OtherServer(s)) /\ ~PendingUp(OtherServer(s))
  /\ pc[S1] = "ask" /\ ~conn[chan[S1]].sOpen /\ pc[S2] \in Booting => conn[chan[S2]].sOpen

\* The reply to OC_GET of "!" lists the keys of the other server.
KeysListed(s) ==
  pc[s] = "keys" /\ conn[chan[s]].sOpen /\ conn[chan[s]].resp # NoReply =>
    \A k \in Key \ exposed :
      \/ Unsettled(OtherServer(s), k)
      \/ k \in conn[chan[s]].resp.keys <=> table[OtherServer(s)][k] # NoVal

\* A server that copies has the keys that are not on its list any more, and a
\* value that it has been sent is the one of the other server.
Fetching(s) ==
  pc[s] = "get" /\ conn[chan[s]].sOpen =>
    \A k \in Key \ exposed :
      \/ Unsettled(OtherServer(s), k)
      \/ /\ table[s][k] = IF k \in todo[s] THEN NoVal ELSE table[OtherServer(s)][k]
         /\ conn[chan[s]].resp.type = "VALUE" /\ k = NextKey(todo[s]) =>
              conn[chan[s]].resp.val = table[OtherServer(s)][k]

\* When the copy is complete, and when its OC_UP is served.
Copied(s) ==
  pc[s] = "up" /\ conn[chan[s]].sOpen =>
    \A k \in Key \ exposed :
      IF conn[chan[s]].resp = NoReply
      THEN Unsettled(OtherServer(s), k) \/ table[OtherServer(s)][k] = table[s][k]
      ELSE AgreeOn(OtherServer(s), s, k)

\* A server that forwards, or has an OC_UP to serve, agrees with the other one.
Backed(p) ==
  (Replicates(p) \/ PendingUp(p)) /\ Polling(OtherServer(p)) =>
    \A k \in Key \ exposed : AgreeOn(p, OtherServer(p), k)

\* What is known of the copy that s makes, and of the backup that it has.
CopyOK(s) == KeysListed(s) /\ Fetching(s) /\ Copied(s) /\ Backed(s)

Agreement ==
  /\ OneCall
  /\ CutTransfer
  /\ \A s \in Server : Asking(s) /\ ForwardOK(s) /\ CopyOK(s)

AgreementInv == SafetyInv /\ Agreement
-----------------------------------------------------------------------------
\* The types that the proofs below use.
Typed ==
  /\ conn \in [Conn -> Connection]
  /\ pc \in [Server -> PC]
  /\ status \in [Server -> {0, PRIMARY, SECUNDARY}]
  /\ state \in [Server -> {NONE, UP, DOWN}]
  /\ table \in [Server -> Table]
  /\ todo \in [Server -> SUBSET Key]
  /\ chan \in [Server -> Conn \cup {NoConn}]
  /\ link \in [Server -> Conn \cup {NoConn}]
  /\ serving \in [Server -> Conn \cup {NoConn}]
  /\ sock \in [Client -> Conn \cup {NoConn}]
  /\ cpc \in [Client -> {"off", "idle", "wait"}]
  /\ exposed \subseteq Key
  /\ \A s \in Server : pc[s] \in Booting \cup {"repl"} => chan[s] \in Conn
  /\ \A s \in Server : pc[s] = "repl" => serving[s] \in Conn

\* They follow from the type invariant.
LEMMA TypedNow == TypeInv => Typed
BY DEF TypeInv, TypeOK, BlockedOK, SocketsTypeOK, ServerTypeOK, ClientTypeOK, Typed

\* They hold after a step, too.
LEMMA TypedNext == TypeInv' => Typed'
BY TypedNow, PTL

\* A write changes the value of its key only, by the value that it had, and a
\* second time changes nothing.
LEMMA WriteOnce ==
  ASSUME NEW m \in Request, m.op \in Writes
  PROVE  /\ m.key \in Key
         /\ \A t \in Table, k \in Key : k # m.key => Apply(m, t)[k] = t[k]
         /\ \A t, u \in Table : t[m.key] = u[m.key] =>
              Apply(m, t)[m.key] = Apply(m, u)[m.key]
         /\ \A t \in Table : Apply(m, Apply(m, t))[m.key] = Apply(m, t)[m.key]
         /\ \A t \in Table : Apply(m, t) \in Table
<1>1. m.key \in Key /\ m.val \in Val \cup {NoVal}
  BY DEF Request, Writes, Plain, Msg
<1>2. ASSUME NEW t \in Table
      PROVE  /\ Apply(m, t) \in Table
             /\ \A k \in Key : k # m.key => Apply(m, t)[k] = t[k]
             /\ Apply(m, t)[m.key] =
                  CASE m.op = "PUT"    -> IF t[m.key] = NoVal THEN m.val ELSE t[m.key]
                    [] m.op = "UPDATE" -> IF t[m.key] # NoVal THEN m.val ELSE t[m.key]
                    [] OTHER           -> NoVal
  BY <1>1 DEF Apply, Table, Writes
<1>3. \A t, u \in Table : t[m.key] = u[m.key] => Apply(m, t)[m.key] = Apply(m, u)[m.key]
  BY <1>2
<1>4. ASSUME NEW t \in Table PROVE Apply(m, Apply(m, t))[m.key] = Apply(m, t)[m.key]
  <2>1. PICK u \in Table : u = Apply(m, t)
    BY <1>2
  <2>2. Apply(m, u)[m.key] = u[m.key]
    BY <1>2, <2>1
  <2> QED
    BY <2>1, <2>2
<1> QED
  BY <1>1, <1>2, <1>3, <1>4

\* A process that is blocked holds its end of the connection it waits on, and
\* one that forwards holds the one it has to answer.
LEMMA BlockedOn ==
  ASSUME TypeInv, Safe, NEW s \in Server
  PROVE  /\ pc[s] \in Booting \cup {"repl"} =>
              /\ chan[s] \in Conn /\ conn[chan[s]] \in Connection
              /\ conn[chan[s]].from = s /\ conn[chan[s]].cOpen
              /\ conn[chan[s]].sOpen => conn[chan[s]].to = OtherServer(s)
         /\ pc[s] = "repl" =>
              /\ serving[s] \in Conn /\ conn[serving[s]] \in Connection
              /\ conn[serving[s]].to = s /\ conn[serving[s]].sOpen
              /\ conn[serving[s]].from # s
              /\ Forwarding(s) \in Request
              /\ Replicates(s)
BY TwoServers DEF TypeInv, TypeOK, BlockedOK, SocketsTypeOK, Connection, Safe, BootConn,
   OwnLinks, ServerEnds, Forwarding, Modes

\* While s does not poll, nobody has read anything from it, and nobody takes
\* it for a primary.
LEMMA NotPolling ==
  ASSUME TypeInv, Safe, NEW s \in Server, ~Polling(s)
  PROVE  /\ ~Replicates(s) /\ ~PendingUp(s)
         /\ pc[OtherServer(s)] = "keys" /\ conn[chan[OtherServer(s)]].sOpen =>
              conn[chan[OtherServer(s)]].resp = NoReply
         /\ ~(pc[OtherServer(s)] \in {"get", "up"} /\ conn[chan[OtherServer(s)]].sOpen)
<1> USE TwoServers
<1>1. ~Replicates(s) /\ ~PendingUp(s)
  BY DEF Safe, Modes, UpRequests, Replicates, PRIMARY
<1>2. pc[OtherServer(s)] = "keys" /\ conn[chan[OtherServer(s)]].sOpen =>
        conn[chan[OtherServer(s)]].resp = NoReply
  BY BlockedOn DEF Safe, ServerEnds, Booting
<1>3. ~(pc[OtherServer(s)] \in {"get", "up"} /\ conn[chan[OtherServer(s)]].sOpen)
  BY DEF Safe, BootConn, Booting
<1> QED
  BY <1>1, <1>2, <1>3

\* The same after a step.
LEMMA NotPollingNext ==
  ASSUME TypeInv', Safe', NEW s \in Server, ~Polling(s)'
  PROVE  (/\ ~Replicates(s) /\ ~PendingUp(s)
          /\ pc[OtherServer(s)] = "keys" /\ conn[chan[OtherServer(s)]].sOpen =>
               conn[chan[OtherServer(s)]].resp = NoReply
          /\ ~(pc[OtherServer(s)] \in {"get", "up"} /\ conn[chan[OtherServer(s)]].sOpen))'
<1> USE TwoServers
<1>1. ~Replicates(s)' /\ ~PendingUp(s)'
  BY DEF Safe, Modes, UpRequests, Replicates, PRIMARY
<1>2. pc'[OtherServer(s)] = "keys" => conn'[chan'[OtherServer(s)]].to = s
                                     /\ chan'[OtherServer(s)] \in Conn
  BY DEF Safe, BootConn, Booting, TypeInv, BlockedOK
<1>3. ~(pc'[OtherServer(s)] = "keys" /\ conn'[chan'[OtherServer(s)]].sOpen
          /\ conn'[chan'[OtherServer(s)]].resp # NoReply)
  BY <1>2 DEF Safe, ServerEnds
<1>4. ~(pc'[OtherServer(s)] \in {"get", "up"} /\ conn'[chan'[OtherServer(s)]].sOpen)
  BY DEF Safe, BootConn, Booting
<1> QED
  BY <1>1, <1>3, <1>4

\* The request for the keys that is waiting on a connection which a server
\* holds is the one that it is blocked on.
LEMMA KeysCaller ==
  ASSUME TypeInv, Safe, Agreement, NEW i \in Conn,
         conn[i].from \in Server, conn[i].cOpen, conn[i].req.op = "KEYS"
  PROVE  pc[conn[i].from] = "keys" /\ chan[conn[i].from] = i /\ conn[i].resp = NoReply
<1> DEFINE s == conn[i].from
<1>1. conn[i].req # NoReq
  BY DEF NoReq, Plain, Msg
<1>2. /\ pc[s] \in Booting \cup {"repl"} /\ i = chan[s]
      /\ conn[i].resp = NoReply /\ conn[i].sOpen
  BY <1>1 DEF Agreement, OneCall
<1>3. s \in Server /\ Asking(s) /\ ForwardOK(s)
  BY DEF Agreement
<1> HIDE DEF s
<1>4. pc[s] # "ask"
  BY <1>2, <1>3 DEF Safe, BootConn, Booting
<1>5. pc[s] \notin {"get", "up"}
  BY <1>2, <1>3 DEF Asking, Waits
<1>6. pc[s] # "repl"
  <2>1. pc[s] = "repl" => conn[i].req = Forwarding(s) /\ Forwarding(s).op \in Writes
    BY <1>2, <1>3 DEF ForwardOK
  <2> QED
    BY <2>1 DEF Writes
<1> QED
  BY <1>2, <1>4, <1>5, <1>6 DEF Booting, s

\* The history variable forgets keys only when a server starts.
LEMMA ExposedGrows ==
  ASSUME Exposed,
         \A s \in Server : ~StartsAlone(s),
         \A i \in Conn : conn[i].req.op = "KEYS" /\ conn[i].from \in Server
           /\ conn[i].cOpen => conn'[i].req # NoReq \/ ~conn'[i].acc
  PROVE  /\ exposed \subseteq exposed'
         /\ \A s \in Server, i \in Conn : AnsweredAlone(s, i) => conn[i].req.key \in exposed'
<1>1. \A i \in Conn : ~TransferStarts(i)
  BY DEF TransferStarts
<1>2. exposed' = exposed \cup {conn[i].req.key : i \in
                         {j \in Conn : \E s \in Server : AnsweredAlone(s, j)}}
  BY <1>1 DEF Exposed
<1> QED
  BY <1>2

\* When a server starts alone, the keys that are not exposed are in no table.
LEMMA ExposedAlone ==
  ASSUME Exposed, NEW s \in Server, StartsAlone(s)
  PROVE  \A k \in Key \ exposed', t \in Server : table[t][k] = NoVal
<1>1. exposed' = UNION {KeysOf(table[t]) : t \in Server}
  BY DEF Exposed
<1> QED
  BY <1>1 DEF KeysOf

\* A step that leaves the forward of t alone.
LEMMA ForwardKept ==
  ASSUME TypeInv, Safe, NEW t \in Server,
         pc'[t] = pc[t], chan'[t] = chan[t], serving'[t] = serving[t],
         table'[t] = table[t], ForwardOK(t),
         pc[t] = "repl" =>
           /\ conn'[serving[t]].acc /\ conn'[serving[t]].req = Forwarding(t)
           /\ conn'[serving[t]].from = conn[serving[t]].from
           /\ conn'[serving[t]].cOpen => conn[serving[t]].cOpen
           /\ conn'[chan[t]].resp = conn[chan[t]].resp
           /\ conn'[chan[t]].sOpen =>
                conn[chan[t]].sOpen /\ conn'[chan[t]].req = conn[chan[t]].req
  PROVE  /\ ForwardOK(t)'
         /\ pc[t] = "repl" => Forwarding(t)' = Forwarding(t)
         /\ \A k \in Key : Unsettled(t, k)' <=> Unsettled(t, k)
<1>1. pc[t] = "repl" => Forwarding(t)' = Forwarding(t)
  BY DEF Forwarding
<1>2. \A k \in Key : Unsettled(t, k)' <=> Unsettled(t, k)
  BY <1>1 DEF Unsettled
<1>3. ForwardOK(t)'
  <2> SUFFICES ASSUME pc[t] = "repl" PROVE ForwardOK(t)'
    BY DEF ForwardOK
  <2>1. /\ Forwarding(t)' = Forwarding(t)
        /\ table'[t][Forwarding(t)'.key] = Apply(Forwarding(t)', table'[t])[Forwarding(t)'.key]
        /\ Forwarding(t).op \in Writes
    BY <1>1 DEF ForwardOK
  <2> QED
    BY <2>1 DEF ForwardOK
<1> QED
  BY <1>1, <1>2, <1>3

-----------------------------------------------------------------------------
\* Steps that change no table.

\* In this step a server in its poll loop answers the request on j, neither a
\* write nor one for the keys.
Answers(j) ==
  /\ conn[j].sOpen /\ conn[j].req # NoReq
  /\ pc[conn[j].to] = "loop"
  /\ conn[j].req.op \notin Writes \cup {"KEYS"}
  /\ conn'[j].req = NoReq
  /\ conn'[j].resp # NoReply
  /\ conn[j].req.op = "GET" /\ conn'[j].resp.type = "VALUE" =>
       conn'[j].resp.val = table[conn[j].to][conn[j].req.key]

\* No server starts a call or ends one, and a server that forwards a write
\* answers nobody.
CallsKept ==
  /\ \A j \in Conn : conn'[j].req # NoReq => conn'[j].sOpen
  /\ \A j \in Conn : conn'[j].resp # NoReply => conn'[j].req = NoReq
  /\ \A j \in Conn :
       conn'[j].from \in Server /\ conn'[j].cOpen
         /\ (conn'[j].req # NoReq \/ conn'[j].resp # NoReply) =>
           /\ conn[j].from = conn'[j].from /\ conn[j].cOpen
           /\ conn[j].req # NoReq \/ conn[j].resp # NoReply
  /\ \A j \in Conn :
       conn[j].from \in Server /\ conn[j].cOpen =>
         /\ conn'[j].sOpen = conn[j].sOpen
         /\ Answers(j) \/ (conn'[j].req = conn[j].req /\ conn'[j].resp = conn[j].resp)
  /\ \A j \in Conn :
       conn[j].sOpen /\ pc[conn[j].to] = "repl" /\ conn[j].req # NoReq =>
         /\ conn'[j].acc = conn[j].acc /\ conn'[j].req = conn[j].req
         /\ conn'[j].from = conn[j].from
         /\ conn'[j].cOpen => conn[j].cOpen

\* A client at its prompt has asked nothing.
IdleClients ==
  \A c \in Client :
    cpc[c] = "idle" /\ sock[c] # NoConn =>
      conn[sock[c]].req = NoReq /\ conn[sock[c]].resp = NoReply

\* A step that changes no table and starts no server keeps the agreement.
LEMMA QuietAgrees ==
  ASSUME TypeInv, Safe, Agreement, CallsKept, IdleClients',
         exposed \subseteq exposed',
         UNCHANGED <<pc, chan, serving, table, todo>>,
         \A s \in Server : PendingUp(s)' => PendingUp(s),
         \A s \in Server : Replicates(s)' => Replicates(s) \/ PendingUp(s)
  PROVE  Agreement'
<1> USE TwoServers
<1>0. /\ OneCall /\ CutTransfer
      /\ \A s \in Server : Asking(s) /\ ForwardOK(s) /\ CopyOK(s)
  BY DEF Agreement
<1>1. ASSUME NEW s \in Server, pc[s] \in Booting \cup {"repl"}
      PROVE  /\ chan[s] \in Conn
             /\ conn'[chan[s]].sOpen = conn[chan[s]].sOpen
             /\ \/ conn'[chan[s]].req = conn[chan[s]].req
                   /\ conn'[chan[s]].resp = conn[chan[s]].resp
                \/ Answers(chan[s]) /\ conn[chan[s]].resp = NoReply
                   /\ conn[chan[s]].to = OtherServer(s) /\ pc[OtherServer(s)] = "loop"
  <2>1. /\ chan[s] \in Conn
        /\ conn[chan[s]].from = s /\ conn[chan[s]].cOpen
        /\ conn[chan[s]].sOpen => conn[chan[s]].to = OtherServer(s)
    BY <1>1, BlockedOn
  <2>2. Answers(chan[s]) => conn[chan[s]].resp = NoReply /\ conn[chan[s]].sOpen
    BY <1>0, <2>1 DEF Answers, OneCall
  <2> QED
    BY <2>1, <2>2 DEF CallsKept, Answers
<1>2. ASSUME NEW s \in Server
      PROVE  /\ ForwardOK(s)'
             /\ pc[s] = "repl" => Forwarding(s)' = Forwarding(s)
             /\ \A k \in Key : Unsettled(s, k)' <=> Unsettled(s, k)
  <2>1. CASE pc[s] = "repl"
    <3>1. /\ serving[s] \in Conn /\ conn[serving[s]].to = s /\ conn[serving[s]].sOpen
          /\ conn[serving[s]].req = Forwarding(s)
      BY <2>1, BlockedOn DEF Forwarding
    <3>2. Forwarding(s) # NoReq /\ conn[serving[s]].acc /\ Forwarding(s).op \in Writes
      BY <1>0, <2>1 DEF ForwardOK, Writes, NoReq, Plain, Msg
    <3>3. ~Answers(chan[s])
      BY <1>0, <1>1, <2>1, <3>2 DEF ForwardOK, Answers
    <3>4. /\ conn'[serving[s]].acc /\ conn'[serving[s]].req = Forwarding(s)
          /\ conn'[serving[s]].from = conn[serving[s]].from
          /\ conn'[serving[s]].cOpen => conn[serving[s]].cOpen
      BY <2>1, <3>1, <3>2 DEF CallsKept
    <3> QED
      BY <1>0, <1>1, <2>1, <3>3, <3>4, ForwardKept
  <2>2. CASE pc[s] # "repl"
    BY <2>2 DEF ForwardOK, Unsettled
  <2> QED
    BY <2>1, <2>2
<1>3. \A s, t \in Server, k \in Key : AgreeOn(s, t, k)' <=> AgreeOn(s, t, k)
  BY <1>1, <1>2 DEF AgreeOn, Unsettled
<1>4. OneCall'
  <2>1. \A j \in Conn : conn'[j].from \in Server /\ conn'[j].cOpen
         /\ (conn'[j].req # NoReq \/ conn'[j].resp # NoReply) =>
           pc'[conn'[j].from] \in Booting \cup {"repl"} /\ j = chan'[conn'[j].from]
    BY <1>0 DEF OneCall, CallsKept
  <2> QED
    BY <2>1 DEF OneCall, CallsKept, IdleClients
<1>5. CutTransfer'
  BY <1>0, <1>1 DEF CutTransfer, Booting
<1>6. ASSUME NEW s \in Server PROVE Asking(s)'
  <2>1. pc[s] \in Booting /\ Waits(s)' =>
          Waits(s) /\ conn'[chan[s]].req = conn[chan[s]].req
    BY <1>1 DEF Waits, Answers
  <2> QED
    BY <1>0, <2>1 DEF Asking, Booting
<1>7. ASSUME NEW s \in Server PROVE CopyOK(s)'
  <2>0. /\ KeysListed(s) /\ Fetching(s) /\ Copied(s) /\ Backed(s) /\ Asking(s)
        /\ OtherServer(s) \in Server
    BY <1>0 DEF CopyOK
  <2>1. KeysListed(s)'
    <3>1. pc[s] = "keys" /\ conn[chan[s]].sOpen => ~Answers(chan[s])
      BY <1>1, <2>0 DEF Asking, Waits, Answers, Booting
    <3> QED
      BY <1>1, <1>2, <2>0, <3>1 DEF KeysListed, Booting
  <2>2. Fetching(s)'
    <3>1. pc[s] = "get" /\ Answers(chan[s]) /\ conn'[chan[s]].resp.type = "VALUE" =>
            conn'[chan[s]].resp.val = table[OtherServer(s)][NextKey(todo[s])]
      BY <1>1, <2>0 DEF Asking, Waits, Answers, Booting
    <3>2. CASE pc[s] = "get" /\ Answers(chan[s])
      BY <1>1, <1>2, <2>0, <3>1, <3>2 DEF Fetching, Booting
    <3>3. CASE pc[s] = "get" /\ ~Answers(chan[s])
      BY <1>1, <1>2, <2>0, <3>3 DEF Fetching, Booting
    <3> QED
      BY <3>2, <3>3 DEF Fetching
  <2>3. Copied(s)'
    <3>1. CASE pc[s] = "up" /\ conn[chan[s]].sOpen /\ Answers(chan[s])
      <4>1. /\ conn'[chan[s]].resp # NoReply /\ conn[chan[s]].resp = NoReply
            /\ pc[OtherServer(s)] = "loop"
        BY <1>1, <3>1 DEF Answers, Booting
      <4>2. \A k \in Key \ exposed : AgreeOn(OtherServer(s), s, k)
        BY <2>0, <3>1, <4>1 DEF Copied, AgreeOn, Unsettled
      <4> QED
        BY <1>3, <2>0, <4>1, <4>2 DEF Copied
    <3>2. CASE pc[s] = "up" /\ conn[chan[s]].sOpen /\ ~Answers(chan[s])
      BY <1>1, <1>2, <1>3, <2>0, <3>2 DEF Copied, Booting
    <3>3. pc[s] = "up" => conn'[chan[s]].sOpen = conn[chan[s]].sOpen
      BY <1>1 DEF Booting
    <3> QED
      BY <3>1, <3>2, <3>3 DEF Copied
  <2>4. Backed(s)'
    BY <1>3, <2>0 DEF Backed, Polling
  <2> QED
    BY <2>1, <2>2, <2>3, <2>4 DEF CopyOK
<1> QED
  BY <1>2, <1>4, <1>5, <1>6, <1>7 DEF Agreement

\* The clients do not notice a step that leaves their quiet connections alone.
LEMMA IdleKept ==
  ASSUME TypeInv, Safe, Agreement, UNCHANGED clientVars,
         \A j \in Conn : conn[j].from \in Client /\ conn[j].cOpen
           /\ conn[j].req = NoReq /\ conn[j].resp = NoReply =>
             conn'[j].req = NoReq /\ conn'[j].resp = NoReply
  PROVE  IdleClients'
<1>1. \A c \in Client : sock[c] # NoConn => /\ sock[c] \in Conn /\ conn[sock[c]].from = c
                                           /\ conn[sock[c]].cOpen
  BY TypedNow DEF Typed, Safe, ClientEnds
<1> QED
  BY <1>1 DEF IdleClients, clientVars, Agreement, OneCall

\* A server answers the request on i, which is neither a write nor for the keys
\* of a server that starts; it may open a connection of its own.
LEMMA AnswerAgrees ==
  ASSUME TypeInv, Safe, Agreement, NEW s \in Server, NEW i \in Conn,
         pc[s] = "loop", conn[i].to = s, conn[i].sOpen,
         conn[i].req # NoReq, conn[i].req.op \notin Writes,
         conn[i].req.op = "KEYS" => conn[i].from \in Client \/ ~conn[i].cOpen,
         NEW r, r # NoReply,
         conn[i].req.op = "GET" /\ r.type = "VALUE" => r.val = table[s][conn[i].req.key],
         conn'[i] = Replied(conn, i, r)[i],
         \A j \in Conn : j # i =>
           \/ conn'[j] = conn[j]
           \/ /\ ~conn[j].sOpen /\ ~conn[j].cOpen
              /\ conn'[j].req = NoReq /\ conn'[j].resp = NoReply,
         Exposed,
         UNCHANGED <<pc, chan, serving, table, todo, clientVars>>,
         \A t \in Server : PendingUp(t)' => PendingUp(t),
         \A t \in Server : Replicates(t)' => Replicates(t) \/ PendingUp(t)
  PROVE  Agreement'
<1> USE TwoServers
<1>0. conn[i] \in Connection /\ i \in Conn
  BY TypedNow DEF Typed
<1>1. /\ conn'[i].from = conn[i].from /\ conn'[i].to = s /\ conn'[i].acc = conn[i].acc
      /\ conn'[i].cOpen = conn[i].cOpen /\ conn'[i].sOpen
      /\ conn'[i].req = NoReq
      /\ conn'[i].resp = IF conn[i].cOpen THEN r ELSE NoReply
  BY <1>0, TypedNow DEF Replied, Connection, Typed
<1>2. OneCall
  BY DEF Agreement
<1>3. CallsKept
  <2>1. \A j \in Conn : conn'[j].req # NoReq => conn'[j].sOpen
    BY <1>1, <1>2 DEF OneCall
  <2>2. \A j \in Conn : conn'[j].resp # NoReply => conn'[j].req = NoReq
    BY <1>1, <1>2 DEF OneCall
  <2>3. \A j \in Conn :
          conn'[j].from \in Server /\ conn'[j].cOpen
            /\ (conn'[j].req # NoReq \/ conn'[j].resp # NoReply) =>
              /\ conn[j].from = conn'[j].from /\ conn[j].cOpen
              /\ conn[j].req # NoReq \/ conn[j].resp # NoReply
    BY <1>1
  <2>4. ASSUME NEW j \in Conn, conn[j].from \in Server, conn[j].cOpen
        PROVE  /\ conn'[j].sOpen = conn[j].sOpen
               /\ \/ Answers(j)
                  \/ conn'[j].req = conn[j].req /\ conn'[j].resp = conn[j].resp
    <3>1. CASE j = i
      <4>1. conn[i].req.op # "KEYS"
        BY <2>4, <3>1
      <4>2. Answers(i)
        BY <1>1, <2>4, <3>1, <4>1 DEF Answers
      <4> QED
        BY <1>1, <3>1, <4>2
    <3>2. CASE j # i
      BY <2>4, <3>2
    <3> QED
      BY <3>1, <3>2
  <2>5. \A j \in Conn :
          conn[j].sOpen /\ pc[conn[j].to] = "repl" /\ conn[j].req # NoReq =>
            conn'[j] = conn[j]
    BY <1>1
  <2> QED
    BY <2>1, <2>2, <2>3, <2>4, <2>5 DEF CallsKept
<1>4. IdleClients'
  <2>1. \A j \in Conn : conn[j].from \in Client /\ conn[j].cOpen
          /\ conn[j].req = NoReq /\ conn[j].resp = NoReply =>
            conn'[j].req = NoReq /\ conn'[j].resp = NoReply
    BY <1>1
  <2> QED
    BY <2>1, IdleKept
<1>5. exposed \subseteq exposed'
  <2>1. \A t \in Server : ~StartsAlone(t)
    BY DEF StartsAlone
  <2>2. \A j \in Conn : conn[j].req.op = "KEYS" /\ conn[j].from \in Server
          /\ conn[j].cOpen => conn'[j].req # NoReq
    BY DEF NoReq, Plain, Msg
  <2> QED
    BY <2>1, <2>2, ExposedGrows
<1> QED
  BY <1>3, <1>4, <1>5, QuietAgrees

\* A server accepts a connection, drops one whose other end is closed, or
\* opens one.
LEMMA NothingAnsweredAgrees ==
  ASSUME TypeInv, Safe, Agreement,
         \A j \in Conn :
           \/ conn'[j] = conn[j]
           \/ conn[j].sOpen /\ pc[conn[j].to] = "loop"
                /\ conn'[j] = [conn[j] EXCEPT !.acc = TRUE]
           \/ /\ ~conn[j].cOpen /\ conn[j].req = NoReq
              /\ conn'[j].req = NoReq /\ conn'[j].resp = NoReply,
         Exposed,
         UNCHANGED <<pc, chan, serving, table, todo, clientVars>>,
         \A t \in Server : PendingUp(t)' => PendingUp(t),
         \A t \in Server : Replicates(t)' => Replicates(t)
  PROVE  Agreement'
<1> USE TwoServers
<1>1. OneCall /\ \A j \in Conn : conn[j] \in Connection
  BY TypedNow DEF Agreement, Typed
<1>2. \A j \in Conn :
        \/ /\ conn'[j].from = conn[j].from /\ conn'[j].to = conn[j].to
           /\ conn'[j].req = conn[j].req /\ conn'[j].resp = conn[j].resp
           /\ conn'[j].cOpen = conn[j].cOpen /\ conn'[j].sOpen = conn[j].sOpen
           /\ conn'[j].acc = conn[j].acc \/ pc[conn[j].to] = "loop"
        \/ /\ ~conn[j].cOpen /\ conn[j].req = NoReq
           /\ conn'[j].req = NoReq /\ conn'[j].resp = NoReply
  BY <1>1 DEF Connection
<1>3. CallsKept
  BY <1>1, <1>2 DEF CallsKept, OneCall
<1>4. IdleClients'
  BY <1>2, IdleKept
<1>5. exposed \subseteq exposed'
  <2>1. \A t \in Server : ~StartsAlone(t)
    BY DEF StartsAlone
  <2>2. \A j \in Conn : conn[j].req.op = "KEYS" /\ conn[j].from \in Server
          /\ conn[j].cOpen => conn'[j].req # NoReq
    BY <1>2 DEF NoReq, Plain, Msg
  <2> QED
    BY <2>1, <2>2, ExposedGrows
<1> QED
  BY <1>3, <1>4, <1>5, QuietAgrees

-----------------------------------------------------------------------------
\* Steps after which a server does not poll: of the two tables only what it
\* has copied itself matters then.

\* Nothing is said of the table of a server that does not poll but by itself.
LEMMA StartingAgrees ==
  ASSUME TypeInv', Safe', NEW s \in Server, ~Polling(s)', OneCall', CutTransfer',
         \A t \in Server : Asking(t)' /\ ForwardOK(t)',
         KeysListed(s)', Fetching(s)', Copied(s)'
  PROVE  Agreement'
<1> USE TwoServers
<1> DEFINE t == OtherServer(s)
<1>1. (/\ ~Replicates(s) /\ ~PendingUp(s)
       /\ pc[t] = "keys" /\ conn[chan[t]].sOpen => conn[chan[t]].resp = NoReply
       /\ ~(pc[t] \in {"get", "up"} /\ conn[chan[t]].sOpen))'
  BY NotPollingNext
<1>2. CopyOK(s)'
  BY <1>1 DEF CopyOK, Backed
<1>3. KeysListed(t)' /\ Fetching(t)' /\ Copied(t)'
  BY <1>1 DEF KeysListed, Fetching, Copied
<1>4. Backed(t)'
  BY DEF Backed
<1>5. \A u \in Server : CopyOK(u)'
  BY <1>2, <1>3, <1>4 DEF CopyOK
<1> QED
  BY <1>5 DEF Agreement

\* The server that polls answers the one that starts with the list of its keys.
LEMMA KeysAgrees ==
  ASSUME TypeInv, Safe, Agreement, TypeInv', Safe', NEW s \in Server, NEW i \in Conn,
         ServeRead(s, i), conn[i].req.op = "KEYS",
         conn[i].from \in Server, conn[i].cOpen, UNCHANGED clientVars
  PROVE  Agreement'
<1> USE TwoServers
<1>t. PICK t \in Server : t = conn[i].from
  OBVIOUS
<1>r. PICK r : r = Answer(conn[i].req, table[s])
  OBVIOUS
<1>0. /\ OneCall /\ CutTransfer /\ Typed
      /\ \A u \in Server : Asking(u) /\ ForwardOK(u) /\ CopyOK(u)
      /\ UNCHANGED <<pc, status, state, table, todo, chan, link, serving, clientVars>>
  BY TypedNow DEF Agreement, ServeRead, serverVars, memory
<1>1. /\ conn[i] \in Connection /\ conn[i].sOpen /\ conn[i].to = s /\ pc[s] = "loop"
      /\ conn' = Replied(conn, i, r)
  BY <1>0, <1>r DEF ServeRead, Inbound, Typed, Reads
<1>2. pc[t] = "keys" /\ chan[t] = i /\ conn[i].resp = NoReply /\ t # s /\ t \in Server
  BY <1>1, <1>t, KeysCaller DEF Safe, ServerEnds
<1>3. /\ conn'[i].from = t /\ conn'[i].to = s /\ conn'[i].cOpen /\ conn'[i].sOpen
      /\ conn'[i].req = NoReq /\ conn'[i].resp = r
      /\ \A j \in Conn : j # i => conn'[j] = conn[j]
  BY <1>0, <1>1, <1>t DEF Replied, Connection, Typed
<1>4. r # NoReply /\ \A k \in Key : k \in r.keys <=> table[s][k] # NoVal
  BY <1>r DEF Answer, KeysOf, Result, KeyList, NoReply
<1>5. \A u \in Server : PendingUp(u)' => PendingUp(u)
  BY <1>3 DEF PendingUp, NoReq, Plain, Msg
<1>6. \A u \in Server : pc[u] \in Booting \cup {"repl"} =>
        chan[u] \in Conn /\ (u # t => chan[u] # i)
  BY <1>t, BlockedOn
<1>7. OneCall'
  <2>1. \A c \in Client : sock[c] # NoConn => sock[c] \in Conn /\ sock[c] # i
    BY <1>0, <1>t DEF Typed, Safe, ClientEnds
  <2> QED
    BY <1>0, <1>2, <1>3, <2>1 DEF OneCall, Booting, clientVars
<1>8. CutTransfer'
  BY <1>0, <1>2, <1>3, <1>5, <1>6 DEF CutTransfer, Booting, Replicates
<1>9. \A u \in Server : ForwardOK(u)'
  <2>1. ASSUME NEW u \in Server, pc[u] = "repl" PROVE FALSE
    BY <1>1, <1>2, <2>1
  <2> QED
    BY <1>0, <2>1 DEF ForwardOK
<1>10. \A u \in Server : Asking(u)'
  <2>1. Asking(t)'
    BY <1>0, <1>2, <1>3, <1>4 DEF Asking, Waits
  <2>2. Asking(s)'
    BY <1>0, <1>1 DEF Asking
  <2> QED
    BY <1>2, <2>1, <2>2
<1>11. KeysListed(t)'
  BY <1>0, <1>2, <1>3, <1>4 DEF KeysListed
<1>12. Fetching(t)' /\ Copied(t)' /\ ~Polling(t)'
  BY <1>0, <1>2 DEF Fetching, Copied, Polling
<1> QED
  BY <1>2, <1>7, <1>8, <1>9, <1>10, <1>11, <1>12, StartingAgrees

\* A step of s on a connection that it holds, or on one that is not in use,
\* leaves the forward of the other server alone.
LEMMA OtherForwards ==
  ASSUME TypeInv, Safe, Agreement, NEW s \in Server, NEW i \in Conn,
         Closed(conn[i]) \/ (i = chan[s] /\ pc[s] \in Booting),
         \A j \in Conn : j # i => conn'[j] = conn[j],
         NEW t \in Server, t # s,
         pc'[t] = pc[t], chan'[t] = chan[t], serving'[t] = serving[t], table'[t] = table[t]
  PROVE  /\ ForwardOK(t)'
         /\ pc[t] = "repl" => Forwarding(t)' = Forwarding(t) /\ conn'[chan[t]] = conn[chan[t]]
         /\ \A k \in Key : Unsettled(t, k)' <=> Unsettled(t, k)
<1> USE TwoServers
<1>1. ForwardOK(t)
  BY DEF Agreement
<1>2. CASE pc[t] = "repl"
  <2>1. /\ chan[t] \in Conn /\ conn[chan[t]].from = t /\ conn[chan[t]].cOpen
        /\ serving[t] \in Conn /\ conn[serving[t]].sOpen
    BY <1>2, BlockedOn
  <2>2. chan[t] # i
    BY <2>1, BlockedOn DEF Closed
  <2>3. serving[t] # i
    BY <1>2, <2>1 DEF Closed, Safe, OwnLinks
  <2>4. conn'[chan[t]] = conn[chan[t]] /\ conn'[serving[t]] = conn[serving[t]]
    BY <2>1, <2>2, <2>3
  <2>5. conn[serving[t]].acc
    BY <1>1, <1>2 DEF ForwardOK
  <2> QED
    BY <1>1, <2>4, <2>5, ForwardKept DEF Forwarding
<1>3. CASE pc[t] # "repl"
  BY <1>3 DEF ForwardOK, Unsettled
<1> QED
  BY <1>2, <1>3

\* A server that starts asks something on connection i.
LEMMA AsksAgrees ==
  ASSUME TypeInv, Safe, Agreement, TypeInv', Safe',
         NEW s \in Server, NEW p \in Booting, NEW i \in Conn,
         pc[s] \in {"boot", "ask", "keys", "get"},
         IF pc[s] = "boot" THEN Closed(conn[i]) ELSE i = chan[s],
         pc' = [pc EXCEPT ![s] = p], chan' = [chan EXCEPT ![s] = i],
         \A j \in Conn : j # i => conn'[j] = conn[j],
         conn'[i].from = s, conn'[i].resp = NoReply,
         conn'[i].req # NoReq => conn'[i].sOpen,
         UNCHANGED <<serving, clientVars>>,
         \A t \in Server : t # s => table'[t] = table[t] /\ todo'[t] = todo[t],
         CutTransfer', Asking(s)', Fetching(s)', Copied(s)'
  PROVE  Agreement'
<1> USE TwoServers
<1>0. /\ OneCall /\ Typed /\ Typed'
      /\ \A t \in Server : Asking(t) /\ ForwardOK(t)
  BY TypedNow, TypedNext DEF Agreement
<1>1. PICK t \in Server : t = OtherServer(s) /\ t # s
  OBVIOUS
<1>2. pc'[s] = p /\ chan'[s] = i /\ pc'[t] = pc[t] /\ chan'[t] = chan[t]
  BY <1>0, <1>1 DEF Typed
<1>3. /\ Closed(conn[i]) \/ (i = chan[s] /\ pc[s] \in Booting)
      /\ Closed(conn[i]) \/ conn[i].from = s
      /\ pc[s] # "boot" => i = chan[s]
  BY BlockedOn DEF Booting
<1>4. OneCall'
  <2>1. ASSUME NEW j \in Conn, j # i, conn[j].from \in Server, conn[j].cOpen,
               conn[j].req # NoReq \/ conn[j].resp # NoReply
        PROVE  pc'[conn[j].from] \in Booting \cup {"repl"} /\ j = chan'[conn[j].from]
    <3>1. pc[conn[j].from] \in Booting \cup {"repl"} /\ j = chan[conn[j].from]
      BY <1>0, <2>1 DEF OneCall
    <3>2. conn[j].from # s
      BY <1>3, <2>1, <3>1 DEF Booting
    <3>3. conn[j].from = t
      BY <1>1, <2>1, <3>2
    <3> QED
      BY <1>2, <3>1, <3>3
  <2>2. \A c \in Client : sock[c] # NoConn => sock[c] \in Conn /\ sock[c] # i
    BY <1>0, <1>3 DEF Typed, Safe, ClientEnds, Closed
  <2> QED
    BY <1>0, <1>2, <2>1, <2>2 DEF OneCall, clientVars
<1>5. pc[t] \in Booting => chan[t] \in Conn /\ conn'[chan[t]] = conn[chan[t]]
  BY <1>1, <1>3, BlockedOn DEF Closed
<1>6. Asking(t)'
  BY <1>0, <1>1, <1>2, <1>5 DEF Asking, Waits, Booting
<1>7. ForwardOK(t)'
  BY <1>1, <1>2, <1>3, OtherForwards
<1>8. ForwardOK(s)' /\ KeysListed(s)' /\ ~Polling(s)'
  BY <1>2 DEF ForwardOK, KeysListed, Polling, Booting
<1>9. \A u \in Server : Asking(u)' /\ ForwardOK(u)'
  BY <1>1, <1>6, <1>7, <1>8
<1> QED
  BY <1>4, <1>8, <1>9, StartingAgrees

\* The first question, on a new connection.
LEMMA FirstAsksAgrees ==
  ASSUME TypeInv, Safe, Agreement, TypeInv', Safe', NEW s \in Server, pc[s] = "boot",
         NEW p \in {"ask", "keys"}, NEW m, Wait(s, p, NewConn), HasRoom,
         conn' = Opened(conn, NewConn, s, OtherServer(s), m),
         p = "keys" => m.op = "KEYS" /\ s = S2,
         m.op # "UP",
         UNCHANGED <<table, todo, clientVars>>
  PROVE  Agreement'
<1> USE TwoServers
<1>0. /\ Typed /\ CutTransfer /\ Asking(s)
      /\ pc' = [pc EXCEPT ![s] = p] /\ chan' = [chan EXCEPT ![s] = NewConn]
      /\ UNCHANGED <<status, state, serving>>
      /\ NewConn \in Conn /\ Closed(conn[NewConn])
  BY TypedNow, NewConnType DEF Agreement, Wait
<1>1. /\ \A j \in Conn : j # NewConn => conn'[j] = conn[j]
      /\ conn'[NewConn].from = s /\ conn'[NewConn].to = OtherServer(s)
      /\ conn'[NewConn].cOpen /\ conn'[NewConn].sOpen
      /\ conn'[NewConn].req = m /\ conn'[NewConn].resp = NoReply
  BY <1>0 DEF Opened, NewConnection, Typed
<1>2. PICK t \in Server : t = OtherServer(s) /\ t # s
  OBVIOUS
<1>3. pc'[s] = p /\ chan'[s] = NewConn /\ pc'[t] = pc[t] /\ chan'[t] = chan[t]
  BY <1>0, <1>2 DEF Typed
<1>4. \A u \in Server : /\ PendingUp(u)' => PendingUp(u)
                        /\ Replicates(u)' <=> Replicates(u)
  BY <1>0, <1>1 DEF PendingUp, Replicates
<1>5. pc[t] \in Booting => chan[t] \in Conn /\ conn'[chan[t]] = conn[chan[t]]
  BY <1>0, <1>1, BlockedOn DEF Closed
<1>6. CutTransfer'
  <2>1. ASSUME NEW u \in Server, pc'[u] \in {"keys", "get", "up"}, ~conn'[chan'[u]].sOpen
        PROVE  ~Replicates(OtherServer(u))' /\ ~PendingUp(OtherServer(u))'
    <3>1. u = t
      BY <1>1, <1>2, <1>3, <2>1
    <3> QED
      BY <1>0, <1>3, <1>4, <1>5, <2>1, <3>1 DEF CutTransfer, Booting
  <2>2. pc'[S1] = "ask" /\ ~conn'[chan'[S1]].sOpen /\ pc'[S2] \in Booting =>
          conn'[chan'[S2]].sOpen
    BY <1>1, <1>2, <1>3
  <2> QED
    BY <2>1, <2>2 DEF CutTransfer
<1>7. Asking(s)'
  BY <1>0, <1>1, <1>3 DEF Asking, Waits
<1>8. Fetching(s)' /\ Copied(s)'
  BY <1>3 DEF Fetching, Copied
<1>9. p \in Booting
  BY DEF Booting
<1> QED
  BY <1>0, <1>1, <1>6, <1>7, <1>8, <1>9, AsksAgrees

\* The next question, on the same connection: after it s has copied what it is
\* not going to fetch.
LEMMA GoesOnAgrees ==
  ASSUME TypeInv, Safe, Agreement, TypeInv', Safe',
         NEW s \in Server, pc[s] \in {"ask", "keys", "get"},
         NEW p \in {"keys", "get", "up"}, NEW m \in Request, Wait(s, p, chan[s]),
         conn' = Sent(Taken(conn, chan[s]), chan[s], m),
         p = "keys" => m.op = "KEYS" /\ table'[s] = EmptyTable,
         p = "get" => m.op = "GET" /\ m.key = NextKey(todo'[s]) /\ todo'[s] # {},
         p = "up" => m.op = "UP",
         pc[s] = "ask" => /\ s = S1
                          /\ ~conn[chan[s]].sOpen => ~Replicates(S2) /\ ~PendingUp(S2),
         conn[chan[s]].sOpen =>
           \A k \in Key \ exposed' :
             \/ Unsettled(OtherServer(s), k)
             \/ /\ p = "get" => table'[s][k] = IF k \in todo'[s] THEN NoVal
                                               ELSE table[OtherServer(s)][k]
                /\ p = "up" => table'[s][k] = table[OtherServer(s)][k],
         \A t \in Server : t # s => table'[t] = table[t] /\ todo'[t] = todo[t],
         UNCHANGED clientVars
  PROVE  Agreement'
<1> USE TwoServers
<1>i. PICK i \in Conn : i = chan[s]
  BY BlockedOn DEF Booting
<1>0. /\ Typed /\ Typed' /\ CutTransfer
      /\ pc' = [pc EXCEPT ![s] = p] /\ chan' = [chan EXCEPT ![s] = i]
      /\ UNCHANGED <<status, state, serving>>
      /\ conn[i].from = s /\ conn[i].to = OtherServer(s) /\ conn[i].cOpen
  BY <1>i, TypedNow, TypedNext, BlockedOn DEF Agreement, Wait, Safe, BootConn, Booting
<1>1. /\ \A j \in Conn : j # i => conn'[j] = conn[j]
      /\ conn'[i].from = s /\ conn'[i].to = OtherServer(s)
      /\ conn'[i].cOpen /\ conn'[i].sOpen = conn[i].sOpen
      /\ conn'[i].req = IF conn[i].sOpen THEN m ELSE NoReq
      /\ conn'[i].resp = NoReply
  BY <1>0, <1>i DEF Sent, Taken, Connection, Typed
<1>2. PICK t \in Server : t = OtherServer(s) /\ t # s
  OBVIOUS
<1>3. /\ pc'[s] = p /\ chan'[s] = i /\ pc'[t] = pc[t] /\ chan'[t] = chan[t]
      /\ serving'[t] = serving[t] /\ table'[t] = table[t]
  BY <1>0, <1>2 DEF Typed
<1>4. \A u \in Server : Replicates(u)' <=> Replicates(u)
  BY <1>0 DEF Replicates
<1>5. /\ PendingUp(s)' => PendingUp(s)
      /\ PendingUp(t)' => PendingUp(t) \/ (p = "up" /\ conn[i].sOpen)
  <2>1. m.op = "UP" => p = "up"
    OBVIOUS
  <2> QED
    BY <1>1, <1>2, <2>1 DEF PendingUp, NoReq, Plain, Msg
<1>6. pc[t] \in Booting => chan[t] \in Conn /\ conn'[chan[t]] = conn[chan[t]]
  BY <1>0, <1>1, <1>2, BlockedOn
<1>7. CutTransfer'
  <2>1. ASSUME NEW u \in Server, pc'[u] \in {"keys", "get", "up"}, ~conn'[chan'[u]].sOpen
        PROVE  ~Replicates(OtherServer(u))' /\ ~PendingUp(OtherServer(u))'
    <3>1. CASE u = t
      BY <1>0, <1>2, <1>3, <1>4, <1>5, <1>6, <2>1, <3>1 DEF CutTransfer, Booting
    <3>2. CASE u = s
      <4>1. ~conn[i].sOpen
        BY <1>1, <1>3, <2>1, <3>2
      <4>2. ~Replicates(t) /\ ~PendingUp(t)
        BY <1>0, <1>2, <1>i, <4>1 DEF CutTransfer
      <4> QED
        BY <1>2, <1>4, <1>5, <3>2, <4>1, <4>2
    <3> QED
      BY <1>2, <3>1, <3>2
  <2>2. pc'[S1] = "ask" /\ ~conn'[chan'[S1]].sOpen /\ pc'[S2] \in Booting =>
          conn'[chan'[S2]].sOpen
    <3>1. CASE s = S1
      BY <1>3, <3>1
    <3>2. CASE s = S2
      BY <1>0, <1>1, <1>2, <1>3, <1>6, <1>i, <3>2 DEF CutTransfer, Booting
    <3> QED
      BY <3>1, <3>2 DEF Server
  <2> QED
    BY <2>1, <2>2 DEF CutTransfer
<1>8. Asking(s)'
  BY <1>1, <1>3 DEF Asking, Waits
<1>9. \A k \in Key : Unsettled(t, k)' <=> Unsettled(t, k)
  BY <1>1, <1>2, <1>3, <1>i, OtherForwards DEF Booting
<1>k. conn[i].sOpen =>
        \A k \in Key \ exposed' :
          \/ Unsettled(t, k)'
          \/ /\ p = "get" => table'[s][k] = IF k \in todo'[s] THEN NoVal ELSE table'[t][k]
             /\ p = "up" => table'[s][k] = table'[t][k]
  BY <1>2, <1>3, <1>9, <1>i
<1>10. Fetching(s)'
  BY <1>1, <1>2, <1>3, <1>k DEF Fetching, NoReply
<1>11. Copied(s)'
  BY <1>1, <1>2, <1>3, <1>k DEF Copied
<1>12. p \in Booting
  BY DEF Booting
<1>13. conn'[i].req # NoReq => conn'[i].sOpen
  BY <1>1
<1>14. /\ pc[s] \in {"boot", "ask", "keys", "get"}
       /\ IF pc[s] = "boot" THEN Closed(conn[i]) ELSE i = chan[s]
       /\ pc' = [pc EXCEPT ![s] = p] /\ chan' = [chan EXCEPT ![s] = i]
       /\ \A j \in Conn : j # i => conn'[j] = conn[j]
       /\ conn'[i].from = s /\ conn'[i].resp = NoReply
  BY <1>0, <1>1, <1>i
<1>15. UNCHANGED <<serving, clientVars>>
  BY <1>0
<1> QED
  BY <1>7, <1>8, <1>10, <1>11, <1>12, <1>13, <1>14, <1>15, AsksAgrees

\* A server that goes on with its start-up exposes keys, and hides none.
LEMMA AsksExposes ==
  ASSUME TypeInv, Safe, Agreement, Exposed, NEW s \in Server,
         pc[s] \in {"keys", "get"}, Answered(chan[s]), NEW p, Wait(s, p, chan[s]),
         NEW m, conn' = Sent(Taken(conn, chan[s]), chan[s], m)
  PROVE  exposed \subseteq exposed'
<1>i. PICK i \in Conn : i = chan[s]
  BY BlockedOn DEF Booting
<1>0. Typed /\ OneCall /\ pc' = [pc EXCEPT ![s] = p]
  BY TypedNow DEF Agreement, Wait
<1>1. \A j \in Conn : j # i => conn'[j] = conn[j]
  BY <1>0, <1>i DEF Sent, Taken, Typed
<1>2. conn[i].req = NoReq
  BY <1>0, <1>i DEF OneCall, Answered
<1>3. \A j \in Conn : conn[j].req.op = "KEYS" => conn'[j].req # NoReq
  BY <1>1, <1>2 DEF NoReq, Plain, Msg
<1>4. \A t \in Server : ~StartsAlone(t)
  BY <1>0 DEF StartsAlone, Typed
<1> QED
  BY <1>3, <1>4, ExposedGrows

\* What update_state asks after the keys ks are left.
LEMMA AskNextAgrees ==
  ASSUME TypeInv, Safe, Agreement, TypeInv', Safe', Exposed,
         NEW s \in Server, pc[s] \in {"keys", "get"}, Answered(chan[s]),
         NEW ks \in SUBSET Key, AskNext(s, Taken(conn, chan[s]), chan[s], ks),
         todo' = [todo EXCEPT ![s] = ks],
         \A t \in Server : t # s => table'[t] = table[t],
         conn[chan[s]].sOpen =>
           \A k \in Key \ exposed :
             \/ Unsettled(OtherServer(s), k)
             \/ table'[s][k] = IF k \in ks THEN NoVal ELSE table[OtherServer(s)][k],
         UNCHANGED clientVars
  PROVE  Agreement'
<1>0. Typed /\ todo'[s] = ks /\ \A t \in Server : t # s => todo'[t] = todo[t]
  BY TypedNow DEF Typed
<1>1. CASE ks = {}
  <2>1. /\ conn' = Sent(Taken(conn, chan[s]), chan[s], Plain("UP"))
        /\ Wait(s, "up", chan[s])
    BY <1>1 DEF AskNext
  <2>2. Plain("UP") \in Request /\ Plain("UP").op = "UP"
    BY DEF Plain, Msg, Request
  <2>3. exposed \subseteq exposed'
    BY <2>1, AsksExposes
  <2> QED
    BY <1>0, <1>1, <2>1, <2>2, <2>3, GoesOnAgrees
<1>2. CASE ks # {}
  <2>1. PICK m : m = Msg("GET", NextKey(ks), NoVal)
    OBVIOUS
  <2>2. /\ conn' = Sent(Taken(conn, chan[s]), chan[s], m)
        /\ Wait(s, "get", chan[s])
    BY <1>2, <2>1 DEF AskNext
  <2>3. m \in Request /\ m.op = "GET" /\ m.key = NextKey(ks)
    BY <1>2, <2>1, NextKeyType DEF Msg, Request
  <2>4. exposed \subseteq exposed'
    BY <2>2, AsksExposes
  <2> QED
    BY <1>0, <1>2, <2>2, <2>3, <2>4, GoesOnAgrees
<1> QED
  BY <1>1, <1>2

\* The list of the keys has arrived.
LEMMA KeysDoneAgrees ==
  ASSUME TypeInv, Safe, Agreement, TypeInv', Safe', Exposed,
         NEW s \in Server, KeysDone(s), UNCHANGED clientVars
  PROVE  Agreement'
<1>1. /\ pc[s] = "keys" /\ Answered(chan[s]) /\ UNCHANGED table
      /\ AskNext(s, Taken(conn, chan[s]), chan[s], conn[chan[s]].resp.keys)
      /\ todo' = [todo EXCEPT ![s] = conn[chan[s]].resp.keys]
  BY DEF KeysDone
<1>2. PICK ks \in SUBSET Key : ks = conn[chan[s]].resp.keys
  BY <1>1, BlockedOn DEF Booting, Connection, Reply
<1>3. Asking(s) /\ KeysListed(s)
  BY DEF Agreement, CopyOK
<1>4. table[s] = EmptyTable /\ \A k \in Key : table[s][k] = NoVal
  BY <1>1, <1>3 DEF Asking, EmptyTable
<1>5. conn[chan[s]].sOpen =>
        \A k \in Key \ exposed :
          \/ Unsettled(OtherServer(s), k)
          \/ table[s][k] = IF k \in ks THEN NoVal ELSE table[OtherServer(s)][k]
  BY <1>1, <1>2, <1>3, <1>4 DEF KeysListed, Answered
<1> QED
  BY <1>1, <1>2, <1>5, AskNextAgrees

\* A value has arrived: update_state puts it in the table.
LEMMA ValueDoneAgrees ==
  ASSUME TypeInv, Safe, Agreement, TypeInv', Safe', Exposed,
         NEW s \in Server, ValueDone(s), UNCHANGED clientVars
  PROVE  Agreement'
<1>0. Typed /\ Asking(s) /\ Fetching(s)
  BY TypedNow DEF Agreement, CopyOK
<1>1. PICK k0 : k0 = NextKey(todo[s])
  OBVIOUS
<1>2. PICK v : v = conn[chan[s]].resp.val
  OBVIOUS
<1>3. /\ pc[s] = "get" /\ conn[chan[s]].resp.type = "VALUE"
      /\ table' = [table EXCEPT ![s] = Apply(Copy(k0, v), @)]
      /\ todo' = [todo EXCEPT ![s] = @ \ {k0}]
      /\ AskNext(s, Taken(conn, chan[s]), chan[s], todo[s] \ {k0})
  BY <1>1, <1>2 DEF ValueDone
<1>4. Answered(chan[s])
  BY <1>3 DEF Answered, NoReply
<1>5. k0 \in todo[s] /\ k0 \in Key
  BY <1>0, <1>1, <1>3, NextKeyType DEF Asking, Typed
<1>6. v \in Val \cup {NoVal}
  BY <1>2, <1>3, BlockedOn DEF Booting, Connection, Reply
<1>7. /\ table'[s] = Apply(Copy(k0, v), table[s])
      /\ \A t \in Server : t # s => table'[t] = table[t]
  BY <1>0, <1>3 DEF Typed
<1>8. /\ \A k \in Key : k # k0 => table'[s][k] = table[s][k]
      /\ table[s][k0] = NoVal => table'[s][k0] = v
  <2>1. table[s] \in Table
    BY <1>0 DEF Typed
  <2> QED
    BY <1>5, <1>6, <1>7, <2>1 DEF Apply, Copy, Msg, Table
<1>9. PICK ks \in SUBSET Key : ks = todo[s] \ {k0}
  BY <1>0 DEF Typed
<1>10. ASSUME conn[chan[s]].sOpen, NEW k \in Key \ exposed
       PROVE  \/ Unsettled(OtherServer(s), k)
              \/ table'[s][k] = IF k \in ks THEN NoVal ELSE table[OtherServer(s)][k]
  <2>1. \/ Unsettled(OtherServer(s), k)
        \/ /\ table[s][k] = IF k \in todo[s] THEN NoVal ELSE table[OtherServer(s)][k]
           /\ k = k0 => v = table[OtherServer(s)][k]
    BY <1>0, <1>1, <1>2, <1>3, <1>10 DEF Fetching
  <2>2. CASE k = k0
    BY <1>5, <1>8, <1>9, <2>1, <2>2
  <2>3. CASE k # k0
    BY <1>8, <1>9, <2>1, <2>3
  <2> QED
    BY <2>2, <2>3
<1>11. todo' = [todo EXCEPT ![s] = ks] /\ AskNext(s, Taken(conn, chan[s]), chan[s], ks)
  BY <1>3, <1>9
<1> QED
  BY <1>3, <1>4, <1>7, <1>10, <1>11, AskNextAgrees

\* The port is opened.
LEMMA ListenAgrees ==
  ASSUME TypeInv, Safe, Agreement, TypeInv', Safe',
         NEW s \in Server, Listen(s), UNCHANGED clientVars
  PROVE  Agreement'
<1> USE TwoServers
<1>0. /\ OneCall /\ CutTransfer /\ Typed
      /\ \A u \in Server : Asking(u) /\ ForwardOK(u)
      /\ pc[s] = "down" /\ pc' = [pc EXCEPT ![s] = "boot"]
      /\ UNCHANGED <<conn, status, state, table, todo, chan, serving, clientVars>>
  BY TypedNow DEF Agreement, Listen, memory
<1>1. PICK t \in Server : t = OtherServer(s) /\ t # s
  OBVIOUS
<1>2. pc'[s] = "boot" /\ pc'[t] = pc[t]
  BY <1>0, <1>1 DEF Typed
<1>3. \A u \in Server : /\ PendingUp(u)' => PendingUp(u)
                        /\ Replicates(u)' <=> Replicates(u)
  BY <1>0 DEF PendingUp, Replicates
<1>4. OneCall'
  BY <1>0 DEF OneCall, clientVars, Booting, Typed
<1>5. CutTransfer'
  BY <1>0, <1>1, <1>2, <1>3 DEF CutTransfer, Booting
<1>6. Asking(s)' /\ Asking(t)' /\ ForwardOK(s)'
  BY <1>0, <1>1, <1>2 DEF Asking, Waits, ForwardOK
<1>7. ForwardOK(t)'
  BY <1>0, <1>1, <1>2, ForwardKept, BlockedOn DEF ForwardOK, Forwarding
<1>8. ~Polling(s)' /\ KeysListed(s)' /\ Fetching(s)' /\ Copied(s)'
  BY <1>2 DEF Polling, KeysListed, Fetching, Copied
<1>9. \A u \in Server : Asking(u)' /\ ForwardOK(u)'
  BY <1>1, <1>6, <1>7
<1> QED
  BY <1>4, <1>5, <1>8, <1>9, StartingAgrees

\* What the end of process s does to a connection.
LEMMA VanishedFields ==
  ASSUME NEW c \in Connection, NEW s, NEW d,
         d = IF c.from = s THEN CutAtClient(c)
             ELSE IF c.to = s THEN CutAtServer(c) ELSE c
  PROVE  /\ (c.req # NoReq => c.sOpen) => (d.req # NoReq => d.sOpen)
         /\ c.from # s /\ c.cOpen =>
              /\ d.from = c.from /\ d.cOpen /\ d.resp = c.resp
              /\ d.req \in {c.req, NoReq}
              /\ d.sOpen => c.to # s /\ c.sOpen /\ d.req = c.req
         /\ d.cOpen => c.from # s /\ c.cOpen
         /\ d.resp \in {c.resp, NoReply}
         /\ d.req \in {c.req, NoReq}
         /\ c.sOpen /\ c.to # s =>
              /\ d.acc = c.acc /\ d.req = c.req /\ d.from = c.from
<1>1. \/ d = CutAtClient(c) /\ c.from = s
      \/ d = CutAtServer(c) /\ c.from # s /\ c.to = s
      \/ d = c /\ c.from # s /\ c.to # s
  OBVIOUS
<1> QED
  BY <1>1 DEF CutAtClient, CutAtServer, Tidy, Closed, FreeConn, Connection

\* The process is gone.
LEMMA GoneAgrees ==
  ASSUME TypeInv, Safe, Agreement, TypeInv', Safe',
         NEW s \in Server, Gone(s), UNCHANGED clientVars
  PROVE  Agreement'
<1> USE TwoServers
<1>0. /\ OneCall /\ Typed
      /\ \A u \in Server : Asking(u) /\ ForwardOK(u)
      /\ pc' = [pc EXCEPT ![s] = "down"] /\ chan' = [chan EXCEPT ![s] = NoConn]
      /\ serving' = [serving EXCEPT ![s] = NoConn]
      /\ table' = [table EXCEPT ![s] = EmptyTable]
      /\ todo' = [todo EXCEPT ![s] = {}]
      /\ UNCHANGED clientVars
  BY TypedNow DEF Agreement, Gone
<1>1. PICK t \in Server : t = OtherServer(s) /\ t # s
  OBVIOUS
<1>2. /\ pc'[s] = "down" /\ table'[s] = EmptyTable
      /\ pc'[t] = pc[t] /\ chan'[t] = chan[t] /\ serving'[t] = serving[t]
      /\ table'[t] = table[t] /\ todo'[t] = todo[t]
  BY <1>0, <1>1 DEF Typed
<1>3. ASSUME NEW j \in Conn
      PROVE  /\ conn'[j].req # NoReq => conn'[j].sOpen
             /\ conn[j].from # s /\ conn[j].cOpen =>
                  /\ conn'[j].from = conn[j].from /\ conn'[j].cOpen
                  /\ conn'[j].resp = conn[j].resp /\ conn'[j].req \in {conn[j].req, NoReq}
                  /\ conn'[j].sOpen => conn[j].to # s /\ conn[j].sOpen
                                       /\ conn'[j].req = conn[j].req
             /\ conn'[j].cOpen => conn[j].from # s /\ conn[j].cOpen
             /\ conn'[j].resp \in {conn[j].resp, NoReply}
             /\ conn'[j].req \in {conn[j].req, NoReq}
             /\ conn[j].sOpen /\ conn[j].to # s =>
                  /\ conn'[j].acc = conn[j].acc /\ conn'[j].req = conn[j].req
                  /\ conn'[j].from = conn[j].from
  <2>1. conn'[j] = IF conn[j].from = s THEN CutAtClient(conn[j])
                   ELSE IF conn[j].to = s THEN CutAtServer(conn[j]) ELSE conn[j]
    BY DEF Gone, Vanished
  <2>2. conn[j] \in Connection /\ (conn[j].req # NoReq => conn[j].sOpen)
    BY <1>0 DEF Typed, OneCall
  <2> QED
    BY <2>1, <2>2, VanishedFields
<1>4. OneCall'
  <2>1. \A j \in Conn : conn'[j].resp # NoReply => conn'[j].req = NoReq
    BY <1>0, <1>3 DEF OneCall
  <2>2. ASSUME NEW j \in Conn, conn'[j].from \in Server, conn'[j].cOpen,
               conn'[j].req # NoReq \/ conn'[j].resp # NoReply
        PROVE  pc'[conn'[j].from] \in Booting \cup {"repl"} /\ j = chan'[conn'[j].from]
    <3>1. /\ conn[j].from # s /\ conn[j].cOpen /\ conn'[j].from = conn[j].from
          /\ conn[j].req # NoReq \/ conn[j].resp # NoReply
      BY <1>3, <2>2
    <3>2. conn[j].from = t
      BY <1>1, <2>2, <3>1
    <3> QED
      BY <1>0, <1>2, <2>2, <3>1, <3>2 DEF OneCall
  <2>3. ASSUME NEW c \in Client, cpc'[c] = "idle", sock'[c] # NoConn
        PROVE  conn'[sock'[c]].req = NoReq /\ conn'[sock'[c]].resp = NoReply
    <3>1. cpc[c] = "idle" /\ sock[c] # NoConn /\ sock[c] \in Conn /\ sock'[c] = sock[c]
      BY <1>0, <2>3 DEF Typed, clientVars
    <3> QED
      BY <1>0, <1>3, <3>1 DEF OneCall
  <2> QED
    BY <1>3, <2>1, <2>2, <2>3 DEF OneCall
<1>5. ~Polling(s)' /\ ~Replicates(s)' /\ ~PendingUp(s)'
  <2>1. ~Polling(s)'
    BY <1>2 DEF Polling
  <2> QED
    BY <2>1, NotPollingNext
<1>6. CutTransfer'
  BY <1>1, <1>2, <1>5 DEF CutTransfer, Booting
<1>7. Asking(s)' /\ ForwardOK(s)' /\ KeysListed(s)' /\ Fetching(s)' /\ Copied(s)'
  BY <1>2 DEF Asking, ForwardOK, KeysListed, Fetching, Copied
<1>8. Asking(t)'
  <2>1. pc[t] \in Booting => ~conn'[chan[t]].sOpen
    BY <1>1, <1>3, BlockedOn DEF Safe, BootConn
  <2> QED
    BY <1>0, <1>1, <1>2, <2>1 DEF Asking, Waits, Booting
<1>9. ForwardOK(t)'
  <2>1. CASE pc[t] = "repl"
    <3>1. /\ chan[t] \in Conn /\ conn[chan[t]].from = t /\ conn[chan[t]].cOpen
          /\ serving[t] \in Conn /\ conn[serving[t]].to = t /\ conn[serving[t]].sOpen
          /\ conn[serving[t]].acc
      BY <1>0, <2>1, BlockedOn DEF ForwardOK
    <3>2. /\ conn'[serving[t]].acc /\ conn'[serving[t]].req = Forwarding(t)
          /\ conn'[serving[t]].from = conn[serving[t]].from
          /\ conn'[serving[t]].cOpen => conn[serving[t]].cOpen
      BY <1>1, <1>3, <3>1 DEF Forwarding
    <3>3. /\ conn'[chan[t]].resp = conn[chan[t]].resp
          /\ conn'[chan[t]].sOpen =>
               conn[chan[t]].sOpen /\ conn'[chan[t]].req = conn[chan[t]].req
      BY <1>1, <1>3, <3>1
    <3> QED
      BY <1>0, <1>2, <3>2, <3>3, ForwardKept
  <2>2. CASE pc[t] # "repl"
    BY <1>2, <2>2 DEF ForwardOK
  <2> QED
    BY <2>1, <2>2
<1>10. \A u \in Server : Asking(u)' /\ ForwardOK(u)'
  BY <1>1, <1>7, <1>8, <1>9
<1> QED
  BY <1>4, <1>5, <1>6, <1>7, <1>10, StartingAgrees

-----------------------------------------------------------------------------
\* A server starts to poll: from here on it may be the backup of the other
\* one, and the other one its backup.

\* The two tables agree, where they have to, before it does.
LEMMA StartsPollingAgrees ==
  ASSUME TypeInv, Safe, Agreement, TypeInv', Safe', NEW s \in Server,
         \/ pc[s] = "boot" /\ UNCHANGED conn
         \/ pc[s] \in Booting /\ conn' = Hungup(conn, chan[s]),
         pc' = [pc EXCEPT ![s] = "loop"], chan' = [chan EXCEPT ![s] = NoConn],
         UNCHANGED <<table, todo, serving, clientVars>>,
         NEW t \in Server, t = OtherServer(s), Replicates(t)' <=> Replicates(t),
         pc[t] \in {"keys", "get", "up"} /\ ~conn[chan[t]].sOpen => ~Replicates(s)',
         Replicates(s)' /\ Polling(t) =>
           \A k \in Key \ exposed' : table[s][k] = table[t][k],
         Replicates(t) \/ PendingUp(t) =>
           \A k \in Key \ exposed' : AgreeOn(t, s, k)
  PROVE  Agreement'
<1> USE TwoServers
<1>0. /\ OneCall /\ Typed /\ Typed'
      /\ \A u \in Server : Asking(u) /\ ForwardOK(u)
      /\ t # s /\ s = OtherServer(t)
  BY TypedNow, TypedNext DEF Agreement
<1>1. /\ pc'[s] = "loop" /\ pc'[t] = pc[t] /\ chan'[t] = chan[t]
      /\ serving'[t] = serving[t] /\ table'[t] = table[t] /\ table'[s] = table[s]
  BY <1>0 DEF Typed
<1>2. pc[s] \in Booting => /\ chan[s] \in Conn /\ conn[chan[s]] \in Connection
                           /\ conn[chan[s]].from = s
  BY BlockedOn
<1>3. ASSUME NEW j \in Conn
      PROVE  \/ conn'[j] = conn[j]
             \/ /\ j = chan[s] /\ pc[s] \in Booting /\ conn[j].from = s
                /\ conn'[j] = CutAtClient(conn[j])
                /\ ~conn'[j].cOpen /\ conn'[j].resp = NoReply
                /\ conn'[j].sOpen = conn[j].sOpen
                /\ conn'[j].req \in {conn[j].req, NoReq}
  <2>1. CASE pc[s] \in Booting /\ conn' = Hungup(conn, chan[s])
    <3>1. conn'[j] = IF j = chan[s] THEN CutAtClient(conn[j]) ELSE conn[j]
      BY <1>0, <1>2, <2>1 DEF Hungup, Typed
    <3>2. CASE j = chan[s]
      <4>1. conn[j] \in Connection /\ conn'[j] = CutAtClient(conn[j])
        BY <1>2, <2>1, <3>1, <3>2
      <4>2. /\ ~CutAtClient(conn[j]).cOpen
            /\ CutAtClient(conn[j]).resp = NoReply
            /\ CutAtClient(conn[j]).sOpen = conn[j].sOpen
            /\ CutAtClient(conn[j]).req \in {conn[j].req, NoReq}
        BY <4>1 DEF CutAtClient, Tidy, Closed, FreeConn, Connection
      <4> QED
        BY <1>2, <2>1, <3>2, <4>1, <4>2
    <3>3. CASE j # chan[s]
      BY <3>1, <3>3
    <3> QED
      BY <3>2, <3>3
  <2> QED
    BY <2>1
<1>4. OneCall'
  <2>1. \A j \in Conn : conn'[j].req # NoReq => conn'[j].sOpen
    BY <1>0, <1>3 DEF OneCall
  <2>2. \A j \in Conn : conn'[j].resp # NoReply => conn'[j].req = NoReq
    BY <1>0, <1>3 DEF OneCall
  <2>3. ASSUME NEW j \in Conn, conn'[j].from \in Server, conn'[j].cOpen,
               conn'[j].req # NoReq \/ conn'[j].resp # NoReply
        PROVE  pc'[conn'[j].from] \in Booting \cup {"repl"} /\ j = chan'[conn'[j].from]
    <3>1. conn'[j] = conn[j]
      BY <1>3, <2>3
    <3>2. pc[conn[j].from] \in Booting \cup {"repl"} /\ j = chan[conn[j].from]
      BY <1>0, <2>3, <3>1 DEF OneCall
    <3>3. conn[j].from # s
      <4>1. ASSUME conn[j].from = s PROVE FALSE
        <5>1. pc[s] \in Booting /\ j = chan[s]
          BY <3>2, <4>1 DEF Booting
        <5>2. conn' = Hungup(conn, chan[s]) /\ chan[s] \in Conn
          BY <1>2, <5>1 DEF Booting
        <5>3. conn'[j] = CutAtClient(conn[j])
          BY <1>0, <5>1, <5>2 DEF Hungup, Typed
        <5> QED
          BY <1>2, <2>3, <5>1, <5>3, Fields
      <4> QED
        BY <4>1
    <3>4. conn[j].from = t
      BY <1>0, <2>3, <3>1, <3>3
    <3> QED
      BY <1>1, <3>1, <3>2, <3>4
  <2>4. \A c \in Client : sock[c] # NoConn => sock[c] \in Conn /\ conn[sock[c]].from = c
    BY <1>0 DEF Typed, Safe, ClientEnds
  <2>5. ASSUME NEW c \in Client, cpc'[c] = "idle", sock'[c] # NoConn
        PROVE  conn'[sock'[c]].req = NoReq /\ conn'[sock'[c]].resp = NoReply
    <3>1. cpc[c] = "idle" /\ sock[c] # NoConn /\ sock'[c] = sock[c]
      BY <2>5 DEF clientVars
    <3>2. conn'[sock[c]] = conn[sock[c]]
      BY <1>3, <2>4, <3>1
    <3> QED
      BY <1>0, <3>1, <3>2 DEF OneCall
  <2> QED
    BY <2>1, <2>2, <2>3, <2>5 DEF OneCall
<1>5. /\ ~PendingUp(s)'
      /\ PendingUp(t)' => PendingUp(t)
  <2>1. \A u \in Server : PendingUp(u)' => PendingUp(u)
    <3>1. ASSUME NEW j \in Conn, conn'[j].sOpen, conn'[j].req.op = "UP"
          PROVE  conn[j].sOpen /\ conn[j].req.op = "UP" /\ conn'[j].to = conn[j].to
      <4>1. CASE conn'[j] = conn[j]
        BY <3>1, <4>1
      <4>2. CASE conn'[j] # conn[j]
        <5>1. j = chan[s] /\ pc[s] \in Booting /\ conn'[j] = CutAtClient(conn[j])
          BY <1>3, <4>2
        <5> QED
          BY <1>2, <3>1, <5>1, Fields
      <4> QED
        BY <4>1, <4>2
    <3> QED
      BY <3>1 DEF PendingUp
  <2>2. ~PendingUp(s)
    BY NotPolling DEF Polling, Booting
  <2> QED
    BY <2>1, <2>2
<1>6. pc[t] \in Booting => chan[t] \in Conn /\ conn'[chan[t]] = conn[chan[t]]
  BY <1>0, <1>3, BlockedOn
<1>7. CutTransfer'
  BY <1>0, <1>1, <1>5, <1>6 DEF CutTransfer, Booting
<1>8. Asking(s)' /\ ForwardOK(s)' /\ KeysListed(s)' /\ Fetching(s)' /\ Copied(s)'
  BY <1>1 DEF Asking, ForwardOK, KeysListed, Fetching, Copied
<1>9. Asking(t)'
  BY <1>0, <1>1, <1>6 DEF Asking, Waits, Booting
<1>10. /\ ForwardOK(t)'
       /\ pc[t] = "repl" => Forwarding(t)' = Forwarding(t) /\ conn'[chan[t]] = conn[chan[t]]
       /\ \A k \in Key : Unsettled(t, k)' <=> Unsettled(t, k)
  <2>1. CASE pc[s] \in Booting
    <3>1. PICK i \in Conn : i = chan[s]
      BY <1>2, <2>1
    <3>2. \A j \in Conn : j # i => conn'[j] = conn[j]
      BY <1>3, <3>1
    <3> QED
      BY <1>0, <1>1, <2>1, <3>1, <3>2, OtherForwards
  <2>2. CASE UNCHANGED conn
    BY <1>0, <1>1, <2>2, ForwardKept DEF ForwardOK, Forwarding
  <2> QED
    BY <2>1, <2>2
<1>11. KeysListed(t)' /\ Fetching(t)' /\ Copied(t)'
  <2>1. ~Polling(s)
    BY DEF Polling, Booting
  <2>2. /\ pc[t] = "keys" /\ conn[chan[t]].sOpen => conn[chan[t]].resp = NoReply
        /\ ~(pc[t] \in {"get", "up"} /\ conn[chan[t]].sOpen)
    BY <2>1, NotPolling
  <2> QED
    BY <1>1, <1>6, <2>2 DEF KeysListed, Fetching, Copied, Booting
<1>12. Backed(s)'
  BY <1>0, <1>1, <1>5 DEF Backed, Polling, AgreeOn, Unsettled
<1>13. Backed(t)'
  <2>1. \A k \in Key : AgreeOn(t, s, k) => AgreeOn(t, s, k)'
    BY <1>1, <1>10 DEF AgreeOn, Unsettled
  <2> QED
    BY <1>0, <1>5, <2>1, TypedNext DEF Backed, Typed
<1>14. \A u \in Server : Asking(u)' /\ ForwardOK(u)' /\ CopyOK(u)'
  BY <1>0, <1>8, <1>9, <1>10, <1>11, <1>12, <1>13 DEF CopyOK
<1> QED
  BY <1>4, <1>7, <1>14 DEF Agreement

\* A server that starts alone finds the keys of both tables exposed.
LEMMA AloneAgrees ==
  ASSUME TypeInv, Safe, Agreement, Exposed, NEW s \in Server, StartsAlone(s),
         NEW t \in Server, t # s
  PROVE  \A k \in Key \ exposed' : table[s][k] = table[t][k] /\ AgreeOn(t, s, k)
<1>1. Typed /\ ForwardOK(t)
  BY TypedNow DEF Agreement
<1>2. SUFFICES ASSUME NEW k \in Key \ exposed'
               PROVE  table[s][k] = table[t][k] /\ AgreeOn(t, s, k)
  OBVIOUS
<1>3. table[s][k] = NoVal /\ table[t][k] = NoVal
  BY ExposedAlone
<1>4. ASSUME Unsettled(t, k)
      PROVE  table[t][k] = Apply(Forwarding(t), table[s])[k]
  <2>1. PICK m \in Request : m = Forwarding(t)
    BY <1>4, BlockedOn DEF Unsettled
  <2>2. m.op \in Writes /\ k = m.key /\ table[t][k] = Apply(m, table[t])[k]
    BY <1>1, <1>4, <2>1 DEF ForwardOK, Unsettled
  <2>3. table[s] \in Table /\ table[t] \in Table
    BY <1>1 DEF Typed
  <2>4. Apply(m, table[s])[m.key] = Apply(m, table[t])[m.key]
    BY <1>3, <2>2, <2>3, WriteOnce
  <2> QED
    BY <2>1, <2>2, <2>4
<1> QED
  BY <1>3, <1>4 DEF AgreeOn

\* The start of S1.
LEMMA BootPrimaryAgrees ==
  ASSUME TypeInv, Safe, Agreement, TypeInv', Safe', BootPrimary, UNCHANGED clientVars
  PROVE  Agreement'
<1> USE TwoServers
<1>1. CASE S2 \in listening
  <2>1. PICK m : m = Plain("STATUS")
    OBVIOUS
  <2>2. /\ pc[S1] = "boot" /\ Wait(S1, "ask", NewConn) /\ HasRoom
        /\ conn' = Opened(conn, NewConn, S1, OtherServer(S1), m)
        /\ UNCHANGED <<table, todo, clientVars>>
    BY <1>1, <2>1 DEF BootPrimary
  <2>3. m.op = "STATUS"
    BY <2>1 DEF Plain, Msg
  <2> QED
    BY <2>2, <2>3, FirstAsksAgrees
<1>2. CASE S2 \notin listening
  <2>1. ~Polling(S2) /\ pc[S2] = "down"
    BY <1>2 DEF Polling, Safe, Modes
  <2>2. ~Replicates(S2) /\ ~PendingUp(S2)
    BY <2>1, NotPolling
  <2>3. /\ pc[S1] = "boot" /\ UNCHANGED conn
        /\ pc' = [pc EXCEPT ![S1] = "loop"] /\ chan' = [chan EXCEPT ![S1] = NoConn]
        /\ status' = [status EXCEPT ![S1] = PRIMARY]
        /\ state' = [state EXCEPT ![S1] = UP]
        /\ UNCHANGED <<table, todo, serving, clientVars>>
    BY <1>2 DEF BootPrimary, BecomePrimary
  <2>4. Replicates(S2)' <=> Replicates(S2)
    BY <2>3, TypedNow DEF Replicates, Typed
  <2> QED
    BY <2>1, <2>2, <2>3, <2>4, StartsPollingAgrees
<1> QED
  BY <1>1, <1>2

\* S1 has heard what S2 is, or that it is gone.
LEMMA AskDoneAgrees ==
  ASSUME TypeInv, Safe, Agreement, TypeInv', Safe', Exposed, AskDone, UNCHANGED clientVars
  PROVE  Agreement'
<1> USE TwoServers
<1>0. /\ pc[S1] = "ask" /\ chan[S1] \in Conn /\ Asking(S1) /\ CutTransfer /\ Typed
      /\ conn[chan[S1]].to = S2
  BY TypedNow DEF AskDone, Agreement, Typed, Booting, Safe, BootConn
<1>1. CASE Answered(chan[S1]) /\ Joins(conn[chan[S1]].resp.result)
  <2>1. PICK m : m = Plain("KEYS")
    OBVIOUS
  <2>2. /\ conn' = Sent(Taken(conn, chan[S1]), chan[S1], m)
        /\ Wait(S1, "keys", chan[S1]) /\ UNCHANGED <<table, todo>>
    BY <1>1, <2>1 DEF AskDone, Answered, Broken
  <2>3. m \in Request /\ m.op = "KEYS"
    BY <2>1 DEF Plain, Msg, Request
  <2>4. table'[S1] = EmptyTable
    BY <1>0, <2>2 DEF Asking
  <2>5. ~conn[chan[S1]].sOpen => ~Replicates(S2) /\ ~PendingUp(S2)
    BY <1>0 DEF Safe, AskOutcome
  <2> QED
    BY <1>0, <2>2, <2>3, <2>4, <2>5, GoesOnAgrees
<1>2. CASE Broken(chan[S1]) \/ (Answered(chan[S1]) /\ ~Joins(conn[chan[S1]].resp.result))
  <2>1. /\ conn' = Hungup(conn, chan[S1])
        /\ pc' = [pc EXCEPT ![S1] = "loop"] /\ chan' = [chan EXCEPT ![S1] = NoConn]
        /\ status' = [status EXCEPT ![S1] = PRIMARY]
        /\ state' = [state EXCEPT ![S1] = UP]
        /\ UNCHANGED <<table, todo, serving>>
    BY <1>2 DEF AskDone, BecomePrimary, Answered, Broken
  <2>2. ~Replicates(S2) /\ ~PendingUp(S2)
    BY <1>0, <1>2 DEF Safe, AskOutcome, Joins, Answered, Broken
  <2>3. Replicates(S2)' <=> Replicates(S2)
    BY <1>0, <2>1 DEF Replicates, Typed
  <2>4. ~(pc[S2] \in {"keys", "get", "up"} /\ ~conn[chan[S2]].sOpen)
    <3>1. conn[chan[S1]].sOpen => Polling(S2)
      BY <1>0, <1>2 DEF Safe, ServerEnds, Answered, Broken
    <3> QED
      BY <1>0, <3>1 DEF CutTransfer, Polling, Booting
  <2>5. StartsAlone(S1)
    BY <1>0, <2>1 DEF StartsAlone, Typed
  <2>6. \A k \in Key \ exposed' : table[S1][k] = table[S2][k]
    BY <2>5, AloneAgrees
  <2>7. pc[S1] \in Booting
    BY <1>0 DEF Booting
  <2> QED
    BY <2>1, <2>2, <2>3, <2>4, <2>6, <2>7, StartsPollingAgrees
<1> QED
  BY <1>1, <1>2 DEF AskDone

\* The start of S2.
LEMMA BootSecundaryAgrees ==
  ASSUME TypeInv, Safe, Agreement, TypeInv', Safe', Exposed, BootSecundary,
         UNCHANGED clientVars
  PROVE  Agreement'
<1> USE TwoServers
<1>1. CASE file = "primary" /\ S1 \in listening
  <2>1. PICK m : m = Plain("KEYS")
    OBVIOUS
  <2>2. /\ pc[S2] = "boot" /\ Wait(S2, "keys", NewConn) /\ HasRoom
        /\ conn' = Opened(conn, NewConn, S2, OtherServer(S2), m)
        /\ UNCHANGED <<table, todo, clientVars>>
    BY <1>1, <2>1 DEF BootSecundary
  <2>3. m.op = "KEYS"
    BY <2>1 DEF Plain, Msg
  <2> QED
    BY <2>2, <2>3, FirstAsksAgrees
<1>2. CASE ~(file = "primary" /\ S1 \in listening)
  <2>1. /\ pc[S2] = "boot" /\ UNCHANGED conn
        /\ pc' = [pc EXCEPT ![S2] = "loop"] /\ chan' = [chan EXCEPT ![S2] = NoConn]
        /\ status' = [status EXCEPT ![S2] = SECUNDARY]
        /\ state' = [state EXCEPT ![S2] = UP]
        /\ UNCHANGED <<table, todo, serving, clientVars>>
    BY <1>2 DEF BootSecundary, BecomeSecundary
  <2>2. (Replicates(S1)' <=> Replicates(S1)) /\ ~Replicates(S2)'
    BY <2>1, TypedNow DEF Replicates, Typed, PRIMARY, SECUNDARY
  <2>3. StartsAlone(S2)
    BY <2>1, TypedNow DEF StartsAlone, Typed
  <2>4. \A k \in Key \ exposed' : AgreeOn(S1, S2, k)
    BY <2>3, AloneAgrees
  <2> QED
    BY <2>1, <2>2, <2>4, StartsPollingAgrees
<1> QED
  BY <1>1, <1>2

\* The OC_UP was answered, or the primary is gone.
LEMMA UpDoneAgrees ==
  ASSUME TypeInv, Safe, Agreement, TypeInv', Safe', Exposed, NEW s \in Server, UpDone(s),
         UNCHANGED clientVars
  PROVE  Agreement'
<1> USE TwoServers
<1>0. /\ Typed /\ CutTransfer /\ Copied(s)
      /\ pc[s] = "up" /\ conn' = Hungup(conn, chan[s])
      /\ Answered(chan[s]) \/ Broken(chan[s])
      /\ pc' = [pc EXCEPT ![s] = "loop"] /\ chan' = [chan EXCEPT ![s] = NoConn]
      /\ status' = [status EXCEPT ![s] = SECUNDARY]
      /\ state' = [state EXCEPT ![s] = UP]
      /\ UNCHANGED <<table, todo, serving, clientVars>>
  BY TypedNow DEF Agreement, CopyOK, UpDone, BecomeSecundary
<1>1. PICK t \in Server : t = OtherServer(s) /\ t # s
  OBVIOUS
<1>2. (Replicates(t)' <=> Replicates(t)) /\ ~Replicates(s)'
  BY <1>0, <1>1 DEF Replicates, Typed, PRIMARY, SECUNDARY
<1>3. exposed \subseteq exposed'
  <2>1. chan[s] \in Conn /\ \A j \in Conn : j # chan[s] => conn'[j] = conn[j]
    BY <1>0, BlockedOn DEF Hungup, Typed, Booting
  <2>2. ASSUME NEW j \in Conn, conn[j].req.op = "KEYS", conn[j].from \in Server,
               conn[j].cOpen
        PROVE  conn'[j].req # NoReq
    <3>1. pc[conn[j].from] = "keys" /\ chan[conn[j].from] = j
      BY <2>2, KeysCaller
    <3>2. chan[s] # j
      BY <1>0, <3>1, BlockedOn DEF Booting
    <3> QED
      BY <2>1, <2>2, <3>2 DEF NoReq, Plain, Msg
  <2>3. \A u \in Server : ~StartsAlone(u)
    BY <1>0 DEF StartsAlone, Typed
  <2> QED
    BY <2>2, <2>3, ExposedGrows
<1>4. Replicates(t) \/ PendingUp(t) => \A k \in Key \ exposed' : AgreeOn(t, s, k)
  <2>1. CASE conn[chan[s]].sOpen
    BY <1>0, <1>1, <1>3, <2>1 DEF Copied, Answered, Broken
  <2>2. CASE ~conn[chan[s]].sOpen
    BY <1>0, <1>1, <2>2 DEF CutTransfer
  <2> QED
    BY <2>1, <2>2
<1>5. pc[s] \in Booting
  BY <1>0 DEF Booting
<1> QED
  BY <1>0, <1>1, <1>2, <1>4, <1>5, StartsPollingAgrees

\* Every step of the start-up keeps the agreement.
LEMMA BootAgrees ==
  ASSUME TypeInv, Safe, Agreement, TypeInv', Safe', Exposed, NEW s \in Server, Boot(s),
         UNCHANGED clientVars
  PROVE  Agreement'
BY BootPrimaryAgrees, AskDoneAgrees, BootSecundaryAgrees, KeysDoneAgrees, ValueDoneAgrees,
   UpDoneAgrees, GoneAgrees DEF Boot, TransferDies

-----------------------------------------------------------------------------
\* Steps of the poll loop that change no table.

\* A connection is accepted, and the thread connects and assigns.
LEMMA AcceptAgrees ==
  ASSUME TypeInv, Safe, Agreement, Exposed, NEW s \in Server, NEW i \in Conn, Accept(s, i),
         UNCHANGED clientVars
  PROVE  Agreement'
<1>0. /\ Typed
      /\ conn[i].sOpen /\ conn[i].to = s /\ pc[s] = "loop"
      /\ conn' = [conn EXCEPT ![i].acc = TRUE]
      /\ UNCHANGED <<pc, status, state, chan, serving, table, todo, clientVars>>
  BY TypedNow DEF Accept, memory
<1>1. conn' = [conn EXCEPT ![i] = [conn[i] EXCEPT !.acc = TRUE]]
  BY <1>0
<1>2. \A j \in Conn :
        \/ conn'[j] = conn[j]
        \/ conn[j].sOpen /\ pc[conn[j].to] = "loop"
             /\ conn'[j] = [conn[j] EXCEPT !.acc = TRUE]
  BY <1>0, <1>1 DEF Typed
<1>3. \A t \in Server : PendingUp(t)' => PendingUp(t)
  <2>1. \A j \in Conn : /\ conn'[j].to = conn[j].to /\ conn'[j].req = conn[j].req
                        /\ conn'[j].sOpen = conn[j].sOpen
    BY <1>0 DEF Typed, Connection
  <2> QED
    BY <2>1 DEF PendingUp
<1>4. \A t \in Server : Replicates(t)' => Replicates(t)
  BY <1>0 DEF Replicates
<1> QED
  BY <1>0, <1>2, <1>3, <1>4, NothingAnsweredAgrees

\* The server closes a connection whose other end is closed.
LEMMA EofAgrees ==
  ASSUME TypeInv, Safe, Agreement, Exposed, NEW s \in Server, NEW i \in Conn,
         HandleEof(s, i), UNCHANGED clientVars
  PROVE  Agreement'
<1>0. /\ Typed
      /\ conn[i] \in Connection /\ conn[i].req = NoReq /\ ~conn[i].cOpen
      /\ conn' = Dropped(conn, i)
      /\ status' = [status EXCEPT ![s] = PromotedStatus(@)]
      /\ state' = [state EXCEPT ![s] = PromotedState(status[s], @)]
      /\ UNCHANGED <<pc, chan, serving, table, todo, clientVars>>
  BY TypedNow DEF HandleEof, Typed
<1>1. /\ conn'[i] = FreeConn
      /\ \A j \in Conn : j # i => conn'[j] = conn[j]
  BY <1>0 DEF Dropped, CutAtServer, Tidy, Closed, Typed, Connection
<1>2. conn'[i].req = NoReq /\ conn'[i].resp = NoReply /\ ~conn'[i].sOpen
  BY <1>1 DEF FreeConn
<1>3. \A t \in Server : PendingUp(t)' => PendingUp(t)
  BY <1>1, <1>2 DEF PendingUp
<1>4. \A t \in Server : Replicates(t)' => Replicates(t)
  BY <1>0 DEF PromotedStatus, PromotedState, Replicates, PRIMARY, SECUNDARY, UP, DOWN, Typed
<1>5. \A j \in Conn :
        \/ conn'[j] = conn[j]
        \/ /\ ~conn[j].cOpen /\ conn[j].req = NoReq
           /\ conn'[j].req = NoReq /\ conn'[j].resp = NoReply
  BY <1>0, <1>1, <1>2
<1> QED
  BY <1>0, <1>3, <1>4, <1>5, NothingAnsweredAgrees

\* The thread of primary() opens a connection, or assigns the link.
LEMMA ThreadAgrees ==
  ASSUME TypeInv, Safe, Agreement, Exposed, Thread, UNCHANGED clientVars
  PROVE  Agreement'
<1>0. /\ Typed /\ OneCall
      /\ UNCHANGED <<pc, status, state, chan, serving, table, todo, clientVars>>
  BY TypedNow DEF Agreement, Thread, ThreadConnect, ThreadAssign
<1>1. ASSUME NEW j \in Conn
      PROVE  \/ conn'[j] = conn[j]
             \/ /\ ~conn[j].cOpen /\ conn[j].req = NoReq
                /\ conn'[j].req = NoReq /\ conn'[j].resp = NoReply
  <2>1. CASE conn' = conn
    BY <2>1
  <2>2. CASE HasRoom /\ conn' = Opened(conn, NewConn, S1, S2, NoReq)
    <3>1. NewConn \in Conn /\ Closed(conn[NewConn])
      BY <2>2, NewConnType
    <3>2. conn[NewConn].req = NoReq /\ ~conn[NewConn].cOpen
      BY <1>0, <3>1 DEF OneCall, Closed
    <3>3. j = NewConn => conn'[j].req = NoReq /\ conn'[j].resp = NoReply
      BY <1>0, <2>2, <3>1 DEF Opened, NewConnection, Typed
    <3>4. j # NewConn => conn'[j] = conn[j]
      BY <1>0, <2>2, <3>1 DEF Opened, Typed
    <3> QED
      BY <3>2, <3>3, <3>4
  <2> QED
    BY <2>1, <2>2 DEF Thread, ThreadConnect, ThreadAssign
<1>2. \A t \in Server : PendingUp(t)' => PendingUp(t)
  <2>1. \A j \in Conn : conn'[j] = conn[j] \/ conn'[j].req = NoReq
    BY <1>1
  <2> QED
    BY <2>1 DEF PendingUp, NoReq, Plain, Msg
<1>3. \A t \in Server : Replicates(t)' => Replicates(t)
  BY <1>0 DEF Replicates
<1> QED
  BY <1>0, <1>1, <1>2, <1>3, NothingAnsweredAgrees

\* A request that only reads is answered from the table of the server.
LEMMA ReadAgrees ==
  ASSUME TypeInv, Safe, Agreement, TypeInv', Safe', Exposed,
         NEW s \in Server, NEW i \in Conn, ServeRead(s, i), UNCHANGED clientVars
  PROVE  Agreement'
<1>r. PICK r : r = IF conn[i].req.op = "STATUS" THEN Result(status[s])
                                               ELSE Answer(conn[i].req, table[s])
  OBVIOUS
<1>0. /\ Typed
      /\ conn[i] \in Connection /\ conn[i].sOpen /\ conn[i].to = s /\ pc[s] = "loop"
      /\ conn[i].req.op \in Answerable
      /\ conn' = Replied(conn, i, r)
      /\ UNCHANGED <<pc, status, state, chan, serving, table, todo, clientVars>>
  BY <1>r, TypedNow DEF ServeRead, Inbound, Typed, serverVars, memory
<1>1. CASE conn[i].req.op = "KEYS" /\ conn[i].from \in Server /\ conn[i].cOpen
  BY <1>1, KeysAgrees
<1>2. CASE ~(conn[i].req.op = "KEYS" /\ conn[i].from \in Server /\ conn[i].cOpen)
  <2>1. /\ conn[i].req # NoReq /\ conn[i].req.op \notin Writes
        /\ conn[i].req.op = "KEYS" => conn[i].from \in Client \/ ~conn[i].cOpen
    BY <1>0, <1>2 DEF Answerable, Reads, Writes, NoReq, Plain, Msg, Connection, Proc
  <2>2. /\ r # NoReply
        /\ conn[i].req.op = "GET" /\ r.type = "VALUE" => r.val = table[s][conn[i].req.key]
    BY <1>0, <1>r DEF Answer, Answerable, Reads, Result, ValueOf, KeyList, ErrorReply,
       GarbageReply, NoReply
  <2>3. conn'[i] = Replied(conn, i, r)[i]
    BY <1>0
  <2>6. \A j \in Conn : j # i => conn'[j] = conn[j]
    BY <1>0 DEF Replied, Typed
  <2>4. \A t \in Server : PendingUp(t)' => PendingUp(t)
    BY <1>0 DEF PendingUp, Replied, Typed, Connection, NoReq, Plain, Msg
  <2>5. \A t \in Server : Replicates(t)' => Replicates(t)
    BY <1>0 DEF Replicates
  <2> QED
    BY <1>0, <2>1, <2>2, <2>3, <2>4, <2>5, <2>6, AnswerAgrees
<1> QED
  BY <1>1, <1>2

\* An OC_UP is answered: s has a backup, or the one who sent it is gone.
LEMMA UpAgrees ==
  ASSUME TypeInv, Safe, Agreement, Exposed, NEW s \in Server, NEW i \in Conn,
         ServeUp(s, i) \/ ServeUpFailed(s, i), UNCHANGED clientVars
  PROVE  Agreement'
<1>0. /\ Typed /\ OneCall
      /\ conn[i] \in Connection /\ conn[i].sOpen /\ conn[i].to = s /\ pc[s] = "loop"
      /\ conn[i].req.op = "UP"
      /\ UNCHANGED <<pc, status, chan, serving, table, todo, clientVars>>
      /\ \A t \in Server : t # s => state'[t] = state[t]
  BY TypedNow DEF Agreement, ServeUp, ServeUpFailed, Inbound, Typed
<1>1. conn[i].req # NoReq /\ conn[i].req.op \notin Writes \cup {"KEYS", "GET"}
  BY <1>0 DEF NoReq, Plain, Msg, Writes
<1>2. PendingUp(s)
  BY <1>0 DEF PendingUp
<1>3. \A t \in Server : Replicates(t)' => Replicates(t) \/ PendingUp(t)
  BY <1>0, <1>2 DEF Replicates
<1>4. CASE ServeUp(s, i)
  <2>0. /\ NewConn \in Conn /\ Closed(conn[NewConn]) /\ NewConn # i
        /\ conn' = Opened(Replied(conn, i, Result(UP)), NewConn, s, conn[i].from, NoReq)
    BY <1>0, <1>4, NewConnType DEF ServeUp, Closed
  <2>1. conn'[i] = Replied(conn, i, Result(UP))[i]
    BY <1>0, <2>0 DEF Opened, Replied, Typed
  <2>2. \A j \in Conn : j # i /\ j # NewConn => conn'[j] = conn[j]
    BY <1>0, <2>0 DEF Opened, Replied, Typed
  <2>3. conn'[NewConn].req = NoReq /\ conn'[NewConn].resp = NoReply
    BY <1>0, <2>0 DEF Opened, Replied, NewConnection, Typed
  <2>4. \A j \in Conn : j # i =>
          \/ conn'[j] = conn[j]
          \/ /\ ~conn[j].sOpen /\ ~conn[j].cOpen
             /\ conn'[j].req = NoReq /\ conn'[j].resp = NoReply
    BY <2>0, <2>2, <2>3 DEF Closed
  <2>5. conn'[i].req = NoReq
    BY <1>0, <2>1 DEF Replied, Connection, Typed
  <2>6. \A t \in Server : PendingUp(t)' => PendingUp(t)
    BY <2>2, <2>3, <2>5 DEF PendingUp, NoReq, Plain, Msg
  <2>7. Result(UP) # NoReply
    BY DEF Result, NoReply
  <2>8. Result(UP).type # "VALUE"
    BY DEF Result
  <2> QED
    BY <1>0, <1>1, <1>3, <2>1, <2>4, <2>6, <2>7, <2>8, AnswerAgrees
<1>5. CASE ServeUpFailed(s, i)
  <2>0. conn' = Replied(conn, i, GarbageReply)
    BY <1>5 DEF ServeUpFailed
  <2>1. \A j \in Conn : j # i => conn'[j] = conn[j]
    BY <1>0, <2>0 DEF Replied, Typed
  <2>2. conn'[i].req = NoReq
    BY <1>0, <2>0 DEF Replied, Connection, Typed
  <2>3. \A t \in Server : PendingUp(t)' => PendingUp(t)
    BY <2>1, <2>2 DEF PendingUp, NoReq, Plain, Msg
  <2>4. GarbageReply # NoReply /\ GarbageReply.type # "VALUE"
    BY DEF GarbageReply, NoReply
  <2> QED
    BY <1>0, <1>1, <1>3, <2>0, <2>1, <2>3, <2>4, AnswerAgrees
<1> QED
  BY <1>4, <1>5

-----------------------------------------------------------------------------
\* Steps of a client.

\* What a step of client c may do to a connection: anything to its own, as long
\* as a request or a reply that is on it is not replaced, and nothing to the
\* others.
ClientMoves(c, a, b) ==
  /\ b.req # NoReq => b.sOpen
  /\ b.resp # NoReply => b.req = NoReq
  /\ b = a \/ b.from = c \/ ~b.cOpen
  /\ a.from # c /\ a.cOpen => b = a
  /\ a.sOpen /\ a.req # NoReq => /\ b.acc = a.acc /\ b.req = a.req /\ b.from = a.from
                                 /\ b.cOpen => a.cOpen
  /\ b.req.op = "UP" => a.sOpen /\ a.to = b.to /\ a.req = b.req

\* What every step of client c does to the connections and to the other clients.
ClientKeeps(c) ==
  /\ \A j \in Conn : ClientMoves(c, conn[j], conn'[j])
  /\ \A d \in Client : d # c => cpc'[d] = cpc[d] /\ sock'[d] = sock[d]
  /\ cpc'[c] = "idle" /\ sock'[c] # NoConn =>
       conn'[sock'[c]].req = NoReq /\ conn'[sock'[c]].resp = NoReply

\* Such a step keeps the agreement.
LEMMA ClientAgrees ==
  ASSUME TypeInv, Safe, Agreement, NEW c \in Client,
         ClientKeeps(c),
         UNCHANGED <<serverVars, exposed>>
  PROVE  Agreement'
<1> USE TwoServers
<1>0. /\ Typed /\ OneCall /\ UNCHANGED <<pc, chan, serving, table, todo, status, state>>
      /\ \A j \in Conn : ClientMoves(c, conn[j], conn'[j])
      /\ \A d \in Client : d # c => cpc'[d] = cpc[d] /\ sock'[d] = sock[d]
      /\ cpc'[c] = "idle" /\ sock'[c] # NoConn =>
           conn'[sock'[c]].req = NoReq /\ conn'[sock'[c]].resp = NoReply
  BY TypedNow DEF Agreement, serverVars, memory, ClientKeeps
<1>1. CallsKept
  <2>1. \A j \in Conn : conn[j].from \in Server /\ conn[j].cOpen => conn'[j] = conn[j]
    BY <1>0 DEF ClientMoves
  <2>2. \A j \in Conn : conn'[j].from \in Server /\ conn'[j].cOpen => conn'[j] = conn[j]
    BY <1>0 DEF ClientMoves
  <2>3. \A j \in Conn :
          conn'[j].from \in Server /\ conn'[j].cOpen
            /\ (conn'[j].req # NoReq \/ conn'[j].resp # NoReply) =>
              /\ conn[j].from = conn'[j].from /\ conn[j].cOpen
              /\ conn[j].req # NoReq \/ conn[j].resp # NoReply
    BY <2>2
  <2>4. \A j \in Conn : /\ conn'[j].req # NoReq => conn'[j].sOpen
                        /\ conn'[j].resp # NoReply => conn'[j].req = NoReq
    BY <1>0 DEF ClientMoves
  <2>5. \A j \in Conn :
          conn[j].sOpen /\ conn[j].req # NoReq =>
            /\ conn'[j].acc = conn[j].acc /\ conn'[j].req = conn[j].req
            /\ conn'[j].from = conn[j].from
            /\ conn'[j].cOpen => conn[j].cOpen
    BY <1>0 DEF ClientMoves
  <2> QED
    BY <2>1, <2>3, <2>4, <2>5 DEF CallsKept
<1>2. IdleClients'
  <2>1. ASSUME NEW d \in Client, d # c, cpc'[d] = "idle", sock'[d] # NoConn
        PROVE  conn'[sock'[d]].req = NoReq /\ conn'[sock'[d]].resp = NoReply
    <3>1. /\ sock[d] \in Conn /\ conn[sock[d]].from = d /\ conn[sock[d]].cOpen
          /\ sock'[d] = sock[d] /\ cpc[d] = "idle" /\ sock[d] # NoConn
      BY <1>0, <2>1 DEF Typed, Safe, ClientEnds
    <3>2. conn'[sock[d]] = conn[sock[d]]
      BY <1>0, <2>1, <3>1 DEF ClientMoves
    <3> QED
      BY <1>0, <3>1, <3>2 DEF OneCall
  <2> QED
    BY <1>0, <2>1 DEF IdleClients
<1>3. \A t \in Server : PendingUp(t)' => PendingUp(t)
  BY <1>0 DEF PendingUp, ClientMoves
<1>4. \A t \in Server : Replicates(t)' => Replicates(t)
  BY <1>0 DEF Replicates
<1> QED
  BY <1>0, <1>1, <1>2, <1>3, <1>4, QuietAgrees

\* What a client's calls do to the connection that they are made on.
LEMMA ClientCalls ==
  ASSUME TypeInv, Safe, Agreement, NEW c \in Client, NEW j \in Conn
  PROVE  /\ ClientMoves(c, conn[j], conn[j])
         /\ conn[j].from = c => ClientMoves(c, conn[j], CutAtClient(conn[j]))
         /\ conn[j].from = c => ClientMoves(c, conn[j], [conn[j] EXCEPT !.resp = NoReply])
         /\ \A m \in Request :
              conn[j].from = c /\ conn[j].req = NoReq /\ conn[j].resp = NoReply
                /\ m.op # "UP" =>
                  ClientMoves(c, conn[j],
                              [conn[j] EXCEPT !.req = IF conn[j].sOpen THEN m ELSE NoReq])
         /\ \A m \in Request, t \in Server :
              Closed(conn[j]) /\ m.op # "UP" =>
                ClientMoves(c, conn[j], NewConnection(c, t, m))
<1>0. /\ conn[j] \in Connection
      /\ conn[j].req # NoReq => conn[j].sOpen
      /\ conn[j].resp # NoReply => conn[j].req = NoReq
      /\ conn[j].req.op = "UP" => conn[j].sOpen
  BY TypedNow DEF Typed, Agreement, OneCall, NoReq, Plain, Msg
<1>n. NoReq.op = "NONE"
  BY DEF NoReq, Plain, Msg
<1>1. ClientMoves(c, conn[j], conn[j])
  BY <1>0 DEF ClientMoves
<1>2. ASSUME conn[j].from = c PROVE ClientMoves(c, conn[j], CutAtClient(conn[j]))
  <2>1. CASE conn[j].sOpen
    <3>1. CutAtClient(conn[j]) = [conn[j] EXCEPT !.cOpen = FALSE, !.resp = NoReply]
      BY <1>0, <2>1 DEF CutAtClient, Tidy, Closed, Connection
    <3> QED
      BY <1>0, <1>2, <2>1, <3>1 DEF ClientMoves, Connection
  <2>2. CASE ~conn[j].sOpen
    <3>1. CutAtClient(conn[j]) = FreeConn
      BY <1>0, <2>2 DEF CutAtClient, Tidy, Closed, Connection
    <3>2. FreeConn.req = NoReq /\ FreeConn.resp = NoReply /\ ~FreeConn.cOpen
      BY DEF FreeConn
    <3> QED
      BY <1>2, <1>n, <2>2, <3>1, <3>2 DEF ClientMoves
  <2> QED
    BY <2>1, <2>2
<1>3. ASSUME conn[j].from = c
      PROVE  ClientMoves(c, conn[j], [conn[j] EXCEPT !.resp = NoReply])
  BY <1>0, <1>3 DEF ClientMoves, Connection
<1>4. ASSUME NEW m \in Request, conn[j].from = c, conn[j].req = NoReq,
             conn[j].resp = NoReply, m.op # "UP"
      PROVE  ClientMoves(c, conn[j],
                         [conn[j] EXCEPT !.req = IF conn[j].sOpen THEN m ELSE NoReq])
  BY <1>0, <1>4, <1>n DEF ClientMoves, Connection
<1>5. ASSUME NEW m \in Request, NEW t \in Server, Closed(conn[j]), m.op # "UP"
      PROVE  ClientMoves(c, conn[j], NewConnection(c, t, m))
  BY <1>0, <1>5 DEF ClientMoves, NewConnection, Closed
<1> QED
  BY <1>1, <1>2, <1>3, <1>4, <1>5

\* Every step of a client is such a step.
LEMMA ClientStepKeeps ==
  ASSUME TypeInv, Safe, Agreement, NEW c \in Client,
         \/ Bind(c) \/ ClientStep(c) \/ Exit(c)
         \/ \E m \in CallRequest : Call(c, m)
  PROVE  ClientKeeps(c)
<1> USE TwoServers
<1>0. /\ Typed /\ OneCall /\ \A j \in Conn : conn[j] \in Connection
      /\ cur \in [Client -> Server]
      /\ NoReq.op # "UP" /\ NoReq \in Request
      /\ sock[c] # NoConn => sock[c] \in Conn /\ conn[sock[c]].from = c /\ conn[sock[c]].cOpen
      /\ creq[c].op # "UP" /\ creq[c] \in Request
  BY TypedNow, ConstantMessages DEF Agreement, Typed, Safe, ClientEnds, TypeInv, TypeOK,
     ClientTypeOK, NoReq, Plain, Msg
<1>a. ASSUME \A j \in Conn : ClientMoves(c, conn[j], conn'[j]),
             \A d \in Client : d # c => cpc'[d] = cpc[d] /\ sock'[d] = sock[d],
             cpc'[c] = "idle" /\ sock'[c] # NoConn =>
               conn'[sock'[c]].req = NoReq /\ conn'[sock'[c]].resp = NoReply
      PROVE  ClientKeeps(c)
  BY <1>a DEF ClientKeeps
<1>b. \A j \in Conn : ClientMoves(c, conn[j], Closing(c)[j])
  <2>1. CASE sock[c] = NoConn
    BY <2>1, ClientCalls DEF Closing
  <2>2. CASE sock[c] # NoConn
    <3>1. \A j \in Conn : Closing(c)[j] = IF j = sock[c] THEN CutAtClient(conn[j])
                                                         ELSE conn[j]
      BY <1>0, <2>2 DEF Closing, Hungup, Typed
    <3>2. ASSUME NEW j \in Conn, j = sock[c] PROVE ClientMoves(c, conn[j], Closing(c)[j])
      <4>1. ClientMoves(c, conn[j], CutAtClient(conn[j]))
        BY <1>0, <2>2, <3>2, ClientCalls
      <4> QED
        BY <3>1, <3>2, <4>1
    <3>3. ASSUME NEW j \in Conn, j # sock[c] PROVE ClientMoves(c, conn[j], Closing(c)[j])
      <4>1. ClientMoves(c, conn[j], conn[j])
        BY ClientCalls
      <4> QED
        BY <3>1, <3>3, <4>1
    <3> QED
      BY <3>2, <3>3
  <2> QED
    BY <2>1, <2>2
<1>c. Closing(c) \in [Conn -> Connection]
  BY <1>0, ConnOpsType DEF Closing, Typed
<1>2. CASE Bind(c)
  <2>1. /\ NewConn \in Conn /\ Closed(conn[NewConn])
        /\ conn' = Opened(conn, NewConn, c, S1, NoReq)
        /\ cpc' = [cpc EXCEPT ![c] = "idle"] /\ sock' = [sock EXCEPT ![c] = NewConn]
    BY <1>2, NewConnType DEF Bind
  <2>2. /\ conn'[NewConn] = NewConnection(c, S1, NoReq)
        /\ \A j \in Conn : j # NewConn => conn'[j] = conn[j]
    BY <1>0, <2>1 DEF Opened, Typed
  <2>3. ASSUME NEW j \in Conn PROVE ClientMoves(c, conn[j], conn'[j])
    <3>1. ClientMoves(c, conn[NewConn], NewConnection(c, S1, NoReq))
      BY <1>0, <2>1, ClientCalls
    <3>2. ClientMoves(c, conn[j], conn[j])
      BY ClientCalls
    <3> QED
      BY <2>2, <3>1, <3>2
  <2>4. conn'[NewConn].req = NoReq /\ conn'[NewConn].resp = NoReply
    BY <2>2 DEF NewConnection
  <2>5. sock'[c] = NewConn /\ \A d \in Client : d # c => cpc'[d] = cpc[d] /\ sock'[d] = sock[d]
    BY <1>0, <2>1 DEF Typed
  <2> QED
    BY <1>a, <2>3, <2>4, <2>5
<1>3. ASSUME NEW m \in CallRequest, Call(c, m) PROVE ClientKeeps(c)
  <2>1. m.op # "UP" /\ m \in Request
    BY CallRequestType DEF CallRequest, Msg, Plain
  <2>2. /\ cpc[c] = "idle" /\ cpc' = [cpc EXCEPT ![c] = "wait"] /\ sock' = sock
        /\ conn' = IF sock[c] = NoConn THEN conn ELSE Sent(conn, sock[c], m)
    BY <1>3 DEF Call
  <2>3. sock[c] # NoConn => conn[sock[c]].req = NoReq /\ conn[sock[c]].resp = NoReply
    BY <1>0, <2>2 DEF OneCall
  <2>4. \A j \in Conn : ClientMoves(c, conn[j], conn'[j])
    <3>1. CASE sock[c] = NoConn
      BY <2>2, <3>1, ClientCalls
    <3>2. CASE sock[c] # NoConn
      <4>1. \A j \in Conn :
              conn'[j] = IF j = sock[c]
                         THEN [conn[j] EXCEPT !.req = IF conn[j].sOpen THEN m ELSE NoReq]
                         ELSE conn[j]
        BY <1>0, <2>2, <3>2 DEF Sent, Typed
      <4>2. ASSUME NEW j \in Conn, j = sock[c] PROVE ClientMoves(c, conn[j], conn'[j])
        <5>1. ClientMoves(c, conn[j], [conn[j] EXCEPT !.req = IF conn[j].sOpen THEN m ELSE NoReq])
          BY <1>0, <2>1, <2>3, <3>2, <4>2, ClientCalls
        <5> QED
          BY <4>1, <4>2, <5>1
      <4>3. ASSUME NEW j \in Conn, j # sock[c] PROVE ClientMoves(c, conn[j], conn'[j])
        <5>1. ClientMoves(c, conn[j], conn[j])
          BY ClientCalls
        <5> QED
          BY <4>1, <4>3, <5>1
      <4> QED
        BY <4>2, <4>3
    <3> QED
      BY <3>1, <3>2
  <2>5. cpc'[c] = "wait" /\ \A d \in Client : d # c => cpc'[d] = cpc[d] /\ sock'[d] = sock[d]
    BY <1>0, <2>2 DEF Typed
  <2> QED
    BY <1>a, <2>4, <2>5
<1>4. CASE Receive(c)
  <2>1. /\ sock[c] # NoConn /\ conn[sock[c]].resp # NoReply
        /\ conn' = Taken(conn, sock[c]) /\ sock' = sock
        /\ cpc' = [cpc EXCEPT ![c] = "idle"]
    BY <1>4 DEF Receive, Answered, Done
  <2>2. \A j \in Conn : conn'[j] = IF j = sock[c] THEN [conn[j] EXCEPT !.resp = NoReply]
                                                  ELSE conn[j]
    BY <1>0, <2>1 DEF Taken, Typed
  <2>3. ASSUME NEW j \in Conn PROVE ClientMoves(c, conn[j], conn'[j])
    <3>1. j = sock[c] => ClientMoves(c, conn[j], [conn[j] EXCEPT !.resp = NoReply])
      BY <1>0, <2>1, ClientCalls
    <3>2. ClientMoves(c, conn[j], conn[j])
      BY ClientCalls
    <3> QED
      BY <2>2, <3>1, <3>2
  <2>4. conn'[sock[c]].req = NoReq /\ conn'[sock[c]].resp = NoReply
    <3>1. conn'[sock[c]] = [conn[sock[c]] EXCEPT !.resp = NoReply]
      BY <1>0, <2>1, <2>2
    <3>2. conn[sock[c]].req = NoReq /\ conn[sock[c]] \in Connection
      BY <1>0, <2>1 DEF OneCall
    <3> QED
      BY <3>1, <3>2 DEF Connection
  <2>5. \A d \in Client : d # c => cpc'[d] = cpc[d] /\ sock'[d] = sock[d]
    BY <1>0, <2>1 DEF Typed
  <2> QED
    BY <1>a, <2>1, <2>3, <2>4, <2>5
<1>5. CASE Switch(c)
  <2>0. PICK t \in Server : t = OtherServer(cur[c])
    BY <1>0
  <2>1. cpc[c] = "wait" /\ cpc' = cpc
    BY <1>5 DEF Switch, Failed
  <2>2. CASE /\ HasRoom
             /\ conn' = Opened(Closing(c), NewConn, c, t, creq[c])
             /\ sock' = [sock EXCEPT ![c] = NewConn]
    <3>1. NewConn \in Conn /\ Closed(conn[NewConn])
      BY <2>2, NewConnType
    <3>2. \A j \in Conn : conn'[j] = IF j = NewConn THEN NewConnection(c, t, creq[c])
                                                    ELSE Closing(c)[j]
      BY <1>c, <2>2, <3>1 DEF Opened
    <3>3. ASSUME NEW j \in Conn PROVE ClientMoves(c, conn[j], conn'[j])
      <4>1. ClientMoves(c, conn[NewConn], NewConnection(c, t, creq[c]))
        BY <1>0, <3>1, ClientCalls
      <4> QED
        BY <1>b, <3>2, <4>1
    <3>4. \A d \in Client : d # c => sock'[d] = sock[d]
      BY <1>0, <2>2 DEF Typed
    <3> QED
      BY <1>a, <2>1, <3>3, <3>4
  <2>3. CASE conn' = Closing(c) /\ sock' = [sock EXCEPT ![c] = NoConn]
    <3>1. \A d \in Client : d # c => sock'[d] = sock[d]
      BY <1>0, <2>3 DEF Typed
    <3> QED
      BY <1>a, <1>b, <2>1, <2>3, <3>1
  <2> QED
    BY <1>5, <2>0, <2>2, <2>3 DEF Switch
<1>6. CASE GiveUp(c)
  <2>1. /\ conn' = Closing(c) /\ sock' = [sock EXCEPT ![c] = NoConn]
        /\ cpc' = [cpc EXCEPT ![c] = "idle"]
    BY <1>6 DEF GiveUp, Done
  <2>2. sock'[c] = NoConn /\ \A d \in Client : d # c => cpc'[d] = cpc[d] /\ sock'[d] = sock[d]
    BY <1>0, <2>1 DEF Typed
  <2> QED
    BY <1>a, <1>b, <2>1, <2>2
<1>7. CASE Exit(c)
  <2>1. /\ conn' = Vanished(conn, c) /\ sock' = [sock EXCEPT ![c] = NoConn]
        /\ cpc' = [cpc EXCEPT ![c] = "off"]
    BY <1>7 DEF Exit
  <2>2. \A j \in Conn : conn'[j] = IF conn[j].from = c THEN CutAtClient(conn[j]) ELSE conn[j]
    BY <1>0, <2>1 DEF Vanished, Connection
  <2>3. ASSUME NEW j \in Conn PROVE ClientMoves(c, conn[j], conn'[j])
    <3>1. conn[j].from = c => ClientMoves(c, conn[j], CutAtClient(conn[j]))
      BY ClientCalls
    <3>2. ClientMoves(c, conn[j], conn[j])
      BY ClientCalls
    <3> QED
      BY <2>2, <3>1, <3>2
  <2>4. sock'[c] = NoConn /\ \A d \in Client : d # c => cpc'[d] = cpc[d] /\ sock'[d] = sock[d]
    BY <1>0, <2>1 DEF Typed
  <2> QED
    BY <1>a, <2>3, <2>4
<1> QED
  BY <1>2, <1>3, <1>4, <1>5, <1>6, <1>7 DEF ClientStep

\* Every step of a client keeps the agreement.
LEMMA ClientStepAgrees ==
  ASSUME TypeInv, Safe, Agreement, NEW c \in Client,
         \/ Bind(c) \/ ClientStep(c) \/ Exit(c)
         \/ \E m \in CallRequest : Call(c, m),
         UNCHANGED <<serverVars, exposed>>
  PROVE  Agreement'
BY ClientStepKeeps, ClientAgrees

-----------------------------------------------------------------------------
\* Writes.

\* What is known of a write that s is about to serve.
LEMMA WriteServed ==
  ASSUME TypeInv, Safe, Agreement, NEW s \in Server, NEW i \in Conn, ServeWrite(s, i)
  PROVE  /\ conn[i] \in Connection /\ conn[i].sOpen /\ conn[i].to = s /\ conn[i].acc
         /\ pc[s] = "loop" /\ conn[i].req \in Request /\ conn[i].req.op \in Writes
         /\ conn[i].req # NoReq /\ conn[i].resp = NoReply
         /\ table' = [table EXCEPT ![s] = Apply(conn[i].req, @)]
         /\ UNCHANGED <<status, todo, link>>
         /\ conn[i].from \in Client \/ ~conn[i].cOpen
              \/ /\ conn[i].from = OtherServer(s) /\ conn[i].cOpen
                 /\ pc[OtherServer(s)] = "repl" /\ chan[OtherServer(s)] = i
                 /\ conn[i].req = Forwarding(OtherServer(s))
<1> USE TwoServers
<1>0. OneCall /\ \A t \in Server : ForwardOK(t)
  BY DEF Agreement
<1>1. /\ conn[i] \in Connection /\ conn[i].sOpen /\ conn[i].to = s /\ conn[i].acc
      /\ pc[s] = "loop" /\ conn[i].req \in Request /\ conn[i].req.op \in Writes
      /\ table' = [table EXCEPT ![s] = Apply(conn[i].req, @)]
      /\ UNCHANGED <<status, todo, link>>
  BY TypedNow DEF Typed, Connection, ServeWrite, Inbound
<1>2. conn[i].req # NoReq /\ conn[i].resp = NoReply
  BY <1>0, <1>1 DEF OneCall, Writes, NoReq, Plain, Msg
<1>3. CASE conn[i].from \in Server /\ conn[i].cOpen
  <2>1. conn[i].from = OtherServer(s)
    BY <1>1, <1>3 DEF Safe, ServerEnds
  <2>2. PICK t \in Server : t = OtherServer(s)
    OBVIOUS
  <2>3. pc[t] \in Booting \cup {"repl"} /\ i = chan[t]
    BY <1>0, <1>2, <1>3, <2>1, <2>2 DEF OneCall
  <2>4. pc[t] = "repl"
    BY <1>1, <2>3 DEF Safe, BootConn
  <2>5. conn[i].req = Forwarding(t)
    BY <1>0, <1>1, <1>2, <2>3, <2>4 DEF ForwardOK
  <2> QED
    BY <1>1, <1>2, <1>3, <2>1, <2>2, <2>3, <2>4, <2>5
<1>4. CASE conn[i].from \notin Server \/ ~conn[i].cOpen
  BY <1>1, <1>2, <1>4 DEF Connection, Proc
<1> QED
  BY <1>3, <1>4

\* A write that no other table gets: its key is exposed.
LEMMA LoneWriteAgrees ==
  ASSUME TypeInv, Safe, Agreement, Exposed, NEW s \in Server, NEW i \in Conn,
         ServeWrite(s, i), conn[i].from \in Client \/ ~conn[i].cOpen,
         NEW r, conn' = Replied(conn, i, r),
         UNCHANGED <<pc, chan, serving, clientVars>>,
         ~Replicates(s)', \A t \in Server : t # s => state'[t] = state[t]
  PROVE  Agreement'
<1> USE TwoServers
<1>m. PICK m \in Request : m = conn[i].req
  BY WriteServed
<1>t. PICK t \in Server : t = OtherServer(s) /\ t # s
  OBVIOUS
<1>0. /\ Typed /\ OneCall /\ CutTransfer
      /\ \A u \in Server : Asking(u) /\ ForwardOK(u) /\ CopyOK(u)
      /\ conn[i] \in Connection /\ conn[i].sOpen /\ conn[i].to = s /\ conn[i].acc
      /\ pc[s] = "loop" /\ m.op \in Writes
      /\ UNCHANGED <<status, todo, link>>
      /\ m # NoReq
  BY <1>m, TypedNow, WriteServed DEF Agreement
<1>1. /\ conn'[i].req = NoReq /\ conn'[i].acc /\ conn'[i].to = s
      /\ conn'[i].from = conn[i].from /\ conn'[i].cOpen = conn[i].cOpen
      /\ conn'[i].sOpen
      /\ \A j \in Conn : j # i => conn'[j] = conn[j]
  BY <1>0 DEF Replied, Typed, Connection
<1>2. /\ \A k \in Key : k # m.key => table'[s][k] = table[s][k]
      /\ table'[t] = table[t]
      /\ table[s] \in Table /\ table'[s] \in Table
  <2>1. table'[s] = Apply(m, table[s]) /\ table'[t] = table[t] /\ table[s] \in Table
    BY <1>0, <1>m, <1>t, WriteServed DEF Typed
  <2>2. Apply(m, table[s]) \in Table
    BY <2>1, ApplyType
  <2> QED
    BY <1>0, <2>1, <2>2, WriteOnce
<1>3. exposed \subseteq exposed' /\ m.key \in exposed'
  <2>1. \A u \in Server : ~StartsAlone(u)
    BY DEF StartsAlone
  <2>2. \A j \in Conn : conn[j].req.op = "KEYS" /\ conn[j].from \in Server
          /\ conn[j].cOpen => conn'[j].req # NoReq
    BY <1>0, <1>1, <1>m DEF NoReq, Plain, Msg, Writes
  <2>3. AnsweredAlone(s, i)
    BY <1>0, <1>1, <1>m DEF AnsweredAlone
  <2> QED
    BY <1>m, <2>1, <2>2, <2>3, ExposedGrows
<1>4. \A u \in Server : /\ PendingUp(u)' => PendingUp(u)
                        /\ Replicates(u)' => Replicates(u)
  <2>1. Replicates(t)' => Replicates(t)
    BY <1>0, <1>t DEF Replicates
  <2>2. \A u \in Server : PendingUp(u)' => PendingUp(u)
    BY <1>1 DEF PendingUp, NoReq, Plain, Msg
  <2> QED
    BY <1>t, <2>1, <2>2
<1>5. \A u \in Server : pc[u] \in Booting \cup {"repl"} =>
        u = t /\ chan[u] \in Conn /\ chan[u] # i /\ conn'[chan[u]] = conn[chan[u]]
  <2>1. \A u \in Server : pc[u] \in Booting \cup {"repl"} =>
          chan[u] \in Conn /\ conn[chan[u]].from = u /\ conn[chan[u]].cOpen
    BY BlockedOn
  <2> QED
    BY <1>0, <1>1, <1>t, <2>1 DEF Booting
<1>6. OneCall'
  <2>1. \A c \in Client : cpc[c] = "idle" /\ sock[c] # NoConn => sock[c] \in Conn /\ sock[c] # i
    BY <1>0, <1>m DEF OneCall, Typed
  <2> QED
    BY <1>0, <1>1, <2>1 DEF OneCall, clientVars
<1>7. CutTransfer'
  BY <1>0, <1>4, <1>5 DEF CutTransfer, Booting
<1>8. \A u \in Server : Asking(u)'
  <2>1. Asking(t)'
    BY <1>0, <1>2, <1>5 DEF Asking, Waits, Booting
  <2>2. Asking(s)'
    BY <1>0 DEF Asking
  <2> QED
    BY <1>t, <2>1, <2>2
<1>9. /\ ForwardOK(t)'
      /\ pc[t] = "repl" => Forwarding(t)' = Forwarding(t)
      /\ \A k \in Key : Unsettled(t, k)' <=> Unsettled(t, k)
  <2>1. CASE pc[t] = "repl"
    <3>1. serving[t] \in Conn /\ conn[serving[t]].to = t
      BY <2>1, BlockedOn
    <3>2. conn'[serving[t]] = conn[serving[t]] /\ conn'[chan[t]] = conn[chan[t]]
      BY <1>0, <1>1, <1>5, <1>t, <2>1, <3>1
    <3>3. ForwardOK(t) /\ conn[serving[t]].acc
      BY <1>0, <2>1 DEF ForwardOK
    <3> QED
      BY <1>2, <3>2, <3>3, ForwardKept DEF Forwarding
  <2>2. CASE pc[t] # "repl"
    BY <2>2 DEF ForwardOK, Unsettled
  <2> QED
    BY <2>1, <2>2
<1>10. ForwardOK(s)' /\ KeysListed(s)' /\ Fetching(s)' /\ Copied(s)'
  BY <1>0 DEF ForwardOK, KeysListed, Fetching, Copied
<1>11. \A k \in Key : ~Unsettled(s, k) /\ ~Unsettled(s, k)'
  BY <1>0 DEF Unsettled
<1>12. \A k \in Key \ exposed' : k \in Key \ exposed /\ table'[s][k] = table[s][k]
  BY <1>2, <1>3
<1>13. KeysListed(t)'
  <2>1. KeysListed(t)
    BY <1>0 DEF CopyOK
  <2> QED
    BY <1>2, <1>5, <1>11, <1>12, <1>t, <2>1 DEF KeysListed, Booting
<1>14. Fetching(t)'
  <2>1. Fetching(t)
    BY <1>0 DEF CopyOK
  <2> QED
    BY <1>0, <1>2, <1>5, <1>11, <1>12, <1>t, <2>1 DEF Fetching, Booting
<1>15. Copied(t)'
  <2>1. Copied(t)
    BY <1>0 DEF CopyOK
  <2> QED
    BY <1>2, <1>5, <1>11, <1>12, <1>t, <2>1 DEF Copied, AgreeOn, Booting
<1>16. Backed(s)'
  <2>1. Backed(s)
    BY <1>0 DEF CopyOK
  <2> QED
    BY <1>2, <1>4, <1>11, <1>12, <1>t, <2>1 DEF Backed, AgreeOn, Polling
<1>17. Backed(t)'
  <2>1. ASSUME NEW k \in Key \ exposed', AgreeOn(t, s, k) PROVE AgreeOn(t, s, k)'
    <3>1. table'[s][k] = table[s][k] /\ table'[t][k] = table[t][k]
      BY <1>2, <1>12
    <3>2. CASE Unsettled(t, k)
      <4>1. /\ pc[t] = "repl" /\ Forwarding(t)' = Forwarding(t) /\ k = Forwarding(t).key
            /\ Forwarding(t) \in Request /\ Forwarding(t).op \in Writes
            /\ conn'[chan'[t]] = conn[chan[t]]
        BY <1>0, <1>5, <1>9, <3>2, BlockedOn DEF Unsettled, ForwardOK
      <4>2. Apply(Forwarding(t), table'[s])[k] = Apply(Forwarding(t), table[s])[k]
        BY <1>2, <3>1, <4>1, WriteOnce
      <4> QED
        BY <1>9, <2>1, <3>1, <3>2, <4>1, <4>2 DEF AgreeOn
    <3>3. CASE ~Unsettled(t, k)
      BY <1>9, <2>1, <3>1, <3>3 DEF AgreeOn
    <3> QED
      BY <3>2, <3>3
  <2>2. Backed(t)
    BY <1>0 DEF CopyOK
  <2> QED
    BY <1>4, <1>12, <1>t, <2>1, <2>2 DEF Backed, Polling
<1>18. \A u \in Server : Asking(u)' /\ ForwardOK(u)' /\ CopyOK(u)'
  BY <1>8, <1>9, <1>10, <1>13, <1>14, <1>15, <1>16, <1>17, <1>t DEF CopyOK
<1> QED
  BY <1>6, <1>7, <1>18 DEF Agreement

\* The backup serves the write that its primary forwards.
LEMMA BackupWriteAgrees ==
  ASSUME TypeInv, Safe, Agreement, Exposed, NEW s \in Server, NEW i \in Conn,
         ServeWrite(s, i), conn[i].from \in Server, conn[i].cOpen,
         NEW r, r # NoReply, conn' = Replied(conn, i, r),
         UNCHANGED <<pc, chan, serving, clientVars>>,
         ~Replicates(s)'
  PROVE  Agreement'
<1> USE TwoServers
<1>m. PICK m \in Request : m = conn[i].req
  BY WriteServed
<1>t. PICK t \in Server : t = OtherServer(s) /\ t # s
  OBVIOUS
<1>0. /\ Typed /\ OneCall /\ ForwardOK(t) /\ Backed(t)
      /\ conn[i] \in Connection /\ conn[i].sOpen /\ conn[i].to = s /\ conn[i].acc
      /\ conn[i].resp = NoReply
      /\ pc[s] = "loop" /\ m.op \in Writes
      /\ UNCHANGED <<status, todo, link>>
      /\ pc[t] = "repl" /\ chan[t] = i /\ m = Forwarding(t)
  BY <1>m, <1>t, TypedNow, WriteServed DEF Agreement, CopyOK
<1>1. /\ conn'[i].req = NoReq /\ conn'[i].resp = r
      /\ conn'[i].from = conn[i].from /\ conn'[i].cOpen /\ conn'[i].to = s
      /\ conn'[i].sOpen
      /\ \A j \in Conn : j # i => conn'[j] = conn[j]
  BY <1>0 DEF Replied, Typed, Connection
<1>2. /\ table'[s] = Apply(m, table[s]) /\ table'[t] = table[t]
      /\ table[s] \in Table /\ table[t] \in Table
      /\ \A k \in Key : k # m.key => table'[s][k] = table[s][k]
  <2>1. table'[s] = Apply(m, table[s]) /\ table'[t] = table[t]
    BY <1>0, <1>m, <1>t, WriteServed DEF Typed
  <2> QED
    BY <1>0, <2>1, WriteOnce DEF Typed
<1>3. /\ Replicates(t) /\ ~PendingUp(s)
      /\ serving[t] \in Conn /\ conn[serving[t]].to = t /\ serving[t] # i
  <2>1. Replicates(t) /\ serving[t] \in Conn /\ conn[serving[t]].to = t
    BY <1>0, BlockedOn
  <2>2. ~PendingUp(s)
    BY <1>t, <2>1 DEF Safe, UpRequests
  <2> QED
    BY <1>0, <1>t, <2>1, <2>2
<1>4. exposed \subseteq exposed'
  <2>1. \A u \in Server : ~StartsAlone(u)
    BY DEF StartsAlone
  <2>2. \A j \in Conn : conn[j].req.op = "KEYS" /\ conn[j].from \in Server
          /\ conn[j].cOpen => conn'[j].req # NoReq
    BY <1>0, <1>1, <1>m DEF NoReq, Plain, Msg, Writes
  <2> QED
    BY <2>1, <2>2, ExposedGrows
<1>5. ~PendingUp(s)'
  BY <1>1, <1>3 DEF PendingUp, NoReq, Plain, Msg
<1>6. OneCall'
  <2>1. \A c \in Client : cpc[c] = "idle" /\ sock[c] # NoConn => sock[c] \in Conn /\ sock[c] # i
    BY <1>0, <1>m DEF OneCall, Typed, Writes, NoReq, Plain, Msg
  <2>2. conn[i].from = t
    BY <1>0, <1>t, BlockedOn
  <2> QED
    BY <1>0, <1>1, <2>1, <2>2 DEF OneCall, clientVars
<1>7. CutTransfer'
  <2>1. \A u \in Server : pc[u] \notin Booting
    BY <1>0, <1>t DEF Booting
  <2> QED
    BY <2>1 DEF CutTransfer, Booting
<1>8. \A u \in Server : Asking(u)' /\ KeysListed(u)' /\ Fetching(u)' /\ Copied(u)'
  <2>1. \A u \in Server : pc[u] \in {"loop", "repl"}
    BY <1>0, <1>t
  <2> QED
    BY <2>1 DEF Asking, KeysListed, Fetching, Copied
<1>9. Forwarding(t)' = Forwarding(t) /\ conn'[serving[t]] = conn[serving[t]]
  BY <1>1, <1>3 DEF Forwarding
<1>10. ForwardOK(t)'
  <2>1. conn[serving[t]].acc /\ (conn[serving[t]].from \in Client \/ ~conn[serving[t]].cOpen)
    BY <1>0 DEF ForwardOK
  <2>2. /\ table'[t][Forwarding(t)'.key] = Apply(Forwarding(t)', table'[t])[Forwarding(t)'.key]
        /\ Forwarding(t)'.op \in Writes
    BY <1>0, <1>2, <1>9 DEF ForwardOK
  <2>3. conn'[chan'[t]].resp # NoReply
    BY <1>0, <1>1
  <2> QED
    BY <1>9, <2>1, <2>2, <2>3 DEF ForwardOK
<1>11. ForwardOK(s)'
  BY <1>0 DEF ForwardOK
<1>12. Backed(s)'
  BY <1>5 DEF Backed
<1>13. Backed(t)'
  <2>1. \A k \in Key : ~Unsettled(t, k)'
    BY <1>0, <1>1 DEF Unsettled
  <2>2. ASSUME NEW k \in Key \ exposed' PROVE table[t][k] = table'[s][k]
    <3>1. AgreeOn(t, s, k)
      BY <1>0, <1>3, <1>4, <1>t DEF Backed, Polling
    <3>2. CASE k = m.key
      <4>1. Unsettled(t, k)
        BY <1>0, <3>2 DEF Unsettled
      <4> QED
        BY <1>0, <1>2, <3>1, <4>1 DEF AgreeOn
    <3>3. CASE k # m.key
      <4>1. ~Unsettled(t, k)
        BY <1>0, <3>3 DEF Unsettled
      <4> QED
        BY <1>2, <3>1, <3>3, <4>1 DEF AgreeOn
    <3> QED
      BY <3>2, <3>3
  <2> QED
    BY <1>2, <1>t, <2>1, <2>2 DEF Backed, AgreeOn
<1>14. \A u \in Server : Asking(u)' /\ ForwardOK(u)' /\ CopyOK(u)'
  BY <1>8, <1>10, <1>11, <1>12, <1>13, <1>t DEF CopyOK
<1> QED
  BY <1>6, <1>7, <1>14 DEF Agreement

\* A primary applies a write and forwards it.
LEMMA ForwardedWriteAgrees ==
  ASSUME TypeInv, Safe, Agreement, Exposed, NEW s \in Server, NEW i \in Conn,
         ServeWrite(s, i), Replicates(s), link[s] # NoConn,
         pc' = [pc EXCEPT ![s] = "repl"], chan' = [chan EXCEPT ![s] = link[s]],
         serving' = [serving EXCEPT ![s] = i],
         conn' = Sent(conn, link[s], conn[i].req),
         UNCHANGED <<state, clientVars>>
  PROVE  Agreement'
<1> USE TwoServers
<1>m. PICK m \in Request : m = conn[i].req
  BY WriteServed
<1>l. PICK l \in Conn : l = link[s]
  BY TypedNow DEF Typed
<1>t. PICK t \in Server : t = OtherServer(s) /\ t # s
  OBVIOUS
<1>0. /\ Typed /\ OneCall /\ CutTransfer
      /\ \A u \in Server : Asking(u) /\ ForwardOK(u) /\ CopyOK(u)
      /\ conn[i] \in Connection /\ conn[i].sOpen /\ conn[i].to = s /\ conn[i].acc
      /\ pc[s] = "loop" /\ m.op \in Writes /\ m # NoReq
      /\ UNCHANGED <<status, state, todo, link>>
  BY <1>m, TypedNow, WriteServed DEF Agreement
<1>1. ~Replicates(t) /\ ~PendingUp(t) /\ pc[t] # "repl"
  BY <1>t DEF Safe, NoTwoReplicators, Modes, UpRequests, Server
<1>2. conn[i].from \in Client \/ ~conn[i].cOpen
  BY <1>1, <1>t, WriteServed
<1>3. /\ conn[l].from = s /\ conn[l].cOpen /\ l # i /\ conn[l] \in Connection
      /\ conn[l].req = NoReq /\ conn[l].resp = NoReply
  <2>1. conn[l].from = s /\ conn[l].cOpen /\ conn[l] \in Connection
    BY <1>0, <1>l DEF Safe, OwnLinks, Replicates, Typed
  <2>2. l # i
    BY <1>0, <2>1 DEF Safe, ServerEnds
  <2>3. pc[s] \notin Booting \cup {"repl"}
    BY <1>0 DEF Booting
  <2> QED
    BY <1>0, <2>1, <2>2, <2>3 DEF OneCall
<1>4. /\ \A j \in Conn : j # l => conn'[j] = conn[j]
      /\ conn'[l].from = s /\ conn'[l].cOpen /\ conn'[l].sOpen = conn[l].sOpen
      /\ conn'[l].req = IF conn[l].sOpen THEN m ELSE NoReq
      /\ conn'[l].resp = NoReply
  BY <1>0, <1>3, <1>l, <1>m DEF Sent, Typed, Connection
<1>5. /\ pc'[s] = "repl" /\ chan'[s] = l /\ serving'[s] = i
      /\ pc'[t] = pc[t] /\ chan'[t] = chan[t]
  BY <1>0, <1>l, <1>t DEF Typed
<1>6. /\ table'[s] = Apply(m, table[s]) /\ table'[t] = table[t]
      /\ table[s] \in Table /\ table[t] \in Table
      /\ \A k \in Key : k # m.key => table'[s][k] = table[s][k]
      /\ table'[s][m.key] = Apply(m, table'[s])[m.key]
  <2>1. table'[s] = Apply(m, table[s]) /\ table'[t] = table[t]
    BY <1>0, <1>m, <1>t, WriteServed DEF Typed
  <2>2. table[s] \in Table /\ table[t] \in Table
    BY <1>0 DEF Typed
  <2>3. Apply(m, Apply(m, table[s]))[m.key] = Apply(m, table[s])[m.key]
    BY <1>0, <2>2, WriteOnce
  <2>4. \A k \in Key : k # m.key => table'[s][k] = table[s][k]
    BY <1>0, <2>1, <2>2, WriteOnce
  <2> QED
    BY <2>1, <2>2, <2>3, <2>4
<1>7. \A u \in Server : /\ PendingUp(u)' => PendingUp(u)
                        /\ Replicates(u)' <=> Replicates(u)
  <2>1. m.op # "UP" /\ NoReq.op # "UP"
    BY <1>0 DEF Writes, NoReq, Plain, Msg
  <2>2. \A j \in Conn : conn'[j].req.op = "UP" => conn'[j] = conn[j]
    BY <1>4, <2>1
  <2> QED
    BY <1>0, <2>2 DEF PendingUp, Replicates
<1>8. exposed \subseteq exposed'
  <2>1. \A u \in Server : ~StartsAlone(u)
    BY <1>0 DEF StartsAlone, Typed
  <2>2. \A j \in Conn : conn[j].req.op = "KEYS" /\ conn[j].from \in Server
          /\ conn[j].cOpen => conn'[j].req # NoReq
    BY <1>3, <1>4 DEF NoReq, Plain, Msg
  <2> QED
    BY <2>1, <2>2, ExposedGrows
<1>9. pc[t] \in Booting => chan[t] \in Conn /\ conn'[chan[t]] = conn[chan[t]]
  BY <1>3, <1>4, <1>t, BlockedOn
<1>10. OneCall'
  <2>1. \A c \in Client : sock[c] # NoConn => sock[c] \in Conn /\ sock[c] # l
    BY <1>0, <1>3 DEF Typed, Safe, ClientEnds
  <2>2. \A j \in Conn : j # l /\ conn[j].from = s /\ conn[j].cOpen =>
          conn[j].req = NoReq /\ conn[j].resp = NoReply
    BY <1>0 DEF OneCall, Booting
  <2>3. \A j \in Conn :
          conn'[j].from \in Server /\ conn'[j].cOpen
            /\ (conn'[j].req # NoReq \/ conn'[j].resp # NoReply) =>
              pc'[conn'[j].from] \in Booting \cup {"repl"} /\ j = chan'[conn'[j].from]
    <3>1. ASSUME NEW j \in Conn, j # l, conn[j].from \in Server, conn[j].cOpen,
                 conn[j].req # NoReq \/ conn[j].resp # NoReply
          PROVE  pc'[conn[j].from] \in Booting \cup {"repl"} /\ j = chan'[conn[j].from]
      <4>1. conn[j].from = t
        BY <1>t, <2>2, <3>1
      <4> QED
        BY <1>0, <1>5, <3>1, <4>1 DEF OneCall
    <3> QED
      BY <1>4, <1>5, <3>1
  <2>4. \A c \in Client : cpc'[c] = "idle" /\ sock'[c] # NoConn =>
          conn'[sock'[c]].req = NoReq /\ conn'[sock'[c]].resp = NoReply
    BY <1>0, <1>4, <2>1 DEF OneCall, clientVars
  <2>5. \A j \in Conn : /\ conn'[j].req # NoReq => conn'[j].sOpen
                        /\ conn'[j].resp # NoReply => conn'[j].req = NoReq
    BY <1>0, <1>4 DEF OneCall
  <2> QED
    BY <2>3, <2>4, <2>5 DEF OneCall
<1>11. CutTransfer'
  <2>1. \A u \in Server : pc'[u] \in Booting => u = t /\ pc'[t] = pc[t] /\ chan'[t] = chan[t]
                            /\ conn'[chan[t]] = conn[chan[t]]
    BY <1>5, <1>9, <1>t DEF Booting
  <2>2. ~(pc'[S1] = "ask" /\ pc'[S2] \in Booting)
    BY <2>1 DEF Booting
  <2>3. ASSUME NEW u \in Server, pc'[u] \in {"keys", "get", "up"}, ~conn'[chan'[u]].sOpen
        PROVE  ~Replicates(OtherServer(u))' /\ ~PendingUp(OtherServer(u))'
    <3>1. u = t /\ pc[u] = pc'[u] /\ ~conn[chan[u]].sOpen
      BY <2>1, <2>3 DEF Booting
    <3>2. ~Replicates(OtherServer(u)) /\ ~PendingUp(OtherServer(u))
      BY <1>0, <2>3, <3>1 DEF CutTransfer
    <3> QED
      BY <1>7, <3>2
  <2> QED
    BY <2>2, <2>3 DEF CutTransfer
<1>12. \A u \in Server : Asking(u)'
  <2>1. Asking(t)'
    BY <1>0, <1>5, <1>6, <1>9 DEF Asking, Waits, Booting
  <2>2. Asking(s)'
    BY <1>5 DEF Asking
  <2> QED
    BY <1>t, <2>1, <2>2
<1>13. Forwarding(s)' = m /\ conn'[i] = conn[i]
  BY <1>3, <1>4, <1>5, <1>m DEF Forwarding
<1>14. ForwardOK(s)' /\ ForwardOK(t)'
  <2>1. ForwardOK(s)'
    BY <1>0, <1>2, <1>4, <1>5, <1>6, <1>13 DEF ForwardOK
  <2>2. ForwardOK(t)'
    BY <1>1, <1>5 DEF ForwardOK
  <2> QED
    BY <2>1, <2>2
<1>15. \A k \in Key : ~Unsettled(s, k) /\ (Unsettled(s, k)' <=> k = m.key)
  BY <1>0, <1>4, <1>5, <1>13 DEF Unsettled
<1>16. ASSUME NEW k \in Key, table[s][k] = table[t][k] PROVE AgreeOn(s, t, k)'
  <2>1. CASE k = m.key
    <3>1. Apply(m, table[s])[k] = Apply(m, table[t])[k]
      BY <1>0, <1>6, <1>16, <2>1, WriteOnce
    <3> QED
      BY <1>6, <1>13, <1>15, <2>1, <3>1 DEF AgreeOn
  <2>2. CASE k # m.key
    BY <1>6, <1>15, <1>16, <2>2 DEF AgreeOn
  <2> QED
    BY <2>1, <2>2
<1>17. \A k \in Key \ exposed' : k \in Key \ exposed
  BY <1>8
<1>18. KeysListed(t)'
  <2>1. KeysListed(t)
    BY <1>0 DEF CopyOK
  <2> QED
    BY <1>5, <1>6, <1>9, <1>15, <1>17, <1>t, <2>1 DEF KeysListed, Booting
<1>19. Fetching(t)'
  <2>1. Fetching(t)
    BY <1>0 DEF CopyOK
  <2> QED
    BY <1>0, <1>5, <1>6, <1>9, <1>15, <1>17, <1>t, <2>1 DEF Fetching, Booting
<1>20. Copied(t)'
  <2> SUFFICES ASSUME pc[t] = "up", conn[chan[t]].sOpen PROVE Copied(t)'
    BY <1>5, <1>9 DEF Copied, Booting
  <2>1. \A k \in Key \ exposed' :
          IF conn[chan[t]].resp = NoReply THEN table[s][k] = table[t][k]
                                          ELSE AgreeOn(s, t, k)
    BY <1>0, <1>15, <1>17, <1>t DEF CopyOK, Copied
  <2>2. \A k \in Key \ exposed' : table[s][k] = table[t][k]
    BY <1>15, <2>1 DEF AgreeOn
  <2>3. \A k \in Key \ exposed' : k = m.key \/ table'[s][k] = table'[t][k]
    BY <1>6, <2>2
  <2> QED
    BY <1>5, <1>9, <1>15, <1>16, <1>t, <2>2, <2>3 DEF Copied, Booting
<1>21. Backed(s)'
  <2>1. Polling(t)' => \A k \in Key \ exposed' : table[s][k] = table[t][k]
    BY <1>0, <1>5, <1>15, <1>17, <1>t DEF CopyOK, Backed, AgreeOn, Polling
  <2> QED
    BY <1>16, <1>t, <2>1 DEF Backed
<1>22. Backed(t)'
  BY <1>1, <1>7 DEF Backed
<1>23. KeysListed(s)' /\ Fetching(s)' /\ Copied(s)'
  BY <1>5 DEF KeysListed, Fetching, Copied
<1>24. \A u \in Server : Asking(u)' /\ ForwardOK(u)' /\ CopyOK(u)'
  BY <1>12, <1>14, <1>18, <1>19, <1>20, <1>21, <1>22, <1>23, <1>t DEF CopyOK
<1> QED
  BY <1>10, <1>11, <1>24 DEF Agreement

\* Every write keeps the agreement.
LEMMA WriteAgrees ==
  ASSUME TypeInv, Safe, Agreement, Exposed, NEW s \in Server, NEW i \in Conn,
         ServeWrite(s, i), UNCHANGED clientVars
  PROVE  Agreement'
<1> USE TwoServers
<1>0. Typed /\ conn[i].req.op \in Writes
  BY TypedNow, WriteServed
<1>r. PICK r : r = Answer(conn[i].req, table[s])
  OBVIOUS
<1>1. CASE Replicates(s) /\ link[s] # NoConn
  <2>1. Forwarded(conn[i].req)
    BY <1>0 DEF Forwarded
  <2>2. /\ pc' = [pc EXCEPT ![s] = "repl"] /\ chan' = [chan EXCEPT ![s] = link[s]]
        /\ serving' = [serving EXCEPT ![s] = i]
        /\ conn' = Sent(conn, link[s], conn[i].req)
        /\ UNCHANGED state
    BY <1>1, <2>1 DEF ServeWrite
  <2> QED
    BY <1>1, <2>2, ForwardedWriteAgrees
<1>2. CASE ~(Replicates(s) /\ link[s] # NoConn)
  <2>1. /\ state' = [state EXCEPT ![s] = IF Replicates(s) /\ Forwarded(conn[i].req)
                                         THEN DOWN ELSE @]
        /\ conn' = Replied(conn, i, r)
        /\ UNCHANGED <<pc, chan, serving, status>>
    BY <1>2, <1>r DEF ServeWrite
  <2>2. ~Replicates(s)' /\ \A t \in Server : t # s => state'[t] = state[t]
    BY <1>0, <2>1 DEF Replicates, Forwarded, Typed, UP, DOWN
  <2>3. r # NoReply
    BY <1>0, <1>r DEF Answer, Writes, Result, ErrorReply, NoReply
  <2>4. CASE conn[i].from \in Client \/ ~conn[i].cOpen
    BY <2>1, <2>2, <2>4, LoneWriteAgrees
  <2>5. CASE conn[i].from \in Server /\ conn[i].cOpen
    BY <2>1, <2>2, <2>3, <2>5, BackupWriteAgrees
  <2> QED
    BY <1>0, <2>4, <2>5 DEF Typed, Connection, Proc
<1> QED
  BY <1>1, <1>2

\* The backup has answered the forwarded write, or the connection broke and the
\* write is the primary's alone.
LEMMA ForwardDoneAgrees ==
  ASSUME TypeInv, Safe, Agreement, Exposed, NEW s \in Server, ForwardDone(s),
         UNCHANGED clientVars
  PROVE  Agreement'
<1> USE TwoServers
<1>i. PICK i \in Conn : i = chan[s]
  BY TypedNow DEF Typed, ForwardDone, Booting
<1>j. PICK j \in Conn : j = serving[s]
  BY TypedNow DEF Typed, ForwardDone
<1>t. PICK t \in Server : t = OtherServer(s) /\ t # s
  OBVIOUS
<1>0. /\ Typed /\ OneCall /\ CutTransfer
      /\ \A u \in Server : Asking(u) /\ ForwardOK(u) /\ CopyOK(u)
      /\ pc[s] = "repl"
      /\ Answered(i) \/ Broken(i)
      /\ conn' = Replied(IF Answered(i) THEN Taken(conn, i) ELSE Hungup(conn, i),
                         j, answer[s])
      /\ state' = [state EXCEPT ![s] = AfterForward(Answered(i), @)]
      /\ pc' = [pc EXCEPT ![s] = "loop"]
      /\ chan' = [chan EXCEPT ![s] = NoConn]
      /\ UNCHANGED <<status, table, todo, link, clientVars>>
  BY <1>i, <1>j, TypedNow DEF Agreement, ForwardDone
<1>1. /\ conn[i] \in Connection /\ conn[i].from = s /\ conn[i].cOpen
      /\ conn[j] \in Connection /\ conn[j].to = s /\ conn[j].sOpen /\ conn[j].from # s
      /\ i # j /\ Replicates(s)
      /\ conn[j].acc /\ conn[j].req = Forwarding(s) /\ Forwarding(s).op \in Writes
      /\ conn[j].from \in Client \/ ~conn[j].cOpen
  BY <1>0, <1>i, <1>j, BlockedOn DEF Forwarding, ForwardOK
<1>2. conn[i].req = NoReq
  BY <1>0 DEF OneCall, Answered, Broken
<1>3. /\ \A l \in Conn : l # i /\ l # j => conn'[l] = conn[l]
      /\ conn'[j].from = conn[j].from /\ conn'[j].to = s /\ conn'[j].acc
      /\ conn'[j].cOpen = conn[j].cOpen /\ conn'[j].sOpen
      /\ conn'[j].req = NoReq
  BY <1>0, <1>1 DEF Taken, Hungup, Replied, Connection, Typed
<1>4. /\ conn'[i].req = NoReq /\ conn'[i].resp = NoReply
      /\ conn'[i].sOpen = conn[i].sOpen
  <2>1. CASE Answered(i)
    <3>1. conn'[i] = [conn[i] EXCEPT !.resp = NoReply]
      BY <1>0, <1>1, <2>1 DEF Taken, Replied, Connection, Typed
    <3> QED
      BY <1>1, <1>2, <3>1 DEF Connection
  <2>2. CASE ~Answered(i)
    <3>1. conn'[i] = CutAtClient(conn[i]) /\ ~conn[i].sOpen
      BY <1>0, <1>1, <2>2 DEF Hungup, Replied, Connection, Typed, Broken
    <3>2. CutAtClient(conn[i]) = FreeConn
      BY <1>1, <3>1 DEF CutAtClient, Tidy, Closed, Connection
    <3>3. conn[i].sOpen = FALSE
      BY <1>1, <3>1 DEF Connection
    <3>4. /\ FreeConn.req = NoReq /\ FreeConn.resp = NoReply
          /\ FreeConn.sOpen = FALSE
      BY DEF FreeConn
    <3>5. conn'[i] = FreeConn
      BY <3>1, <3>2
    <3> QED
      BY <3>3, <3>4, <3>5
  <2> QED
    BY <2>1, <2>2
<1>5. /\ pc'[s] = "loop" /\ pc'[t] = pc[t] /\ chan'[t] = chan[t]
      /\ pc[t] # "repl" /\ ~Replicates(t) /\ ~PendingUp(t)
      /\ ~Replicates(t)'
  <2>1. pc'[s] = "loop" /\ pc'[t] = pc[t] /\ chan'[t] = chan[t]
    BY <1>0, <1>t DEF Typed
  <2>2. pc[t] # "repl" /\ ~Replicates(t) /\ ~PendingUp(t)
    BY <1>1, <1>t DEF Safe, NoTwoReplicators, Modes, UpRequests, Server
  <2>3. ~Replicates(t)'
    BY <1>0, <1>t, <2>2 DEF Replicates
  <2> QED
    BY <2>1, <2>2, <2>3
<1>6. \A u \in Server : /\ PendingUp(u)' => PendingUp(u)
                        /\ Replicates(u)' => Replicates(u)
  <2>1. \A u \in Server : PendingUp(u)' => PendingUp(u)
    BY <1>3, <1>4 DEF PendingUp, NoReq, Plain, Msg
  <2> QED
    BY <1>1, <1>5, <1>t, <2>1
<1>7. \A u \in Server : pc'[u] \in Booting =>
        /\ u = t /\ pc'[u] = pc[u] /\ chan'[u] = chan[u]
        /\ chan[u] \in Conn /\ conn'[chan[u]] = conn[chan[u]]
  <2>1. pc[t] \in Booting => chan[t] \in Conn /\ chan[t] # i
    BY <1>1, <1>t, BlockedOn
  <2>2. pc[t] \in Booting => chan[t] # j
    BY <1>0, <1>j, <1>t DEF Safe, OwnLinks
  <2> QED
    BY <1>3, <1>5, <1>t, <2>1, <2>2 DEF Booting
<1>8. exposed \subseteq exposed' /\ (~Replicates(s)' => Forwarding(s).key \in exposed')
  <2>1. \A u \in Server : ~StartsAlone(u)
    BY <1>0 DEF StartsAlone, Typed
  <2>2. \A l \in Conn : conn[l].req.op = "KEYS" /\ conn[l].from \in Server
          /\ conn[l].cOpen => conn'[l].req # NoReq
    BY <1>1, <1>2, <1>3 DEF NoReq, Plain, Msg, Writes
  <2>3. ~Replicates(s)' => AnsweredAlone(s, j)
    BY <1>1, <1>3 DEF AnsweredAlone
  <2> QED
    BY <1>1, <2>1, <2>2, <2>3, ExposedGrows
<1>9. \A k \in Key \ exposed' : k \in Key \ exposed /\ ~Unsettled(s, k)
  <2>1. CASE Answered(i)
    BY <1>8, <1>i, <2>1 DEF Unsettled, Answered
  <2>2. CASE ~Answered(i)
    <3>1. ~Replicates(s)'
      BY <1>0, <2>2 DEF Replicates, AfterForward, Typed, UP, DOWN
    <3> QED
      BY <1>8, <3>1 DEF Unsettled
  <2> QED
    BY <2>1, <2>2
<1>10. \A k \in Key : ~Unsettled(s, k)' /\ ~Unsettled(t, k) /\ ~Unsettled(t, k)'
  BY <1>5 DEF Unsettled
<1>11. OneCall'
  <2>1. \A l \in Conn :
          conn'[l].from \in Server /\ conn'[l].cOpen
            /\ (conn'[l].req # NoReq \/ conn'[l].resp # NoReply) =>
              pc'[conn'[l].from] \in Booting \cup {"repl"} /\ l = chan'[conn'[l].from]
    <3>1. ASSUME NEW l \in Conn, l # i, l # j, conn[l].from \in Server, conn[l].cOpen,
                 conn[l].req # NoReq \/ conn[l].resp # NoReply
          PROVE  pc'[conn[l].from] \in Booting \cup {"repl"} /\ l = chan'[conn[l].from]
      <4>1. pc[conn[l].from] \in Booting \cup {"repl"} /\ l = chan[conn[l].from]
        BY <1>0, <3>1 DEF OneCall
      <4>2. conn[l].from = t
        BY <1>i, <1>t, <3>1, <4>1
      <4> QED
        BY <1>5, <4>1, <4>2
    <3> QED
      BY <1>1, <1>3, <1>4, <3>1
  <2>2. \A c \in Client : cpc'[c] = "idle" /\ sock'[c] # NoConn =>
          conn'[sock'[c]].req = NoReq /\ conn'[sock'[c]].resp = NoReply
    <3>1. ASSUME NEW c \in Client, cpc[c] = "idle", sock[c] # NoConn
          PROVE  /\ sock[c] \in Conn /\ sock[c] # i /\ sock[c] # j
                 /\ conn[sock[c]].req = NoReq /\ conn[sock[c]].resp = NoReply
      <4>1. conn[sock[c]].req = NoReq /\ conn[sock[c]].resp = NoReply /\ sock[c] \in Conn
        BY <1>0, <3>1 DEF OneCall, Typed
      <4>2. conn[sock[c]].from = c
        BY <3>1 DEF Safe, ClientEnds
      <4>3. conn[j].req # NoReq
        BY <1>1 DEF Writes, NoReq, Plain, Msg
      <4> QED
        BY <1>1, <4>1, <4>2, <4>3
    <3> QED
      BY <1>0, <1>3, <3>1 DEF clientVars
  <2>3. \A l \in Conn : /\ conn'[l].req # NoReq => conn'[l].sOpen
                        /\ conn'[l].resp # NoReply => conn'[l].req = NoReq
    BY <1>0, <1>3, <1>4 DEF OneCall
  <2> QED
    BY <2>1, <2>2, <2>3 DEF OneCall
<1>12. CutTransfer'
  <2>1. ~(pc'[S1] = "ask" /\ pc'[S2] \in Booting)
    BY <1>7 DEF Booting
  <2>2. ASSUME NEW u \in Server, pc'[u] \in {"keys", "get", "up"}, ~conn'[chan'[u]].sOpen
        PROVE  ~Replicates(OtherServer(u))' /\ ~PendingUp(OtherServer(u))'
    <3>1. pc[u] = pc'[u] /\ ~conn[chan[u]].sOpen
      BY <1>7, <2>2 DEF Booting
    <3>2. ~Replicates(OtherServer(u)) /\ ~PendingUp(OtherServer(u))
      BY <1>0, <2>2, <3>1 DEF CutTransfer
    <3> QED
      BY <1>6, <3>2
  <2> QED
    BY <2>1, <2>2 DEF CutTransfer
<1>13. \A u \in Server : Asking(u)'
  <2>1. Asking(t)'
    BY <1>0, <1>5, <1>7 DEF Asking, Waits, Booting
  <2>2. Asking(s)'
    BY <1>5 DEF Asking
  <2> QED
    BY <1>t, <2>1, <2>2
<1>14. \A u \in Server : ForwardOK(u)'
  BY <1>5, <1>t DEF ForwardOK
<1>15. KeysListed(t)'
  <2>1. KeysListed(t)
    BY <1>0 DEF CopyOK
  <2> QED
    BY <1>0, <1>5, <1>7, <1>9, <1>t, <2>1 DEF KeysListed, Booting
<1>16. Fetching(t)'
  <2>1. Fetching(t)
    BY <1>0 DEF CopyOK
  <2> QED
    BY <1>0, <1>5, <1>7, <1>9, <1>t, <2>1 DEF Fetching, Booting
<1>17. Copied(t)'
  <2>1. Copied(t)
    BY <1>0 DEF CopyOK
  <2> QED
    BY <1>0, <1>5, <1>7, <1>9, <1>10, <1>t, <2>1 DEF Copied, AgreeOn, Booting
<1>18. Backed(s)'
  <2>1. Backed(s)
    BY <1>0 DEF CopyOK
  <2> QED
    BY <1>0, <1>1, <1>5, <1>9, <1>10, <1>t, <2>1 DEF Backed, AgreeOn, Polling
<1>19. Backed(t)'
  BY <1>5, <1>6 DEF Backed
<1>20. KeysListed(s)' /\ Fetching(s)' /\ Copied(s)'
  BY <1>5 DEF KeysListed, Fetching, Copied
<1>21. \A u \in Server : Asking(u)' /\ ForwardOK(u)' /\ CopyOK(u)'
  BY <1>13, <1>14, <1>15, <1>16, <1>17, <1>18, <1>19, <1>20, <1>t DEF CopyOK
<1> QED
  BY <1>11, <1>12, <1>21 DEF Agreement

-----------------------------------------------------------------------------
\* Before the first step no server runs and no connection is in use.
LEMMA AgreementInit == Init => Agreement
<1> SUFFICES ASSUME Init PROVE Agreement
  OBVIOUS
<1> USE TwoServers DEF Init, ServerInit, ClientInit
<1>1. /\ \A s \in Server : pc[s] = "down" /\ table[s] = EmptyTable /\ ~Replicates(s)
      /\ \A j \in Conn : /\ conn[j].req = NoReq /\ conn[j].resp = NoReply
                         /\ ~conn[j].sOpen
  BY DEF FreeConn, Replicates, PRIMARY
<1>2. OneCall
  BY <1>1 DEF OneCall
<1>3. CutTransfer
  BY <1>1 DEF CutTransfer
<1>4. \A s \in Server : Asking(s) /\ ForwardOK(s)
  BY <1>1 DEF Asking, ForwardOK
<1>5. \A s \in Server : CopyOK(s)
  BY <1>1 DEF CopyOK, KeysListed, Fetching, Copied, Backed, Polling
<1> QED
  BY <1>2, <1>3, <1>4, <1>5 DEF Agreement

\* A step in which nothing happens keeps the agreement.
LEMMA StutterAgrees ==
  ASSUME TypeInv, Safe, Agreement, UNCHANGED vars
  PROVE  Agreement'
<1>0. UNCHANGED <<conn, pc, status, state, table, todo, chan, link, serving, cpc, sock, exposed>>
  BY DEF vars, sockVars, serverVars, memory, clientVars
<1>1. CallsKept
  BY DEF Agreement, OneCall, CallsKept, vars, sockVars
<1>2. IdleClients'
  BY <1>0 DEF Agreement, OneCall, IdleClients
<1>3. \A s \in Server : /\ PendingUp(s)' => PendingUp(s)
                        /\ Replicates(s)' => Replicates(s)
  BY <1>0 DEF PendingUp, Replicates
<1> QED
  BY <1>0, <1>1, <1>2, <1>3, QuietAgrees

\* Every step of the system keeps the invariant.
LEMMA AgreementStep == AgreementInv /\ [Next]_vars => AgreementInv'
<1> SUFFICES ASSUME AgreementInv, [Next]_vars PROVE AgreementInv'
  OBVIOUS
<1>0. /\ TypeInv /\ Safe /\ Agreement
      /\ SafetyInv' /\ TypeInv' /\ Safe'
  BY SafetyStep DEF AgreementInv, SafetyInv
<1>1. CASE AtServers(ServerNext)
  <2>0. UNCHANGED clientVars /\ Exposed
    BY <1>1 DEF AtServers
  <2>1. ASSUME NEW s \in Server, Listen(s) PROVE Agreement'
    BY <1>0, <2>0, <2>1, ListenAgrees
  <2>2. ASSUME NEW s \in Server, Boot(s) PROVE Agreement'
    BY <1>0, <2>0, <2>2, BootAgrees
  <2>3. ASSUME NEW s \in Server, Crash(s) PROVE Agreement'
    BY <1>0, <2>0, <2>3, GoneAgrees DEF Crash
  <2>4. ASSUME NEW s \in Server, ForwardDone(s) PROVE Agreement'
    BY <1>0, <2>0, <2>4, ForwardDoneAgrees
  <2>5. ASSUME NEW s \in Server, NEW i \in Conn, Serve(s, i) PROVE Agreement'
    BY <1>0, <2>0, <2>5, AcceptAgrees, ReadAgrees, WriteAgrees, UpAgrees, EofAgrees
       DEF Serve
  <2>6. ASSUME Thread PROVE Agreement'
    BY <1>0, <2>0, <2>6, ThreadAgrees
  <2> QED
    BY <1>0, <1>1, <2>1, <2>2, <2>3, <2>4, <2>5, <2>6
       DEF AtServers, ServerNext, ServerStep, AgreementInv
<1>2. CASE AtClients(ClientNext)
  BY <1>0, <1>2, ClientStepAgrees DEF AtClients, ClientNext, AgreementInv
<1>3. CASE UNCHANGED vars
  BY <1>0, <1>3, StutterAgrees DEF AgreementInv
<1> QED
  BY <1>1, <1>2, <1>3 DEF Next

-----------------------------------------------------------------------------
\* The agreement, with what is still missing of it, holds in every reachable
\* state.
THEOREM AgreementInductive == Spec => []AgreementInv
<1>1. Init => AgreementInv
  BY TypeInit, SafetyInit, AgreementInit DEF AgreementInv, SafetyInv
<1> QED
  BY <1>1, AgreementStep, PTL DEF Spec

\* Between two requests of a primary its backup holds what it holds, except for
\* the keys that the backup was not sent.
THEOREM ReplicasAgreeHolds == Spec => []ReplicasAgree
<1> USE TwoServers
<1>1. AgreementInv => ReplicasAgree
  <2> SUFFICES ASSUME AgreementInv, NEW p \in Server, NEW q \in Server, Linked(p, q),
                      NEW k \in Key \ exposed
               PROVE  table[p][k] = table[q][k]
    BY DEF ReplicasAgree
  <2>0. TypeInv /\ Typed /\ Safe /\ Agreement
    BY TypedNow DEF AgreementInv, SafetyInv
  <2>1. q = OtherServer(p)
    <3>1. /\ link[p] \in Conn /\ conn[link[p]].from = p
          /\ conn[link[p]].to = q /\ conn[link[p]].sOpen
      BY <2>0 DEF Linked, Typed, Safe, OwnLinks, Replicates
    <3> QED
      BY <2>0, <3>1 DEF Safe, ServerEnds
  <2>2. AgreeOn(p, q, k)
    BY <2>0, <2>1 DEF Linked, Polling, Agreement, CopyOK, Backed
  <2>3. ~Unsettled(p, k)
    BY DEF Linked, Unsettled
  <2> QED
    BY <2>2, <2>3 DEF AgreeOn
<1> QED
  BY <1>1, AgreementInductive, PTL
=============================================================================
