-------------------------- MODULE AckedWritesProofs --------------------------
(***************************************************************************)
(* AckedSurvives holds in every reachable state.  While a write on a key   *)
(* is in flight nothing is known of the key (FlightUnknown), so a table    *)
(* may change.  What is known is in every complete table, except for       *)
(* exposed keys while two servers have one (Binds): the death of either    *)
(* makes them Unknown.  A server that copies a table whose owner has died  *)
(* still has to read the last reply of the owner, which may complete it.   *)
(***************************************************************************)
EXTENDS AckedWrites, PrimaryBackupAgreement

\* s has the contents that it serves, or has copied them.
Complete(s) == pc[s] \in {"loop", "repl", "up"}

\* The table of s has to hold what is known of k.
Binds(s, k) == k \notin exposed \/ ~Complete(OtherServer(s))

Kept(k, v) == acked[k] \in {Unknown, v}

\* Nothing is known of a key while a write on it is in flight.
FlightUnknown == \A k \in Key : InFlight(k) => acked[k] = Unknown

\* A complete table holds what is known.
Holds(s) == Complete(s) => \A k \in Key : Binds(s, k) => Kept(k, table[s][k])

\* s copies from a server that is gone, and has one reply of it to read: the
\* list of the keys, which may be empty, or the value of a key, which may be
\* the last one.
LastReply(s) == ~conn[chan[s]].sOpen /\ conn[chan[s]].resp # NoReply

ListHolds(s) ==
  pc[s] = "keys" /\ LastReply(s) =>
    \A k \in Key : Binds(s, k) /\ k \notin conn[chan[s]].resp.keys => Kept(k, NoVal)

FetchHolds(s) ==
  pc[s] = "get" /\ LastReply(s) /\ conn[chan[s]].resp.type = "VALUE" =>
    \A k \in Key :
      Binds(s, k) => /\ k \notin todo[s] => Kept(k, table[s][k])
                     /\ k = NextKey(todo[s]) => Kept(k, conn[chan[s]].resp.val)

\* A key that is still to be fetched is not in the table.
Fresh(s) == pc[s] = "get" => \A k \in todo[s] : table[s][k] = NoVal

\* The answer that waits for the end of a forward is true.
AnswerTrue(s) ==
  pc[s] = "repl" =>
    Learnt(Forwarding(s), answer[s]) \in {Unknown, table[s][Forwarding(s).key]}

Held(s) == Holds(s) /\ ListHolds(s) /\ FetchHolds(s) /\ Fresh(s) /\ AnswerTrue(s)

Remembered == FlightUnknown /\ \A s \in Server : Held(s)

AckedInv == AgreementInv /\ Remembered
-----------------------------------------------------------------------------
\* What is known of a key after a step.
LEMMA AckedStep ==
  ASSUME Acked, NEW k \in Key
  PROVE  /\ Forgotten(k) \/ Entered(k) => acked'[k] = Unknown
         /\ AnsweredNow(k) = {} => acked'[k] \in {acked[k], Unknown}
         /\ InFlight(k)' /\ AnsweredNow(k) # {} => acked'[k] = Unknown
         /\ \/ acked'[k] \in {acked[k], Unknown}
            \/ \E i \in AnsweredNow(k) : acked'[k] = LearntOn(i)
<1>1. acked'[k] = AckedNow(k)
  BY DEF Acked
<1>2. AnsweredNow(k) # {} =>
        \E i \in AnsweredNow(k) : LearntOn(i) = LearntOn(CHOOSE j \in AnsweredNow(k) : TRUE)
  OBVIOUS
<1> QED
  BY <1>1, <1>2 DEF AckedNow

\* Nothing is known of the keys of the writes that are in flight after a step,
\* when each was in flight before or was entered in it.
LEMMA FlightKept ==
  ASSUME FlightUnknown, Acked,
         \A k \in Key : InFlight(k)' => InFlight(k) \/ Entered(k)
  PROVE  FlightUnknown'
<1> SUFFICES ASSUME NEW k \in Key, InFlight(k)' PROVE acked'[k] = Unknown
  BY DEF FlightUnknown
<1>1. CASE AnsweredNow(k) # {}
  BY <1>1, AckedStep
<1>2. CASE Entered(k)
  BY <1>2, AckedStep
<1>3. CASE AnsweredNow(k) = {} /\ InFlight(k)
  BY <1>3, AckedStep DEF FlightUnknown
<1> QED
  BY <1>1, <1>2, <1>3

\* A step of a server puts no write in flight that was not, when each write
\* that is on a connection after it was on one before, and no reply to a client
\* is lost.
LEMMA ServerFlight ==
  ASSUME TypeInv, Safe, UNCHANGED clientVars,
         \A j \in Conn : conn'[j].req.op \in Writes =>
                           \E i \in Conn : conn[i].req = conn'[j].req,
         \A j \in Conn : conn[j].from \in Client /\ conn[j].cOpen
                           /\ conn'[j].resp = NoReply => conn[j].resp = NoReply
  PROVE  \A k \in Key : (InFlight(k)' => InFlight(k)) /\ ~Entered(k)
<1>0. Typed /\ UNCHANGED <<cpc, creq, sock>>
  BY TypedNow DEF clientVars
<1>1. ASSUME NEW k \in Key, UnderWay(k)' # {} PROVE UnderWay(k) # {}
  <2>1. PICK j \in Conn : conn'[j].req.op \in Writes /\ conn'[j].req.key = k
    BY <1>1 DEF UnderWay, WriteOn
  <2>2. PICK i \in Conn : conn[i].req = conn'[j].req
    BY <2>1
  <2> QED
    BY <2>1, <2>2 DEF UnderWay, WriteOn
<1>2. ASSUME NEW k \in Key, NEW c \in Client, Pending(c, k)' PROVE Pending(c, k)
  <2>1. cpc[c] = "wait" /\ WriteOn(creq[c], k)
    BY <1>0, <1>2 DEF Pending, WriteOn
  <2>2. ASSUME sock[c] # NoConn PROVE conn[sock[c]].resp = NoReply
    <3>1. sock[c] \in Conn /\ conn[sock[c]].from = c /\ conn[sock[c]].cOpen
      BY <1>0, <2>2 DEF Typed, Safe, ClientEnds
    <3>2. conn'[sock[c]].resp = NoReply
      BY <1>0, <1>2, <2>2 DEF Pending
    <3> QED
      BY <3>1, <3>2
  <2> QED
    BY <2>1, <2>2 DEF Pending
<1>3. \A k \in Key : ~Entered(k)
  BY <1>0 DEF Entered
<1> QED
  BY <1>1, <1>2, <1>3 DEF InFlight

\* What a step of a server that neither writes to a table nor answers a write
\* does to a connection.
Brings(a, b) ==
  /\ b.req.op \in Writes => b.req = a.req
  /\ a.from \in Client /\ a.cOpen /\ b.resp = NoReply => a.resp = NoReply
  /\ a.from \in Client /\ a.acc /\ b.acc /\ a.req.op \in Writes => b.req # NoReq

\* The same of a step of server u that leaves the other server the reply that it
\* has to read.
Carries(u, a, b) ==
  /\ Brings(a, b)
  /\ a.from \in Server \ {u} /\ a.cOpen /\ ~b.sOpen => ~a.sOpen /\ b.resp = a.resp

\* After such a step no more is known than before.
LEMMA QuietAcks ==
  ASSUME TypeInv, Safe, FlightUnknown, Acked, UNCHANGED clientVars,
         \A j \in Conn : Brings(conn[j], conn'[j])
  PROVE  FlightUnknown' /\ \A k \in Key : acked'[k] \in {acked[k], Unknown}
<1>1. \A k \in Key : (InFlight(k)' => InFlight(k)) /\ ~Entered(k)
  <2>1. \A j \in Conn : conn'[j].req.op \in Writes =>
                          \E i \in Conn : conn[i].req = conn'[j].req
    BY DEF Brings
  <2>2. \A j \in Conn : conn[j].from \in Client /\ conn[j].cOpen
                          /\ conn'[j].resp = NoReply => conn[j].resp = NoReply
    BY DEF Brings
  <2> QED
    BY <2>1, <2>2, ServerFlight
<1>2. \A k \in Key : AnsweredNow(k) = {}
  BY DEF Brings, AnsweredNow, UnderWay, WriteOn
<1> QED
  BY <1>1, <1>2, FlightKept, AckedStep

\* The answer of a server that goes on forwarding stays true.
LEMMA AnswerKept ==
  ASSUME TypeInv, Safe, Agreement', NEW t \in Server, AnswerTrue(t),
         pc'[t] = pc[t], table'[t] = table[t], serving'[t] = serving[t],
         answer'[t] = answer[t],
         \A j \in Conn : conn'[j].req.op \in Writes => conn'[j].req = conn[j].req
  PROVE  AnswerTrue(t)'
<1> SUFFICES ASSUME pc[t] = "repl" PROVE AnswerTrue(t)'
  BY DEF AnswerTrue
<1>1. Forwarding(t)' = conn'[serving[t]].req /\ serving[t] \in Conn
  BY BlockedOn DEF Forwarding
<1>2. Forwarding(t)'.op \in Writes
  BY DEF Agreement, ForwardOK
<1>3. Forwarding(t)' = Forwarding(t)
  BY <1>1, <1>2 DEF Forwarding
<1> QED
  BY <1>3 DEF AnswerTrue

\* A server t that copies, and takes no part in a step, keeps what it holds when
\* no more is known of the keys that it has to hold.
LEMMA CopyHeld ==
  ASSUME TypeInv, Safe, NEW t \in Server, NEW u, t # u, Held(t),
         \A j \in Conn : conn[j].from \in Server \ {u} /\ conn[j].cOpen /\ ~conn'[j].sOpen =>
                           ~conn[j].sOpen /\ conn'[j].resp = conn[j].resp,
         pc'[t] = pc[t], chan'[t] = chan[t], todo'[t] = todo[t], table'[t] = table[t],
         pc[t] \in {"keys", "get"} /\ LastReply(t)' =>
           \A k \in Key : Binds(t, k)' => Binds(t, k) /\ acked'[k] \in {acked[k], Unknown}
  PROVE  ListHolds(t)' /\ FetchHolds(t)' /\ Fresh(t)'
<1>1. pc[t] \in {"keys", "get"} /\ LastReply(t)' =>
        LastReply(t) /\ conn'[chan[t]].resp = conn[chan[t]].resp
  BY BlockedOn DEF LastReply, Booting
<1>2. ListHolds(t)'
  BY <1>1 DEF Held, ListHolds, Kept
<1>3. FetchHolds(t)'
  BY <1>1 DEF Held, FetchHolds, Kept
<1>4. Fresh(t)'
  BY DEF Held, Fresh
<1> QED
  BY <1>2, <1>3, <1>4

\* The server t that takes no part in a step keeps what it holds.
LEMMA OtherHeld ==
  ASSUME TypeInv, Safe, Agreement', NEW t \in Server, NEW u, t # u, Held(t),
         \A j \in Conn : Carries(u, conn[j], conn'[j]),
         pc'[t] = pc[t], chan'[t] = chan[t], todo'[t] = todo[t], table'[t] = table[t],
         serving'[t] = serving[t], answer'[t] = answer[t],
         \A k \in Key : Binds(t, k)' => Binds(t, k),
         \A k \in Key : acked'[k] \in {acked[k], Unknown}
  PROVE  Held(t)'
<1>1. Holds(t)'
  BY DEF Held, Holds, Kept, Complete
<1>2. ListHolds(t)' /\ FetchHolds(t)' /\ Fresh(t)'
  <2>1. \A j \in Conn : conn[j].from \in Server \ {u} /\ conn[j].cOpen /\ ~conn'[j].sOpen =>
                          ~conn[j].sOpen /\ conn'[j].resp = conn[j].resp
    BY DEF Carries
  <2> QED
    BY <2>1, CopyHeld
<1>3. AnswerTrue(t)'
  <2>1. \A j \in Conn : conn'[j].req.op \in Writes => conn'[j].req = conn[j].req
    BY DEF Carries, Brings
  <2> QED
    BY <2>1, AnswerKept DEF Held
<1> QED
  BY <1>1, <1>2, <1>3 DEF Held

\* A step of server u that leaves it with what it has to hold, and that hides no
\* key.
LEMMA RestHeld ==
  ASSUME TypeInv, Safe, Agreement', Remembered, Acked, UNCHANGED clientVars,
         NEW u \in Server, Held(u)',
         \A j \in Conn : Carries(u, conn[j], conn'[j]),
         exposed \subseteq exposed', Complete(u) => Complete(u)',
         \A t \in Server : t # u =>
           /\ pc'[t] = pc[t] /\ chan'[t] = chan[t] /\ todo'[t] = todo[t]
           /\ table'[t] = table[t] /\ serving'[t] = serving[t] /\ answer'[t] = answer[t]
  PROVE  Remembered'
<1>1. FlightUnknown' /\ \A k \in Key : acked'[k] \in {acked[k], Unknown}
  BY QuietAcks DEF Remembered, Carries
<1>2. ASSUME NEW t \in Server, t # u PROVE Held(t)'
  <2>1. \A k \in Key : Binds(t, k)' => Binds(t, k)
    BY <1>2, TwoServers DEF Binds
  <2> QED
    BY <1>1, <1>2, <2>1, OtherHeld DEF Remembered
<1> QED
  BY <1>1, <1>2 DEF Remembered

\* A step of server u that completes no table, and that leaves no last reply.
LEMMA QuietHeld ==
  ASSUME TypeInv, Safe, Agreement', Remembered, Acked, UNCHANGED clientVars,
         NEW u \in Server,
         \A j \in Conn : Carries(u, conn[j], conn'[j]),
         exposed \subseteq exposed', Complete(u) => Complete(u)',
         \A t \in Server : t # u =>
           /\ pc'[t] = pc[t] /\ chan'[t] = chan[t] /\ todo'[t] = todo[t]
           /\ table'[t] = table[t] /\ serving'[t] = serving[t] /\ answer'[t] = answer[t],
         Complete(u)' => Complete(u) /\ table'[u] = table[u],
         pc'[u] \in {"keys", "get"} => ~LastReply(u)',
         Fresh(u)', AnswerTrue(u)'
  PROVE  Remembered'
<1>1. \A k \in Key : acked'[k] \in {acked[k], Unknown}
  BY QuietAcks DEF Remembered, Carries
<1>2. \A k \in Key : Binds(u, k)' => Binds(u, k)
  BY TwoServers DEF Binds, Complete
<1>3. Holds(u)'
  BY <1>1, <1>2 DEF Remembered, Held, Holds, Kept
<1>4. ListHolds(u)' /\ FetchHolds(u)'
  BY DEF ListHolds, FetchHolds
<1> QED
  BY <1>3, <1>4, RestHeld DEF Held

\* A server that starts alone: nothing is known of any key.
LEMMA AloneHeld ==
  ASSUME TypeInv, Safe, Agreement', Remembered, Acked, UNCHANGED clientVars,
         NEW u \in Server, StartsAlone(u),
         \A j \in Conn : Brings(conn[j], conn'[j]),
         \A t \in Server : t # u =>
           /\ pc'[t] = pc[t] /\ todo'[t] = todo[t]
           /\ table'[t] = table[t] /\ serving'[t] = serving[t] /\ answer'[t] = answer[t]
  PROVE  Remembered'
<1>1. FlightUnknown'
  BY QuietAcks DEF Remembered, Carries
<1>2. \A k \in Key : acked'[k] = Unknown
  BY AckedStep DEF Forgotten
<1>3. \A t \in Server : Holds(t)' /\ ListHolds(t)' /\ FetchHolds(t)'
  BY <1>2 DEF Holds, ListHolds, FetchHolds, Kept
<1>4. Fresh(u)' /\ AnswerTrue(u)'
  BY DEF StartsAlone, Fresh, AnswerTrue
<1>5. ASSUME NEW t \in Server, t # u PROVE Fresh(t)' /\ AnswerTrue(t)'
  <2>1. \A j \in Conn : conn'[j].req.op \in Writes => conn'[j].req = conn[j].req
    BY DEF Brings
  <2>2. AnswerTrue(t)'
    BY <1>5, <2>1, AnswerKept DEF Remembered, Held
  <2> QED
    BY <1>5, <2>2 DEF Remembered, Held, Fresh
<1> QED
  BY <1>1, <1>3, <1>4, <1>5 DEF Remembered, Held

-----------------------------------------------------------------------------
\* Steps that answer no write.

\* What the calls of server u do to a connection.
LEMMA ServerCalls ==
  ASSUME TypeInv, Safe, Agreement, NEW u \in Server, NEW j \in Conn
  PROVE  /\ Carries(u, conn[j], conn[j])
         /\ Carries(u, conn[j], [conn[j] EXCEPT !.acc = TRUE])
         /\ ~conn[j].cOpen => Carries(u, conn[j], CutAtServer(conn[j]))
         /\ conn[j].from = u => Carries(u, conn[j], CutAtClient(conn[j]))
         /\ \A m : conn[j].from = u /\ m.op \notin Writes =>
              Carries(u, conn[j],
                      [conn[j] EXCEPT !.resp = NoReply,
                                      !.req = IF conn[j].sOpen THEN m ELSE NoReq])
         /\ \A p, t, m : Closed(conn[j]) /\ m.op \notin Writes =>
              Carries(u, conn[j], NewConnection(p, t, m))
         /\ \A r : conn[j].sOpen /\ conn[j].req # NoReq /\ conn[j].req.op \notin Writes =>
              Carries(u, conn[j],
                      [conn[j] EXCEPT !.req = NoReq,
                                      !.resp = IF conn[j].cOpen THEN r ELSE NoReply])
<1>0. /\ conn[j] \in Connection /\ NoReq.op \notin Writes
      /\ conn[j].resp # NoReply => conn[j].req = NoReq
      /\ \A c \in Client : c \notin Server
  BY TypedNow, TwoServers DEF Typed, Agreement, OneCall, NoReq, Plain, Msg, Writes
<1>1. Carries(u, conn[j], conn[j])
  BY <1>0 DEF Carries, Brings
<1>2. Carries(u, conn[j], [conn[j] EXCEPT !.acc = TRUE])
  BY <1>0 DEF Carries, Brings, Connection
<1>3. ASSUME ~conn[j].cOpen PROVE Carries(u, conn[j], CutAtServer(conn[j]))
  <2>1. CutAtServer(conn[j]) = FreeConn
    BY <1>0, <1>3 DEF CutAtServer, Tidy, Closed, Connection
  <2>2. FreeConn.req = NoReq /\ ~FreeConn.acc
    BY DEF FreeConn
  <2> QED
    BY <1>0, <1>3, <2>1, <2>2 DEF Carries, Brings
<1>4. ASSUME conn[j].from = u PROVE Carries(u, conn[j], CutAtClient(conn[j]))
  <2>1. CASE conn[j].sOpen
    <3>1. CutAtClient(conn[j]).req = conn[j].req
      BY <1>0, <2>1, Fields
    <3> QED
      BY <1>0, <1>4, <3>1 DEF Carries, Brings
  <2>2. CASE ~conn[j].sOpen
    <3>1. CutAtClient(conn[j]) = FreeConn
      BY <1>0, <2>2 DEF CutAtClient, Tidy, Closed, Connection
    <3>2. FreeConn.req = NoReq
      BY DEF FreeConn
    <3> QED
      BY <1>0, <1>4, <3>1, <3>2 DEF Carries, Brings
  <2> QED
    BY <2>1, <2>2
<1>5. ASSUME NEW m, conn[j].from = u, m.op \notin Writes
      PROVE  Carries(u, conn[j],
                     [conn[j] EXCEPT !.resp = NoReply,
                                     !.req = IF conn[j].sOpen THEN m ELSE NoReq])
  <2>1. PICK b : b = [conn[j] EXCEPT !.resp = NoReply,
                                     !.req = IF conn[j].sOpen THEN m ELSE NoReq]
    OBVIOUS
  <2>2. b.req = IF conn[j].sOpen THEN m ELSE NoReq
    BY <1>0, <2>1 DEF Connection
  <2>3. Carries(u, conn[j], b)
    BY <1>0, <1>5, <2>2 DEF Carries, Brings
  <2> QED
    BY <2>1, <2>3
<1>6. ASSUME NEW p, NEW t, NEW m, Closed(conn[j]), m.op \notin Writes
      PROVE  Carries(u, conn[j], NewConnection(p, t, m))
  <2>1. NewConnection(p, t, m).req = m /\ ~NewConnection(p, t, m).acc
    BY DEF NewConnection
  <2> QED
    BY <1>6, <2>1 DEF Carries, Brings, Closed
<1>7. ASSUME NEW r, conn[j].sOpen, conn[j].req # NoReq, conn[j].req.op \notin Writes
      PROVE  Carries(u, conn[j],
                     [conn[j] EXCEPT !.req = NoReq,
                                     !.resp = IF conn[j].cOpen THEN r ELSE NoReply])
  <2>1. PICK b : b = [conn[j] EXCEPT !.req = NoReq,
                                     !.resp = IF conn[j].cOpen THEN r ELSE NoReply]
    OBVIOUS
  <2>2. b.req = NoReq /\ b.sOpen = conn[j].sOpen
    BY <1>0, <2>1 DEF Connection
  <2>3. Carries(u, conn[j], b)
    BY <1>0, <1>7, <2>2 DEF Carries, Brings
  <2> QED
    BY <2>1, <2>3
<1> QED
  BY <1>1, <1>2, <1>3, <1>4, <1>5, <1>6, <1>7

\* The port is opened.
LEMMA ListenHeld ==
  ASSUME TypeInv, Safe, Agreement, Agreement', Remembered, Acked, Exposed,
         NEW s \in Server, Listen(s), UNCHANGED clientVars
  PROVE  Remembered'
<1>0. /\ Typed /\ pc[s] = "down" /\ pc' = [pc EXCEPT ![s] = "boot"]
      /\ UNCHANGED <<conn, table, todo, chan, serving, answer, clientVars>>
  BY TypedNow DEF Listen, memory
<1>1. pc'[s] = "boot" /\ \A t \in Server : t # s => pc'[t] = pc[t]
  BY <1>0 DEF Typed
<1>2. \A j \in Conn : Carries(s, conn[j], conn'[j])
  BY <1>0, ServerCalls
<1>3. exposed \subseteq exposed'
  <2>1. \A t \in Server : ~StartsAlone(t)
    BY <1>0, <1>1 DEF StartsAlone
  <2>2. \A j \in Conn : conn[j].req.op = "KEYS" => conn'[j].req # NoReq
    BY <1>0 DEF NoReq, Plain, Msg
  <2> QED
    BY <2>1, <2>2, ExposedGrows
<1>4. ~Complete(s) /\ ~Complete(s)' /\ Fresh(s)' /\ AnswerTrue(s)'
  BY <1>0, <1>1 DEF Complete, Fresh, AnswerTrue
<1> QED
  BY <1>0, <1>1, <1>2, <1>3, <1>4, QuietHeld

\* Steps of the poll loop, and of the thread, that change no table.
LEMMA LoopHeld ==
  ASSUME TypeInv, Safe, Agreement, Agreement', Remembered, Acked, Exposed,
         NEW s \in Server, Polling(s),
         \A j \in Conn : Carries(s, conn[j], conn'[j]),
         \A j \in Conn : conn[j].req.op = "KEYS" /\ conn[j].from \in Server
           /\ conn[j].cOpen => conn'[j].req # NoReq,
         UNCHANGED <<pc, table, todo, chan, serving, answer, clientVars>>
  PROVE  Remembered'
<1>1. exposed \subseteq exposed'
  <2>1. \A t \in Server : ~StartsAlone(t)
    BY DEF StartsAlone
  <2> QED
    BY <2>1, ExposedGrows
<1>2. Complete(s) /\ Complete(s)' /\ Fresh(s)' /\ pc'[s] \notin {"keys", "get"}
  BY DEF Complete, Fresh, Polling
<1>3. AnswerTrue(s)'
  <2>1. \A j \in Conn : conn'[j].req.op \in Writes => conn'[j].req = conn[j].req
    BY DEF Carries, Brings
  <2> QED
    BY <2>1, AnswerKept DEF Remembered, Held
<1> QED
  BY <1>1, <1>2, <1>3, QuietHeld

\* A connection is accepted, or closed.
LEMMA AcceptHeld ==
  ASSUME TypeInv, Safe, Agreement, Agreement', Remembered, Acked, Exposed,
         NEW s \in Server, NEW i \in Conn, Accept(s, i) \/ HandleEof(s, i),
         UNCHANGED clientVars
  PROVE  Remembered'
<1>0. /\ Typed /\ pc[s] = "loop"
      /\ \/ conn' = [conn EXCEPT ![i].acc = TRUE]
         \/ conn' = Dropped(conn, i) /\ ~conn[i].cOpen
      /\ UNCHANGED <<pc, table, todo, chan, serving, answer, clientVars>>
  BY TypedNow DEF Accept, HandleEof, Inbound, memory
<1>1. /\ \/ conn'[i] = [conn[i] EXCEPT !.acc = TRUE]
         \/ conn'[i] = CutAtServer(conn[i]) /\ ~conn[i].cOpen
      /\ \A j \in Conn : j # i => conn'[j] = conn[j]
  BY <1>0 DEF Typed, Dropped
<1>2. ASSUME NEW j \in Conn PROVE Carries(s, conn[j], conn'[j])
  <2>1. /\ Carries(s, conn[j], conn[j])
        /\ Carries(s, conn[j], [conn[j] EXCEPT !.acc = TRUE])
        /\ ~conn[j].cOpen => Carries(s, conn[j], CutAtServer(conn[j]))
    BY ServerCalls
  <2> QED
    BY <1>1, <2>1
<1>3. ASSUME NEW j \in Conn, conn[j].req.op = "KEYS", conn[j].cOpen
      PROVE  conn'[j].req # NoReq
  <2>1. conn[j].req # NoReq
    BY <1>3 DEF NoReq, Plain, Msg
  <2> QED
    BY <1>0, <1>1, <1>3, <2>1 DEF Typed, Connection
<1>4. Polling(s)
  BY <1>0 DEF Polling
<1> QED
  BY <1>0, <1>2, <1>3, <1>4, LoopHeld

\* The thread of primary() opens a connection, or assigns the link.
LEMMA ThreadHeld ==
  ASSUME TypeInv, Safe, Agreement, Agreement', Remembered, Acked, Exposed, Thread,
         UNCHANGED clientVars
  PROVE  Remembered'
<1>0. /\ Typed /\ Polling(S1)
      /\ \/ UNCHANGED conn
         \/ HasRoom /\ conn' = Opened(conn, NewConn, S1, S2, NoReq)
      /\ UNCHANGED <<pc, table, todo, chan, serving, answer, clientVars>>
  BY TypedNow DEF Thread, ThreadConnect, ThreadAssign, Safe, Modes
<1>n. NoReq.op \notin Writes /\ NoReq.op # "KEYS" /\ S1 \in Server
  BY TwoServers DEF NoReq, Plain, Msg, Writes
<1>1. ASSUME NEW j \in Conn
      PROVE  \/ conn'[j] = conn[j]
             \/ Closed(conn[j]) /\ conn'[j] = NewConnection(S1, S2, NoReq)
  <2>1. CASE HasRoom /\ conn' = Opened(conn, NewConn, S1, S2, NoReq)
    <3>1. NewConn \in Conn /\ Closed(conn[NewConn])
      BY <2>1, NewConnType
    <3> QED
      BY <1>0, <2>1, <3>1 DEF Opened, Typed
  <2> QED
    BY <1>0, <2>1
<1>2. ASSUME NEW j \in Conn PROVE Carries(S1, conn[j], conn'[j])
  <2>1. /\ Carries(S1, conn[j], conn[j])
        /\ Closed(conn[j]) => Carries(S1, conn[j], NewConnection(S1, S2, NoReq))
    BY <1>n, ServerCalls
  <2> QED
    BY <1>1, <2>1
<1>3. ASSUME NEW j \in Conn, conn[j].req.op = "KEYS", conn[j].cOpen
      PROVE  conn'[j].req # NoReq
  BY <1>1, <1>3, <1>n DEF Closed
<1> QED
  BY <1>0, <1>n, <1>2, <1>3, LoopHeld

\* A request that is no write is answered, and a connection may be opened.
LEMMA RepliedCarries ==
  ASSUME TypeInv, Safe, Agreement, NEW s \in Server, NEW i \in Conn, Inbound(s, i),
         conn[i].req # NoReq, conn[i].req.op \notin Writes, NEW r,
         \/ conn' = Replied(conn, i, r)
         \/ HasRoom /\ conn' = Opened(Replied(conn, i, r), NewConn, s, conn[i].from, NoReq)
  PROVE  \A j \in Conn : /\ Carries(s, conn[j], conn'[j])
                         /\ j # i /\ conn[j].cOpen => conn'[j] = conn[j]
<1>0. /\ Typed /\ conn[i].sOpen /\ NoReq.op \notin Writes
  BY TypedNow DEF Inbound, NoReq, Plain, Msg, Writes
<1>1. PICK b : b = [conn[i] EXCEPT !.req = NoReq,
                                   !.resp = IF conn[i].cOpen THEN r ELSE NoReply]
  OBVIOUS
<1>2. \A j \in Conn : Replied(conn, i, r)[j] = IF j = i THEN b ELSE conn[j]
  BY <1>0, <1>1 DEF Replied, Typed
<1>3. ASSUME NEW j \in Conn
      PROVE  \/ conn'[j] = IF j = i THEN b ELSE conn[j]
             \/ Closed(conn[j]) /\ conn'[j] = NewConnection(s, conn[i].from, NoReq) /\ j # i
  <2>1. CASE conn' = Replied(conn, i, r)
    BY <1>2, <2>1
  <2>2. CASE HasRoom /\ conn' = Opened(Replied(conn, i, r), NewConn, s, conn[i].from, NoReq)
    <3>1. NewConn \in Conn /\ Closed(conn[NewConn]) /\ NewConn # i
      BY <1>0, <2>2, NewConnType DEF Closed
    <3>2. conn'[j] = IF j = NewConn THEN NewConnection(s, conn[i].from, NoReq)
                                    ELSE Replied(conn, i, r)[j]
      BY <1>0, <2>2, <3>1 DEF Opened, Replied, Typed
    <3> QED
      BY <1>2, <3>1, <3>2
  <2> QED
    BY <2>1, <2>2
<1>4. Carries(s, conn[i], b)
  BY <1>0, <1>1, ServerCalls
<1>5. ASSUME NEW j \in Conn PROVE Carries(s, conn[j], conn'[j])
  <2>1. /\ Carries(s, conn[j], conn[j])
        /\ Closed(conn[j]) => Carries(s, conn[j], NewConnection(s, conn[i].from, NoReq))
    BY <1>0, ServerCalls
  <2> QED
    BY <1>3, <1>4, <2>1
<1>6. \A j \in Conn : j # i /\ conn[j].cOpen => conn'[j] = conn[j]
  BY <1>3 DEF Closed
<1> QED
  BY <1>5, <1>6

\* The keys are sent to a server that starts: all keys that were exposed are in
\* the table that sent them, which is the only one that is complete.
LEMMA KeysHeld ==
  ASSUME TypeInv, Safe, Agreement, Agreement', Remembered, Acked,
         NEW s \in Server, NEW i \in Conn, Inbound(s, i), conn[i].req.op = "KEYS",
         conn[i].from \in Server, conn[i].cOpen,
         NEW r, conn' = Replied(conn, i, r),
         UNCHANGED <<pc, table, todo, chan, serving, answer, clientVars>>
  PROVE  Remembered'
<1> USE TwoServers
<1>0. /\ Typed /\ conn[i].sOpen /\ conn[i].to = s /\ pc[s] = "loop"
      /\ conn[i].req # NoReq /\ conn[i].req.op \notin Writes
  BY TypedNow DEF Inbound, NoReq, Plain, Msg, Writes
<1>1. PICK t \in Server : t = OtherServer(s) /\ t # s /\ OtherServer(t) = s
  OBVIOUS
<1>2. conn[i].from = t /\ pc[t] = "keys" /\ chan[t] = i
  <2>1. conn[i].from # s
    BY <1>0 DEF Safe, ServerEnds
  <2> QED
    BY <1>1, <2>1, KeysCaller
<1>3. \A j \in Conn : Carries(s, conn[j], conn'[j])
  BY <1>0, RepliedCarries
<1>4. FlightUnknown' /\ \A k \in Key : acked'[k] \in {acked[k], Unknown}
  BY <1>3, QuietAcks DEF Remembered, Carries
<1>5. conn'[i].sOpen
  BY <1>0 DEF Replied, Typed, Connection
<1>6. Held(t)'
  <2>1. ~Complete(t)' /\ ~LastReply(t)'
    BY <1>2, <1>5 DEF Complete, LastReply
  <2> QED
    BY <1>2, <2>1 DEF Held, Holds, ListHolds, FetchHolds, Fresh, AnswerTrue
<1>7. Held(s)'
  <2>1. \A k \in Key : Binds(s, k)
    BY <1>1, <1>2 DEF Binds, Complete
  <2>2. Holds(s)'
    BY <1>4, <2>1 DEF Remembered, Held, Holds, Kept, Complete
  <2> QED
    BY <1>0, <2>2 DEF Held, ListHolds, FetchHolds, Fresh, AnswerTrue
<1> QED
  BY <1>1, <1>4, <1>6, <1>7 DEF Remembered

\* A request that only reads is answered.
LEMMA ReadHeld ==
  ASSUME TypeInv, Safe, Agreement, Agreement', Remembered, Acked, Exposed,
         NEW s \in Server, NEW i \in Conn, ServeRead(s, i), UNCHANGED clientVars
  PROVE  Remembered'
<1>r. PICK r : r = IF conn[i].req.op = "STATUS" THEN Result(status[s])
                                               ELSE Answer(conn[i].req, table[s])
  OBVIOUS
<1>0. /\ Typed /\ Inbound(s, i) /\ conn[i].req.op \in Answerable
      /\ conn' = Replied(conn, i, r)
      /\ UNCHANGED <<pc, table, todo, chan, serving, answer, clientVars>>
  BY <1>r, TypedNow DEF ServeRead, serverVars, memory
<1>1. CASE conn[i].req.op = "KEYS" /\ conn[i].from \in Server /\ conn[i].cOpen
  BY <1>0, <1>1, KeysHeld
<1>2. CASE ~(conn[i].req.op = "KEYS" /\ conn[i].from \in Server /\ conn[i].cOpen)
  <2>1. conn[i].req # NoReq /\ conn[i].req.op \notin Writes
    BY <1>0 DEF Answerable, Reads, Writes, NoReq, Plain, Msg
  <2>2. \A j \in Conn : /\ Carries(s, conn[j], conn'[j])
                        /\ j # i /\ conn[j].cOpen => conn'[j] = conn[j]
    BY <1>0, <2>1, RepliedCarries
  <2>3. \A j \in Conn : conn[j].req.op = "KEYS" /\ conn[j].from \in Server
          /\ conn[j].cOpen => conn'[j].req # NoReq
    BY <1>2, <2>2 DEF NoReq, Plain, Msg
  <2>4. Polling(s)
    BY <1>0 DEF Inbound, Polling
  <2> QED
    BY <1>0, <2>2, <2>3, <2>4, LoopHeld
<1> QED
  BY <1>1, <1>2

\* An OC_UP is answered.
LEMMA UpHeld ==
  ASSUME TypeInv, Safe, Agreement, Agreement', Remembered, Acked, Exposed,
         NEW s \in Server, NEW i \in Conn, ServeUp(s, i) \/ ServeUpFailed(s, i),
         UNCHANGED clientVars
  PROVE  Remembered'
<1>0. /\ Inbound(s, i) /\ conn[i].req.op = "UP"
      /\ \/ /\ HasRoom
            /\ conn' = Opened(Replied(conn, i, Result(UP)), NewConn, s, conn[i].from, NoReq)
         \/ conn' = Replied(conn, i, GarbageReply)
      /\ UNCHANGED <<pc, table, todo, chan, serving, answer, clientVars>>
  BY DEF ServeUp, ServeUpFailed
<1>1. conn[i].req # NoReq /\ conn[i].req.op \notin Writes
  BY <1>0 DEF NoReq, Plain, Msg, Writes
<1>2. \A j \in Conn : /\ Carries(s, conn[j], conn'[j])
                      /\ j # i /\ conn[j].cOpen => conn'[j] = conn[j]
  BY <1>0, <1>1, RepliedCarries
<1>3. \A j \in Conn : conn[j].req.op = "KEYS" /\ conn[j].from \in Server
        /\ conn[j].cOpen => conn'[j].req # NoReq
  BY <1>0, <1>2 DEF NoReq, Plain, Msg
<1>4. Polling(s)
  BY <1>0 DEF Inbound, Polling
<1> QED
  BY <1>0, <1>2, <1>3, <1>4, LoopHeld

-----------------------------------------------------------------------------
\* Steps of the start-up.

\* A server sends its first request.
LEMMA FirstAsksHeld ==
  ASSUME TypeInv, Safe, Agreement, Agreement', Remembered, Acked, Exposed,
         NEW s \in Server, pc[s] = "boot", NEW p \in {"ask", "keys"}, Wait(s, p, NewConn),
         NEW m, m.op \notin Writes, NEW t, HasRoom,
         conn' = Opened(conn, NewConn, s, t, m),
         UNCHANGED <<table, todo, clientVars>>
  PROVE  Remembered'
<1>0. /\ Typed /\ NewConn \in Conn /\ Closed(conn[NewConn])
      /\ pc' = [pc EXCEPT ![s] = p] /\ chan' = [chan EXCEPT ![s] = NewConn]
      /\ UNCHANGED <<table, todo, serving, answer, clientVars>>
  BY TypedNow, NewConnType DEF Wait
<1>1. /\ pc'[s] = p /\ chan'[s] = NewConn
      /\ \A u \in Server : u # s => pc'[u] = pc[u] /\ chan'[u] = chan[u]
  BY <1>0 DEF Typed
<1>2. /\ conn'[NewConn] = NewConnection(s, t, m)
      /\ \A j \in Conn : j # NewConn => conn'[j] = conn[j]
  BY <1>0 DEF Opened, Typed
<1>3. ASSUME NEW j \in Conn PROVE Carries(s, conn[j], conn'[j])
  <2>1. /\ Carries(s, conn[j], conn[j])
        /\ Closed(conn[j]) => Carries(s, conn[j], NewConnection(s, t, m))
    BY ServerCalls
  <2> QED
    BY <1>0, <1>2, <2>1
<1>4. exposed \subseteq exposed'
  <2>1. \A u \in Server : ~StartsAlone(u)
    BY <1>1 DEF StartsAlone
  <2>2. \A j \in Conn : conn[j].req.op = "KEYS" /\ conn[j].cOpen => conn'[j].req # NoReq
    BY <1>0, <1>2 DEF Closed, NoReq, Plain, Msg
  <2> QED
    BY <2>1, <2>2, ExposedGrows
<1>5. /\ ~Complete(s) /\ ~Complete(s)' /\ Fresh(s)' /\ AnswerTrue(s)'
      /\ ~LastReply(s)'
  BY <1>1, <1>2 DEF Complete, Fresh, AnswerTrue, LastReply, NewConnection
<1> QED
  BY <1>0, <1>1, <1>3, <1>4, <1>5, QuietHeld

\* A server has a reply and sends the next request.
LEMMA GoesOn ==
  ASSUME TypeInv, Safe, Agreement, Exposed, NEW s \in Server,
         pc[s] \in {"ask", "keys", "get"}, Answered(chan[s]),
         NEW p \in {"keys", "get", "up"}, Wait(s, p, chan[s]),
         NEW m, m.op \notin Writes,
         conn' = Sent(Taken(conn, chan[s]), chan[s], m)
  PROVE  /\ \A j \in Conn : Carries(s, conn[j], conn'[j])
         /\ exposed \subseteq exposed'
         /\ pc'[s] = p /\ chan'[s] = chan[s]
         /\ \A u \in Server : u # s => pc'[u] = pc[u] /\ chan'[u] = chan[u]
         /\ UNCHANGED <<serving, answer>>
         /\ chan[s] \in Conn /\ conn'[chan[s]].resp = NoReply
         /\ conn'[chan[s]].sOpen = conn[chan[s]].sOpen
<1>i. PICK i \in Conn : i = chan[s]
  BY BlockedOn DEF Booting
<1>0. /\ Typed /\ OneCall /\ conn[i] \in Connection /\ conn[i].from = s
      /\ pc' = [pc EXCEPT ![s] = p] /\ chan' = [chan EXCEPT ![s] = chan[s]]
      /\ UNCHANGED <<serving, answer>>
  BY <1>i, TypedNow, BlockedOn DEF Wait, Agreement, Booting, Typed
<1>1. /\ pc'[s] = p /\ chan'[s] = chan[s]
      /\ \A u \in Server : u # s => pc'[u] = pc[u] /\ chan'[u] = chan[u]
  BY <1>0 DEF Typed
<1>2. PICK b : b = [conn[i] EXCEPT !.resp = NoReply,
                                   !.req = IF conn[i].sOpen THEN m ELSE NoReq]
  OBVIOUS
<1>3. conn'[i] = b /\ \A j \in Conn : j # i => conn'[j] = conn[j]
  BY <1>0, <1>i, <1>2 DEF Sent, Taken, Typed, Connection
<1>4. Carries(s, conn[i], b)
  BY <1>0, <1>2, ServerCalls
<1>5. ASSUME NEW j \in Conn PROVE Carries(s, conn[j], conn'[j])
  <2>1. Carries(s, conn[j], conn[j])
    BY ServerCalls
  <2> QED
    BY <1>3, <1>4, <2>1
<1>6. exposed \subseteq exposed'
  <2>1. \A u \in Server : ~StartsAlone(u)
    BY <1>1 DEF StartsAlone
  <2>2. conn[i].req = NoReq
    BY <1>0, <1>i DEF OneCall, Answered
  <2>3. \A j \in Conn : conn[j].req.op = "KEYS" => conn'[j].req # NoReq
    BY <1>3, <2>2 DEF NoReq, Plain, Msg
  <2> QED
    BY <2>1, <2>3, ExposedGrows
<1>7. b.resp = NoReply /\ b.sOpen = conn[i].sOpen
  BY <1>0, <1>2 DEF Connection
<1> QED
  BY <1>0, <1>1, <1>3, <1>5, <1>6, <1>7, <1>i

\* A server asks for the keys, or for the value of the next one.
LEMMA AsksHeld ==
  ASSUME TypeInv, Safe, Agreement, Agreement', Remembered, Acked, Exposed,
         NEW s \in Server, pc[s] \in {"ask", "keys", "get"}, Answered(chan[s]),
         NEW p \in {"keys", "get"}, Wait(s, p, chan[s]),
         NEW m, m.op \notin Writes,
         conn' = Sent(Taken(conn, chan[s]), chan[s], m),
         Fresh(s)', UNCHANGED clientVars,
         \A t \in Server : t # s => table'[t] = table[t] /\ todo'[t] = todo[t]
  PROVE  Remembered'
<1>1. /\ \A j \in Conn : Carries(s, conn[j], conn'[j])
      /\ exposed \subseteq exposed'
      /\ pc'[s] = p /\ chan'[s] = chan[s]
      /\ \A u \in Server : u # s => pc'[u] = pc[u] /\ chan'[u] = chan[u]
      /\ UNCHANGED <<serving, answer>>
      /\ conn'[chan[s]].resp = NoReply
  BY GoesOn
<1>2. /\ ~Complete(s) /\ ~Complete(s)' /\ AnswerTrue(s)'
      /\ ~LastReply(s)'
  BY <1>1 DEF Complete, AnswerTrue, LastReply
<1> QED
  BY <1>1, <1>2, QuietHeld

\* The copy is complete.  A server whose source is there has what the source
\* has; one whose source has died has read its last reply.
LEMMA CopiedHeld ==
  ASSUME TypeInv, Safe, Safe', Agreement, Agreement', Remembered, Acked, Exposed,
         NEW s \in Server, pc[s] \in {"keys", "get"}, Answered(chan[s]),
         Wait(s, "up", chan[s]),
         NEW m, m.op \notin Writes,
         conn' = Sent(Taken(conn, chan[s]), chan[s], m),
         UNCHANGED clientVars,
         \A t \in Server : t # s => table'[t] = table[t] /\ todo'[t] = todo[t],
         ~conn[chan[s]].sOpen => \A k \in Key : Binds(s, k) => Kept(k, table'[s][k])
  PROVE  Remembered'
<1> USE TwoServers
<1>t. PICK t \in Server : t = OtherServer(s) /\ t # s /\ OtherServer(t) = s
  OBVIOUS
<1>1. /\ \A j \in Conn : Carries(s, conn[j], conn'[j])
      /\ exposed \subseteq exposed'
      /\ pc'[s] = "up" /\ chan'[s] = chan[s]
      /\ pc'[t] = pc[t] /\ chan'[t] = chan[t]
      /\ UNCHANGED <<serving, answer>>
      /\ conn'[chan[s]].resp = NoReply
      /\ conn'[chan[s]].sOpen = conn[chan[s]].sOpen
  BY <1>t, GoesOn
<1>2. FlightUnknown' /\ \A k \in Key : acked'[k] \in {acked[k], Unknown}
  BY <1>1, QuietAcks DEF Remembered, Carries
<1>3. \A k \in Key : Binds(s, k)' => Binds(s, k)
  BY <1>1, <1>t DEF Binds, Complete
<1>4. CASE ~conn[chan[s]].sOpen
  <2>1. Holds(s)'
    BY <1>2, <1>3, <1>4 DEF Holds, Kept
  <2> QED
    BY <1>1, <1>t, <2>1, RestHeld DEF Held, ListHolds, FetchHolds, Fresh, AnswerTrue, Complete
<1>5. CASE conn[chan[s]].sOpen
  <2>1. Polling(t)'
    BY <1>1, <1>t, <1>5 DEF Safe, BootConn, Booting
  <2>2. Complete(t) /\ Complete(t)'
    BY <1>1, <2>1 DEF Complete, Polling
  <2>3. ASSUME NEW k \in Key, Binds(s, k)' PROVE Kept(k, table[s][k])'
    <3>1. k \notin exposed /\ k \notin exposed'
      BY <1>1, <1>t, <2>2, <2>3 DEF Binds
    <3>2. Unsettled(t, k)' \/ table'[t][k] = table'[s][k]
      BY <1>1, <1>5, <1>t, <3>1 DEF Agreement, CopyOK, Copied
    <3>3. CASE Unsettled(t, k)'
      <4>1. /\ serving'[t] \in Conn /\ WriteOn(conn'[serving'[t]].req, k)
        <5>1. pc'[t] = "repl" /\ k = Forwarding(t)'.key
          BY <3>3 DEF Unsettled
        <5>2. ForwardOK(t)'
          BY DEF Agreement
        <5>3. Forwarding(t)'.op \in Writes
          BY <5>1, <5>2 DEF ForwardOK
        <5>4. pc[t] = "repl" /\ serving'[t] = serving[t]
          BY <1>1, <5>1
        <5>5. serving[t] \in Conn
          BY <5>4, BlockedOn
        <5> QED
          BY <5>1, <5>3, <5>4, <5>5 DEF WriteOn, Forwarding
      <4>2. InFlight(k)'
        BY <4>1 DEF InFlight, UnderWay
      <4> QED
        BY <1>2, <4>2 DEF FlightUnknown, Kept
    <3>4. CASE table'[t][k] = table'[s][k]
      <4>1. Kept(k, table[t][k])
        BY <2>2, <3>1 DEF Remembered, Held, Holds, Binds
      <4> QED
        BY <1>2, <1>t, <3>4, <4>1 DEF Kept
    <3> QED
      BY <3>2, <3>3, <3>4
  <2>4. Holds(s)'
    BY <2>3 DEF Holds
  <2> QED
    BY <1>1, <1>t, <2>4, RestHeld DEF Held, ListHolds, FetchHolds, Fresh, AnswerTrue, Complete
<1> QED
  BY <1>4, <1>5

\* The list of the keys has arrived.
LEMMA KeysDoneHeld ==
  ASSUME TypeInv, Safe, Safe', Agreement, Agreement', Remembered, Acked, Exposed,
         NEW s \in Server, KeysDone(s), UNCHANGED clientVars
  PROVE  Remembered'
<1>1. PICK ks : ks = conn[chan[s]].resp.keys
  OBVIOUS
<1>2. /\ Typed /\ pc[s] = "keys" /\ Answered(chan[s]) /\ UNCHANGED table
      /\ AskNext(s, Taken(conn, chan[s]), chan[s], ks)
      /\ todo' = [todo EXCEPT ![s] = ks]
  BY <1>1, TypedNow DEF KeysDone
<1>3. ks \in SUBSET Key
  BY <1>1, <1>2, BlockedOn DEF Booting, Connection, Reply
<1>4. /\ \A k \in Key : table'[s][k] = NoVal
      /\ todo'[s] = ks /\ \A t \in Server : t # s => todo'[t] = todo[t]
  BY <1>2 DEF Agreement, Asking, EmptyTable, Typed
<1>5. CASE ks = {}
  <2>1. PICK m : m = Plain("UP")
    OBVIOUS
  <2>2. /\ conn' = Sent(Taken(conn, chan[s]), chan[s], m) /\ Wait(s, "up", chan[s])
        /\ m.op \notin Writes
    BY <1>2, <1>5, <2>1 DEF AskNext, Plain, Msg, Writes
  <2>3. ~conn[chan[s]].sOpen => \A k \in Key : Binds(s, k) => Kept(k, table'[s][k])
    BY <1>1, <1>2, <1>4, <1>5 DEF Remembered, Held, ListHolds, LastReply, Answered
  <2> QED
    BY <1>2, <1>4, <2>2, <2>3, CopiedHeld
<1>6. CASE ks # {}
  <2>1. PICK m : m = Msg("GET", NextKey(ks), NoVal)
    OBVIOUS
  <2>2. /\ conn' = Sent(Taken(conn, chan[s]), chan[s], m) /\ Wait(s, "get", chan[s])
        /\ m.op \notin Writes
    BY <1>2, <1>6, <2>1 DEF AskNext, Msg, Writes
  <2>3. Fresh(s)'
    BY <1>3, <1>4 DEF Fresh
  <2> QED
    BY <1>2, <1>4, <2>2, <2>3, AsksHeld
<1> QED
  BY <1>5, <1>6

\* A value has arrived.
LEMMA ValueDoneHeld ==
  ASSUME TypeInv, Safe, Safe', Agreement, Agreement', Remembered, Acked, Exposed,
         NEW s \in Server, ValueDone(s), UNCHANGED clientVars
  PROVE  Remembered'
<1>0. Typed /\ Asking(s) /\ Fresh(s) /\ FetchHolds(s)
  BY TypedNow DEF Agreement, Remembered, Held
<1>1. PICK k0 : k0 = NextKey(todo[s])
  OBVIOUS
<1>2. PICK v : v = conn[chan[s]].resp.val
  OBVIOUS
<1>3. /\ pc[s] = "get" /\ conn[chan[s]].resp.type = "VALUE"
      /\ table' = [table EXCEPT ![s] = Apply(Copy(k0, v), @)]
      /\ todo' = [todo EXCEPT ![s] = @ \ {k0}]
      /\ AskNext(s, Taken(conn, chan[s]), chan[s], todo[s] \ {k0})
  BY <1>1, <1>2 DEF ValueDone
<1>4. Answered(chan[s])
  BY <1>3 DEF Answered, NoReply
<1>5. k0 \in todo[s] /\ k0 \in Key /\ todo[s] \subseteq Key
  BY <1>0, <1>1, <1>3, NextKeyType DEF Asking, Typed
<1>6. v \in Val \cup {NoVal}
  BY <1>2, <1>3, BlockedOn DEF Booting, Connection, Reply
<1>7. PICK ks : ks = todo[s] \ {k0}
  OBVIOUS
<1>8. /\ table'[s] = Apply(Copy(k0, v), table[s])
      /\ todo'[s] = ks
      /\ \A t \in Server : t # s => table'[t] = table[t] /\ todo'[t] = todo[t]
  BY <1>0, <1>3, <1>7 DEF Typed
<1>9. /\ \A k \in Key : k # k0 => table'[s][k] = table[s][k]
      /\ table'[s][k0] = v
  <2>1. table[s] \in Table /\ table[s][k0] = NoVal
    BY <1>0, <1>3, <1>5 DEF Typed, Fresh
  <2> QED
    BY <1>5, <1>6, <1>8, <2>1 DEF Apply, Copy, Msg, Table
<1>10. AskNext(s, Taken(conn, chan[s]), chan[s], ks)
  BY <1>3, <1>7
<1>11. CASE ks = {}
  <2>1. PICK m : m = Plain("UP")
    OBVIOUS
  <2>2. /\ conn' = Sent(Taken(conn, chan[s]), chan[s], m) /\ Wait(s, "up", chan[s])
        /\ m.op \notin Writes
    BY <1>10, <1>11, <2>1 DEF AskNext, Plain, Msg, Writes
  <2>3. ASSUME ~conn[chan[s]].sOpen, NEW k \in Key, Binds(s, k)
        PROVE  Kept(k, table'[s][k])
    <3>1. LastReply(s)
      BY <1>4, <2>3 DEF LastReply, Answered
    <3>2. /\ k \notin todo[s] => Kept(k, table[s][k])
          /\ k = k0 => Kept(k, v)
      BY <1>0, <1>1, <1>2, <1>3, <2>3, <3>1 DEF FetchHolds
    <3>3. k # k0 => k \notin todo[s]
      BY <1>7, <1>11
    <3> QED
      BY <1>9, <3>2, <3>3
  <2> QED
    BY <1>3, <1>4, <1>8, <2>2, <2>3, CopiedHeld
<1>12. CASE ks # {}
  <2>1. PICK m : m = Msg("GET", NextKey(ks), NoVal)
    OBVIOUS
  <2>2. /\ conn' = Sent(Taken(conn, chan[s]), chan[s], m) /\ Wait(s, "get", chan[s])
        /\ m.op \notin Writes
    BY <1>10, <1>12, <2>1 DEF AskNext, Msg, Writes
  <2>3. Fresh(s)'
    BY <1>0, <1>3, <1>5, <1>7, <1>8, <1>9 DEF Fresh
  <2> QED
    BY <1>3, <1>4, <1>8, <2>2, <2>3, AsksHeld
<1> QED
  BY <1>11, <1>12

\* The OC_UP was answered, or the source is gone.
LEMMA UpDoneHeld ==
  ASSUME TypeInv, Safe, Agreement, Agreement', Remembered, Acked, Exposed,
         NEW s \in Server, UpDone(s), UNCHANGED clientVars
  PROVE  Remembered'
<1>0. /\ Typed /\ pc[s] = "up" /\ conn' = Hungup(conn, chan[s])
      /\ pc' = [pc EXCEPT ![s] = "loop"] /\ chan' = [chan EXCEPT ![s] = NoConn]
      /\ UNCHANGED <<table, todo, serving, answer, clientVars>>
  BY TypedNow DEF UpDone, BecomeSecundary
<1>i. PICK i \in Conn : i = chan[s] /\ conn[i].from = s
  BY <1>0, BlockedOn DEF Booting
<1>1. /\ pc'[s] = "loop"
      /\ \A u \in Server : u # s => pc'[u] = pc[u] /\ chan'[u] = chan[u]
  BY <1>0 DEF Typed
<1>2. conn'[i] = CutAtClient(conn[i]) /\ \A j \in Conn : j # i => conn'[j] = conn[j]
  BY <1>0, <1>i DEF Hungup, Typed
<1>3. ASSUME NEW j \in Conn PROVE Carries(s, conn[j], conn'[j])
  <2>1. /\ Carries(s, conn[j], conn[j])
        /\ conn[j].from = s => Carries(s, conn[j], CutAtClient(conn[j]))
    BY ServerCalls
  <2> QED
    BY <1>i, <1>2, <2>1
<1>4. exposed \subseteq exposed'
  <2>1. \A u \in Server : ~StartsAlone(u)
    BY <1>0, <1>1 DEF StartsAlone
  <2>2. ASSUME NEW j \in Conn, conn[j].req.op = "KEYS", conn[j].from \in Server,
               conn[j].cOpen
        PROVE  conn'[j].req # NoReq
    <3>1. pc[conn[j].from] = "keys"
      BY <2>2, KeysCaller
    <3>2. j # i
      BY <1>0, <1>i, <3>1
    <3> QED
      BY <1>2, <2>2, <3>2 DEF NoReq, Plain, Msg
  <2> QED
    BY <2>1, <2>2, ExposedGrows
<1>5. Complete(s) /\ Complete(s)' /\ Fresh(s)' /\ AnswerTrue(s)'
  BY <1>0, <1>1 DEF Complete, Fresh, AnswerTrue
<1> QED
  BY <1>0, <1>1, <1>3, <1>4, <1>5, QuietHeld

\* The start of S1, of S2, and the end of the question that S1 asks.
LEMMA FirstStepsHeld ==
  ASSUME TypeInv, Safe, Agreement, Agreement', Remembered, Acked, Exposed,
         BootPrimary \/ BootSecundary \/ AskDone, UNCHANGED clientVars
  PROVE  Remembered'
<1> USE TwoServers
<1>0. Typed
  BY TypedNow
<1>1. ASSUME NEW s \in Server, pc[s] \in {"boot", "ask"}, pc' = [pc EXCEPT ![s] = "loop"],
             UNCHANGED <<table, todo, serving, answer>>,
             UNCHANGED conn \/ (pc[s] = "ask" /\ conn' = Hungup(conn, chan[s]))
      PROVE  Remembered'
  <2>1. pc'[s] = "loop" /\ \A t \in Server : t # s => pc'[t] = pc[t]
    BY <1>0, <1>1 DEF Typed
  <2>2. StartsAlone(s)
    BY <1>1, <2>1 DEF StartsAlone
  <2>3. ASSUME NEW j \in Conn PROVE Brings(conn[j], conn'[j])
    <3>1. /\ Carries(s, conn[j], conn[j])
          /\ conn[j].from = s => Carries(s, conn[j], CutAtClient(conn[j]))
      BY ServerCalls
    <3>2. CASE conn' = conn
      BY <3>1, <3>2 DEF Carries
    <3>3. CASE pc[s] = "ask" /\ conn' = Hungup(conn, chan[s])
      <4>1. chan[s] \in Conn /\ conn[chan[s]].from = s
        BY <3>3, BlockedOn DEF Booting
      <4>2. conn'[j] = IF j = chan[s] THEN CutAtClient(conn[j]) ELSE conn[j]
        BY <1>0, <3>3, <4>1 DEF Hungup, Typed
      <4> QED
        BY <3>1, <4>1, <4>2 DEF Carries
    <3> QED
      BY <1>1, <3>2, <3>3
  <2> QED
    BY <1>1, <2>1, <2>2, <2>3, AloneHeld
<1>2. CASE BootPrimary
  <2>1. CASE S2 \in listening
    <3>1. PICK m : m = Plain("STATUS")
      OBVIOUS
    <3>2. /\ pc[S1] = "boot" /\ Wait(S1, "ask", NewConn) /\ HasRoom
          /\ conn' = Opened(conn, NewConn, S1, S2, m)
          /\ UNCHANGED <<table, todo>> /\ m.op \notin Writes
      BY <1>2, <2>1, <3>1 DEF BootPrimary, Plain, Msg, Writes
    <3> QED
      BY <3>2, FirstAsksHeld
  <2>2. CASE S2 \notin listening
    BY <1>1, <1>2, <2>2 DEF BootPrimary, BecomePrimary
  <2> QED
    BY <2>1, <2>2
<1>3. CASE BootSecundary
  <2>1. CASE file = "primary" /\ S1 \in listening
    <3>1. PICK m : m = Plain("KEYS")
      OBVIOUS
    <3>2. /\ pc[S2] = "boot" /\ Wait(S2, "keys", NewConn) /\ HasRoom
          /\ conn' = Opened(conn, NewConn, S2, S1, m)
          /\ UNCHANGED <<table, todo>> /\ m.op \notin Writes
      BY <1>3, <2>1, <3>1 DEF BootSecundary, Plain, Msg, Writes
    <3> QED
      BY <3>2, FirstAsksHeld
  <2>2. CASE ~(file = "primary" /\ S1 \in listening)
    BY <1>1, <1>3, <2>2 DEF BootSecundary, BecomeSecundary
  <2> QED
    BY <2>1, <2>2
<1>4. CASE AskDone
  <2>0. pc[S1] = "ask"
    BY <1>4 DEF AskDone
  <2>1. CASE Answered(chan[S1]) /\ Joins(conn[chan[S1]].resp.result)
    <3>1. PICK m : m = Plain("KEYS")
      OBVIOUS
    <3>2. /\ Wait(S1, "keys", chan[S1])
          /\ conn' = Sent(Taken(conn, chan[S1]), chan[S1], m)
          /\ UNCHANGED <<table, todo>> /\ m.op \notin Writes
      BY <1>4, <2>1, <3>1 DEF AskDone, Answered, Broken, Plain, Msg, Writes
    <3>3. Fresh(S1)'
      BY <1>0, <3>2 DEF Fresh, Wait, Typed
    <3> QED
      BY <2>0, <2>1, <3>2, <3>3, AsksHeld
  <2>2. CASE ~(Answered(chan[S1]) /\ Joins(conn[chan[S1]].resp.result))
    BY <1>1, <1>4, <2>0, <2>2 DEF AskDone, BecomePrimary
  <2> QED
    BY <2>1, <2>2
<1> QED
  BY <1>2, <1>3, <1>4

\* Nothing is known of a key whose write is being forwarded.
LEMMA UnsettledUnknown ==
  ASSUME TypeInv, Safe, Agreement, FlightUnknown, NEW s \in Server, NEW k \in Key,
         pc[s] = "repl", k = Forwarding(s).key
  PROVE  acked[k] = Unknown
<1>1. serving[s] \in Conn /\ ForwardOK(s)
  BY BlockedOn DEF Agreement
<1>2. serving[s] \in UnderWay(k)
  BY <1>1 DEF ForwardOK, Forwarding, UnderWay, WriteOn
<1> QED
  BY <1>2 DEF FlightUnknown, InFlight

\* A server is gone: nothing is known of the exposed keys any more.  If the
\* other server copies its table and has a reply to read, that is the last one.
LEMMA GoneHeld ==
  ASSUME TypeInv, Safe, Agreement, Agreement', Remembered, Acked,
         NEW s \in Server, pc[s] # "down", Gone(s), UNCHANGED clientVars
  PROVE  Remembered'
<1> USE TwoServers
<1>0. /\ OneCall /\ Typed
      /\ pc' = [pc EXCEPT ![s] = "down"] /\ chan' = [chan EXCEPT ![s] = NoConn]
      /\ serving' = [serving EXCEPT ![s] = NoConn]
      /\ answer' = [answer EXCEPT ![s] = NoReply]
      /\ table' = [table EXCEPT ![s] = EmptyTable]
      /\ todo' = [todo EXCEPT ![s] = {}]
  BY TypedNow DEF Agreement, Gone
<1>1. PICK t \in Server : t = OtherServer(s) /\ t # s /\ OtherServer(t) = s
  OBVIOUS
<1>2. /\ pc'[s] = "down"
      /\ pc'[t] = pc[t] /\ chan'[t] = chan[t] /\ serving'[t] = serving[t]
      /\ table'[t] = table[t] /\ todo'[t] = todo[t]
  BY <1>0, <1>1 DEF Typed
<1>a. answer'[t] = answer[t]
  <2>1. answer \in [Server -> Reply]
    BY DEF TypeInv, TypeOK, ServerTypeOK
  <2> QED
    BY <1>0, <1>1, <2>1
<1>3. ASSUME NEW j \in Conn
      PROVE  /\ Brings(conn[j], conn'[j])
             /\ conn[j].from = t /\ conn[j].cOpen => conn'[j].resp = conn[j].resp
  <2>1. conn'[j] = IF conn[j].from = s THEN CutAtClient(conn[j])
                   ELSE IF conn[j].to = s THEN CutAtServer(conn[j]) ELSE conn[j]
    BY DEF Gone, Vanished
  <2>2. /\ conn[j] \in Connection /\ (conn[j].req # NoReq => conn[j].sOpen)
        /\ NoReq.op \notin Writes
    BY <1>0 DEF Typed, OneCall, NoReq, Plain, Msg, Writes
  <2>3. /\ conn[j].from # s /\ conn[j].cOpen => conn'[j].resp = conn[j].resp
        /\ conn'[j].req \in {conn[j].req, NoReq}
        /\ conn[j].sOpen /\ conn[j].to # s => conn'[j].req = conn[j].req
    BY <2>1, <2>2, VanishedFields
  <2>4. conn[j].from \in Client => conn[j].from # s
    BY SocketsAssumption
  <2>5. conn[j].from # s /\ conn[j].to = s => ~conn'[j].acc
    <3>1. CutAtServer(conn[j]) = FreeConn \/ ~CutAtServer(conn[j]).acc
      BY <2>2 DEF CutAtServer, Tidy, Connection
    <3>2. ~FreeConn.acc
      BY DEF FreeConn
    <3> QED
      BY <2>1, <3>1, <3>2
  <2> QED
    BY <1>1, <2>2, <2>3, <2>4, <2>5 DEF Brings
<1>4. FlightUnknown' /\ \A k \in Key : acked'[k] \in {acked[k], Unknown}
  BY <1>3, QuietAcks DEF Remembered
<1>5. \A k \in Key : k \notin exposed \/ acked'[k] = Unknown
  BY <1>2, AckedStep DEF Forgotten
<1>6. Held(s)'
  BY <1>2 DEF Held, Holds, ListHolds, FetchHolds, Fresh, AnswerTrue, Complete
<1>7. Holds(t)'
  BY <1>1, <1>2, <1>4, <1>5 DEF Remembered, Held, Holds, Kept, Complete, Binds
<1>8. pc[t] \in {"keys", "get"} =>
        /\ chan[t] \in Conn /\ conn[chan[t]].to = s
        /\ conn'[chan[t]].resp = conn[chan[t]].resp
        /\ conn[chan[t]].sOpen /\ conn[chan[t]].resp # NoReply => Complete(s)
  <2> SUFFICES ASSUME pc[t] \in {"keys", "get"}
               PROVE  /\ chan[t] \in Conn /\ conn[chan[t]].to = s
                      /\ conn'[chan[t]].resp = conn[chan[t]].resp
                      /\ conn[chan[t]].sOpen /\ conn[chan[t]].resp # NoReply => Complete(s)
    OBVIOUS
  <2>1. chan[t] \in Conn /\ conn[chan[t]].from = t /\ conn[chan[t]].cOpen
    BY BlockedOn DEF Booting
  <2>2. conn[chan[t]].to = s
    BY <1>1 DEF Safe, BootConn, Booting
  <2> QED
    BY <1>3, <2>1, <2>2 DEF Safe, ServerEnds, Polling, Complete
<1>9. ASSUME NEW k \in Key, k \notin exposed, Complete(s)
      PROVE  Kept(k, table[s][k]) /\ (Unsettled(s, k) => acked[k] = Unknown)
  <2>1. Kept(k, table[s][k])
    BY <1>9 DEF Remembered, Held, Holds, Binds
  <2>2. Unsettled(s, k) => acked[k] = Unknown
    BY UnsettledUnknown DEF Remembered, Unsettled
  <2> QED
    BY <2>1, <2>2
<1>10. ListHolds(t)'
  <2> SUFFICES ASSUME pc[t] = "keys", conn[chan[t]].resp # NoReply,
                      NEW k \in Key, k \notin conn[chan[t]].resp.keys
               PROVE  acked'[k] \in {Unknown, NoVal}
    BY <1>2, <1>8 DEF ListHolds, LastReply, Kept
  <2>1. CASE k \in exposed
    BY <1>5, <2>1
  <2>2. CASE k \notin exposed /\ ~conn[chan[t]].sOpen
    BY <1>4, <2>2 DEF Remembered, Held, ListHolds, LastReply, Binds, Kept
  <2>3. CASE k \notin exposed /\ conn[chan[t]].sOpen
    <3>1. Unsettled(s, k) \/ table[s][k] = NoVal
      BY <1>1, <2>3 DEF Agreement, CopyOK, KeysListed
    <3>2. Kept(k, table[s][k]) /\ (Unsettled(s, k) => acked[k] = Unknown)
      BY <1>8, <1>9, <2>3
    <3> QED
      BY <1>4, <3>1, <3>2 DEF Kept
  <2> QED
    BY <2>1, <2>2, <2>3
<1>11. FetchHolds(t)'
  <2> SUFFICES ASSUME pc[t] = "get", conn[chan[t]].resp.type = "VALUE", NEW k \in Key
               PROVE  /\ k \notin todo[t] => acked'[k] \in {Unknown, table[t][k]}
                      /\ k = NextKey(todo[t]) =>
                           acked'[k] \in {Unknown, conn[chan[t]].resp.val}
    BY <1>2, <1>8 DEF FetchHolds, Kept
  <2>0. conn[chan[t]].resp # NoReply
    BY DEF NoReply
  <2>1. CASE k \in exposed
    BY <1>5, <2>1
  <2>2. CASE k \notin exposed /\ ~conn[chan[t]].sOpen
    BY <1>4, <2>0, <2>2 DEF Remembered, Held, FetchHolds, LastReply, Binds, Kept
  <2>3. CASE k \notin exposed /\ conn[chan[t]].sOpen
    <3>1. \/ Unsettled(s, k)
          \/ /\ k \notin todo[t] => table[t][k] = table[s][k]
             /\ k = NextKey(todo[t]) => conn[chan[t]].resp.val = table[s][k]
      BY <1>1, <2>3 DEF Agreement, CopyOK, Fetching
    <3>2. Kept(k, table[s][k]) /\ (Unsettled(s, k) => acked[k] = Unknown)
      BY <1>8, <1>9, <2>0, <2>3
    <3> QED
      BY <1>4, <3>1, <3>2 DEF Kept
  <2> QED
    BY <2>1, <2>2, <2>3
<1>12. Fresh(t)' /\ AnswerTrue(t)'
  <2>1. \A j \in Conn : conn'[j].req.op \in Writes => conn'[j].req = conn[j].req
    BY <1>3 DEF Brings
  <2>2. AnswerTrue(t)'
    BY <1>2, <1>a, <2>1, AnswerKept DEF Remembered, Held
  <2> QED
    BY <1>2, <2>2 DEF Remembered, Held, Fresh
<1> QED
  BY <1>1, <1>4, <1>6, <1>7, <1>10, <1>11, <1>12 DEF Remembered, Held

\* Every step of the start-up.
LEMMA BootHeld ==
  ASSUME TypeInv, Safe, Safe', Agreement, Agreement', Remembered, Acked, Exposed,
         NEW s \in Server, Boot(s), UNCHANGED clientVars
  PROVE  Remembered'
<1>1. CASE KeysDone(s) \/ ValueDone(s)
  BY <1>1, KeysDoneHeld, ValueDoneHeld
<1>2. CASE UpDone(s)
  BY <1>2, UpDoneHeld
<1>3. CASE TransferDies(s)
  BY <1>3, GoneHeld DEF TransferDies
<1>4. CASE BootPrimary \/ BootSecundary \/ AskDone
  BY <1>4, FirstStepsHeld
<1> QED
  BY <1>1, <1>2, <1>3, <1>4 DEF Boot

-----------------------------------------------------------------------------
\* Writes.

\* What the answer to a write says is true of the table after the write.
LEMMA LearntTrue ==
  ASSUME NEW m \in Request, m.op \in Writes, NEW t \in Table
  PROVE  /\ Learnt(m, Answer(m, t)) \in {Unknown, Apply(m, t)[m.key]}
         /\ Learnt(m, NoReply) = Unknown
<1>1. m.key \in Key
  BY WriteOnce
<1>2. Learnt(m, NoReply) = Unknown
  BY DEF Learnt, NoReply, Result
<1>3. ASSUME m.op = "PUT" PROVE Learnt(m, Answer(m, t)) \in {Unknown, Apply(m, t)[m.key]}
  <2>1. CASE t[m.key] = NoVal
    <3>1. Answer(m, t) = Result(0) /\ Apply(m, t)[m.key] = m.val
      BY <1>1, <1>3, <2>1 DEF Answer, Apply, Table
    <3> QED
      BY <1>3, <3>1 DEF Learnt, Result
  <2>2. CASE t[m.key] # NoVal
    <3>1. Answer(m, t) = Result(-10)
      BY <1>3, <2>2 DEF Answer
    <3>2. Result(-10).type = "RESULT" /\ Result(-10).result = -10 /\ Result(0).result = 0
      BY DEF Result
    <3> QED
      BY <3>1, <3>2 DEF Learnt
  <2> QED
    BY <2>1, <2>2
<1>4. ASSUME m.op \in {"UPDATE", "DEL"}
      PROVE  Learnt(m, Answer(m, t)) \in {Unknown, Apply(m, t)[m.key]}
  <2>1. CASE t[m.key] = NoVal
    <3>1. Answer(m, t) = ErrorReply
      BY <1>4, <2>1 DEF Answer
    <3>2. Apply(m, t)[m.key] = NoVal
      BY <1>1, <1>4, <2>1 DEF Apply, Table
    <3>3. ErrorReply.type = "ERROR" /\ Result(0).type # "ERROR"
      BY DEF ErrorReply, Result
    <3> QED
      BY <3>1, <3>2, <3>3 DEF Learnt
  <2>2. CASE t[m.key] # NoVal
    <3>1. Answer(m, t) = Result(0)
      BY <1>4, <2>2 DEF Answer
    <3>2. Apply(m, t)[m.key] = IF m.op = "DEL" THEN NoVal ELSE m.val
      BY <1>1, <1>4, <2>2 DEF Apply, Table
    <3> QED
      BY <3>1, <3>2 DEF Learnt, Result
  <2> QED
    BY <2>1, <2>2
<1> QED
  BY <1>2, <1>3, <1>4 DEF Writes

\* A step of a server that may answer the write on i, and no other: only of the
\* key of that write more may be known, and what the answer says.
LEMMA WriteAcks ==
  ASSUME TypeInv, Safe, FlightUnknown, Acked, UNCHANGED clientVars,
         NEW i \in Conn, conn[i].req.op \in Writes,
         \A j \in Conn : conn'[j].req.op \in Writes =>
                           \E l \in Conn : conn[l].req = conn'[j].req,
         \A j \in Conn : conn[j].from \in Client /\ conn[j].cOpen
                           /\ conn'[j].resp = NoReply => conn[j].resp = NoReply,
         \A j \in Conn : j # i /\ conn[j].from \in Client /\ conn[j].req # NoReq =>
                           conn'[j].req # NoReq
  PROVE  /\ FlightUnknown'
         /\ \A k \in Key : k # conn[i].req.key => acked'[k] \in {acked[k], Unknown}
         /\ conn[i].req.key \in Key => acked'[conn[i].req.key] \in {Unknown, LearntOn(i)}
         /\ conn[i].from \notin Client \/ conn'[i].req # NoReq =>
              \A k \in Key : acked'[k] \in {acked[k], Unknown}
<1>1. \A k \in Key : (InFlight(k)' => InFlight(k)) /\ ~Entered(k)
  BY ServerFlight
<1>2. NoReq.op \notin Writes
  BY DEF NoReq, Plain, Msg, Writes
<1>3. \A k \in Key : \A j \in AnsweredNow(k) :
        /\ j = i /\ k = conn[i].req.key
        /\ conn[i].from \in Client /\ conn'[i].req = NoReq
  BY <1>2 DEF AnsweredNow, UnderWay, WriteOn
<1>4. \A k \in Key : k = conn[i].req.key => acked[k] = Unknown
  BY DEF FlightUnknown, InFlight, UnderWay, WriteOn
<1>5. \A k \in Key : \/ acked'[k] \in {acked[k], Unknown}
                     \/ \E j \in AnsweredNow(k) : acked'[k] = LearntOn(j)
  BY AckedStep
<1> QED
  BY <1>1, <1>3, <1>4, <1>5, FlightKept

\* A write that is forwarded: no answer is sent yet.
LEMMA ForwardedWriteHeld ==
  ASSUME TypeInv, Safe, Agreement, Agreement', Remembered, Acked, Exposed,
         NEW s \in Server, NEW i \in Conn, ServeWrite(s, i),
         Replicates(s), link[s] # NoConn, UNCHANGED clientVars
  PROVE  Remembered'
<1> USE TwoServers
<1>m. PICK m \in Request : m = conn[i].req
  BY WriteServed
<1>l. PICK l \in Conn : l = link[s]
  BY TypedNow DEF Typed
<1>t. PICK t \in Server : t = OtherServer(s) /\ t # s /\ OtherServer(t) = s
  OBVIOUS
<1>0. /\ Typed /\ OneCall
      /\ conn[i] \in Connection /\ conn[i].sOpen /\ conn[i].to = s
      /\ pc[s] = "loop" /\ m.op \in Writes /\ m # NoReq
      /\ table' = [table EXCEPT ![s] = Apply(m, @)] /\ UNCHANGED todo
  BY <1>m, TypedNow, WriteServed DEF Agreement
<1>1. /\ pc' = [pc EXCEPT ![s] = "repl"]
      /\ chan' = [chan EXCEPT ![s] = l]
      /\ serving' = [serving EXCEPT ![s] = i]
      /\ answer' = [answer EXCEPT ![s] = Answer(m, table[s])]
      /\ conn' = Sent(conn, l, m)
  BY <1>0, <1>l, <1>m DEF ServeWrite, Forwarded
<1>2. conn[l].from = s /\ conn[l].cOpen /\ l # i /\ s \notin Client
  <2>1. conn[l].from = s /\ conn[l].cOpen
    BY <1>0, <1>l DEF Safe, OwnLinks, Replicates
  <2>2. l # i
    BY <1>0, <2>1 DEF Safe, ServerEnds
  <2> QED
    BY <2>1, <2>2
<1>3. /\ \A j \in Conn : j # l => conn'[j] = conn[j]
      /\ conn'[l] = [conn[l] EXCEPT !.req = IF conn[l].sOpen THEN m ELSE NoReq]
  BY <1>0, <1>1 DEF Sent, Typed
<1>4. /\ conn'[l].req \in {m, NoReq} /\ conn'[l].resp = conn[l].resp
      /\ conn'[l].sOpen = conn[l].sOpen
  <2>1. conn[l] \in Connection
    BY <1>0 DEF Typed
  <2> QED
    BY <1>3, <2>1 DEF Connection
<1>5. FlightUnknown' /\ \A k \in Key : acked'[k] \in {acked[k], Unknown}
  <2>1. \A j \in Conn : conn'[j].req.op \in Writes =>
                          \E h \in Conn : conn[h].req = conn'[j].req
    <3>1. NoReq.op \notin Writes
      BY DEF NoReq, Plain, Msg, Writes
    <3>2. ASSUME NEW j \in Conn, conn'[j].req.op \in Writes
          PROVE  conn'[j].req \in {conn[i].req, conn[j].req}
      BY <1>3, <1>4, <1>m, <3>1, <3>2
    <3> QED
      BY <3>2
  <2>2. \A j \in Conn : conn[j].from \in Client /\ conn[j].cOpen
                          /\ conn'[j].resp = NoReply => conn[j].resp = NoReply
    BY <1>3, <1>4
  <2>3. \A j \in Conn : j # i /\ conn[j].from \in Client /\ conn[j].req # NoReq =>
                          conn'[j].req # NoReq
    BY <1>2, <1>3
  <2>4. conn'[i].req # NoReq /\ conn[i].req.op \in Writes
    BY <1>0, <1>2, <1>3, <1>m
  <2>5. FlightUnknown
    BY DEF Remembered
  <2> QED
    BY <2>1, <2>2, <2>3, <2>4, <2>5, WriteAcks
<1>6. exposed \subseteq exposed'
  <2>1. \A u \in Server : ~StartsAlone(u)
    BY <1>0, <1>1 DEF StartsAlone, Typed
  <2>2. conn[l].req.op # "KEYS"
    <3>1. conn[l].req = NoReq
      BY <1>0, <1>2 DEF OneCall, Booting, Safe, Modes
    <3> QED
      BY <3>1 DEF NoReq, Plain, Msg
  <2>3. \A j \in Conn : conn[j].req.op = "KEYS" /\ conn[j].from \in Server
          /\ conn[j].cOpen => conn'[j].req # NoReq
    BY <1>3, <2>2 DEF NoReq, Plain, Msg
  <2> QED
    BY <2>1, <2>3, ExposedGrows
<1>7. /\ pc'[s] = "repl" /\ serving'[s] = i /\ answer'[s] = Answer(m, table[s])
      /\ table[s] \in Table /\ table'[s] = Apply(m, table[s])
      /\ pc'[t] = pc[t] /\ chan'[t] = chan[t] /\ todo'[t] = todo[t]
      /\ table'[t] = table[t]
  <2>1. answer \in [Server -> Reply]
    BY DEF TypeInv, TypeOK, ServerTypeOK
  <2> QED
    BY <1>0, <1>1, <1>t, <2>1 DEF Typed
<1>8. \A u \in Server, k \in Key : Binds(u, k)' => Binds(u, k)
  <2>1. \A u \in Server : Complete(u)' <=> Complete(u)
    BY <1>0, <1>7, <1>t DEF Complete
  <2> QED
    BY <1>6, <2>1 DEF Binds
<1>9. Held(t)'
  <2>1. Held(t)
    BY DEF Remembered
  <2>2. Holds(t)'
    BY <1>5, <1>7, <1>8, <2>1 DEF Held, Holds, Kept, Complete
  <2>3. ListHolds(t)' /\ FetchHolds(t)' /\ Fresh(t)'
    <3>1. \A j \in Conn : conn[j].from \in Server \ {s} /\ conn[j].cOpen /\ ~conn'[j].sOpen =>
                            ~conn[j].sOpen /\ conn'[j].resp = conn[j].resp
      BY <1>3, <1>4
    <3>2. \A k \in Key : Binds(t, k)' => Binds(t, k) /\ acked'[k] \in {acked[k], Unknown}
      BY <1>5, <1>8
    <3> QED
      BY <1>7, <1>t, <2>1, <3>1, <3>2, CopyHeld
  <2>4. AnswerTrue(t)'
    <3>1. pc[t] # "repl"
      BY <1>t DEF Safe, NoTwoReplicators, Modes, Server
    <3> QED
      BY <1>7, <3>1 DEF AnswerTrue
  <2> QED
    BY <2>2, <2>3, <2>4 DEF Held
<1>10. Held(s)'
  <2>1. Holds(s)'
    <3> SUFFICES ASSUME NEW k \in Key, Binds(s, k)' PROVE acked'[k] \in {Unknown, table'[s][k]}
      BY DEF Holds, Kept
    <3>1. CASE k = m.key
      <4>1. acked[k] = Unknown
        BY <1>0, <1>m, <3>1 DEF Remembered, FlightUnknown, InFlight, UnderWay, WriteOn
      <4> QED
        BY <1>5, <4>1
    <3>2. CASE k # m.key
      <4>1. table'[s][k] = table[s][k]
        BY <1>0, <1>7, <3>2, WriteOnce
      <4>2. acked[k] \in {Unknown, table[s][k]}
        BY <1>0, <1>8 DEF Remembered, Held, Holds, Kept, Complete
      <4> QED
        BY <1>5, <4>1, <4>2
    <3> QED
      BY <3>1, <3>2
  <2>2. AnswerTrue(s)'
    <3>1. Forwarding(s)' = m
      BY <1>2, <1>3, <1>7, <1>m DEF Forwarding
    <3> QED
      BY <1>0, <1>7, <3>1, LearntTrue DEF AnswerTrue
  <2>3. ListHolds(s)' /\ FetchHolds(s)' /\ Fresh(s)'
    BY <1>7 DEF ListHolds, FetchHolds, Fresh
  <2> QED
    BY <2>1, <2>2, <2>3 DEF Held
<1> QED
  BY <1>5, <1>9, <1>10, <1>t DEF Remembered

\* A write that is answered at once.  Either nobody learns of it; or it is a
\* client's, and the key is exposed now: only s, where it is true, has to hold
\* what the answer says.
LEMMA AnsweredWriteHeld ==
  ASSUME TypeInv, Safe, Agreement, Agreement', Remembered, Acked, Exposed,
         NEW s \in Server, NEW i \in Conn, ServeWrite(s, i),
         conn' = Replied(conn, i, Answer(conn[i].req, table[s])),
         ~Replicates(s)', UNCHANGED <<pc, chan, serving, answer, clientVars>>
  PROVE  Remembered'
<1> USE TwoServers
<1>m. PICK m \in Request : m = conn[i].req
  BY WriteServed
<1>r. PICK r : r = Answer(m, table[s])
  OBVIOUS
<1>t. PICK t \in Server : t = OtherServer(s) /\ t # s /\ OtherServer(t) = s
  OBVIOUS
<1>0. /\ Typed /\ NoReq.op \notin Writes
      /\ conn[i] \in Connection /\ conn[i].sOpen /\ conn[i].to = s /\ conn[i].acc
      /\ conn[i].resp = NoReply
      /\ pc[s] = "loop" /\ m.op \in Writes /\ m # NoReq
      /\ table' = [table EXCEPT ![s] = Apply(m, @)] /\ UNCHANGED todo
      /\ conn' = Replied(conn, i, r)
  BY <1>m, <1>r, TypedNow, WriteServed DEF Agreement, NoReq, Plain, Msg, Writes
<1>1. /\ \A j \in Conn : j # i => conn'[j] = conn[j]
      /\ conn'[i].req = NoReq /\ conn'[i].acc /\ conn'[i].sOpen
      /\ conn'[i].resp \in {r, NoReply}
  BY <1>0 DEF Replied, Typed, Connection
<1>2. /\ FlightUnknown'
      /\ \A k \in Key : k # m.key => acked'[k] \in {acked[k], Unknown}
      /\ m.key \in Key => acked'[m.key] \in {Unknown, LearntOn(i)}
      /\ conn[i].from \notin Client => \A k \in Key : acked'[k] \in {acked[k], Unknown}
  <2>1. \A j \in Conn : conn'[j].req.op \in Writes =>
                          \E h \in Conn : conn[h].req = conn'[j].req
    <3>1. ASSUME NEW j \in Conn, conn'[j].req.op \in Writes PROVE conn[j].req = conn'[j].req
      BY <1>0, <1>1, <3>1
    <3> QED
      BY <3>1
  <2>2. \A j \in Conn : conn[j].from \in Client /\ conn[j].cOpen
                          /\ conn'[j].resp = NoReply => conn[j].resp = NoReply
    BY <1>0, <1>1
  <2>3. \A j \in Conn : j # i /\ conn[j].from \in Client /\ conn[j].req # NoReq =>
                          conn'[j].req # NoReq
    BY <1>1
  <2>4. FlightUnknown /\ conn[i].req.op \in Writes
    BY <1>0, <1>m DEF Remembered
  <2> QED
    BY <1>m, <2>1, <2>2, <2>3, <2>4, WriteAcks
<1>3. m.key \in Key /\ table[s] \in Table /\ table'[s] = Apply(m, table[s])
  BY <1>0, WriteOnce DEF Typed
<1>4. /\ pc'[s] = "loop"
      /\ pc'[t] = pc[t] /\ chan'[t] = chan[t] /\ todo'[t] = todo[t]
      /\ table'[t] = table[t] /\ serving'[t] = serving[t] /\ answer'[t] = answer[t]
  BY <1>0, <1>t DEF Typed
<1>5. /\ exposed \subseteq exposed'
      /\ conn[i].from \in Client => m.key \in exposed'
  <2>1. \A u \in Server : ~StartsAlone(u)
    BY DEF StartsAlone
  <2>2. \A j \in Conn : conn[j].req.op = "KEYS" /\ conn[j].from \in Server
          /\ conn[j].cOpen => conn'[j].req # NoReq
    BY <1>0, <1>1, <1>m DEF NoReq, Plain, Msg, Writes
  <2>3. conn[i].from \in Client => AnsweredAlone(s, i)
    BY <1>0, <1>1, <1>m DEF AnsweredAlone
  <2> QED
    BY <1>m, <2>1, <2>2, <2>3, ExposedGrows
<1>6. \A u \in Server, k \in Key : Binds(u, k)' => Binds(u, k)
  BY <1>5 DEF Binds, Complete
<1>7. \A k \in Key : Binds(t, k)' => Binds(t, k) /\ acked'[k] \in {acked[k], Unknown}
  <2>1. ASSUME conn[i].from \in Client PROVE ~Binds(t, m.key)'
    BY <1>4, <1>5, <1>t, <2>1 DEF Binds, Complete
  <2> QED
    BY <1>2, <1>6, <2>1
<1>8. Held(t)'
  <2>1. Held(t)
    BY DEF Remembered
  <2>2. Holds(t)'
    BY <1>4, <1>7, <2>1 DEF Held, Holds, Kept, Complete
  <2>3. ListHolds(t)' /\ FetchHolds(t)' /\ Fresh(t)'
    <3>1. \A j \in Conn : conn[j].from \in Server \ {s} /\ conn[j].cOpen /\ ~conn'[j].sOpen =>
                            ~conn[j].sOpen /\ conn'[j].resp = conn[j].resp
      BY <1>1
    <3> QED
      BY <1>4, <1>7, <1>t, <2>1, <3>1, CopyHeld
  <2>4. AnswerTrue(t)'
    <3>1. \A j \in Conn : conn'[j].req.op \in Writes => conn'[j].req = conn[j].req
      BY <1>0, <1>1
    <3> QED
      BY <1>4, <2>1, <3>1, AnswerKept DEF Held
  <2> QED
    BY <2>2, <2>3, <2>4 DEF Held
<1>9. Held(s)'
  <2>1. Holds(s)'
    <3> SUFFICES ASSUME NEW k \in Key, Binds(s, k)' PROVE acked'[k] \in {Unknown, table'[s][k]}
      BY DEF Holds, Kept
    <3>1. CASE k = m.key
      <4>1. LearntOn(i) \in {Learnt(m, r), Learnt(m, NoReply)}
        BY <1>1, <1>m DEF LearntOn
      <4>2. LearntOn(i) \in {Unknown, table'[s][k]}
        BY <1>0, <1>3, <1>r, <3>1, <4>1, LearntTrue
      <4> QED
        BY <1>2, <3>1, <4>2
    <3>2. CASE k # m.key
      <4>1. table'[s][k] = table[s][k]
        BY <1>0, <1>3, <3>2, WriteOnce
      <4>2. acked[k] \in {Unknown, table[s][k]}
        BY <1>0, <1>6 DEF Remembered, Held, Holds, Kept, Complete
      <4> QED
        BY <1>2, <3>2, <4>1, <4>2
    <3> QED
      BY <3>1, <3>2
  <2>2. ListHolds(s)' /\ FetchHolds(s)' /\ Fresh(s)' /\ AnswerTrue(s)'
    BY <1>4 DEF ListHolds, FetchHolds, Fresh, AnswerTrue
  <2> QED
    BY <2>1, <2>2 DEF Held
<1> QED
  BY <1>2, <1>8, <1>9, <1>t DEF Remembered

\* Every write that is served.
LEMMA WriteHeld ==
  ASSUME TypeInv, Safe, Agreement, Agreement', Remembered, Acked, Exposed,
         NEW s \in Server, NEW i \in Conn, ServeWrite(s, i), UNCHANGED clientVars
  PROVE  Remembered'
<1>1. CASE Replicates(s) /\ link[s] # NoConn
  BY <1>1, ForwardedWriteHeld
<1>2. CASE ~(Replicates(s) /\ link[s] # NoConn)
  <2>1. /\ state' = [state EXCEPT ![s] = IF Replicates(s) /\ Forwarded(conn[i].req)
                                         THEN DOWN ELSE @]
        /\ conn' = Replied(conn, i, Answer(conn[i].req, table[s]))
        /\ UNCHANGED <<pc, chan, serving, answer, status>>
    BY <1>2 DEF ServeWrite
  <2>2. ~Replicates(s)'
    BY <2>1, TypedNow, WriteServed DEF Replicates, Forwarded, Typed, UP, DOWN
  <2> QED
    BY <2>1, <2>2, AnsweredWriteHeld
<1> QED
  BY <1>1, <1>2

\* What the end of a forward does to the connections and to s.
LEMMA ForwardEnds ==
  ASSUME TypeInv, Safe, Agreement, NEW s \in Server, ForwardDone(s),
         NEW i \in Conn, i = chan[s], NEW j \in Conn, j = serving[s]
  PROVE  /\ conn[i].from = s /\ i # j /\ conn[i].req = NoReq
         /\ conn[j].acc /\ conn[j].req = Forwarding(s) /\ conn[j].resp = NoReply
         /\ conn[j].from \in Client \/ ~conn[j].cOpen
         /\ Forwarding(s) \in Request /\ Forwarding(s).op \in Writes
         /\ Forwarding(s).key \in Key
         /\ \A l \in Conn : l # i /\ l # j => conn'[l] = conn[l]
         /\ conn'[i].req = NoReq
         /\ conn'[j].req = NoReq /\ conn'[j].acc /\ conn'[j].sOpen
         /\ conn'[j].resp \in {answer[s], NoReply}
         /\ conn[j].to = s
<1>0. /\ Typed /\ OneCall /\ ForwardOK(s)
      /\ pc[s] = "repl"
      /\ Answered(i) \/ Broken(i)
      /\ conn' = Replied(IF Answered(i) THEN Taken(conn, i) ELSE Hungup(conn, i),
                         j, answer[s])
  BY TypedNow DEF Agreement, ForwardDone
<1>1. /\ conn[i] \in Connection /\ conn[i].from = s /\ conn[i].cOpen
      /\ conn[j] \in Connection /\ conn[j].to = s /\ conn[j].sOpen /\ conn[j].from # s
      /\ i # j /\ Forwarding(s) \in Request
      /\ conn[j].acc /\ conn[j].req = Forwarding(s) /\ Forwarding(s).op \in Writes
      /\ conn[j].from \in Client \/ ~conn[j].cOpen
  BY <1>0, BlockedOn DEF Forwarding, ForwardOK
<1>2. conn[i].req = NoReq /\ Forwarding(s).key \in Key /\ conn[j].resp = NoReply
  <2>1. conn[j].req # NoReq
    BY <1>1 DEF NoReq, Plain, Msg, Writes
  <2> QED
    BY <1>0, <1>1, <2>1, WriteOnce DEF OneCall, Answered, Broken
<1>3. /\ \A l \in Conn : l # i /\ l # j => conn'[l] = conn[l]
      /\ conn'[j].req = NoReq /\ conn'[j].acc /\ conn'[j].sOpen
      /\ conn'[j].resp \in {answer[s], NoReply}
  BY <1>0, <1>1 DEF Taken, Hungup, Replied, Connection, Typed
<1>4. conn'[i].req = NoReq
  <2>1. CASE Answered(i)
    <3>1. conn'[i] = [conn[i] EXCEPT !.resp = NoReply]
      BY <1>0, <1>1, <2>1 DEF Taken, Replied, Connection, Typed
    <3> QED
      BY <1>1, <1>2, <3>1 DEF Connection
  <2>2. CASE ~Answered(i)
    <3>1. conn'[i] = CutAtClient(conn[i]) /\ ~conn[i].sOpen
      BY <1>0, <1>1, <2>2 DEF Hungup, Replied, Connection, Typed, Broken
    <3>2. CutAtClient(conn[i]) = FreeConn
      BY <1>1, <3>1 DEF CutAtClient, Tidy, Closed, Connection
    <3> QED
      BY <3>1, <3>2 DEF FreeConn
  <2> QED
    BY <2>1, <2>2
<1> QED
  BY <1>1, <1>2, <1>3, <1>4

\* The backup has answered, or is gone: what the client is told is true of the
\* table of s and, when s still has a backup, of that of the backup.
LEMMA ForwardDoneHeld ==
  ASSUME TypeInv, Safe, Agreement, Agreement', Remembered, Acked, Exposed,
         NEW s \in Server, ForwardDone(s), UNCHANGED clientVars
  PROVE  Remembered'
<1> USE TwoServers
<1>i. PICK i \in Conn : i = chan[s]
  BY TypedNow DEF Typed, ForwardDone, Booting
<1>j. PICK j \in Conn : j = serving[s]
  BY TypedNow DEF Typed, ForwardDone
<1>m. PICK m : m = Forwarding(s)
  OBVIOUS
<1>t. PICK t \in Server : t = OtherServer(s) /\ t # s /\ OtherServer(t) = s
  OBVIOUS
<1>0. /\ Typed /\ pc[s] = "repl" /\ NoReq.op \notin Writes
      /\ pc' = [pc EXCEPT ![s] = "loop"] /\ chan' = [chan EXCEPT ![s] = NoConn]
      /\ serving' = [serving EXCEPT ![s] = NoConn]
      /\ answer' = [answer EXCEPT ![s] = NoReply]
      /\ UNCHANGED <<table, todo>>
  BY TypedNow DEF ForwardDone, NoReq, Plain, Msg, Writes
<1>1. /\ conn[i].from = s /\ i # j /\ conn[i].req = NoReq
      /\ conn[j].acc /\ conn[j].req = m /\ conn[j].resp = NoReply
      /\ conn[j].from \in Client \/ ~conn[j].cOpen
      /\ m \in Request /\ m.op \in Writes /\ m.key \in Key
      /\ \A l \in Conn : l # i /\ l # j => conn'[l] = conn[l]
      /\ conn'[i].req = NoReq
      /\ conn'[j].req = NoReq /\ conn'[j].acc /\ conn'[j].sOpen
      /\ conn'[j].resp \in {answer[s], NoReply}
      /\ conn[j].to = s
  BY <1>i, <1>j, <1>m, ForwardEnds
<1>2. /\ FlightUnknown'
      /\ \A k \in Key : k # m.key => acked'[k] \in {acked[k], Unknown}
      /\ acked'[m.key] \in {Unknown, LearntOn(j)}
  <2>1. \A l \in Conn : conn'[l].req.op \in Writes =>
                          \E h \in Conn : conn[h].req = conn'[l].req
    <3>1. ASSUME NEW l \in Conn, conn'[l].req.op \in Writes PROVE conn[l].req = conn'[l].req
      BY <1>0, <1>1, <3>1
    <3> QED
      BY <3>1
  <2>2. \A l \in Conn : conn[l].from \in Client /\ conn[l].cOpen
                          /\ conn'[l].resp = NoReply => conn[l].resp = NoReply
    BY <1>1
  <2>3. \A l \in Conn : l # j /\ conn[l].from \in Client /\ conn[l].req # NoReq =>
                          conn'[l].req # NoReq
    BY <1>1
  <2>4. FlightUnknown /\ conn[j].req.op \in Writes
    BY <1>1 DEF Remembered
  <2> QED
    BY <1>1, <2>1, <2>2, <2>3, <2>4, WriteAcks
<1>3. acked'[m.key] \in {Unknown, table'[s][m.key]}
  <2>1. LearntOn(j) \in {Learnt(m, answer[s]), Learnt(m, NoReply)}
    BY <1>1 DEF LearntOn
  <2>2. Learnt(m, NoReply) = Unknown
    <3>1. table[s] \in Table
      BY <1>0 DEF Typed
    <3> QED
      BY <1>1, <3>1, LearntTrue
  <2>3. Learnt(m, answer[s]) \in {Unknown, table[s][m.key]}
    BY <1>0, <1>m DEF Remembered, Held, AnswerTrue
  <2> QED
    BY <1>0, <1>2, <2>1, <2>2, <2>3
<1>4. /\ pc'[s] = "loop"
      /\ pc'[t] = pc[t] /\ chan'[t] = chan[t] /\ todo'[t] = todo[t]
      /\ table'[t] = table[t] /\ table'[s] = table[s]
  BY <1>0, <1>t DEF Typed
<1>5. /\ exposed \subseteq exposed'
      /\ m.key \notin exposed' => Replicates(s)'
  <2>1. \A u \in Server : ~StartsAlone(u)
    BY <1>0 DEF StartsAlone, Typed
  <2>2. \A l \in Conn : conn[l].req.op = "KEYS" /\ conn[l].from \in Server
          /\ conn[l].cOpen => conn'[l].req # NoReq
    BY <1>1 DEF NoReq, Plain, Msg, Writes
  <2>3. ~Replicates(s)' => AnsweredAlone(s, j)
    BY <1>1 DEF AnsweredAlone
  <2> QED
    BY <1>1, <2>1, <2>2, <2>3, ExposedGrows
<1>6. \A u \in Server, k \in Key : Binds(u, k)' => Binds(u, k)
  <2>1. \A u \in Server : Complete(u)' <=> Complete(u)
    BY <1>0, <1>4, <1>t DEF Complete
  <2> QED
    BY <1>5, <2>1 DEF Binds
<1>7. Binds(t, m.key)' => m.key \notin exposed' /\ Replicates(s)'
  BY <1>4, <1>5, <1>t DEF Binds, Complete
<1>8. \A u \in Server : Remembered => Held(u)
  BY DEF Remembered
<1>9. Holds(s)'
  <2> SUFFICES ASSUME NEW k \in Key, Binds(s, k)' PROVE acked'[k] \in {Unknown, table'[s][k]}
    BY DEF Holds, Kept
  <2>1. acked[k] \in {Unknown, table[s][k]}
    BY <1>0, <1>6, <1>8 DEF Held, Holds, Kept, Complete
  <2> QED
    BY <1>2, <1>3, <1>4, <2>1
<1>10. Holds(t)'
  <2> SUFFICES ASSUME Complete(t), NEW k \in Key, Binds(t, k)'
               PROVE  acked'[k] \in {Unknown, table'[t][k]}
    BY <1>4 DEF Holds, Kept, Complete
  <2>1. CASE k # m.key
    <3>1. acked[k] \in {Unknown, table[t][k]}
      BY <1>6, <1>8 DEF Held, Holds, Kept
    <3> QED
      BY <1>2, <1>4, <2>1, <3>1
  <2>2. CASE k = m.key
    <3>1. k \in Key \ exposed' /\ Replicates(s)' /\ ~Unsettled(s, k)'
      BY <1>4, <1>7, <2>2 DEF Unsettled
    <3>2. AgreeOn(s, t, k)' => table'[s][k] = table'[t][k]
      BY <3>1 DEF AgreeOn
    <3>3. CASE Polling(t)
      <4>1. Backed(s)' /\ Polling(t)'
        BY <1>4, <3>3 DEF Agreement, CopyOK, Polling
      <4> QED
        BY <1>3, <1>t, <2>2, <3>1, <3>2, <4>1 DEF Backed
    <3>4. CASE pc[t] = "up"
      <4>1. conn'[chan'[t]].sOpen
        BY <1>4, <1>t, <3>1, <3>4 DEF Agreement, CutTransfer
      <4>2. Copied(t)' /\ pc'[t] = "up"
        BY <1>4, <3>4 DEF Agreement, CopyOK
      <4> QED
        BY <1>3, <1>t, <2>2, <3>1, <3>2, <4>1, <4>2 DEF Copied
    <3> QED
      BY <3>3, <3>4 DEF Complete, Polling
  <2> QED
    BY <2>1, <2>2
<1>11. ListHolds(t)' /\ FetchHolds(t)' /\ Fresh(t)'
  <2>1. \A l \in Conn : conn[l].from \in Server \ {s} /\ conn[l].cOpen /\ ~conn'[l].sOpen =>
                          ~conn[l].sOpen /\ conn'[l].resp = conn[l].resp
    BY <1>1
  <2>2. pc[t] \in {"keys", "get"} /\ LastReply(t)' =>
          \A k \in Key : Binds(t, k)' => Binds(t, k) /\ acked'[k] \in {acked[k], Unknown}
    <3> SUFFICES ASSUME pc[t] \in {"keys", "get"}, LastReply(t)', NEW k \in Key, Binds(t, k)'
                 PROVE  Binds(t, k) /\ acked'[k] \in {acked[k], Unknown}
      OBVIOUS
    <3>1. ~Replicates(s)'
      BY <1>4, <1>t DEF Agreement, CutTransfer, LastReply
    <3>2. k # m.key
      BY <1>7, <3>1
    <3> QED
      BY <1>2, <1>6, <3>2
  <2> QED
    BY <1>4, <1>8, <1>t, <2>1, <2>2, CopyHeld
<1>12. AnswerTrue(t)' /\ ListHolds(s)' /\ FetchHolds(s)' /\ Fresh(s)' /\ AnswerTrue(s)'
  <2>1. pc[t] # "repl"
    BY <1>0, <1>t DEF Safe, NoTwoReplicators, Modes, Server
  <2> QED
    BY <1>4, <2>1 DEF ListHolds, FetchHolds, Fresh, AnswerTrue
<1> QED
  BY <1>2, <1>9, <1>10, <1>11, <1>12, <1>t DEF Remembered, Held

-----------------------------------------------------------------------------
\* Steps of a client.

\* A client that waits after a step has entered its request in this step, or
\* waited before, without an answer; and puts no other request on a connection.
ClientAsks(c) ==
  /\ cpc'[c] = "wait" =>
       \/ cpc[c] = "idle"
       \/ /\ cpc[c] = "wait" /\ creq'[c] = creq[c]
          /\ sock[c] # NoConn => conn[sock[c]].resp = NoReply
  /\ \A j \in Conn :
       conn'[j].req.op \in Writes =>
         conn'[j].req = conn[j].req \/ (cpc'[c] = "wait" /\ conn'[j].req = creq'[c])
  /\ \A d \in Client : d # c => creq'[d] = creq[d]

\* Every step of a client is such a step.
LEMMA ClientStepAsks ==
  ASSUME TypeInv, Safe, Agreement, NEW c \in Client,
         \/ Bind(c) \/ ClientStep(c) \/ Exit(c)
         \/ \E m \in CallRequest : Call(c, m)
  PROVE  ClientAsks(c)
<1>0. /\ Typed /\ creq \in [Client -> Request] /\ NoReq.op \notin Writes
      /\ \A j \in Conn : conn[j] \in Connection
      /\ sock[c] # NoConn => sock[c] \in Conn
  BY TypedNow DEF Typed, TypeInv, TypeOK, ClientTypeOK, NoReq, Plain, Msg, Writes
<1>1. \A j \in Conn : Closing(c)[j].req.op \in Writes => Closing(c)[j].req = conn[j].req
  <2>1. ASSUME NEW j \in Conn
        PROVE  CutAtClient(conn[j]).req.op \in Writes =>
                 CutAtClient(conn[j]).req = conn[j].req
    <3>1. CASE conn[j].sOpen
      BY <1>0, <3>1, Fields
    <3>2. CASE ~conn[j].sOpen
      <4>1. CutAtClient(conn[j]) = FreeConn
        BY <1>0, <3>2 DEF CutAtClient, Tidy, Closed, Connection
      <4>2. FreeConn.req = NoReq
        BY DEF FreeConn
      <4> QED
        BY <1>0, <4>1, <4>2
    <3> QED
      BY <3>1, <3>2
  <2>2. \A j \in Conn : Closing(c)[j] \in {conn[j], CutAtClient(conn[j])}
    BY <1>0 DEF Closing, Hungup, Typed
  <2> QED
    BY <2>1, <2>2
<1>2. CASE Bind(c)
  <2>1. /\ NewConn \in Conn /\ conn' = Opened(conn, NewConn, c, S1, NoReq)
        /\ cpc'[c] = "idle" /\ UNCHANGED creq
    BY <1>0, <1>2, NewConnType DEF Bind, Typed
  <2>2. \A j \in Conn : conn'[j] \in {conn[j], NewConnection(c, S1, NoReq)}
    BY <1>0, <2>1 DEF Opened, Typed
  <2>3. NewConnection(c, S1, NoReq).req = NoReq
    BY DEF NewConnection
  <2> QED
    BY <1>0, <2>1, <2>2, <2>3 DEF ClientAsks
<1>3. ASSUME NEW m \in CallRequest, Call(c, m) PROVE ClientAsks(c)
  <2>1. /\ cpc[c] = "idle" /\ cpc'[c] = "wait" /\ creq' = [creq EXCEPT ![c] = m]
        /\ conn' = IF sock[c] = NoConn THEN conn ELSE Sent(conn, sock[c], m)
    BY <1>0, <1>3 DEF Call, Typed
  <2>2. creq'[c] = m /\ \A d \in Client : d # c => creq'[d] = creq[d]
    BY <1>0, <2>1
  <2>3. \A j \in Conn : conn'[j].req \in {conn[j].req, m, NoReq}
    BY <1>0, <2>1 DEF Sent, Typed, Connection
  <2> QED
    BY <1>0, <2>1, <2>2, <2>3 DEF ClientAsks
<1>4. CASE Receive(c)
  <2>1. /\ conn' = Taken(conn, sock[c]) /\ sock[c] \in Conn
        /\ cpc'[c] = "idle" /\ creq' = [creq EXCEPT ![c] = NoReq]
    BY <1>0, <1>4 DEF Receive, Done, Typed
  <2>2. \A j \in Conn : conn'[j].req = conn[j].req
    BY <1>0, <2>1 DEF Taken, Typed, Connection
  <2> QED
    BY <1>0, <2>1, <2>2 DEF ClientAsks
<1>5. CASE Switch(c)
  <2>0. PICK t : t = OtherServer(cur[c])
    OBVIOUS
  <2>1. /\ cpc[c] = "wait" /\ cpc' = cpc /\ creq' = creq
        /\ sock[c] # NoConn => conn[sock[c]].resp = NoReply
        /\ \/ HasRoom /\ conn' = Opened(Closing(c), NewConn, c, t, creq[c])
           \/ conn' = Closing(c)
    BY <1>5, <2>0 DEF Switch, Failed, Broken
  <2>2. \A j \in Conn : conn'[j] \in {Closing(c)[j], NewConnection(c, t, creq[c])}
    <3>1. Closing(c) \in [Conn -> Connection]
      BY <1>0, ConnOpsType DEF Closing, Typed
    <3> QED
      BY <2>1, <3>1, NewConnType DEF Opened
  <2>3. NewConnection(c, t, creq[c]).req = creq[c]
    BY DEF NewConnection
  <2> QED
    BY <1>1, <2>1, <2>2, <2>3 DEF ClientAsks
<1>6. CASE GiveUp(c)
  <2>1. /\ conn' = Closing(c) /\ cpc'[c] = "idle"
        /\ creq' = [creq EXCEPT ![c] = NoReq]
    BY <1>0, <1>6 DEF GiveUp, Done, Typed
  <2> QED
    BY <1>0, <1>1, <2>1 DEF ClientAsks
<1>7. CASE Exit(c)
  <2>1. /\ conn' = Vanished(conn, c) /\ cpc'[c] = "off"
        /\ creq' = [creq EXCEPT ![c] = NoReq]
    BY <1>0, <1>7 DEF Exit, Typed
  <2>2. ASSUME NEW j \in Conn, conn'[j].req.op \in Writes PROVE conn'[j].req = conn[j].req
    <3>1. c \notin Server /\ conn[j].to \in Server
      BY <1>0, TwoServers DEF Connection
    <3>2. conn'[j] \in {conn[j], CutAtClient(conn[j])}
      BY <2>1, <3>1 DEF Vanished
    <3>3. CASE conn[j].sOpen
      BY <1>0, <3>2, <3>3, Fields
    <3>4. CASE ~conn[j].sOpen
      <4>1. CutAtClient(conn[j]) = FreeConn
        BY <1>0, <3>4 DEF CutAtClient, Tidy, Closed, Connection
      <4>2. FreeConn.req = NoReq
        BY DEF FreeConn
      <4> QED
        BY <1>0, <2>2, <3>2, <4>1, <4>2
    <3> QED
      BY <3>3, <3>4
  <2> QED
    BY <1>0, <2>1, <2>2 DEF ClientAsks
<1> QED
  BY <1>2, <1>3, <1>4, <1>5, <1>6, <1>7 DEF ClientStep

\* A client puts no write in flight that it does not enter.
LEMMA ClientFlight ==
  ASSUME TypeInv, Safe, NEW c \in Client, ClientKeeps(c), ClientAsks(c)
  PROVE  \A k \in Key : InFlight(k)' => InFlight(k) \/ Entered(k)
<1>0. Typed
  BY TypedNow
<1>1. ASSUME NEW k \in Key, cpc'[c] = "wait", WriteOn(creq'[c], k)
      PROVE  Pending(c, k) \/ Entered(k)
  BY <1>1 DEF ClientAsks, Pending, Entered, WriteOn
<1>2. ASSUME NEW k \in Key, UnderWay(k)' # {} PROVE InFlight(k) \/ Entered(k)
  <2>1. PICK j \in Conn : conn'[j].req.op \in Writes /\ conn'[j].req.key = k
    BY <1>2 DEF UnderWay, WriteOn
  <2>2. CASE conn'[j].req = conn[j].req
    BY <2>1, <2>2 DEF InFlight, UnderWay, WriteOn
  <2>3. CASE cpc'[c] = "wait" /\ conn'[j].req = creq'[c]
    BY <1>1, <2>1, <2>3 DEF InFlight, WriteOn
  <2> QED
    BY <2>1, <2>2, <2>3 DEF ClientAsks
<1>3. ASSUME NEW k \in Key, NEW d \in Client, Pending(d, k)' PROVE InFlight(k) \/ Entered(k)
  <2>1. CASE d = c
    BY <1>1, <1>3, <2>1 DEF InFlight, Pending, WriteOn
  <2>2. CASE d # c
    <3>1. cpc[d] = "wait" /\ WriteOn(creq[d], k) /\ sock'[d] = sock[d]
      BY <1>3, <2>2 DEF Pending, WriteOn, ClientKeeps, ClientAsks
    <3>2. ASSUME sock[d] # NoConn PROVE conn[sock[d]].resp = NoReply
      <4>1. sock[d] \in Conn /\ conn[sock[d]].from = d /\ conn[sock[d]].cOpen
        BY <1>0, <3>2 DEF Typed, Safe, ClientEnds
      <4>2. conn'[sock[d]] = conn[sock[d]]
        BY <2>2, <4>1 DEF ClientKeeps, ClientMoves
      <4> QED
        BY <1>3, <3>1, <3>2, <4>2 DEF Pending
    <3> QED
      BY <3>1, <3>2 DEF InFlight, Pending
  <2> QED
    BY <2>1, <2>2
<1> QED
  BY <1>2, <1>3 DEF InFlight

\* Steps of a client change no table, and answer nothing.
LEMMA ClientHeld ==
  ASSUME TypeInv, Safe, Agreement, Remembered, Acked, NEW c \in Client,
         ClientKeeps(c), ClientAsks(c), UNCHANGED <<serverVars, exposed>>
  PROVE  Remembered'
<1>0. /\ OneCall /\ NoReq.op \notin Writes /\ c \notin Server
      /\ UNCHANGED <<pc, table, todo, chan, serving, answer, exposed>>
      /\ \A j \in Conn : ClientMoves(c, conn[j], conn'[j])
  BY TwoServers DEF Agreement, serverVars, memory, ClientKeeps, NoReq, Plain, Msg, Writes
<1>1. \A j \in Conn : conn[j].req # NoReq => conn'[j].req = conn[j].req
  BY <1>0 DEF OneCall, ClientMoves
<1>2. FlightUnknown' /\ \A k \in Key : acked'[k] \in {acked[k], Unknown}
  <2>1. \A k \in Key : InFlight(k)' => InFlight(k) \/ Entered(k)
    BY ClientFlight
  <2>2. \A k \in Key : AnsweredNow(k) = {}
    BY <1>0, <1>1 DEF AnsweredNow, UnderWay, WriteOn
  <2> QED
    BY <2>1, <2>2, FlightKept, AckedStep DEF Remembered
<1>3. ASSUME NEW t \in Server PROVE Held(t)'
  <2>0. Held(t) /\ t # c
    BY <1>0 DEF Remembered
  <2>1. \A k \in Key : Binds(t, k)' <=> Binds(t, k)
    BY <1>0 DEF Binds, Complete
  <2>2. Holds(t)'
    BY <1>0, <1>2, <2>0, <2>1 DEF Held, Holds, Kept, Complete
  <2>3. ListHolds(t)' /\ FetchHolds(t)' /\ Fresh(t)'
    <3>1. \A j \in Conn : conn[j].from \in Server \ {c} /\ conn[j].cOpen /\ ~conn'[j].sOpen =>
                            ~conn[j].sOpen /\ conn'[j].resp = conn[j].resp
      BY <1>0 DEF ClientMoves
    <3>2. \A k \in Key : Binds(t, k)' => Binds(t, k) /\ acked'[k] \in {acked[k], Unknown}
      BY <1>2, <2>1
    <3> QED
      BY <1>0, <2>0, <3>1, <3>2, CopyHeld
  <2>4. AnswerTrue(t)'
    <3> SUFFICES ASSUME pc[t] = "repl"
                 PROVE  Learnt(Forwarding(t), answer[t])' \in
                          {Unknown, table'[t][Forwarding(t)'.key]}
      BY <1>0 DEF AnswerTrue
    <3>1. serving[t] \in Conn /\ Forwarding(t).op \in Writes
      BY BlockedOn DEF Agreement, ForwardOK
    <3>2. Forwarding(t)' = Forwarding(t)
      BY <1>0, <1>1, <3>1 DEF Forwarding
    <3>3. Learnt(Forwarding(t), answer[t])' = Learnt(Forwarding(t), answer[t])
      BY <1>0, <3>2 DEF Learnt
    <3> QED
      BY <1>0, <2>0, <3>2, <3>3 DEF Held, AnswerTrue
  <2> QED
    BY <2>2, <2>3, <2>4 DEF Held
<1> QED
  BY <1>2, <1>3 DEF Remembered

-----------------------------------------------------------------------------
\* Before the first step every table is empty, and so is what is known.
LEMMA RememberedInit == AckedInit => Remembered
<1> SUFFICES ASSUME AckedInit PROVE Remembered
  OBVIOUS
<1>1. /\ \A s \in Server : pc[s] = "down"
      /\ \A j \in Conn : conn[j].req = NoReq
      /\ \A c \in Client : cpc[c] = "off"
  BY DEF AckedInit, Init, ServerInit, ClientInit, FreeConn
<1>2. NoReq.op \notin Writes
  BY DEF NoReq, Plain, Msg, Writes
<1>3. FlightUnknown
  BY <1>1, <1>2 DEF FlightUnknown, InFlight, UnderWay, Pending, WriteOn
<1>4. \A s \in Server : Held(s)
  BY <1>1 DEF Held, Holds, ListHolds, FetchHolds, Fresh, AnswerTrue, Complete
<1> QED
  BY <1>3, <1>4 DEF Remembered

\* Every step of the system keeps the invariant.
LEMMA AckedInvStep == AckedInv /\ [AckedNext]_ackedVars => AckedInv'
<1> SUFFICES ASSUME AckedInv, [AckedNext]_ackedVars PROVE AckedInv'
  OBVIOUS
<1>0. /\ TypeInv /\ Safe /\ Agreement /\ Remembered /\ AgreementInv'
      /\ Safe' /\ Agreement'
  <2>1. [Next]_vars
    BY DEF AckedNext, ackedVars
  <2>2. AgreementInv /\ AgreementInv'
    BY <2>1, AgreementStep DEF AckedInv
  <2> QED
    BY <2>2 DEF AckedInv, AgreementInv, SafetyInv
<1>1. CASE AtServers(ServerNext) /\ Acked
  <2>0. UNCHANGED clientVars /\ Exposed /\ Acked
    BY <1>1 DEF AtServers
  <2>1. ASSUME NEW s \in Server, Listen(s) PROVE Remembered'
    BY <1>0, <2>0, <2>1, ListenHeld
  <2>2. ASSUME NEW s \in Server, Boot(s) PROVE Remembered'
    BY <1>0, <2>0, <2>2, BootHeld
  <2>3. ASSUME NEW s \in Server, Crash(s) PROVE Remembered'
    BY <1>0, <2>0, <2>3, GoneHeld DEF Crash
  <2>4. ASSUME NEW s \in Server, ForwardDone(s) PROVE Remembered'
    BY <1>0, <2>0, <2>4, ForwardDoneHeld
  <2>5. ASSUME NEW s \in Server, NEW i \in Conn, Serve(s, i) PROVE Remembered'
    BY <1>0, <2>0, <2>5, AcceptHeld, ReadHeld, WriteHeld, UpHeld DEF Serve
  <2>6. ASSUME Thread PROVE Remembered'
    BY <1>0, <2>0, <2>6, ThreadHeld
  <2> QED
    BY <1>0, <1>1, <2>1, <2>2, <2>3, <2>4, <2>5, <2>6
       DEF AtServers, ServerNext, ServerStep, AckedInv
<1>2. CASE AtClients(ClientNext) /\ Acked
  <2>1. UNCHANGED <<serverVars, exposed>>
    BY <1>2 DEF AtClients
  <2>2. PICK c \in Client : \/ Bind(c) \/ ClientStep(c) \/ Exit(c)
                            \/ \E m \in CallRequest : Call(c, m)
    BY <1>2 DEF AtClients, ClientNext
  <2>3. ClientKeeps(c) /\ ClientAsks(c)
    BY <1>0, <2>2, ClientStepKeeps, ClientStepAsks
  <2> QED
    BY <1>0, <1>2, <2>1, <2>3, ClientHeld DEF AckedInv
<1>3. CASE UNCHANGED ackedVars
  <2>1. UNCHANGED <<conn, pc, table, todo, chan, serving, answer, exposed, cpc, creq, sock, acked>>
    BY <1>3 DEF ackedVars, vars, sockVars, serverVars, memory, clientVars
  <2>2. FlightUnknown'
    BY <1>0, <2>1 DEF Remembered, FlightUnknown, InFlight, UnderWay, Pending
  <2>3. ASSUME NEW s \in Server PROVE Held(s)'
    <3>1. Holds(s)' /\ ListHolds(s)' /\ FetchHolds(s)' /\ Fresh(s)'
      BY <1>0, <2>1 DEF Remembered, Held, Holds, ListHolds, FetchHolds, Fresh, Kept, Binds,
                        Complete, LastReply
    <3>2. AnswerTrue(s)'
      BY <1>0, <2>1 DEF Remembered, Held, AnswerTrue, Forwarding, Learnt
    <3> QED
      BY <3>1, <3>2 DEF Held
  <2> QED
    BY <1>0, <2>2, <2>3 DEF AckedInv, Remembered
<1> QED
  BY <1>1, <1>2, <1>3 DEF AckedNext, Next

-----------------------------------------------------------------------------
\* What the answers say is remembered by every server that may have to serve
\* it, in every reachable state.
THEOREM AckedInductive == AckedSpec => []AckedInv
<1>1. AckedInit => AckedInv
  BY TypeInit, SafetyInit, AgreementInit, RememberedInit
     DEF AckedInit, AckedInv, AgreementInv, SafetyInv
<1> QED
  BY <1>1, AckedInvStep, PTL DEF AckedSpec

\* The last write on a key that was answered is what every server that serves
\* holds, also the one that takes over after the death of the other, except for
\* keys last written with no backup.
THEOREM AckedSurvivesHolds == AckedSpec => []AckedSurvives
<1>1. AckedInv => AckedSurvives
  BY DEF AckedInv, Remembered, Held, Holds, Binds, Complete, Kept, AckedSurvives
<1> QED
  BY <1>1, AckedInductive, PTL
=============================================================================
