---------------------------- MODULE AckedWrites ------------------------------
(***************************************************************************)
(* PrimaryBackup with what the servers have promised: for each key, what   *)
(* its last write left there according to the answer that was sent.  The   *)
(* history variable changes no behaviour.                                  *)
(***************************************************************************)
EXTENDS PrimaryBackup

CONSTANT Unknown   \* no answer yet, or one that says nothing about the value

ASSUME UnknownAssumption == Unknown \notin Val \cup {NoVal}

VARIABLE acked   \* history: what the answers say of each key

ackedVars == <<vars, acked>>

AckedInit == Init /\ acked = [k \in Key |-> NoVal]

WriteOn(m, k) == m.op \in Writes /\ m.key = k

\* The writes on k that are on their way to a server, or being served.
UnderWay(k) == {i \in Conn : WriteOn(conn[i].req, k)}

\* c waits for the answer to a write on k; it may be about to send it again.
Pending(c, k) ==
  /\ cpc[c] = "wait" /\ WriteOn(creq[c], k)
  /\ sock[c] # NoConn => conn[sock[c]].resp = NoReply

InFlight(k) == UnderWay(k) # {} \/ \E c \in Client : Pending(c, k)

\* In this step a user enters a write on k.
Entered(k) ==
  \E c \in Client : cpc[c] = "idle" /\ cpc'[c] = "wait" /\ WriteOn(creq'[c], k)

\* The connections on which a server answers in this step a client's write on k.
AnsweredNow(k) ==
  {i \in UnderWay(k) : /\ conn[i].from \in Client
                       /\ conn[i].acc /\ conn'[i].acc /\ conn'[i].req = NoReq}

\* What the answer to m says of the value: -10 that the key had some value, an
\* error that it had none, 0 that the write was done.
Learnt(m, r) ==
  CASE r.type = "ERROR" -> NoVal
    [] r = Result(0)    -> IF m.op = "DEL" THEN NoVal ELSE m.val
    [] OTHER            -> Unknown

\* The answer is the one conn' holds; when its client is gone, it is lost.
LearntOn(i) == Learnt(conn[i].req, conn'[i].resp)

\* What was written with no backup may be lost with a server, and a server that
\* starts to serve with an empty table starts anew.
Forgotten(k) ==
  \E s \in Server : \/ pc[s] # "down" /\ pc'[s] = "down" /\ k \in exposed
                    \/ StartsAlone(s)

\* While another write on the key is in flight, an answer says nothing.
AckedNow(k) ==
  IF Forgotten(k) \/ Entered(k) THEN Unknown
  ELSE IF AnsweredNow(k) = {} THEN acked[k]
  ELSE IF InFlight(k)' THEN Unknown
  ELSE LearntOn(CHOOSE i \in AnsweredNow(k) : TRUE)

Acked == acked' = [k \in Key |-> AckedNow(k)]

AckedNext == Next /\ Acked
AckedSpec == AckedInit /\ [][AckedNext]_ackedVars

\* The answer of the last write on a key, when it is known, is what the table
\* of every server that serves holds, also of the backup that takes over after
\* the death of the server that answered: except for keys last written with no
\* backup.
AckedSurvives ==
  \A s \in Server : pc[s] \in {"loop", "repl"} =>
    \A k \in Key \ exposed : acked[k] \in {Unknown, table[s][k]}
=============================================================================
