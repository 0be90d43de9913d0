---------------------------- MODULE PollLoopProofs ---------------------------
(***************************************************************************)
(* The poll loop keeps its array of descriptors exact and serves, in each  *)
(* round, every position that poll() reported.  Neither is inductive: that *)
(* a step on position j frees a slot in use needs the scan to point at one *)
(* (ScanOK), and a connection that is about to be made must not be in the  *)
(* array yet (NewOK).  A call is answered with the reply to its own        *)
(* request because of what is under way on its connection (ConnOK).        *)
(***************************************************************************)
EXTENDS PollLoop, WireProofs

\* The types of what the loop decides by.
LoopTypes ==
  /\ at \in At
  /\ fds \in [Slot -> Conn \cup {NoConn}]
  /\ number_clients \in Int
  /\ revents \subseteq Slot
  /\ result \in Int
  /\ j \in Int
  /\ backlog \in Seq(Conn)
  /\ sOpen \in [Conn -> BOOLEAN]
  /\ cpc \in [Conn -> CallState]

\* What poll() has reported is counted, and a position that the scan is at or
\* has still to reach is in use.
ScanOK ==
  /\ result >= Cardinality(revents)
  /\ at \in {"size", "body", "data"} => j \in revents
  /\ \A k \in revents : k >= j => fds[k] # NoConn

\* A connection is in one slot at most, and in the backlog once at most.
OncePolled ==
  /\ \A k, m \in Slot : fds[k] # NoConn /\ fds[k] = fds[m] => k = m
  /\ \A a, b \in 1..Len(backlog) : backlog[a] = backlog[b] => a = b

\* A connection that has not been made has no end at the server.
NewOK == \A c \in Conn : cpc[c] = "new" => ~sOpen[c]

\* The slots in use are counted and, with the backlog, hold the connections
\* that are open.
ArrayExact ==
  /\ OncePolled
  /\ number_clients = Cardinality(Occupied)
  /\ ToSet(backlog) \cap Accepted = {}
  /\ ToSet(backlog) \cup Accepted = {c \in Conn : sOpen[c]}

LoopInv == LoopTypes /\ ScanOK /\ ArrayExact /\ NewOK

-----------------------------------------------------------------------------
\* The slots are finitely many numbers, not the listening socket's position.
LEMMA Slots ==
  /\ Slot \subseteq Nat /\ IsFiniteSet(Slot)
  /\ -1 \notin Slot /\ LISTENING_SOCKET_POS \notin Slot /\ STDIN_POS \notin Slot
<1>1. MAX_SOCKETS - 1 \in Int /\ N_POS_NOT_FREE \in Int
  BY PollAssumption DEF N_POS_NOT_FREE
<1>2. IsFiniteSet(Slot)
  BY <1>1, FS_Interval DEF Slot
<1> QED
  BY <1>1, <1>2 DEF Slot, N_POS_NOT_FREE, LISTENING_SOCKET_POS, STDIN_POS

\* The members of a sequence, after Append and after Tail.
LEMMA Members ==
  ASSUME NEW S, NEW s \in Seq(S)
  PROVE  /\ ToSet(s) = {s[i] : i \in 1..Len(s)}
         /\ ToSet(s) \subseteq S
         /\ \A e \in S : /\ Append(s, e) \in Seq(S)
                         /\ ToSet(Append(s, e)) = ToSet(s) \cup {e}
<1>1. DOMAIN s = 1..Len(s) /\ Len(s) \in Nat
  BY LenProperties
<1>2. ToSet(s) = {s[i] : i \in 1..Len(s)}
  BY <1>1 DEF ToSet
<1>3. ToSet(s) \subseteq S
  BY <1>2, ElementOfSeq
<1>4. ASSUME NEW e \in S
      PROVE  Append(s, e) \in Seq(S) /\ ToSet(Append(s, e)) = ToSet(s) \cup {e}
  <2>1. /\ Append(s, e) \in Seq(S) /\ Len(Append(s, e)) = Len(s) + 1
        /\ \A i \in 1..Len(s) : Append(s, e)[i] = s[i]
        /\ Append(s, e)[Len(s) + 1] = e
    BY AppendProperties
  <2>2. DOMAIN Append(s, e) = 1..Len(s) + 1
    BY <2>1, LenProperties
  <2>3. \A i \in 1..Len(s) + 1 : Append(s, e)[i] \in ToSet(s) \cup {e}
    BY <1>1, <1>2, <2>1
  <2>4. ToSet(s) \cup {e} \subseteq {Append(s, e)[i] : i \in 1..Len(s) + 1}
    <3>1. \A i \in 1..Len(s) : i \in 1..Len(s) + 1
      BY <1>1
    <3>2. Len(s) + 1 \in 1..Len(s) + 1
      BY <1>1
    <3> QED
      BY <1>2, <2>1, <3>1, <3>2
  <2> QED
    BY <2>1, <2>2, <2>3, <2>4 DEF ToSet
<1> QED
  BY <1>2, <1>3, <1>4

\* The head of a backlog without duplicates is not in its tail.
LEMMA HeadLeaves ==
  ASSUME NEW S, NEW s \in Seq(S), s # <<>>,
         \A a, b \in 1..Len(s) : s[a] = s[b] => a = b
  PROVE  /\ Head(s) \in S /\ Tail(s) \in Seq(S) /\ Head(s) \in ToSet(s)
         /\ ToSet(Tail(s)) = ToSet(s) \ {Head(s)}
         /\ \A a, b \in 1..Len(Tail(s)) : Tail(s)[a] = Tail(s)[b] => a = b
<1>1. /\ Len(s) \in Nat /\ Len(s) > 0
      /\ ToSet(s) = {s[i] : i \in 1..Len(s)}
  BY LenProperties, EmptySeq, Members
<1>2. Head(s) = s[1] /\ 1 \in 1..Len(s)
  BY <1>1
<1>3. /\ Head(s) \in S /\ Tail(s) \in Seq(S) /\ Len(Tail(s)) = Len(s) - 1
      /\ \A i \in 1..Len(Tail(s)) : Tail(s)[i] = s[i + 1]
  BY HeadTailProperties
<1>4. PICK t \in Seq(S) : t = Tail(s)
  BY <1>3
<1>5. /\ Len(t) = Len(s) - 1 /\ \A i \in 1..Len(t) : t[i] = s[i + 1]
  BY <1>3, <1>4
<1>6. ToSet(t) = {t[i] : i \in 1..Len(t)}
  BY Members
<1>7. ASSUME NEW e \in ToSet(t) PROVE e \in ToSet(s) /\ e # s[1]
  <2>1. PICK i \in 1..Len(t) : e = t[i]
    BY <1>6
  <2>2. i + 1 \in 1..Len(s) /\ i + 1 # 1 /\ e = s[i + 1]
    BY <1>1, <1>5, <2>1
  <2> QED
    BY <1>1, <1>2, <2>2
<1>8. ASSUME NEW e \in ToSet(s), e # s[1] PROVE e \in ToSet(t)
  <2>1. PICK i \in 1..Len(s) : e = s[i]
    BY <1>1
  <2>2. i # 1
    BY <1>8, <2>1
  <2>3. i - 1 \in 1..Len(t) /\ (i - 1) + 1 = i
    BY <1>1, <1>5, <2>1, <2>2
  <2>4. e = t[i - 1]
    BY <1>5, <2>1, <2>3
  <2> QED
    BY <1>6, <2>3, <2>4
<1>9. ASSUME NEW a \in 1..Len(t), NEW b \in 1..Len(t), t[a] = t[b] PROVE a = b
  <2>1. a + 1 \in 1..Len(s) /\ b + 1 \in 1..Len(s) /\ s[a + 1] = s[b + 1]
    BY <1>1, <1>5, <1>9
  <2>2. a + 1 = b + 1
    BY <2>1
  <2> QED
    BY <2>2
<1>10. Head(s) \in ToSet(s)
  BY <1>1, <1>2
<1> QED
  BY <1>2, <1>3, <1>4, <1>7, <1>8, <1>9, <1>10

-----------------------------------------------------------------------------
\* accept() fills a free slot with the connection that has waited longest.
LEMMA AcceptKeeps ==
  ASSUME LoopTypes, ArrayExact, Accept, UNCHANGED sOpen
  PROVE  /\ ArrayExact'
         /\ fds' \in [Slot -> Conn \cup {NoConn}] /\ number_clients' \in Int
         /\ backlog' \in Seq(Conn)
         /\ \A k \in Slot : fds[k] # NoConn => fds'[k] = fds[k]
<1> DEFINE k == find_free_connection
<1>1. CASE UNCHANGED <<fds, number_clients, backlog>>
  BY <1>1 DEF ArrayExact, OncePolled, Occupied, Accepted, LoopTypes
<1>2. CASE /\ backlog # <<>> /\ k # -1
           /\ fds' = [fds EXCEPT ![k] = Head(backlog)]
           /\ number_clients' = number_clients + 1
           /\ backlog' = Tail(backlog)
  <2>1. k \in Slot /\ fds[k] = NoConn
    <3>1. Free # {} /\ k = Min(Free)
      BY <1>2 DEF find_free_connection
    <3>2. Free \in SUBSET Nat
      BY Slots DEF Free
    <3>3. k \in Free
      BY <3>1, <3>2, MinIsLeast
    <3> QED
      BY <3>3 DEF Free
  <2> HIDE DEF k
  <2>2. PICK c : c = Head(backlog)
    OBVIOUS
  <2>3. /\ c \in Conn /\ c \in ToSet(backlog) /\ c # NoConn /\ backlog' \in Seq(Conn)
        /\ ToSet(backlog') = ToSet(backlog) \ {c}
        /\ \A a, b \in 1..Len(backlog') : backlog'[a] = backlog'[b] => a = b
    BY <1>2, <2>2, HeadLeaves, PollAssumption DEF LoopTypes, ArrayExact, OncePolled
  <2>4. /\ fds' \in [Slot -> Conn \cup {NoConn}]
        /\ \A m \in Slot : fds'[m] = IF m = k THEN c ELSE fds[m]
    BY <1>2, <2>1, <2>2, <2>3 DEF LoopTypes
  <2>5. c \notin Accepted
    BY <2>3 DEF ArrayExact
  <2>6. \A m \in Slot : fds[m] # c
    BY <2>3, <2>5 DEF Accepted, Occupied
  <2>7. OncePolled'
    BY <2>3, <2>4, <2>6 DEF ArrayExact, OncePolled
  <2>8. Occupied' = Occupied \cup {k} /\ k \notin Occupied
    BY <2>1, <2>3, <2>4 DEF Occupied
  <2>9. Accepted' = Accepted \cup {c}
    BY <2>1, <2>4, <2>8 DEF Accepted, Occupied
  <2>10. number_clients' = Cardinality(Occupied')
    <3>1. IsFiniteSet(Occupied)
      BY Slots, FS_Subset DEF Occupied
    <3> QED
      BY <1>2, <2>8, <3>1, FS_AddElement DEF ArrayExact
  <2>11. /\ ToSet(backlog)' \cap Accepted' = {}
         /\ ToSet(backlog)' \cup Accepted' = {d \in Conn : sOpen'[d]}
    <3>1. ToSet(backlog)' = ToSet(backlog')
      OBVIOUS
    <3> QED
      BY <2>3, <2>5, <2>9, <3>1 DEF ArrayExact
  <2>12. ArrayExact'
    BY <2>7, <2>10, <2>11 DEF ArrayExact
  <2> QED
    BY <1>2, <2>1, <2>3, <2>4, <2>12 DEF LoopTypes
<1> QED
  BY <1>1, <1>2 DEF Accept

\* close() of the connection that the scan is at frees its slot.
LEMMA FreedKeeps ==
  ASSUME LoopTypes, ArrayExact, NEW p \in Slot, fds[p] # NoConn,
         fds' = [fds EXCEPT ![p] = NoConn],
         sOpen' = [sOpen EXCEPT ![fds[p]] = FALSE],
         number_clients' = number_clients - 1,
         UNCHANGED backlog
  PROVE  ArrayExact'
<1>1. fds[p] \in Conn /\ fds[p] \in Accepted
  BY DEF LoopTypes, Accepted, Occupied
<1>2. \A m \in Slot : fds'[m] = IF m = p THEN NoConn ELSE fds[m]
  BY DEF LoopTypes
<1>3. OncePolled'
  BY <1>2 DEF ArrayExact, OncePolled
<1>4. Occupied' = Occupied \ {p} /\ p \in Occupied
  BY <1>2 DEF Occupied
<1>5. Accepted' = Accepted \ {fds[p]}
  BY <1>2, <1>4 DEF Accepted, ArrayExact, OncePolled, Occupied
<1>6. number_clients' = Cardinality(Occupied')
  <2>1. IsFiniteSet(Occupied)
    BY Slots, FS_Subset DEF Occupied
  <2> QED
    BY <1>4, <2>1, FS_RemoveElement DEF ArrayExact
<1>7. {d \in Conn : sOpen'[d]} = {d \in Conn : sOpen[d]} \ {fds[p]}
  BY <1>1 DEF LoopTypes
<1>8. /\ ToSet(backlog)' \cap Accepted' = {}
      /\ ToSet(backlog)' \cup Accepted' = {d \in Conn : sOpen'[d]}
  BY <1>1, <1>5, <1>7 DEF ArrayExact
<1> QED
  BY <1>3, <1>6, <1>8 DEF ArrayExact

\* connect() puts a connection that is not in use yet into the backlog.
LEMMA ConnectKeeps ==
  ASSUME LoopTypes, ArrayExact, NEW c \in Conn, ~sOpen[c],
         backlog' = Append(backlog, c),
         sOpen' = [sOpen EXCEPT ![c] = TRUE],
         UNCHANGED <<fds, number_clients>>
  PROVE  ArrayExact' /\ backlog' \in Seq(Conn)
<1>1. c \notin ToSet(backlog) /\ c \notin Accepted
  BY DEF ArrayExact
<1>2. /\ backlog \in Seq(Conn) /\ backlog' \in Seq(Conn)
      /\ ToSet(backlog') = ToSet(backlog) \cup {c}
  BY Members DEF LoopTypes
<1>3. /\ Len(backlog) \in Nat /\ Len(backlog') = Len(backlog) + 1
      /\ \A i \in 1..Len(backlog) : backlog'[i] = backlog[i]
      /\ backlog'[Len(backlog) + 1] = c
  BY <1>2, AppendProperties, LenProperties
<1>4. \A i \in 1..Len(backlog) : backlog[i] # c
  BY <1>1, <1>2, Members
<1>5. ASSUME NEW a \in 1..Len(backlog'), NEW b \in 1..Len(backlog'), backlog'[a] = backlog'[b]
      PROVE  a = b
  <2>1. a \in 1..Len(backlog) \/ a = Len(backlog) + 1
    BY <1>3
  <2>2. b \in 1..Len(backlog) \/ b = Len(backlog) + 1
    BY <1>3
  <2> QED
    BY <1>3, <1>4, <1>5, <2>1, <2>2 DEF ArrayExact, OncePolled
<1>6. OncePolled'
  BY <1>5 DEF ArrayExact, OncePolled
<1>7. Occupied' = Occupied /\ Accepted' = Accepted
  BY DEF Occupied, Accepted
<1>8. {d \in Conn : sOpen'[d]} = {d \in Conn : sOpen[d]} \cup {c}
  BY DEF LoopTypes
<1>9. /\ ToSet(backlog)' \cap Accepted' = {}
      /\ ToSet(backlog)' \cup Accepted' = {d \in Conn : sOpen'[d]}
  <2>1. ToSet(backlog)' = ToSet(backlog')
    OBVIOUS
  <2> QED
    BY <1>1, <1>2, <1>7, <1>8, <2>1 DEF ArrayExact
<1>10. number_clients' = Cardinality(Occupied')
  BY <1>7 DEF ArrayExact
<1> QED
  BY <1>2, <1>6, <1>9, <1>10 DEF ArrayExact

-----------------------------------------------------------------------------
\* What one position more, or none, adds to a finite set of positions.
LEMMA OneMore ==
  ASSUME NEW S, IsFiniteSet(S), NEW e, e \notin S, NEW T \in SUBSET {e}
  PROVE  /\ IsFiniteSet(S \cup T)
         /\ Cardinality(S) \in Nat
         /\ Cardinality(T) = IF T = {} THEN 0 ELSE 1
         /\ Cardinality(S \cup T) = Cardinality(S) + Cardinality(T)
<1>1. T = {} \/ T = {e}
  OBVIOUS
<1>2. Cardinality(S) \in Nat
  BY FS_CardinalityType
<1>3. CASE T = {}
  <2>1. Cardinality(T) = 0
    BY <1>3, FS_EmptySet
  <2>2. PICK U : U = S \cup T
    OBVIOUS
  <2>3. U = S
    BY <1>3, <2>2
  <2>4. IsFiniteSet(U) /\ Cardinality(U) = Cardinality(S) + Cardinality(T)
    BY <1>2, <2>1, <2>3
  <2> QED
    BY <1>2, <1>3, <2>1, <2>2, <2>4
<1>4. CASE T = {e}
  <2>1. Cardinality(T) = 1
    BY <1>4, FS_Singleton
  <2>2. IsFiniteSet(S \cup {e}) /\ Cardinality(S \cup {e}) = Cardinality(S) + 1
    BY FS_AddElement
  <2> QED
    BY <1>2, <1>4, <2>1, <2>2
<1> QED
  BY <1>1, <1>3, <1>4

\* result, less the listening socket and stdin, still counts every ready slot,
\* and at most one more.
LEMMA CountLeft ==
  ASSUME NEW typed \in SUBSET {STDIN_POS}, number_clients \in Int
  PROVE  /\ Cardinality(Ready \cup typed) - CountsDown(typed) \in Int
         /\ Cardinality(Ready \cup typed) - CountsDown(typed) >= Cardinality(Ready \cap Slot)
         /\ Cardinality(Ready \cup typed) - CountsDown(typed)
              <= Cardinality(Ready \cap Slot) + 1
<1>1. PICK R : R = Ready \cap Slot
  OBVIOUS
<1>2. PICK L : L = IF backlog = <<>> THEN {} ELSE {LISTENING_SOCKET_POS}
  OBVIOUS
<1>3. PICK U : U = R \cup L
  OBVIOUS
<1>4. PICK A : A = IF backlog # <<>> /\ number_clients - N_POS_NOT_FREE < MAX_SOCKETS
                   THEN 1 ELSE 0
  OBVIOUS
<1>5. /\ R \in SUBSET Slot /\ Ready = U
      /\ LISTENING_SOCKET_POS \notin R /\ L \in SUBSET {LISTENING_SOCKET_POS}
      /\ STDIN_POS \notin U
  BY <1>1, <1>2, <1>3, Slots DEF Ready, STDIN_POS, LISTENING_SOCKET_POS
<1>6. IsFiniteSet(R)
  BY <1>5, Slots, FS_Subset
<1>7. /\ IsFiniteSet(R \cup L) /\ Cardinality(R) \in Nat
      /\ Cardinality(L) = IF L = {} THEN 0 ELSE 1
      /\ Cardinality(R \cup L) = Cardinality(R) + Cardinality(L)
  BY <1>5, <1>6, OneMore
<1>8. /\ Cardinality(U) \in Nat
      /\ Cardinality(typed) = IF typed = {} THEN 0 ELSE 1
      /\ Cardinality(U \cup typed) = Cardinality(U) + Cardinality(typed)
  BY <1>3, <1>5, <1>7, OneMore
<1>9. A = 1 => L # {}
  BY <1>2, <1>4
<1>10. A \in {0, 1} /\ CountsDown(typed) = Cardinality(typed) + A
  BY <1>4 DEF CountsDown
<1>11. Cardinality(U) = Cardinality(R) + Cardinality(L)
  BY <1>3, <1>7
<1>12. Cardinality(U \cup typed) - CountsDown(typed) >= Cardinality(R)
  BY <1>7, <1>8, <1>9, <1>10, <1>11
<1>13. Cardinality(U \cup typed) - CountsDown(typed) \in Int
  BY <1>7, <1>8, <1>10, <1>11
<1>14. Cardinality(U \cup typed) - CountsDown(typed) <= Cardinality(R) + 1
  BY <1>7, <1>8, <1>10, <1>11
<1> QED
  BY <1>1, <1>5, <1>12, <1>13, <1>14

\* poll() returns: the scan starts at a count that covers what it has to serve.
LEMMA PollKeeps ==
  ASSUME LoopInv, Poll
  PROVE  LoopInv'
<1>0. LoopTypes /\ ScanOK /\ ArrayExact /\ NewOK
  BY DEF LoopInv
<1>1. /\ Accept /\ revents' = Ready \cap Slot /\ at' = "scan" /\ j' = N_POS_NOT_FREE
      /\ UNCHANGED <<sOpen, cpc>>
  BY DEF Poll, clientVars
<1>2. /\ ArrayExact'
      /\ fds' \in [Slot -> Conn \cup {NoConn}] /\ number_clients' \in Int
      /\ backlog' \in Seq(Conn)
      /\ \A k \in Slot : fds[k] # NoConn => fds'[k] = fds[k]
  BY <1>0, <1>1, AcceptKeeps
<1>3. result' \in Int /\ result' >= Cardinality(revents')
  <2>1. number_clients \in Int
    BY <1>0 DEF LoopTypes
  <2> QED
    BY <1>1, <2>1, CountLeft DEF Poll
<1>4. \A k \in revents' : fds'[k] # NoConn
  <2>1. \A k \in Ready \cap Slot : fds[k] # NoConn
    BY Slots DEF Ready
  <2> QED
    BY <1>1, <1>2, <2>1
<1>5. LoopTypes'
  BY <1>0, <1>1, <1>2, <1>3 DEF LoopTypes, At, N_POS_NOT_FREE
<1>6. ScanOK'
  BY <1>1, <1>3, <1>4 DEF ScanOK
<1> QED
  BY <1>0, <1>1, <1>2, <1>5, <1>6 DEF LoopInv, NewOK

\* The scan goes on, or ends.
LEMMA ScanKeeps ==
  ASSUME LoopInv, Scan
  PROVE  LoopInv' /\ (at' = "poll" => Pending = {})
<1>0. LoopTypes /\ ScanOK /\ ArrayExact /\ NewOK
  BY DEF LoopInv
<1>1. /\ at = "scan" /\ UNCHANGED <<fds, number_clients, backlog, sOpen, cpc>>
  BY DEF Scan, streamVars, clientVars
<1>2. ArrayExact' /\ NewOK'
  BY <1>0, <1>1 DEF ArrayExact, OncePolled, Occupied, Accepted, NewOK
<1>3. CASE /\ Pending # {} /\ result > 0 /\ j' = Min(Pending) /\ at' = "size"
           /\ UNCHANGED <<revents, result>>
  <2>1. Pending \in SUBSET Nat /\ Pending \subseteq revents
    BY <1>0, Slots DEF LoopTypes, Pending
  <2>2. Min(Pending) \in Pending
    BY <1>3, <2>1, MinIsLeast
  <2>3. j' \in Int /\ j' \in revents /\ j' >= j
    BY <1>3, <2>1, <2>2 DEF Pending
  <2>4. LoopTypes'
    BY <1>0, <1>1, <1>3, <2>3 DEF LoopTypes, At
  <2>5. \A k \in revents : k >= j' => k >= j
    BY <1>0, <2>3, Slots DEF LoopTypes
  <2>6. ScanOK'
    BY <1>0, <1>1, <1>3, <2>3, <2>5 DEF ScanOK
  <2> QED
    BY <1>2, <1>3, <2>4, <2>6 DEF LoopInv
<1>4. CASE /\ Pending = {} \/ result <= 0
           /\ at' = "poll"
           /\ revents' = {} /\ result' = 0 /\ j' = N_POS_NOT_FREE
  <2>1. LoopTypes'
    BY <1>0, <1>1, <1>4 DEF LoopTypes, At, N_POS_NOT_FREE
  <2>2. ScanOK'
    BY <1>4, FS_EmptySet DEF ScanOK
  <2>3. Pending = {}
    <3>1. IsFiniteSet(revents) /\ Cardinality(revents) \in Nat
      BY <1>0, Slots, FS_Subset, FS_CardinalityType DEF LoopTypes
    <3>2. result <= 0 => Cardinality(revents) = 0
      BY <1>0, <3>1 DEF ScanOK, LoopTypes
    <3>3. result <= 0 => revents = {}
      BY <3>1, <3>2, FS_EmptySet
    <3> QED
      BY <1>4, <3>3 DEF Pending
  <2> QED
    BY <1>2, <2>1, <2>2, <2>3 DEF LoopInv
<1> QED
  BY <1>3, <1>4 DEF Scan

\* A position of the scan is a slot in use.
LEMMA AtSlot ==
  ASSUME LoopInv, at \in {"size", "body", "data"}
  PROVE  j \in Slot /\ fds[j] \in Conn /\ fds[j] # NoConn
<1>1. j \in revents /\ j \in Int /\ j >= j
  BY DEF LoopInv, LoopTypes, ScanOK
<1> QED
  BY <1>1 DEF LoopInv, LoopTypes, ScanOK

\* network_receive_send() failed: the slot is free again, and the scan goes on.
LEMMA DropKeeps ==
  ASSUME LoopInv, at \in {"size", "body", "data"}, Drop(fds[j])
  PROVE  LoopInv'
<1>0. LoopTypes /\ ScanOK /\ ArrayExact /\ NewOK
  BY DEF LoopInv
<1>1. j \in Slot /\ fds[j] \in Conn /\ fds[j] # NoConn /\ j \in Int
  BY <1>0, AtSlot DEF LoopTypes
<1>2. /\ fds' = [fds EXCEPT ![j] = NoConn]
      /\ sOpen' = [sOpen EXCEPT ![fds[j]] = FALSE]
      /\ number_clients' = number_clients - 1
      /\ at' = "scan" /\ j' = j + 1
      /\ UNCHANGED <<revents, result, backlog, cpc>>
  BY DEF Drop, Freed, NextPosition, clientVars
<1>3. ArrayExact'
  BY <1>0, <1>1, <1>2, FreedKeeps
<1>4. LoopTypes'
  BY <1>0, <1>1, <1>2 DEF LoopTypes, At
<1>5. ScanOK'
  <2>1. ASSUME NEW k \in revents, k >= j + 1 PROVE fds'[k] # NoConn
    <3>1. k \in Slot /\ k \in Int /\ k >= j /\ k # j
      BY <1>0, <1>1, <2>1, Slots DEF LoopTypes
    <3> QED
      BY <1>0, <1>2, <3>1 DEF ScanOK, LoopTypes
  <2> QED
    BY <1>0, <1>2, <2>1 DEF ScanOK
<1>6. NewOK'
  BY <1>0, <1>2 DEF NewOK, LoopTypes
<1> QED
  BY <1>3, <1>4, <1>5, <1>6 DEF LoopInv

\* A step of the loop that leaves the array alone.
LEMMA LoopMoves ==
  ASSUME LoopInv,
         UNCHANGED <<fds, number_clients, revents, result, backlog, sOpen, cpc>>,
         \/ at' = at /\ j' = j
         \/ at \in {"size", "body"} /\ at' \in {"body", "data"} /\ j' = j
         \/ at = "data" /\ at' = "scan" /\ j' = j + 1
  PROVE  LoopInv'
<1>0. LoopTypes /\ ScanOK /\ ArrayExact /\ NewOK
  BY DEF LoopInv
<1>1. ArrayExact' /\ NewOK'
  BY <1>0 DEF ArrayExact, OncePolled, Occupied, Accepted, NewOK
<1>2. LoopTypes'
  BY <1>0 DEF LoopTypes, At
<1>3. ScanOK'
  <2>1. \A k \in revents : k >= j' => k >= j
    BY <1>0, Slots DEF LoopTypes
  <2> QED
    BY <1>0, <2>1 DEF ScanOK
<1> QED
  BY <1>1, <1>2, <1>3 DEF LoopInv

\* The service of one position.
LEMMA ServiceKeeps ==
  ASSUME LoopInv, ReadSize \/ ReadBody \/ WriteData
  PROVE  LoopInv'
<1>1. CASE ReadSize
  BY <1>1, DropKeeps, LoopMoves DEF ReadSize, clientVars
<1>2. CASE ReadBody
  BY <1>2, DropKeeps, LoopMoves DEF ReadBody, Invoke, clientVars
<1>3. CASE WriteData
  BY <1>3, DropKeeps, LoopMoves DEF WriteData, NextPosition, clientVars
<1> QED
  BY <1>1, <1>2, <1>3

\* A server that is killed holds nothing.
LEMMA DieKeeps ==
  ASSUME LoopInv, Die
  PROVE  LoopInv'
<1>1. /\ at' = "dead" /\ fds' = [k \in Slot |-> NoConn] /\ number_clients' = 0
      /\ revents' = {} /\ result' = 0 /\ j' = N_POS_NOT_FREE
      /\ backlog' = <<>> /\ sOpen' = [c \in Conn |-> FALSE] /\ cpc' = cpc
  BY DEF Die, clientVars
<1>2. LoopTypes' /\ NewOK'
  BY <1>1, EmptySeq DEF LoopInv, LoopTypes, NewOK, At, N_POS_NOT_FREE
<1>3. ScanOK'
  BY <1>1, FS_EmptySet DEF ScanOK
<1>4. Occupied' = {} /\ Accepted' = {} /\ ToSet(backlog') = {}
  <2>1. Occupied' = {}
    BY <1>1 DEF Occupied
  <2>2. ToSet(<<>>) = {}
    BY DEF ToSet
  <2> QED
    BY <1>1, <2>1, <2>2 DEF Accepted
<1>5. OncePolled'
  BY <1>1 DEF OncePolled
<1>6. ArrayExact'
  BY <1>1, <1>4, <1>5, FS_EmptySet DEF ArrayExact
<1> QED
  BY <1>2, <1>3, <1>6 DEF LoopInv

\* A client that makes its connection.
LEMMA ConnectStep ==
  ASSUME LoopInv, NEW c \in Conn, Connect(c)
  PROVE  LoopInv'
<1>0. LoopTypes /\ ScanOK /\ ArrayExact /\ NewOK
  BY DEF LoopInv
<1>1. /\ cpc[c] = "new"
      /\ backlog' = Append(backlog, c) /\ sOpen' = [sOpen EXCEPT ![c] = TRUE]
      /\ cpc' = [cpc EXCEPT ![c] = "idle"]
      /\ UNCHANGED <<at, fds, number_clients, revents, result, j>>
  BY DEF Connect, serverVars
<1>2. ArrayExact' /\ backlog' \in Seq(Conn)
  BY <1>0, <1>1, ConnectKeeps DEF NewOK
<1>3. LoopTypes' /\ NewOK'
  BY <1>0, <1>1, <1>2 DEF LoopTypes, NewOK, CallState
<1>4. ScanOK'
  BY <1>0, <1>1 DEF ScanOK
<1> QED
  BY <1>2, <1>3, <1>4 DEF LoopInv

\* What a client does on a connection that it has.
LEMMA ClientKeeps ==
  ASSUME LoopInv, NEW c \in Conn,
         \/ ClientStep(c) \/ Exit(c)
         \/ \E m \in Asked : Call(c, m)
  PROVE  LoopInv'
<1>0. LoopTypes /\ ScanOK /\ ArrayExact /\ NewOK
  BY DEF LoopInv
<1>1. UNCHANGED <<at, fds, number_clients, revents, result, j, backlog, sOpen>>
  BY DEF ClientStep, WriteBody, ReadReplySize, ReadReplyData, Exit, Call, Fail, serverVars
<1>2. \E w \in CallState \ {"new"} : cpc' = [cpc EXCEPT ![c] = w]
  BY DEF ClientStep, WriteBody, ReadReplySize, ReadReplyData, Exit, Call, Fail, CallState,
         Calling
<1>3. LoopTypes' /\ NewOK'
  BY <1>0, <1>1, <1>2 DEF LoopTypes, NewOK
<1>4. ScanOK'
  BY <1>0, <1>1 DEF ScanOK
<1>5. ArrayExact'
  BY <1>0, <1>1 DEF ArrayExact, OncePolled, Occupied, Accepted
<1> QED
  BY <1>3, <1>4, <1>5 DEF LoopInv

-----------------------------------------------------------------------------
\* The loop starts with an empty array.
LEMMA LoopInit == Init => LoopInv
<1> SUFFICES ASSUME Init PROVE LoopInv
  OBVIOUS
<1>1. LoopTypes /\ NewOK
  BY EmptySeq DEF Init, LoopTypes, NewOK, At, CallState, N_POS_NOT_FREE
<1>2. ScanOK
  BY FS_EmptySet DEF Init, ScanOK
<1>3. Occupied = {} /\ Accepted = {} /\ ToSet(backlog) = {}
  <2>1. Occupied = {}
    BY DEF Init, Occupied
  <2>2. ToSet(<<>>) = {}
    BY DEF ToSet
  <2> QED
    BY <2>1, <2>2 DEF Init, Accepted
<1>4. OncePolled
  BY DEF Init, OncePolled
<1>5. ArrayExact
  BY <1>3, <1>4, FS_EmptySet DEF Init, ArrayExact
<1> QED
  BY <1>1, <1>2, <1>5 DEF LoopInv

\* Every step keeps the invariant, and no round ends before its last position.
LEMMA LoopStep ==
  ASSUME LoopInv, [Next]_vars
  PROVE  LoopInv' /\ (at = "scan" /\ at' = "poll" => Pending = {})
<1>1. CASE Poll
  BY <1>1, PollKeeps DEF Poll
<1>2. CASE Scan
  BY <1>2, ScanKeeps
<1>3. CASE ReadSize \/ ReadBody \/ WriteData
  BY <1>3, ServiceKeeps DEF ReadSize, ReadBody, WriteData
<1>4. CASE Die
  BY <1>4, DieKeeps DEF Die
<1>5. ASSUME NEW c \in Conn, Connect(c)
      PROVE  LoopInv' /\ at' = at
  BY <1>5, ConnectStep DEF Connect, serverVars
<1>6. ASSUME NEW c \in Conn, ClientStep(c) \/ Exit(c) \/ \E m \in Asked : Call(c, m)
      PROVE  LoopInv' /\ at' = at
  <2>1. at' = at
    BY <1>6 DEF ClientStep, WriteBody, ReadReplySize, ReadReplyData, Exit, Call, Fail,
                serverVars
  <2> QED
    BY <1>6, <2>1, ClientKeeps
<1>7. CASE UNCHANGED vars
  BY <1>7, LoopMoves DEF vars, serverVars, streamVars, clientVars
<1> QED
  BY <1>1, <1>2, <1>3, <1>4, <1>5, <1>6, <1>7 DEF Next, ServerStep

\* The inductive invariant of the poll loop.
THEOREM LoopInductive == Spec => []LoopInv
<1>1. LoopInv /\ [Next]_vars => LoopInv'
  BY LoopStep
<1> QED
  BY LoopInit, <1>1, PTL DEF Spec

\* No descriptor leaks and none is polled after its close, for any number of
\* connections and any size of the array.
THEOREM SlotsExactHolds == Spec => []SlotsExact
<1>1. LoopInv => SlotsExact
  <2> SUFFICES ASSUME LoopInv PROVE SlotsExact
    OBVIOUS
  <2>1. ArrayExact /\ LoopTypes
    BY DEF LoopInv
  <2>2. IsFiniteSet(Occupied)
    BY Slots, FS_Subset DEF Occupied
  <2> DEFINE f == [k \in Occupied |-> fds[k]]
  <2>3. f \in Bijection(Occupied, Accepted)
    <3>1. f \in [Occupied -> Accepted]
      BY DEF Accepted
    <3>2. \A k, m \in Occupied : f[k] = f[m] => k = m
      BY <2>1 DEF ArrayExact, OncePolled, Occupied
    <3>3. \A c \in Accepted : \E k \in Occupied : f[k] = c
      BY DEF Accepted
    <3> QED
      BY <3>1, <3>2, <3>3 DEF Bijection, Injection, Surjection, IsInjective
  <2>4. ExistsBijection(Occupied, Accepted)
    BY <2>3 DEF ExistsBijection
  <2>5. Cardinality(Accepted) = Cardinality(Occupied)
    BY <2>2, <2>4, FS_Bijection
  <2> QED
    BY <2>1, <2>5 DEF ArrayExact, SlotsExact
<1> QED
  BY <1>1, LoopInductive, PTL

\* A round ends only when every position that poll() reported has been served,
\* although result is counted down for the listening socket and for stdin.
THEOREM RoundServesAllHolds == Spec => RoundServesAll
<1>1. LoopInv /\ [Next]_vars => [at = "scan" /\ at' = "poll" => Pending = {}]_vars
  BY LoopStep
<1> QED
  BY <1>1, LoopInductive, PTL DEF Spec, RoundServesAll

-----------------------------------------------------------------------------
(***************************************************************************)
(* A call is answered with the reply to its own request because of what is *)
(* under way on its connection (ConnOK): at most one message in each       *)
(* direction, the size before the bytes, and none of them left behind by   *)
(* an earlier call.                                                        *)
(***************************************************************************)

\* What the server does with connection c.
Pos(c) ==
  IF at = "dead" THEN "dead"
  ELSE IF ~sOpen[c] THEN "closed"
  ELSE IF at \in {"body", "data"} /\ fds[j] = c THEN at ELSE "open"

Gone(c) == Pos(c) \in {"closed", "dead"}

Size(b) == U32(Len(b))
ReplyBytes(m, r) == message_to_buffer(ReplyMessage(m, r))

\* Nothing is under way to the server.
Quiet(c) == toServer[c] = <<>> /\ Pos(c) # "body"

\* The size of message b is under way to the server, or has been read there.
Half(c, b) ==
  \/ Pos(c) = "open" /\ toServer[c] = Size(b)
  \/ Pos(c) = "body" /\ toServer[c] = <<>> /\ size = Len(b)

\* So are its bytes, which have not been read.
Whole(c, b) ==
  \/ Pos(c) = "open" /\ toServer[c] = Size(b) \o b
  \/ Pos(c) = "body" /\ toServer[c] = b /\ size = Len(b)

Framed(c) ==
  \/ Quiet(c)
  \/ \E m \in Asked : Half(c, RequestBytes(m)) \/ Whole(c, RequestBytes(m))

\* Of reply b the part s is under way, and the part t too unless the server
\* has still to write it, or was killed before it did.
Replying(c, b, s, t) ==
  \/ Pos(c) = "data" /\ toClient[c] = s /\ reply = b
  \/ Pos(c) = "dead" /\ toClient[c] = s
  \/ Pos(c) # "data" /\ toClient[c] = t

\* The server has taken the request of c for what it was, and answered it.
Replied(c) == served[c].req = creq[c] /\ Returns(creq[c], served[c].reply)

EndsOK(c) ==
  /\ cOpen[c] <=> cpc[c] \notin {"new", "done"}
  /\ cpc[c] \in Calling => creq[c] \in Asked
  /\ Gone(c) => toServer[c] = <<>>

GotOK(c) ==
  got[c] # NoReply =>
    /\ cpc[c] = "idle"
    /\ \/ served[c] = [req |-> creq[c], reply |-> got[c]]
       \/ got[c] = GarbageReply /\ Pos(c) = "dead"

NewOrIdle(c) ==
  cpc[c] \in {"new", "idle"} =>
    Quiet(c) /\ Pos(c) # "data" /\ toClient[c] = <<>>

SizeWritten(c) ==
  cpc[c] = "body" => toClient[c] = <<>> /\ (Half(c, RequestBytes(creq[c])) \/ Gone(c))

RequestWritten(c) ==
  /\ toClient[c] = <<>>
  /\ Whole(c, RequestBytes(creq[c])) \/ Gone(c)

Waiting(c) ==
  cpc[c] = "size" =>
    \/ RequestWritten(c)
    \/ /\ Replied(c) /\ Quiet(c)
       /\ \E b \in {ReplyBytes(creq[c], served[c].reply)} : Replying(c, b, Size(b), Size(b) \o b)

Reading(c) ==
  cpc[c] = "data" =>
    /\ Replied(c) /\ Quiet(c)
    /\ \E b \in {ReplyBytes(creq[c], served[c].reply)} :
         csize[c] = Len(b) /\ Replying(c, b, <<>>, b)

ConnOK(c) ==
  /\ EndsOK(c) /\ GotOK(c) /\ Framed(c)
  /\ NewOrIdle(c) /\ SizeWritten(c) /\ Waiting(c) /\ Reading(c)

\* The types of what is sent, and the limits of the loop's numbers.
CallTypes ==
  /\ size \in Int /\ reply \in Bytes
  /\ table \in Table /\ status \in {PRIMARY, SECUNDARY}
  /\ toServer \in [Conn -> Bytes] /\ toClient \in [Conn -> Bytes]
  /\ cOpen \in [Conn -> BOOLEAN]
  /\ creq \in [Conn -> Request] /\ csize \in [Conn -> Int]
  /\ got \in [Conn -> Reply]
  /\ served \in [Conn -> [req : Request, reply : Reply]]

LoopLimits ==
  /\ result <= MAX_SOCKETS
  /\ N_POS_NOT_FREE <= j /\ j <= MAX_SOCKETS
  /\ calls \in 0..MaxCalls

\* A server that was killed has no end of a connection.
DeadOK == at = "dead" => \A c \in Conn : ~sOpen[c]

CallInv ==
  LoopInv /\ CallTypes /\ LoopLimits /\ DeadOK /\ \A c \in Conn : ConnOK(c)

-----------------------------------------------------------------------------
\* A message that arrives, cut where the two ends cut it.
Framing(b) ==
  /\ b \in Bytes /\ Len(b) \in Int /\ Len(b) > 0 /\ b # <<>>
  /\ Size(b) \in Bytes /\ Len(Size(b)) = 4 /\ Size(b) # <<>>
  /\ Size(b) \o b \in Bytes /\ Len(Size(b) \o b) >= 4 /\ Size(b) \o b # <<>>
  /\ N32(Size(b), 1) = Len(b) /\ N32(Size(b) \o b, 1) = Len(b)
  /\ Rest(Size(b), 4) = <<>> /\ Rest(Size(b) \o b, 4) = b
  /\ First(b, Len(b)) = b /\ Rest(b, Len(b)) = <<>>
  /\ <<>> \o Size(b) = Size(b) /\ <<>> \o b = b

\* The empty stream.
LEMMA EmptyBytes ==
  /\ <<>> \in Bytes /\ Len(<<>>) = 0
  /\ \A b \in Bytes : <<>> \o b = b
<1>1. <<>> \in Bytes /\ Len(<<>>) = 0
  BY EmptySeq DEF Bytes
<1>2. ASSUME NEW b \in Bytes PROVE <<>> \o b = b
  <2>1. PICK u : u = <<>> \o b
    OBVIOUS
  <2>2. PICK e \in Bytes : e = <<>>
    BY <1>1
  <2>3. /\ Len(e) = 0 /\ Len(b) \in Nat
    BY <1>1, <2>2, LenProperties DEF Bytes
  <2>4. /\ u \in Bytes /\ Len(u) = Len(e) + Len(b)
        /\ \A q \in 1..Len(e) + Len(b) : u[q] = IF q <= Len(e) THEN e[q] ELSE b[q - Len(e)]
    BY <2>1, <2>2, ConcatProperties DEF Bytes
  <2>5. Len(u) = Len(b)
    BY <2>3, <2>4
  <2>6. \A q \in 1..Len(b) : u[q] = b[q]
    BY <2>3, <2>4
  <2>7. u = b
    BY <2>4, <2>5, <2>6, SeqEqual DEF Bytes
  <2> QED
    BY <2>1, <2>7
<1> QED
  BY <1>1, <1>2

\* What is left of s \o t behind s is t.
LEMMA Behind ==
  ASSUME NEW s \in Bytes, NEW t \in Bytes, Len(t) > 0
  PROVE  Rest(s \o t, Len(s)) = t
<1>1. PICK u : u = s \o t
  OBVIOUS
<1>2. /\ u \in Bytes /\ Len(s) \in Nat /\ Len(t) \in Nat /\ Len(u) = Len(s) + Len(t)
      /\ \A q \in 1..Len(s) + Len(t) : u[q] = IF q <= Len(s) THEN s[q] ELSE t[q - Len(s)]
  BY <1>1, ConcatProperties, LenProperties DEF Bytes
<1>3. ASSUME NEW q \in 1..Len(t) PROVE u[Len(s) + 1 + q - 1] = t[q]
  <2>1. PICK p : p = Len(s) + 1 + q - 1
    OBVIOUS
  <2>2. p \in 1..Len(s) + Len(t) /\ ~(p <= Len(s)) /\ p - Len(s) = q
    BY <1>2, <2>1
  <2> QED
    BY <1>2, <2>1, <2>2
<1>4. Holds(u, Len(s) + 1, t)
  BY <1>3 DEF Holds
<1>5. SubSeq(u, Len(s) + 1, Len(s) + 1 + Len(t) - 1) = t
  BY <1>2, <1>4, Piece
<1>6. Len(s) + 1 + Len(t) - 1 = Len(u)
  BY <1>2
<1> QED
  BY <1>1, <1>5, <1>6 DEF Rest

\* Nothing is left behind the whole of s.
LEMMA AllOf ==
  ASSUME NEW s \in Bytes
  PROVE  Rest(s, Len(s)) = <<>> /\ First(s, Len(s)) = s
<1>1. PICK n \in Nat : n = Len(s)
  BY LenProperties DEF Bytes
<1>2. SubSeq(s, n + 1, n) = <<>>
  <2>1. n + 1 > n
    BY <1>1
  <2> QED
    BY <2>1, <1>1 DEF Bytes
<1>3. SubSeq(s, 1, 1 + n - 1) = s
  BY <1>1, HoldsItself, Piece
<1>4. 1 + n - 1 = n
  BY <1>1
<1> QED
  BY <1>1, <1>2, <1>3, <1>4 DEF Rest, First

\* Both ends find the message again.
LEMMA ArrivingFramed ==
  ASSUME NEW x, Arrives(x)
  PROVE  Framing(message_to_buffer(x))
<1>1. PICK b : b = message_to_buffer(x)
  OBVIOUS
<1>2. b \in Bytes /\ Len(b) \in IntRange /\ Len(b) > 0
  BY <1>1 DEF Arrives
<1>3. Len(b) \in Int
  BY <1>2 DEF IntRange
<1>4. PICK s : s = Size(b)
  OBVIOUS
<1>5. s \in Bytes /\ Len(s) = 4 /\ N32(s, 1) = Len(b)
  BY <1>2, <1>4, IntBytes DEF Size
<1>6. /\ s \o b \in Bytes /\ Len(s \o b) = Len(s) + Len(b)
      /\ Holds(s \o b, 1, s \o b) => Holds(s \o b, 1, s)
  BY <1>2, <1>5, Parts
<1>7. Holds(s \o b, 1, s)
  BY <1>6, HoldsItself
<1>8. N32(s \o b, 1) = Len(b)
  BY <1>2, <1>4, <1>7, IntAt DEF Size
<1>9. Rest(s, 4) = <<>> /\ Rest(s \o b, 4) = b
  BY <1>2, <1>5, AllOf, Behind
<1>10. First(b, Len(b)) = b /\ Rest(b, Len(b)) = <<>>
  BY <1>2, AllOf
<1>11. s # <<>> /\ b # <<>> /\ s \o b # <<>> /\ Len(s \o b) >= 4
  <2>1. Len(s \o b) > 0 /\ Len(s) > 0 /\ Len(s \o b) >= 4
    BY <1>2, <1>3, <1>5, <1>6
  <2> QED
    BY <1>2, <2>1, EmptyBytes
<1>12. <<>> \o s = s /\ <<>> \o b = b
  BY <1>2, <1>5, EmptyBytes
<1> QED
  BY <1>1, <1>2, <1>3, <1>4, <1>5, <1>6, <1>8, <1>9, <1>10, <1>11, <1>12 DEF Framing

\* Every request and every reply is framed.
LEMMA MessagesFramed ==
  /\ \A m \in Asked :
       /\ Framing(RequestBytes(m))
       /\ buffer_to_message(RequestBytes(m)) # NullMessage
       /\ Requested(buffer_to_message(RequestBytes(m))) = m
       /\ m \in ClientRequest /\ m \in Request
  /\ \A m, r : Returns(m, r) =>
       /\ Framing(ReplyBytes(m, r)) /\ r \in Reply /\ r # NoReply
       /\ Returned(buffer_to_message(ReplyBytes(m, r))) = r
<1>1. ASSUME NEW m \in Asked
      PROVE  /\ Framing(RequestBytes(m))
             /\ buffer_to_message(RequestBytes(m)) # NullMessage
             /\ Requested(buffer_to_message(RequestBytes(m))) = m
             /\ m \in ClientRequest /\ m \in Request
  <2>1. m \in ClientRequest /\ m \in Request
    BY PollAssumption DEF ClientRequest
  <2>2. /\ Arrives(RequestMessage(m)) /\ RequestMessage(m) # NullMessage
        /\ Requested(RequestMessage(m)) = m
    BY <2>1, RequestArrives
  <2>3. buffer_to_message(RequestBytes(m)) = RequestMessage(m)
    BY <2>2 DEF Arrives, RequestBytes
  <2>4. Framing(RequestBytes(m))
    BY <2>2, ArrivingFramed DEF RequestBytes
  <2> QED
    BY <2>1, <2>2, <2>3, <2>4
<1>2. ASSUME NEW m, NEW r, Returns(m, r)
      PROVE  /\ Framing(ReplyBytes(m, r)) /\ r \in Reply /\ r # NoReply
             /\ Returned(buffer_to_message(ReplyBytes(m, r))) = r
  <2>1. /\ Arrives(ReplyMessage(m, r)) /\ r \in Reply /\ r # NoReply
        /\ Returned(ReplyMessage(m, r)) = r
    BY <1>2 DEF Returns
  <2>2. Framing(ReplyBytes(m, r))
    BY <2>1, ArrivingFramed DEF ReplyBytes
  <2>3. buffer_to_message(ReplyBytes(m, r)) = ReplyMessage(m, r)
    BY <2>1 DEF Arrives, ReplyBytes
  <2> QED
    BY <2>1, <2>2, <2>3
<1> QED
  BY <1>1, <1>2

-----------------------------------------------------------------------------
\* A step that leaves connection c as it is.
Same(c) ==
  /\ cpc'[c] = cpc[c] /\ creq'[c] = creq[c] /\ csize'[c] = csize[c]
  /\ got'[c] = got[c] /\ served'[c] = served[c]
  /\ toServer'[c] = toServer[c] /\ toClient'[c] = toClient[c]
  /\ cOpen'[c] = cOpen[c]
  /\ Pos(c)' = Pos(c)
  /\ Pos(c) = "body" => size' = size
  /\ Pos(c) = "data" => reply' = reply

\* It keeps the invariant of c.
LEMMA SameKeeps ==
  ASSUME NEW c \in Conn, ConnOK(c), Same(c)
  PROVE  ConnOK(c)'
<1>0. /\ cpc'[c] = cpc[c] /\ creq'[c] = creq[c] /\ csize'[c] = csize[c]
      /\ got'[c] = got[c] /\ served'[c] = served[c]
      /\ toServer'[c] = toServer[c] /\ toClient'[c] = toClient[c]
      /\ cOpen'[c] = cOpen[c] /\ Pos(c)' = Pos(c)
      /\ Pos(c) = "body" => size' = size
      /\ Pos(c) = "data" => reply' = reply
  BY DEF Same
<1>1. EndsOK(c)' /\ GotOK(c)' /\ NewOrIdle(c)'
  BY <1>0 DEF ConnOK, EndsOK, GotOK, NewOrIdle, Quiet, Gone
<1>2. \A b : (Half(c, b) => Half(c, b)') /\ (Whole(c, b) => Whole(c, b)')
  BY <1>0 DEF Half, Whole
<1>3. Framed(c)'
  BY <1>0, <1>2 DEF ConnOK, Framed, Quiet
<1>4. SizeWritten(c)'
  BY <1>0, <1>2 DEF ConnOK, SizeWritten, Gone
<1>5. \A b, s, t : Replying(c, b, s, t) => Replying(c, b, s, t)'
  BY <1>0 DEF Replying
<1>6. (Replied(c) => Replied(c)') /\ (Quiet(c) => Quiet(c)')
      /\ (RequestWritten(c) => RequestWritten(c)')
  BY <1>0, <1>2 DEF Replied, Quiet, RequestWritten, Gone
<1>7. Waiting(c)'
  BY <1>0, <1>5, <1>6 DEF ConnOK, Waiting
<1>8. Reading(c)'
  BY <1>0, <1>5, <1>6 DEF ConnOK, Reading
<1> QED
  BY <1>1, <1>3, <1>4, <1>7, <1>8 DEF ConnOK

\* The connection that the scan is at is open, and no other one is served.
LEMMA ServingPos ==
  ASSUME LoopInv, at \in {"size", "body", "data"}
  PROVE  /\ j \in Slot /\ fds[j] \in Conn /\ sOpen[fds[j]]
         /\ Pos(fds[j]) = IF at = "size" THEN "open" ELSE at
         /\ \A d \in Conn \ {fds[j]} : Pos(d) = IF sOpen[d] THEN "open" ELSE "closed"
<1>1. j \in Slot /\ fds[j] \in Conn /\ fds[j] # NoConn
  BY AtSlot
<1>2. fds[j] \in Accepted
  BY <1>1 DEF Accepted, Occupied
<1>3. sOpen[fds[j]]
  BY <1>2 DEF LoopInv, ArrayExact
<1> QED
  BY <1>1, <1>3 DEF Pos

\* It is served further, ...
LEMMA StillServing ==
  ASSUME LoopInv, at \in {"size", "body", "data"}, at' \in {"body", "data"},
         UNCHANGED <<fds, j, sOpen>>
  PROVE  Pos(fds[j])' = at' /\ \A d \in Conn \ {fds[j]} : Pos(d)' = Pos(d)
<1>1. PICK c : c = fds[j]
  OBVIOUS
<1>2. c \in Conn /\ sOpen'[c] /\ fds'[j'] = c
  BY <1>1, ServingPos
<1>3. Pos(c)' = at'
  BY <1>2 DEF Pos
<1>4. \A d \in Conn \ {c} : Pos(d)' = IF sOpen[d] THEN "open" ELSE "closed"
  BY <1>2 DEF Pos
<1>5. Pos(fds[j])' = at'
  BY <1>2 DEF Pos
<1> QED
  BY <1>1, <1>4, <1>5, ServingPos

\* ... or not, and stays open or is closed.
LEMMA Served ==
  ASSUME LoopInv, at \in {"size", "body", "data"}, at' = "scan",
         NEW c \in Conn, c = fds[j]
  PROVE  /\ UNCHANGED sOpen => \A d \in Conn : Pos(d)' = IF d = c THEN "open" ELSE Pos(d)
         /\ sOpen' = [sOpen EXCEPT ![c] = FALSE]
              => \A d \in Conn : Pos(d)' = IF d = c THEN "closed" ELSE Pos(d)
<1>1. sOpen \in [Conn -> BOOLEAN]
  BY DEF LoopInv, LoopTypes
<1>2. sOpen[c]
  BY ServingPos
<1>3. \A d \in Conn \ {c} : Pos(d) = IF sOpen[d] THEN "open" ELSE "closed"
  BY ServingPos
<1>4. \A d \in Conn : Pos(d)' = IF sOpen'[d] THEN "open" ELSE "closed"
  BY DEF Pos
<1>5. ASSUME UNCHANGED sOpen
      PROVE  \A d \in Conn : Pos(d)' = IF d = c THEN "open" ELSE Pos(d)
  BY <1>2, <1>3, <1>4, <1>5
<1>6. ASSUME sOpen' = [sOpen EXCEPT ![c] = FALSE]
      PROVE  \A d \in Conn : Pos(d)' = IF d = c THEN "closed" ELSE Pos(d)
  <2>1. \A d \in Conn : sOpen'[d] = IF d = c THEN FALSE ELSE sOpen[d]
    BY <1>1, <1>6
  <2> QED
    BY <1>3, <1>4, <2>1
<1> QED
  BY <1>5, <1>6

-----------------------------------------------------------------------------
\* A connection is closed by the server: its client has hung up or failed, or
\* waits for the answer to a request that the server has not taken.
LEMMA DropCalls ==
  ASSUME CallInv, at \in {"size", "body", "data"}, NEW c \in Conn, c = fds[j], Drop(c),
         UNCHANGED toClient,
         \/ ~cOpen[c] /\ \A d \in Conn \ {c} : served'[d] = served[d]
         \/ /\ cpc[c] \in {"size", "failed", "done"}
            /\ cpc[c] = "size" => toClient[c] = <<>>
            /\ UNCHANGED served
  PROVE  \A d \in Conn : ConnOK(d)'
<1>0. LoopInv /\ CallTypes /\ \A d \in Conn : ConnOK(d)
  BY DEF CallInv
<1>1. /\ toServer' = [toServer EXCEPT ![c] = <<>>]
      /\ sOpen' = [sOpen EXCEPT ![c] = FALSE] /\ at' = "scan"
      /\ UNCHANGED <<cOpen, cpc, creq, csize, got>>
  BY DEF Drop, Freed, NextPosition, clientVars
<1>2. \A d \in Conn : Pos(d)' = IF d = c THEN "closed" ELSE Pos(d)
  BY <1>0, <1>1, Served
<1>3. \A d \in Conn : toServer'[d] = IF d = c THEN <<>> ELSE toServer[d]
  BY <1>0, <1>1 DEF CallTypes
<1>4. ASSUME NEW d \in Conn \ {c} PROVE ConnOK(d)'
  <2>1. Pos(d) \notin {"body", "data"}
    BY <1>0, ServingPos
  <2>2. served'[d] = served[d]
    OBVIOUS
  <2>3. Same(d)
    BY <1>1, <1>2, <1>3, <2>1, <2>2 DEF Same
  <2> QED
    BY <1>0, <2>3, SameKeeps
<1>5. ConnOK(c)'
  <2>1. Pos(c)' = "closed" /\ toServer'[c] = <<>>
    BY <1>2, <1>3
  <2>2. Framed(c)' /\ Gone(c)'
    BY <2>1 DEF Framed, Quiet, Gone
  <2>3. EndsOK(c)' /\ EndsOK(c) /\ GotOK(c)
    BY <1>0, <1>1, <2>1 DEF ConnOK, EndsOK
  <2>4. CASE ~cOpen[c]
    <3>1. cpc'[c] \in {"new", "done"} /\ cpc'[c] = cpc[c]
      BY <1>1, <2>3, <2>4 DEF EndsOK
    <3>2. GotOK(c)'
      BY <1>1, <2>3, <3>1 DEF GotOK
    <3>3. NewOrIdle(c)'
      BY <1>0, <2>1, <3>1 DEF ConnOK, NewOrIdle, Quiet
    <3> QED
      BY <2>2, <2>3, <3>1, <3>2, <3>3 DEF ConnOK, SizeWritten, Waiting, Reading
  <2>5. CASE /\ cpc[c] \in {"size", "failed", "done"}
             /\ cpc[c] = "size" => toClient[c] = <<>>
    <3>1. /\ cpc'[c] \in {"size", "failed", "done"}
          /\ cpc'[c] = "size" => toClient'[c] = <<>>
      BY <1>1, <2>5
    <3>2. GotOK(c)'
      BY <1>1, <2>3, <2>5 DEF GotOK
    <3>3. cpc'[c] = "size" => RequestWritten(c)'
      BY <2>2, <3>1 DEF RequestWritten
    <3> QED
      BY <2>2, <2>3, <3>1, <3>2, <3>3 DEF ConnOK, NewOrIdle, SizeWritten, Waiting, Reading
  <2> QED
    BY <2>4, <2>5
<1> QED
  BY <1>4, <1>5

\* The size of a request is read.
LEMMA ReadSizeCalls ==
  ASSUME CallInv, ReadSize
  PROVE  CallTypes' /\ \A d \in Conn : ConnOK(d)'
<1>0. LoopInv /\ CallTypes /\ \A d \in Conn : ConnOK(d)
  BY DEF CallInv
<1>1. PICK c \in Conn : c = fds[j]
  BY <1>0, ServingPos DEF ReadSize
<1>2. at = "size" /\ Pos(c) = "open"
  BY <1>0, <1>1, ServingPos DEF ReadSize
<1>3. CASE /\ ReadAllResult(toServer[c], 4) # {}
           /\ size' = N32(toServer[c], 1)
           /\ toServer' = [toServer EXCEPT ![c] = Rest(@, 4)]
           /\ at' = "body"
           /\ UNCHANGED <<fds, number_clients, revents, result, j, reply, table, status,
                          backlog, toClient, cOpen, sOpen, clientVars, served>>
  <2>1. toServer[c] # <<>>
    <3>1. Len(toServer[c]) >= 4
      BY <1>3 DEF ReadAllResult
    <3> QED
      BY <3>1, EmptyBytes
  <2>2. UNCHANGED <<cOpen, toClient, cpc, creq, csize, got, served>>
    BY <1>3 DEF clientVars
  <2>3. \A d \in Conn : toServer'[d] = IF d = c THEN Rest(toServer[c], 4) ELSE toServer[d]
    BY <1>0, <1>3 DEF CallTypes
  <2>4. Pos(c)' = "body" /\ \A d \in Conn \ {c} : Pos(d)' = Pos(d)
    <3>1. at \in {"size", "body", "data"} /\ at' \in {"body", "data"}
      BY <1>2, <1>3
    <3>2. Pos(fds[j])' = at' /\ \A d \in Conn \ {fds[j]} : Pos(d)' = Pos(d)
      BY <1>0, <1>3, <3>1, StillServing
    <3>3. Pos(c)' = at'
      <4>1. sOpen'[c] /\ fds'[j'] = c
        BY <1>0, <1>1, <1>3, <3>1, ServingPos
      <4> QED
        BY <1>3, <4>1 DEF Pos
    <3> QED
      BY <1>1, <1>3, <3>2, <3>3
  <2>5. ASSUME NEW d \in Conn \ {c} PROVE ConnOK(d)'
    <3>1. Pos(d) \notin {"body", "data"}
      BY <1>0, <1>1, <1>2, ServingPos
    <3>2. Same(d)
      BY <2>2, <2>3, <2>4, <3>1 DEF Same
    <3> QED
      BY <1>0, <3>2, SameKeeps
  <2>6. PICK m \in Asked : /\ ~Quiet(c)
                           /\ Half(c, RequestBytes(m)) \/ Whole(c, RequestBytes(m))
    BY <1>0, <2>1 DEF ConnOK, Framed, Quiet
  <2>7. PICK b : b = RequestBytes(m)
    OBVIOUS
  <2>8. Framing(b)
    BY <2>7, MessagesFramed
  <2>9. size' = Len(b) /\ size' \in Int /\ toServer'[c] \in Bytes
    BY <1>2, <1>3, <2>3, <2>6, <2>7, <2>8, EmptyBytes DEF Half, Whole, Framing
  <2>10. CallTypes'
    <3>1. toServer' \in [Conn -> Bytes]
      BY <1>0, <1>3, <2>3, <2>9 DEF CallTypes
    <3> QED
      BY <1>0, <1>3, <2>2, <2>9, <3>1 DEF CallTypes
  <2>11. \A r \in Asked : /\ Half(c, RequestBytes(r)) => Half(c, RequestBytes(r))'
                          /\ Whole(c, RequestBytes(r)) => Whole(c, RequestBytes(r))'
    <3> SUFFICES ASSUME NEW r \in Asked
                 PROVE  /\ Half(c, RequestBytes(r)) => Half(c, RequestBytes(r))'
                        /\ Whole(c, RequestBytes(r)) => Whole(c, RequestBytes(r))'
      OBVIOUS
    <3>1. PICK x : x = RequestBytes(r)
      OBVIOUS
    <3>2. Framing(x)
      BY <3>1, MessagesFramed
    <3>3. (Half(c, x) => Half(c, x)') /\ (Whole(c, x) => Whole(c, x)')
      BY <1>2, <1>3, <2>3, <2>4, <3>2 DEF Half, Whole, Framing
    <3> QED
      BY <3>1, <3>3
  <2>12. Framed(c)'
    BY <2>6, <2>11 DEF Framed
  <2>13. ConnOK(c) /\ ~Gone(c) /\ ~Gone(c)' /\ Pos(c) # "dead"
    BY <1>0, <1>2, <2>4 DEF Gone
  <2>14. EndsOK(c)' /\ GotOK(c)'
    BY <2>2, <2>13 DEF ConnOK, EndsOK, GotOK
  <2>15. /\ cpc'[c] = cpc[c] /\ creq'[c] = creq[c]
         /\ cpc[c] \in Calling => creq[c] \in Asked
    BY <2>2, <2>13 DEF ConnOK, EndsOK
  <2>16. cpc[c] \notin {"new", "idle", "data"}
    BY <2>6, <2>13 DEF ConnOK, NewOrIdle, Reading
  <2>17. SizeWritten(c)'
    BY <2>2, <2>11, <2>13, <2>15 DEF ConnOK, SizeWritten, Calling
  <2>18. Waiting(c)'
    BY <2>2, <2>6, <2>11, <2>13, <2>15 DEF ConnOK, Waiting, RequestWritten, Calling
  <2>19. ConnOK(c)'
    BY <2>12, <2>14, <2>15, <2>16, <2>17, <2>18 DEF ConnOK, NewOrIdle, Reading
  <2> QED
    BY <2>5, <2>10, <2>19
<1>4. CASE /\ Ends(toServer[c], 4, cOpen[c])
           /\ Drop(c)
           /\ UNCHANGED <<table, toClient, served>>
  <2>1. \A d \in Conn : ConnOK(d)'
    BY <1>1, <1>2, <1>4, DropCalls DEF Ends
  <2>2. CallTypes'
    <3>1. <<>> \in Bytes
      BY EmptyBytes
    <3> QED
      BY <1>0, <1>4, <3>1 DEF CallTypes, Drop, NextPosition, clientVars
  <2> QED
    BY <2>1, <2>2
<1> QED
  BY <1>1, <1>3, <1>4 DEF ReadSize

\* The reply that the server has ready for request m.
LEMMA InvokeReturns ==
  ASSUME NEW m \in Asked, NEW t \in Table, NEW st \in {PRIMARY, SECUNDARY}
  PROVE  /\ Returns(m, IF m.op = "STATUS" THEN Result(st) ELSE Answer(m, t))
         /\ Apply(m, t) \in Table
<1>1. m \in ClientRequest /\ m \in Request
  BY MessagesFramed
<1>2. st \in IntRange
  BY SmallSizes DEF PRIMARY, SECUNDARY
<1>3. m.op = "STATUS" => Returns(m, Result(st))
  BY <1>1, <1>2, ResultReturns
<1>4. m.op # "STATUS" => Returns(m, Answer(m, t))
  BY <1>1, AnswerReturns
<1>5. Apply(m, t) \in Table
  BY <1>1, ApplyType
<1> QED
  BY <1>3, <1>4, <1>5

\* The message that is read is the request of the client, if it still waits for
\* the answer.
LEMMA BodyRead ==
  ASSUME CallInv, at = "body", NEW c \in Conn, c = fds[j], Len(toServer[c]) >= size
  PROVE  \E m \in Asked :
           /\ toServer[c] = RequestBytes(m) /\ size = Len(RequestBytes(m))
           /\ cpc[c] \in {"size", "failed", "done"}
           /\ cpc[c] = "size" => m = creq[c] /\ toClient[c] = <<>>
<1>0. LoopInv /\ ConnOK(c) /\ Pos(c) = "body"
  BY ServingPos DEF CallInv
<1>1. PICK m \in Asked : Half(c, RequestBytes(m)) \/ Whole(c, RequestBytes(m))
  BY <1>0 DEF ConnOK, Framed, Quiet
<1>2. \A r \in Asked : ~Half(c, RequestBytes(r))
  <2> SUFFICES ASSUME NEW r \in Asked, Half(c, RequestBytes(r)) PROVE FALSE
    OBVIOUS
  <2>1. PICK b : b = RequestBytes(r)
    OBVIOUS
  <2>2. Framing(b)
    BY <2>1, MessagesFramed
  <2>3. toServer[c] = <<>> /\ size = Len(b)
    BY <1>0, <2>1 DEF Half
  <2> QED
    BY <2>2, <2>3, EmptyBytes DEF Framing
<1>3. toServer[c] = RequestBytes(m) /\ size = Len(RequestBytes(m))
  BY <1>0, <1>1, <1>2 DEF Whole
<1>4. cpc[c] \in {"size", "failed", "done"}
  <2>1. cpc[c] \in CallState
    BY <1>0 DEF LoopInv, LoopTypes
  <2>2. cpc[c] # "body"
    <3>1. cpc[c] = "body" => creq[c] \in Asked /\ (Half(c, RequestBytes(creq[c])) \/ Gone(c))
      BY <1>0 DEF ConnOK, EndsOK, SizeWritten, Calling
    <3> QED
      BY <1>0, <1>2, <3>1 DEF Gone
  <2>3. cpc[c] \notin {"new", "idle", "data"}
    BY <1>0 DEF ConnOK, NewOrIdle, Reading, Quiet
  <2> QED
    BY <2>1, <2>2, <2>3 DEF CallState, Calling
<1>5. ASSUME cpc[c] = "size" PROVE m = creq[c] /\ toClient[c] = <<>>
  <2>1. toClient[c] = <<>> /\ Whole(c, RequestBytes(creq[c])) /\ creq[c] \in Asked
    BY <1>0, <1>5 DEF ConnOK, Waiting, RequestWritten, Quiet, Gone, EndsOK, Calling
  <2>2. RequestBytes(creq[c]) = RequestBytes(m)
    BY <1>0, <1>3, <2>1 DEF Whole
  <2>3. creq[c] = m
    BY <2>1, <2>2, MessagesFramed
  <2> QED
    BY <2>1, <2>3
<1> QED
  BY <1>3, <1>4, <1>5

\* The message is read and applied.
LEMMA InvokeCalls ==
  ASSUME CallInv, at = "body", NEW c \in Conn, c = fds[j],
         NEW m \in Asked, toServer[c] = RequestBytes(m), size = Len(RequestBytes(m)),
         cpc[c] \in {"size", "failed", "done"},
         cpc[c] = "size" => m = creq[c] /\ toClient[c] = <<>>,
         Invoke(c, m)
  PROVE  CallTypes' /\ \A d \in Conn : ConnOK(d)'
<1>0. LoopInv /\ CallTypes /\ \A d \in Conn : ConnOK(d)
  BY DEF CallInv
<1>1. PICK s : s = IF m.op = "STATUS" THEN Result(status) ELSE Answer(m, table)
  OBVIOUS
<1>2. PICK b : b = ReplyBytes(m, s)
  OBVIOUS
<1>3. Returns(m, s) /\ Apply(m, table) \in Table
  BY <1>0, <1>1, InvokeReturns DEF CallTypes
<1>4. Framing(b) /\ s \in Reply /\ m \in Request
  BY <1>2, <1>3, MessagesFramed
<1>5. /\ table' = Apply(m, table)
      /\ served' = [served EXCEPT ![c] = [req |-> m, reply |-> s]]
  BY <1>1 DEF Invoke
<1>6. /\ \A d \in Conn : served'[d] = IF d = c THEN [req |-> m, reply |-> s] ELSE served[d]
      /\ served' \in [Conn -> [req : Request, reply : Reply]]
      /\ table' \in Table
  BY <1>0, <1>3, <1>4, <1>5 DEF CallTypes
<1>7. CASE /\ toServer' = [toServer EXCEPT ![c] = Rest(@, size)]
           /\ toClient' = IF cOpen[c] THEN [toClient EXCEPT ![c] = @ \o Size(b)] ELSE toClient
           /\ reply' = b
           /\ at' = "data"
           /\ UNCHANGED <<fds, number_clients, revents, result, j, size, status, backlog,
                          cOpen, sOpen, clientVars>>
  <2>1. UNCHANGED <<cOpen, cpc, creq, csize, got, size, status>>
    BY <1>7 DEF clientVars
  <2>2. Pos(c)' = "data" /\ Pos(c) = "body" /\ \A d \in Conn \ {c} : Pos(d)' = Pos(d)
    <3>1. at \in {"size", "body", "data"} /\ at' \in {"body", "data"}
      BY <1>7
    <3>2. Pos(fds[j])' = at' /\ \A d \in Conn \ {fds[j]} : Pos(d)' = Pos(d)
      BY <1>0, <1>7, <3>1, StillServing
    <3>3. Pos(c)' = at'
      <4>1. sOpen'[c] /\ fds'[j'] = c
        BY <1>0, <1>7, <3>1, ServingPos
      <4> QED
        BY <1>7, <4>1 DEF Pos
    <3>4. Pos(c) = "body"
      BY <1>0, <3>1, ServingPos
    <3> QED
      BY <1>7, <3>2, <3>3, <3>4
  <2>3. /\ \A d \in Conn : toServer'[d] = IF d = c THEN <<>> ELSE toServer[d]
        /\ toServer' \in [Conn -> Bytes]
    <3>1. Rest(toServer[c], size) = <<>> /\ <<>> \in Bytes
      BY MessagesFramed, EmptyBytes DEF Framing
    <3> QED
      BY <1>0, <1>7, <3>1 DEF CallTypes
  <2>4. /\ \A d \in Conn \ {c} : toClient'[d] = toClient[d]
        /\ cOpen[c] => toClient'[c] = toClient[c] \o Size(b)
        /\ toClient' \in [Conn -> Bytes]
    <3>1. toClient[c] \in Bytes /\ Size(b) \in Bytes
      BY <1>0, <1>4 DEF CallTypes, Framing
    <3>2. toClient[c] \o Size(b) \in Bytes
      BY <3>1, Parts
    <3> QED
      BY <1>0, <1>7, <3>2 DEF CallTypes
  <2>5. CallTypes'
    BY <1>0, <1>4, <1>6, <1>7, <2>1, <2>3, <2>4 DEF CallTypes, Framing
  <2>6. ASSUME NEW d \in Conn \ {c} PROVE ConnOK(d)'
    <3>1. Pos(d) \notin {"body", "data"}
      BY <1>0, ServingPos
    <3>2. Same(d)
      BY <1>6, <2>1, <2>2, <2>3, <2>4, <3>1 DEF Same
    <3> QED
      BY <1>0, <3>2, SameKeeps
  <2>7. ConnOK(c)'
    <3>1. ConnOK(c) /\ Quiet(c)' /\ ~Gone(c)'
      BY <1>0, <2>2, <2>3 DEF Quiet, Gone
    <3>2. EndsOK(c)' /\ Framed(c)'
      BY <2>1, <3>1 DEF ConnOK, EndsOK, Framed
    <3>3. GotOK(c)'
      BY <2>1, <3>1 DEF ConnOK, GotOK
    <3>4. Waiting(c)'
      <4> SUFFICES ASSUME cpc'[c] = "size" PROVE Waiting(c)'
        BY DEF Waiting
      <4>1. m = creq[c] /\ toClient[c] = <<>> /\ cOpen[c] /\ creq'[c] = m
        BY <2>1, <3>1 DEF ConnOK, EndsOK
      <4>2. toClient'[c] = Size(b)
        BY <1>4, <2>4, <4>1 DEF Framing
      <4>3. Replied(c)'
        BY <1>3, <1>6, <4>1 DEF Replied
      <4>4. Replying(c, b, Size(b), Size(b) \o b)'
        BY <1>7, <2>2, <4>2 DEF Replying
      <4>5. ReplyBytes(creq'[c], served'[c].reply) = b
        BY <1>2, <1>6, <4>1
      <4> QED
        BY <3>1, <4>3, <4>4, <4>5 DEF Waiting
    <3> QED
      BY <2>1, <3>2, <3>3, <3>4 DEF ConnOK, NewOrIdle, SizeWritten, Reading
  <2> QED
    BY <2>5, <2>6, <2>7
<1>8. CASE ~cOpen[c] /\ Drop(c) /\ UNCHANGED toClient
  <2>1. \A d \in Conn : ConnOK(d)'
    BY <1>6, <1>8, DropCalls
  <2>2. CallTypes'
    <3>1. <<>> \in Bytes
      BY EmptyBytes
    <3> QED
      BY <1>0, <1>6, <1>8, <3>1 DEF CallTypes, Drop, NextPosition, clientVars
  <2> QED
    BY <2>1, <2>2
<1>9. message_to_buffer(ReplyMessage(m, s)) = b /\ U32(Len(b)) = Size(b)
  BY <1>2 DEF ReplyBytes, Size
<1> QED
  BY <1>1, <1>7, <1>8, <1>9 DEF Invoke

\* A message is read, in one piece or not.
LEMMA ReadBodyCalls ==
  ASSUME CallInv, ReadBody
  PROVE  CallTypes' /\ \A d \in Conn : ConnOK(d)'
<1>0. LoopInv /\ CallTypes /\ \A d \in Conn : ConnOK(d)
  BY DEF CallInv
<1>1. PICK c \in Conn : c = fds[j]
  BY <1>0, ServingPos DEF ReadBody
<1>2. at = "body"
  BY DEF ReadBody
<1>3. ASSUME Drop(c), UNCHANGED <<table, toClient, served>>,
             \/ ~cOpen[c]
             \/ /\ cpc[c] \in {"size", "failed", "done"}
                /\ cpc[c] = "size" => toClient[c] = <<>>
      PROVE  CallTypes' /\ \A d \in Conn : ConnOK(d)'
  <2>1. \A d \in Conn : ConnOK(d)'
    BY <1>1, <1>2, <1>3, DropCalls
  <2>2. CallTypes'
    <3>1. <<>> \in Bytes
      BY EmptyBytes
    <3> QED
      BY <1>0, <1>3, <3>1 DEF CallTypes, Drop, NextPosition, clientVars
  <2> QED
    BY <2>1, <2>2
<1>4. CASE Ends(toServer[c], size, cOpen[c]) /\ Drop(c) /\ UNCHANGED <<table, toClient, served>>
  BY <1>3, <1>4 DEF Ends
<1>5. ASSUME NEW n \in ReadAllResult(toServer[c], size),
             IF n = size /\ buffer_to_message(First(toServer[c], size)) # NullMessage
             THEN Invoke(c, Requested(buffer_to_message(First(toServer[c], size))))
             ELSE Drop(c) /\ UNCHANGED <<table, toClient, served>>
      PROVE  CallTypes' /\ \A d \in Conn : ConnOK(d)'
  <2>1. Len(toServer[c]) >= size
    BY <1>5 DEF ReadAllResult
  <2>2. PICK m \in Asked :
           /\ toServer[c] = RequestBytes(m) /\ size = Len(RequestBytes(m))
           /\ cpc[c] \in {"size", "failed", "done"}
           /\ cpc[c] = "size" => m = creq[c] /\ toClient[c] = <<>>
    BY <1>1, <1>2, <2>1, BodyRead
  <2>3. First(toServer[c], size) = RequestBytes(m)
    BY <2>2, MessagesFramed DEF Framing
  <2>4. Requested(buffer_to_message(First(toServer[c], size))) = m
    BY <2>3, MessagesFramed
  <2>5. CASE Invoke(c, m)
    BY <1>1, <1>2, <2>2, <2>5, InvokeCalls
  <2>6. CASE Drop(c) /\ UNCHANGED <<table, toClient, served>>
    BY <1>3, <2>6, <2>2
  <2> QED
    BY <1>5, <2>4, <2>5, <2>6
<1> QED
  BY <1>1, <1>4, <1>5 DEF ReadBody

\* The reply is written behind its size.
LEMMA WriteDataCalls ==
  ASSUME CallInv, WriteData
  PROVE  CallTypes' /\ \A d \in Conn : ConnOK(d)'
<1>0. LoopInv /\ CallTypes /\ \A d \in Conn : ConnOK(d)
  BY DEF CallInv
<1>1. PICK c \in Conn : c = fds[j]
  BY <1>0, ServingPos DEF WriteData
<1>2. at = "data" /\ UNCHANGED <<table, served>> /\ Pos(c) = "data"
  BY <1>0, <1>1, ServingPos DEF WriteData
<1>3. CASE /\ toClient' = IF cOpen[c] THEN [toClient EXCEPT ![c] = @ \o reply] ELSE toClient
           /\ NextPosition
           /\ UNCHANGED <<fds, number_clients, revents, result, status, backlog, toServer,
                          cOpen, sOpen, clientVars>>
  <2>1. /\ UNCHANGED <<toServer, cOpen, sOpen, cpc, creq, csize, got, served, status, table>>
        /\ at' = "scan" /\ size' = 0 /\ reply' = <<>>
    BY <1>2, <1>3 DEF clientVars, NextPosition
  <2>2. \A d \in Conn : Pos(d)' = IF d = c THEN "open" ELSE Pos(d)
    BY <1>0, <1>1, <1>2, <2>1, Served
  <2>3. /\ \A d \in Conn \ {c} : toClient'[d] = toClient[d]
        /\ toClient'[c] = IF cOpen[c] THEN toClient[c] \o reply ELSE toClient[c]
        /\ toClient' \in [Conn -> Bytes]
    <3>1. toClient[c] \in Bytes /\ reply \in Bytes
      BY <1>0 DEF CallTypes
    <3>2. toClient[c] \o reply \in Bytes
      BY <3>1, Parts
    <3> QED
      BY <1>0, <1>3, <3>2 DEF CallTypes
  <2>4. CallTypes'
    BY <1>0, <2>1, <2>3, EmptyBytes DEF CallTypes
  <2>5. ASSUME NEW d \in Conn \ {c} PROVE ConnOK(d)'
    <3>1. Pos(d) \notin {"body", "data"}
      BY <1>0, <1>1, <1>2, ServingPos
    <3>2. Same(d)
      BY <2>1, <2>2, <2>3, <3>1 DEF Same
    <3> QED
      BY <1>0, <3>2, SameKeeps
  <2>6. ConnOK(c)'
    <3>1. ConnOK(c) /\ Pos(c)' = "open" /\ ~Gone(c)'
      BY <1>0, <2>2 DEF Gone
    <3>2. Quiet(c) /\ Quiet(c)'
      <4>1. Quiet(c)
        BY <1>2, <3>1 DEF ConnOK, Framed, Half, Whole
      <4> QED
        BY <2>1, <3>1, <4>1 DEF Quiet
    <3>3. EndsOK(c)' /\ Framed(c)'
      BY <2>1, <3>1, <3>2 DEF ConnOK, EndsOK, Framed
    <3>4. cpc[c] \notin {"new", "idle"}
      BY <1>2, <3>1 DEF ConnOK, NewOrIdle
    <3>5. GotOK(c)'
      BY <2>1, <3>1, <3>4 DEF ConnOK, GotOK
    <3>6. ~Whole(c, RequestBytes(creq[c])) /\ ~Half(c, RequestBytes(creq[c])) /\ ~Gone(c)
      BY <1>2 DEF Whole, Half, Gone
    <3>7. cpc[c] # "body"
      BY <3>1, <3>6 DEF ConnOK, SizeWritten
    <3>8. Waiting(c)'
      <4> SUFFICES ASSUME cpc'[c] = "size" PROVE Waiting(c)'
        BY DEF Waiting
      <4>1. cpc[c] = "size" /\ cOpen[c]
        BY <2>1, <3>1 DEF ConnOK, EndsOK
      <4>2. PICK b : b = ReplyBytes(creq[c], served[c].reply)
        OBVIOUS
      <4>3. Replied(c) /\ Replying(c, b, Size(b), Size(b) \o b)
        BY <3>1, <3>6, <4>1, <4>2 DEF ConnOK, Waiting, RequestWritten
      <4>4. toClient'[c] = Size(b) \o b
        BY <1>2, <2>3, <4>1, <4>3 DEF Replying
      <4>5. Replying(c, b, Size(b), Size(b) \o b)' /\ Replied(c)'
        BY <2>1, <3>1, <4>3, <4>4 DEF Replying, Replied
      <4>6. ReplyBytes(creq'[c], served'[c].reply) = b
        BY <2>1, <4>2
      <4> QED
        BY <3>2, <4>5, <4>6 DEF Waiting
    <3>9. Reading(c)'
      <4> SUFFICES ASSUME cpc'[c] = "data" PROVE Reading(c)'
        BY DEF Reading
      <4>1. cpc[c] = "data" /\ cOpen[c]
        BY <2>1, <3>1 DEF ConnOK, EndsOK
      <4>2. PICK b : b = ReplyBytes(creq[c], served[c].reply)
        OBVIOUS
      <4>3. Replied(c) /\ Replying(c, b, <<>>, b) /\ csize[c] = Len(b)
        BY <3>1, <4>1, <4>2 DEF ConnOK, Reading
      <4>4. Framing(b)
        BY <4>2, <4>3, MessagesFramed DEF Replied
      <4>5. toClient'[c] = b
        BY <1>2, <2>3, <4>1, <4>3, <4>4 DEF Replying, Framing
      <4>6. Replying(c, b, <<>>, b)' /\ Replied(c)' /\ csize'[c] = Len(b)
        BY <2>1, <3>1, <4>3, <4>5 DEF Replying, Replied
      <4>7. ReplyBytes(creq'[c], served'[c].reply) = b
        BY <2>1, <4>2
      <4> QED
        BY <3>2, <4>6, <4>7 DEF Reading
    <3> QED
      BY <2>1, <3>3, <3>4, <3>5, <3>7, <3>8, <3>9 DEF ConnOK, NewOrIdle, SizeWritten
  <2> QED
    BY <2>4, <2>5, <2>6
<1>4. CASE ~cOpen[c] /\ Drop(c) /\ UNCHANGED toClient
  <2>1. \A d \in Conn : ConnOK(d)'
    BY <1>1, <1>2, <1>4, DropCalls
  <2>2. CallTypes'
    <3>1. <<>> \in Bytes
      BY EmptyBytes
    <3> QED
      BY <1>0, <1>2, <1>4, <3>1 DEF CallTypes, Drop, NextPosition, clientVars
  <2> QED
    BY <2>1, <2>2
<1> QED
  BY <1>1, <1>3, <1>4 DEF WriteData

\* poll() and the scan do not touch the streams.
LEMMA RoundCalls ==
  ASSUME CallInv, Poll \/ Scan
  PROVE  CallTypes' /\ \A d \in Conn : ConnOK(d)'
<1>0. LoopInv /\ CallTypes /\ \A d \in Conn : ConnOK(d)
  BY DEF CallInv
<1>1. /\ at \in {"poll", "scan"} /\ at' \in {"poll", "scan", "size"}
      /\ UNCHANGED <<size, reply, table, status, toServer, toClient, cOpen, sOpen,
                     cpc, creq, csize, got, served>>
  BY DEF Poll, Scan, streamVars, clientVars
<1>2. \A d \in Conn : Pos(d)' = Pos(d)
  BY <1>1 DEF Pos
<1>3. \A d \in Conn : Same(d)
  BY <1>1, <1>2 DEF Same
<1>4. CallTypes'
  BY <1>0, <1>1 DEF CallTypes
<1> QED
  BY <1>0, <1>3, <1>4, SameKeeps

\* The server is killed: what it has written is still read.
LEMMA DieCalls ==
  ASSUME CallInv, Die
  PROVE  CallTypes' /\ \A d \in Conn : ConnOK(d)'
<1>0. LoopInv /\ CallTypes /\ \A d \in Conn : ConnOK(d)
  BY DEF CallInv
<1>1. /\ at' = "dead" /\ at # "dead" /\ size' = 0 /\ reply' = <<>>
      /\ table' = EmptyTable /\ status' = SECUNDARY
      /\ toServer' = [c \in Conn |-> <<>>]
      /\ UNCHANGED <<toClient, cOpen, cpc, creq, csize, got, served>>
  BY DEF Die, clientVars
<1>2. CallTypes'
  <2>1. EmptyTable \in Table /\ <<>> \in Bytes
    BY EmptyBytes DEF EmptyTable, Table
  <2> QED
    BY <1>0, <1>1, <2>1 DEF CallTypes
<1>3. ASSUME NEW c \in Conn PROVE ConnOK(c)'
  <2>1. ConnOK(c) /\ Pos(c)' = "dead" /\ Pos(c) # "dead" /\ toServer'[c] = <<>>
    BY <1>0, <1>1 DEF Pos
  <2>2. Quiet(c)' /\ Gone(c)' /\ Framed(c)'
    BY <2>1 DEF Quiet, Gone, Framed
  <2>3. EndsOK(c)' /\ GotOK(c)'
    BY <1>1, <2>1 DEF ConnOK, EndsOK, GotOK
  <2>4. NewOrIdle(c)' /\ SizeWritten(c)'
    BY <1>1, <2>1, <2>2 DEF ConnOK, NewOrIdle, SizeWritten
  <2>5. \A b, s, t : Replying(c, b, s, t) => Replying(c, b, s, t)'
    BY <1>1, <2>1 DEF Replying
  <2>6. (Replied(c) => Replied(c)') /\ (RequestWritten(c) => RequestWritten(c)')
    BY <1>1, <2>2 DEF Replied, RequestWritten
  <2>7. Waiting(c)'
    BY <1>1, <2>1, <2>2, <2>5, <2>6 DEF ConnOK, Waiting
  <2>8. Reading(c)'
    BY <1>1, <2>1, <2>2, <2>5, <2>6 DEF ConnOK, Reading
  <2> QED
    BY <2>2, <2>3, <2>4, <2>7, <2>8 DEF ConnOK
<1> QED
  BY <1>2, <1>3

-----------------------------------------------------------------------------
\* A step of a client moves nothing at the server.
LEMMA ClientPos ==
  ASSUME UNCHANGED serverVars, UNCHANGED sOpen
  PROVE  \A d \in Conn : Pos(d)' = Pos(d)
<1>1. UNCHANGED <<at, fds, j>>
  BY DEF serverVars
<1> QED
  BY <1>1 DEF Pos

\* The client connects.
LEMMA ConnectCalls ==
  ASSUME CallInv, NEW c \in Conn, Connect(c)
  PROVE  CallTypes' /\ \A d \in Conn : ConnOK(d)'
<1>0. LoopInv /\ CallTypes /\ \A d \in Conn : ConnOK(d)
  BY DEF CallInv
<1>1. /\ at # "dead" /\ cpc[c] = "new" /\ ~sOpen[c]
      /\ cOpen' = [cOpen EXCEPT ![c] = TRUE] /\ sOpen' = [sOpen EXCEPT ![c] = TRUE]
      /\ cpc' = [cpc EXCEPT ![c] = "idle"]
      /\ UNCHANGED <<at, fds, j, size, reply, table, status, toServer, toClient, creq, csize,
                     got, served>>
  BY <1>0 DEF Connect, serverVars, LoopInv, NewOK
<1>2. /\ \A d \in Conn : cOpen'[d] = IF d = c THEN TRUE ELSE cOpen[d]
      /\ \A d \in Conn : sOpen'[d] = IF d = c THEN TRUE ELSE sOpen[d]
      /\ \A d \in Conn : cpc'[d] = IF d = c THEN "idle" ELSE cpc[d]
  BY <1>0, <1>1 DEF CallTypes, LoopInv, LoopTypes
<1>3. at \in {"body", "data"} => fds[j] # c
  BY <1>0, <1>1, ServingPos
<1>4. Pos(c)' = "open" /\ \A d \in Conn \ {c} : Pos(d)' = Pos(d)
  BY <1>1, <1>2, <1>3 DEF Pos
<1>5. CallTypes'
  BY <1>0, <1>1 DEF CallTypes
<1>6. ASSUME NEW d \in Conn \ {c} PROVE ConnOK(d)'
  <2>1. Same(d)
    BY <1>1, <1>2, <1>4 DEF Same
  <2> QED
    BY <1>0, <2>1, SameKeeps
<1>7. ConnOK(c)'
  <2>1. Quiet(c) /\ toClient[c] = <<>> /\ got[c] = NoReply
    BY <1>0, <1>1 DEF ConnOK, NewOrIdle, GotOK
  <2>2. Quiet(c)'
    BY <1>1, <1>4, <2>1 DEF Quiet
  <2>3. Framed(c)' /\ NewOrIdle(c)'
    BY <1>1, <1>4, <2>1, <2>2 DEF Framed, NewOrIdle
  <2>4. cpc'[c] = "idle" /\ cOpen'[c] /\ ~Gone(c)' /\ got'[c] = NoReply
    BY <1>1, <1>2, <1>4, <2>1 DEF Gone
  <2>5. EndsOK(c)' /\ GotOK(c)'
    BY <2>4 DEF EndsOK, GotOK, Calling
  <2> QED
    BY <2>3, <2>4, <2>5 DEF ConnOK, SizeWritten, Waiting, Reading
<1> QED
  BY <1>5, <1>6, <1>7

\* The call failed, or the client ends.
LEMMA OverCalls ==
  ASSUME CallInv, NEW c \in Conn, NEW w \in {"failed", "done"},
         cpc' = [cpc EXCEPT ![c] = w],
         cOpen' = [cOpen EXCEPT ![c] = (w = "failed")],
         toClient' = [toClient EXCEPT ![c] = <<>>],
         creq' = [creq EXCEPT ![c] = NoReq],
         csize' = [csize EXCEPT ![c] = 0],
         got' = [got EXCEPT ![c] = NoReply],
         served' = [served EXCEPT ![c] = NothingServed],
         UNCHANGED <<serverVars, sOpen, toServer>>
  PROVE  CallTypes' /\ \A d \in Conn : ConnOK(d)'
<1>0. LoopInv /\ CallTypes /\ \A d \in Conn : ConnOK(d)
  BY DEF CallInv
<1>1. \A d \in Conn : Pos(d)' = Pos(d)
  BY ClientPos
<1>2. UNCHANGED <<size, reply, table, status>>
  BY DEF serverVars
<1>3. CallTypes'
  <2>1. NoReq \in Request /\ NoReply \in Reply /\ <<>> \in Bytes
    BY ConstantMessages, EmptyBytes
  <2>2. NothingServed \in [req : Request, reply : Reply]
    BY <2>1 DEF NothingServed
  <2> QED
    BY <1>0, <1>2, <2>1, <2>2 DEF CallTypes
<1>4. ASSUME NEW d \in Conn \ {c} PROVE ConnOK(d)'
  <2>1. /\ cpc'[d] = cpc[d] /\ creq'[d] = creq[d] /\ csize'[d] = csize[d]
        /\ got'[d] = got[d] /\ served'[d] = served[d]
        /\ toClient'[d] = toClient[d] /\ cOpen'[d] = cOpen[d]
    BY <1>0 DEF CallTypes, LoopInv, LoopTypes
  <2>2. Same(d)
    BY <1>1, <1>2, <2>1 DEF Same
  <2> QED
    BY <1>0, <2>2, SameKeeps
<1>5. ConnOK(c)'
  <2>1. /\ cpc'[c] \in {"failed", "done"} /\ (cOpen'[c] <=> cpc'[c] = "failed")
        /\ got'[c] = NoReply
    BY <1>0 DEF CallTypes, LoopInv, LoopTypes
  <2>2. EndsOK(c)' /\ GotOK(c)'
    BY <1>0, <1>1, <2>1 DEF ConnOK, EndsOK, GotOK, Gone, Calling
  <2>3. Framed(c)'
    BY <1>0, <1>1, <1>2 DEF ConnOK, Framed, Quiet, Half, Whole
  <2> QED
    BY <2>1, <2>2, <2>3 DEF ConnOK, NewOrIdle, SizeWritten, Waiting, Reading
<1> QED
  BY <1>3, <1>4, <1>5

\* Fail and Exit are such steps.
LEMMA FailCalls ==
  ASSUME CallInv, NEW c \in Conn,
         \/ UNCHANGED toServer /\ \E closed \in BOOLEAN : Fail(c, closed)
         \/ Exit(c)
  PROVE  CallTypes' /\ \A d \in Conn : ConnOK(d)'
<1>1. ASSUME NEW closed \in BOOLEAN, Fail(c, closed), UNCHANGED toServer
      PROVE  CallTypes' /\ \A d \in Conn : ConnOK(d)'
  <2>1. PICK w \in {"failed", "done"} : w = IF closed THEN "done" ELSE "failed"
    OBVIOUS
  <2>2. ~closed = (w = "failed")
    BY <2>1
  <2>3. /\ cpc' = [cpc EXCEPT ![c] = w]
        /\ cOpen' = [cOpen EXCEPT ![c] = (w = "failed")]
        /\ UNCHANGED <<serverVars, sOpen, toServer>>
    BY <1>1, <2>1, <2>2 DEF Fail
  <2> QED
    BY <1>1, <2>3, OverCalls DEF Fail
<1>2. CASE Exit(c)
  <2>1. PICK w \in {"failed", "done"} : w = "done"
    OBVIOUS
  <2>2. FALSE = (w = "failed")
    BY <2>1
  <2>3. /\ cpc' = [cpc EXCEPT ![c] = w]
        /\ cOpen' = [cOpen EXCEPT ![c] = (w = "failed")]
        /\ UNCHANGED <<serverVars, sOpen, toServer>>
    BY <1>2, <2>1, <2>2 DEF Exit
  <2> QED
    BY <1>2, <2>3, OverCalls DEF Exit
<1> QED
  BY <1>1, <1>2

\* The client writes bytes b, which leave its own place in the call to the step.
LEMMA WrittenCalls ==
  ASSUME CallInv, NEW c \in Conn, NEW b \in Bytes, Written(c, b),
         UNCHANGED <<serverVars, sOpen, toClient, cOpen, csize, served>>,
         \A d \in Conn \ {c} : /\ cpc'[d] = cpc[d] /\ creq'[d] = creq[d] /\ got'[d] = got[d]
  PROVE  /\ toServer' \in [Conn -> Bytes]
         /\ toServer'[c] = IF sOpen[c] THEN toServer[c] \o b ELSE toServer[c]
         /\ \A d \in Conn : Pos(d)' = Pos(d)
         /\ \A d \in Conn \ {c} : ConnOK(d)'
<1>0. LoopInv /\ CallTypes /\ \A d \in Conn : ConnOK(d)
  BY DEF CallInv
<1>1. \A d \in Conn : Pos(d)' = Pos(d)
  BY ClientPos
<1>2. toServer[c] \o b \in Bytes
  BY <1>0, Parts DEF CallTypes
<1>3. /\ toServer' \in [Conn -> Bytes]
      /\ toServer'[c] = IF sOpen[c] THEN toServer[c] \o b ELSE toServer[c]
      /\ \A d \in Conn \ {c} : toServer'[d] = toServer[d]
  BY <1>0, <1>2 DEF Written, CallTypes
<1>4. UNCHANGED <<size, reply>>
  BY DEF serverVars
<1>5. \A d \in Conn \ {c} : Same(d)
  BY <1>1, <1>3, <1>4 DEF Same
<1> QED
  BY <1>0, <1>1, <1>3, <1>5, SameKeeps

\* What is open is at one of three places.
LEMMA OpenPos ==
  ASSUME DeadOK, NEW c \in Conn
  PROVE  /\ Pos(c) \in {"open", "body", "data", "closed", "dead"}
         /\ sOpen[c] <=> ~Gone(c)
BY DEF Pos, Gone, DeadOK

\* The size of the request is written.
LEMMA CallCalls ==
  ASSUME CallInv, NEW c \in Conn, NEW m \in Asked, Call(c, m)
  PROVE  CallTypes' /\ \A d \in Conn : ConnOK(d)'
<1>0. LoopInv /\ CallTypes /\ DeadOK /\ \A d \in Conn : ConnOK(d)
  BY DEF CallInv
<1>1. cpc[c] = "idle"
  BY DEF Call
<1>2. CASE /\ Written(c, U32(Len(RequestBytes(m))))
           /\ cpc' = [cpc EXCEPT ![c] = "body"]
           /\ creq' = [creq EXCEPT ![c] = m]
           /\ got' = [got EXCEPT ![c] = NoReply]
           /\ UNCHANGED <<serverVars, backlog, toClient, cOpen, sOpen, csize, served>>
  <2>1. PICK b : b = RequestBytes(m)
    OBVIOUS
  <2>2. Framing(b) /\ m \in Request /\ NoReply \in Reply
    BY <2>1, MessagesFramed, ConstantMessages
  <2>3. Written(c, Size(b)) /\ Size(b) \in Bytes
    BY <1>2, <2>1, <2>2 DEF Size, Framing
  <2>4. /\ \A d \in Conn : cpc'[d] = IF d = c THEN "body" ELSE cpc[d]
        /\ \A d \in Conn : creq'[d] = IF d = c THEN m ELSE creq[d]
        /\ \A d \in Conn : got'[d] = IF d = c THEN NoReply ELSE got[d]
        /\ creq' \in [Conn -> Request] /\ got' \in [Conn -> Reply]
    BY <1>0, <1>2, <2>2 DEF CallTypes, LoopInv, LoopTypes
  <2>5. /\ toServer' \in [Conn -> Bytes]
        /\ toServer'[c] = IF sOpen[c] THEN toServer[c] \o Size(b) ELSE toServer[c]
        /\ \A d \in Conn : Pos(d)' = Pos(d)
        /\ \A d \in Conn \ {c} : ConnOK(d)'
    BY <1>2, <2>3, <2>4, WrittenCalls
  <2>6. UNCHANGED <<size, reply, table, status, toClient, cOpen, csize, served>>
    BY <1>2 DEF serverVars
  <2>7. CallTypes'
    BY <1>0, <2>4, <2>5, <2>6 DEF CallTypes
  <2>8. /\ ConnOK(c) /\ toServer[c] = <<>> /\ Pos(c) \notin {"body", "data"}
        /\ toClient[c] = <<>>
    BY <1>0, <1>1 DEF ConnOK, NewOrIdle, Quiet
  <2>9. toServer'[c] = IF sOpen[c] THEN Size(b) ELSE <<>>
    BY <2>2, <2>5, <2>8 DEF Framing
  <2>10. (sOpen[c] <=> ~Gone(c)) /\ (sOpen[c] => Pos(c) = "open")
    BY <1>0, <2>8, OpenPos DEF Gone
  <2>11. (Gone(c) <=> Gone(c)') /\ Pos(c)' = Pos(c)
    BY <2>5 DEF Gone
  <2>12. (sOpen[c] => Half(c, b)') /\ (~sOpen[c] => Quiet(c)')
    BY <2>8, <2>9, <2>10, <2>11 DEF Half, Quiet
  <2>13. Framed(c)'
    BY <2>1, <2>12 DEF Framed
  <2>14. /\ cpc'[c] = "body" /\ creq'[c] = m /\ got'[c] = NoReply /\ cOpen'[c] = cOpen[c]
         /\ toClient'[c] = <<>>
    BY <2>4, <2>6, <2>8
  <2>15. EndsOK(c)'
    BY <1>1, <2>8, <2>9, <2>10, <2>11, <2>14 DEF ConnOK, EndsOK, Calling
  <2>16. GotOK(c)' /\ SizeWritten(c)'
    BY <2>1, <2>10, <2>11, <2>12, <2>14 DEF GotOK, SizeWritten
  <2>17. ConnOK(c)'
    BY <2>13, <2>14, <2>15, <2>16 DEF ConnOK, NewOrIdle, Waiting, Reading
  <2> QED
    BY <2>5, <2>7, <2>17
<1>3. CASE Fail(c, TRUE) /\ UNCHANGED toServer
  BY <1>3, FailCalls
<1> QED
  BY <1>2, <1>3 DEF Call

\* Its bytes are written.
LEMMA WriteBodyCalls ==
  ASSUME CallInv, NEW c \in Conn, WriteBody(c)
  PROVE  CallTypes' /\ \A d \in Conn : ConnOK(d)'
<1>0. LoopInv /\ CallTypes /\ DeadOK /\ \A d \in Conn : ConnOK(d)
  BY DEF CallInv
<1>1. cpc[c] = "body"
  BY DEF WriteBody
<1>2. CASE /\ Written(c, RequestBytes(creq[c]))
           /\ cpc' = [cpc EXCEPT ![c] = "size"]
           /\ UNCHANGED <<serverVars, backlog, toClient, cOpen, sOpen, creq, csize, got,
                          calls, served>>
  <2>1. /\ ConnOK(c) /\ creq[c] \in Asked /\ toClient[c] = <<>>
        /\ Half(c, RequestBytes(creq[c])) \/ Gone(c)
    BY <1>0, <1>1 DEF ConnOK, EndsOK, SizeWritten, Calling
  <2>2. PICK b : b = RequestBytes(creq[c])
    OBVIOUS
  <2>3. Framing(b) /\ b \in Bytes
    BY <2>1, <2>2, MessagesFramed DEF Framing
  <2>4. \A d \in Conn : cpc'[d] = IF d = c THEN "size" ELSE cpc[d]
    BY <1>0, <1>2 DEF LoopInv, LoopTypes
  <2>5. /\ toServer' \in [Conn -> Bytes]
        /\ toServer'[c] = IF sOpen[c] THEN toServer[c] \o b ELSE toServer[c]
        /\ \A d \in Conn : Pos(d)' = Pos(d)
        /\ \A d \in Conn \ {c} : ConnOK(d)'
    BY <1>2, <2>2, <2>3, <2>4, WrittenCalls
  <2>6. UNCHANGED <<size, reply, table, status, toClient, cOpen, creq, csize, got, served>>
    BY <1>2 DEF serverVars
  <2>7. CallTypes'
    BY <1>0, <2>5, <2>6 DEF CallTypes
  <2>8. (sOpen[c] <=> ~Gone(c)) /\ (Gone(c) <=> Gone(c)') /\ Pos(c)' = Pos(c)
    BY <1>0, <2>5, OpenPos DEF Gone
  <2>9. sOpen[c] => Whole(c, b)'
    <3> SUFFICES ASSUME sOpen[c] PROVE Whole(c, b)'
      OBVIOUS
    <3>1. Half(c, b)
      BY <2>1, <2>2, <2>8
    <3>2. Pos(c) = "open" => toServer'[c] = Size(b) \o b
      BY <2>5, <3>1 DEF Half
    <3>3. Pos(c) = "body" => toServer'[c] = b /\ size' = Len(b)
      BY <2>3, <2>5, <2>6, <3>1 DEF Half, Framing
    <3>4. Pos(c) = "open" \/ Pos(c) = "body"
      BY <3>1 DEF Half
    <3> QED
      BY <2>8, <3>2, <3>3, <3>4 DEF Whole
  <2>10. Gone(c) => toServer'[c] = <<>> /\ Quiet(c)'
    BY <2>1, <2>5, <2>8 DEF ConnOK, EndsOK, Quiet, Gone
  <2>11. Framed(c)'
    BY <2>1, <2>2, <2>8, <2>9, <2>10 DEF Framed
  <2>12. /\ cpc'[c] = "size" /\ creq'[c] = creq[c] /\ got'[c] = got[c]
         /\ cOpen'[c] = cOpen[c] /\ toClient'[c] = <<>>
    BY <2>1, <2>4, <2>6
  <2>13. EndsOK(c)'
    BY <1>1, <2>1, <2>8, <2>10, <2>12 DEF ConnOK, EndsOK, Calling
  <2>14. got[c] = NoReply
    BY <1>1, <2>1 DEF ConnOK, GotOK
  <2>15. RequestWritten(c)'
    BY <2>2, <2>8, <2>9, <2>12 DEF RequestWritten
  <2>16. GotOK(c)' /\ Waiting(c)'
    BY <2>12, <2>14, <2>15 DEF GotOK, Waiting
  <2>17. ConnOK(c)'
    BY <2>11, <2>12, <2>13, <2>16 DEF ConnOK, NewOrIdle, SizeWritten, Reading
  <2> QED
    BY <2>5, <2>7, <2>17
<1>3. CASE Fail(c, FALSE) /\ UNCHANGED toServer
  BY <1>3, FailCalls
<1> QED
  BY <1>2, <1>3 DEF WriteBody

\* A client that reads leaves the other connections as they are.
LEMMA ReadCalls ==
  ASSUME CallInv, NEW c \in Conn,
         UNCHANGED <<serverVars, sOpen, toServer, cOpen, creq, served>>,
         \A d \in Conn \ {c} : /\ cpc'[d] = cpc[d] /\ csize'[d] = csize[d]
                               /\ got'[d] = got[d] /\ toClient'[d] = toClient[d]
  PROVE  /\ \A d \in Conn : Pos(d)' = Pos(d)
         /\ \A d \in Conn \ {c} : ConnOK(d)'
         /\ ConnOK(c) /\ Framed(c)'
<1>0. \A d \in Conn : ConnOK(d)
  BY DEF CallInv
<1>1. \A d \in Conn : Pos(d)' = Pos(d)
  BY ClientPos
<1>2. UNCHANGED <<size, reply>>
  BY DEF serverVars
<1>3. \A d \in Conn \ {c} : Same(d)
  BY <1>1, <1>2 DEF Same
<1>4. Framed(c)'
  BY <1>0, <1>1, <1>2 DEF ConnOK, Framed, Quiet, Half, Whole
<1> QED
  BY <1>0, <1>1, <1>3, <1>4, SameKeeps

\* The size of the reply is read.
LEMMA ReadReplySizeCalls ==
  ASSUME CallInv, NEW c \in Conn, ReadReplySize(c)
  PROVE  CallTypes' /\ \A d \in Conn : ConnOK(d)'
<1>0. LoopInv /\ CallTypes /\ \A d \in Conn : ConnOK(d)
  BY DEF CallInv
<1>1. cpc[c] = "size"
  BY DEF ReadReplySize
<1>2. CASE /\ ReadAllResult(toClient[c], 4) # {}
           /\ csize' = [csize EXCEPT ![c] = N32(toClient[c], 1)]
           /\ toClient' = [toClient EXCEPT ![c] = Rest(@, 4)]
           /\ cpc' = [cpc EXCEPT ![c] = "data"]
           /\ UNCHANGED <<serverVars, backlog, toServer, cOpen, sOpen, creq, got,
                          calls, served>>
  <2>1. toClient[c] # <<>>
    <3>1. Len(toClient[c]) >= 4
      BY <1>2 DEF ReadAllResult
    <3> QED
      BY <3>1, EmptyBytes
  <2>2. PICK b : b = ReplyBytes(creq[c], served[c].reply)
    OBVIOUS
  <2>3. Replied(c) /\ Quiet(c) /\ Replying(c, b, Size(b), Size(b) \o b)
    BY <1>0, <1>1, <2>1, <2>2 DEF ConnOK, Waiting, RequestWritten
  <2>4. Framing(b)
    BY <2>2, <2>3, MessagesFramed DEF Replied
  <2>5. /\ N32(toClient[c], 1) = Len(b) /\ Len(b) \in Int
        /\ Rest(toClient[c], 4) \in Bytes
    BY <2>3, <2>4, EmptyBytes DEF Replying, Framing
  <2>6. /\ \A d \in Conn : cpc'[d] = IF d = c THEN "data" ELSE cpc[d]
        /\ \A d \in Conn : csize'[d] = IF d = c THEN Len(b) ELSE csize[d]
        /\ \A d \in Conn : toClient'[d] = IF d = c THEN Rest(toClient[c], 4) ELSE toClient[d]
        /\ csize' \in [Conn -> Int] /\ toClient' \in [Conn -> Bytes]
    BY <1>0, <1>2, <2>5 DEF CallTypes, LoopInv, LoopTypes
  <2>7. /\ \A d \in Conn : Pos(d)' = Pos(d)
        /\ \A d \in Conn \ {c} : ConnOK(d)'
        /\ ConnOK(c) /\ Framed(c)'
    BY <1>2, <2>6, ReadCalls
  <2>8. UNCHANGED <<size, reply, table, status, toServer, cOpen, creq, got, served>>
    BY <1>2 DEF serverVars
  <2>9. CallTypes'
    BY <1>0, <2>6, <2>8 DEF CallTypes
  <2>10. /\ cpc'[c] = "data" /\ csize'[c] = Len(b) /\ toClient'[c] = Rest(toClient[c], 4)
         /\ Pos(c)' = Pos(c)
    BY <2>6, <2>7
  <2>11. EndsOK(c)' /\ GotOK(c)'
    BY <1>1, <2>7, <2>8, <2>10 DEF ConnOK, EndsOK, GotOK, Gone, Calling
  <2>12. Replied(c)' /\ Quiet(c)' /\ Replying(c, b, <<>>, b)'
    BY <2>3, <2>4, <2>8, <2>10 DEF Replied, Quiet, Replying, Framing
  <2>13. ReplyBytes(creq'[c], served'[c].reply) = b
    BY <2>2, <2>8
  <2>14. Reading(c)'
    BY <2>10, <2>12, <2>13 DEF Reading
  <2>15. ConnOK(c)'
    BY <2>7, <2>10, <2>11, <2>14 DEF ConnOK, NewOrIdle, SizeWritten, Waiting
  <2> QED
    BY <2>7, <2>9, <2>15
<1>3. CASE Fail(c, TRUE) /\ UNCHANGED toServer
  BY <1>3, FailCalls
<1> QED
  BY <1>2, <1>3 DEF ReadReplySize

\* The reply is read, or the end of the stream where it should be.
LEMMA ReadReplyDataCalls ==
  ASSUME CallInv, NEW c \in Conn, ReadReplyData(c)
  PROVE  CallTypes' /\ \A d \in Conn : ConnOK(d)'
<1>0. LoopInv /\ CallTypes /\ DeadOK /\ \A d \in Conn : ConnOK(d)
  BY DEF CallInv
<1>1. cpc[c] = "data"
  BY DEF ReadReplyData
<1>2. CASE /\ ReadReturns(toClient[c], csize[c], sOpen[c])
           /\ got' = [got EXCEPT ![c] =
                        IF Len(toClient[c]) >= csize[c]
                        THEN Returned(buffer_to_message(First(toClient[c], csize[c])))
                        ELSE GarbageReply]
           /\ toClient' = [toClient EXCEPT ![c] = Rest(@, csize[c])]
           /\ csize' = [csize EXCEPT ![c] = 0]
           /\ cpc' = [cpc EXCEPT ![c] = "idle"]
           /\ UNCHANGED <<serverVars, backlog, toServer, cOpen, sOpen, creq, calls, served>>
  <2>1. PICK r : r = served[c].reply
    OBVIOUS
  <2>2. PICK b : b = ReplyBytes(creq[c], r)
    OBVIOUS
  <2>3. /\ served[c].req = creq[c] /\ Returns(creq[c], r)
        /\ Quiet(c) /\ csize[c] = Len(b) /\ Replying(c, b, <<>>, b)
    BY <1>0, <1>1, <2>1, <2>2 DEF ConnOK, Reading, Replied
  <2>4. Framing(b) /\ r \in Reply /\ Returned(buffer_to_message(b)) = r
    BY <2>2, <2>3, MessagesFramed
  <2>5. PICK g : g = IF Len(toClient[c]) >= csize[c]
                     THEN Returned(buffer_to_message(First(toClient[c], csize[c])))
                     ELSE GarbageReply
    OBVIOUS
  <2>6. /\ Pos(c) # "data" /\ Rest(toClient[c], csize[c]) = <<>>
        /\ g = r \/ (g = GarbageReply /\ Pos(c) = "dead")
    <3>1. CASE toClient[c] = b
      <4>1. g = r /\ Rest(toClient[c], csize[c]) = <<>>
        BY <2>3, <2>4, <2>5, <3>1 DEF Framing
      <4>2. Pos(c) # "data"
        <5>1. b # <<>>
          BY <2>4 DEF Framing
        <5> QED
          BY <2>3, <3>1, <5>1 DEF Replying
      <4> QED
        BY <4>1, <4>2
    <3>2. CASE toClient[c] = <<>>
      <4>1. ~(Len(toClient[c]) >= csize[c])
        BY <2>3, <2>4, <3>2, EmptyBytes DEF Framing
      <4>2. g = GarbageReply /\ ~sOpen[c]
        BY <1>2, <2>5, <4>1 DEF ReadReturns
      <4>3. Pos(c) = "dead"
        <5>1. b # <<>> /\ Gone(c)
          BY <1>0, <2>4, <4>2, OpenPos DEF Framing
        <5> QED
          BY <2>3, <3>2, <5>1 DEF Replying, Gone
      <4>4. Rest(<<>>, Len(b)) = <<>>
        <5>1. Len(b) + 1 > 0 /\ Len(b) \in Int /\ Len(<<>>) = 0
          BY <2>4, EmptyBytes DEF Framing
        <5> QED
          BY <5>1 DEF Rest
      <4> QED
        BY <2>3, <3>2, <4>2, <4>3, <4>4
    <3> QED
      BY <2>3, <3>1, <3>2 DEF Replying
  <2>7. g \in Reply
    BY <2>4, <2>6, ConstantMessages
  <2>8. /\ \A d \in Conn : cpc'[d] = IF d = c THEN "idle" ELSE cpc[d]
        /\ \A d \in Conn : csize'[d] = IF d = c THEN 0 ELSE csize[d]
        /\ \A d \in Conn : toClient'[d] = IF d = c THEN <<>> ELSE toClient[d]
        /\ \A d \in Conn : got'[d] = IF d = c THEN g ELSE got[d]
        /\ csize' \in [Conn -> Int] /\ toClient' \in [Conn -> Bytes]
        /\ got' \in [Conn -> Reply]
    BY <1>0, <1>2, <2>5, <2>6, <2>7, EmptyBytes DEF CallTypes, LoopInv, LoopTypes
  <2>9. /\ \A d \in Conn : Pos(d)' = Pos(d)
        /\ \A d \in Conn \ {c} : ConnOK(d)'
        /\ ConnOK(c) /\ Framed(c)'
    BY <1>2, <2>8, ReadCalls
  <2>10. UNCHANGED <<size, reply, table, status, toServer, cOpen, creq, served>>
    BY <1>2 DEF serverVars
  <2>11. CallTypes'
    BY <1>0, <2>8, <2>10 DEF CallTypes
  <2>12. /\ cpc'[c] = "idle" /\ toClient'[c] = <<>> /\ Pos(c)' = Pos(c) /\ got'[c] = g
    BY <2>8, <2>9
  <2>13. EndsOK(c)'
    BY <1>1, <2>9, <2>10, <2>12 DEF ConnOK, EndsOK, Gone, Calling
  <2>14. served[c] = [req |-> creq[c], reply |-> r]
    <3>1. served[c] \in [req : Request, reply : Reply]
      BY <1>0 DEF CallTypes
    <3> QED
      BY <2>1, <2>3, <3>1
  <2>15. GotOK(c)'
    BY <2>6, <2>10, <2>12, <2>14 DEF GotOK
  <2>16. NewOrIdle(c)'
    BY <2>3, <2>6, <2>10, <2>12 DEF NewOrIdle, Quiet
  <2>17. ConnOK(c)'
    BY <2>9, <2>12, <2>13, <2>15, <2>16 DEF ConnOK, SizeWritten, Waiting, Reading
  <2> QED
    BY <2>9, <2>11, <2>17
<1>3. CASE Fail(c, FALSE) /\ UNCHANGED toServer
  BY <1>3, FailCalls
<1> QED
  BY <1>2, <1>3 DEF ReadReplyData

-----------------------------------------------------------------------------
\* A set of slots has no more members than the array has positions for clients.
LEMMA SlotCount ==
  ASSUME NEW S \in SUBSET Slot
  PROVE  Cardinality(S) \in Nat /\ Cardinality(S) <= MAX_SOCKETS - N_POS_NOT_FREE
<1>1. MAX_SOCKETS - 1 \in Int /\ N_POS_NOT_FREE \in Int
      /\ MAX_SOCKETS \in Int /\ MAX_SOCKETS > N_POS_NOT_FREE
  BY PollAssumption DEF N_POS_NOT_FREE
<1>2. Cardinality(Slot) = MAX_SOCKETS - N_POS_NOT_FREE
  <2>1. Cardinality(N_POS_NOT_FREE..MAX_SOCKETS - 1)
          = IF N_POS_NOT_FREE > MAX_SOCKETS - 1 THEN 0
            ELSE (MAX_SOCKETS - 1) - N_POS_NOT_FREE + 1
    BY <1>1, FS_Interval
  <2> QED
    BY <1>1, <2>1 DEF Slot
<1>3. Cardinality(S) \in Nat /\ Cardinality(S) <= Cardinality(Slot)
  <2>1. IsFiniteSet(S) /\ Cardinality(S) <= Cardinality(Slot)
    BY Slots, FS_Subset
  <2> QED
    BY <2>1, FS_CardinalityType
<1> QED
  BY <1>2, <1>3

\* The numbers of the loop stay within the array.
LEMMA LimitsStep ==
  ASSUME CallInv, [Next]_vars
  PROVE  LoopLimits' /\ DeadOK'
<1>0. /\ LoopInv /\ LoopLimits /\ DeadOK
      /\ MAX_SOCKETS \in Int /\ N_POS_NOT_FREE = 2 /\ N_POS_NOT_FREE < MAX_SOCKETS
      /\ 0 <= MAX_SOCKETS
  BY PollAssumption DEF CallInv, N_POS_NOT_FREE
<1>1. j \in Int /\ result \in Int /\ number_clients \in Int /\ revents \subseteq Slot
  BY <1>0 DEF LoopInv, LoopTypes
<1>2. \A k \in Slot : /\ k \in Int /\ N_POS_NOT_FREE <= k /\ k + 1 <= MAX_SOCKETS
                      /\ k <= MAX_SOCKETS
  BY <1>0 DEF Slot
<1>3. CASE Poll
  <2>1. PICK typed \in SUBSET {STDIN_POS} :
          result' = Cardinality(Ready \cup typed) - CountsDown(typed)
    BY <1>3 DEF Poll
  <2>2. /\ result' \in Int /\ result' <= Cardinality(Ready \cap Slot) + 1
    BY <1>1, <2>1, CountLeft
  <2>3. /\ Cardinality(Ready \cap Slot) \in Nat
        /\ Cardinality(Ready \cap Slot) <= MAX_SOCKETS - N_POS_NOT_FREE
    <3>1. Ready \cap Slot \in SUBSET Slot
      OBVIOUS
    <3> QED
      BY <3>1, SlotCount
  <2>4. result' <= MAX_SOCKETS
    BY <1>0, <2>2, <2>3
  <2>5. at' # "dead" /\ j' = N_POS_NOT_FREE /\ calls' = calls
    BY <1>3 DEF Poll, clientVars
  <2> QED
    BY <1>0, <2>4, <2>5 DEF LoopLimits, DeadOK
<1>4. CASE Scan
  <2>1. at' # "dead" /\ calls' = calls
    BY <1>4 DEF Scan, clientVars
  <2>2. CASE Pending # {} /\ j' = Min(Pending) /\ result' = result
    <3>1. Pending \in SUBSET Nat /\ Pending \subseteq Slot
      BY <1>1, Slots DEF Pending
    <3>2. j' \in Slot
      BY <2>2, <3>1, MinIsLeast
    <3> QED
      BY <1>0, <1>2, <2>1, <2>2, <3>2 DEF LoopLimits, DeadOK
  <2>3. CASE result' = 0 /\ j' = N_POS_NOT_FREE
    BY <1>0, <2>1, <2>3 DEF LoopLimits, DeadOK
  <2> QED
    BY <1>4, <2>2, <2>3 DEF Scan
<1>5. CASE ReadSize \/ ReadBody \/ WriteData
  <2>1. at \in {"size", "body", "data"}
    BY <1>5 DEF ReadSize, ReadBody, WriteData
  <2>2. j \in Slot
    BY <1>0, <2>1, AtSlot
  <2>3. /\ result' = result /\ calls' = calls /\ at' # "dead"
        /\ j' = j \/ j' = j + 1
    BY <1>5 DEF ReadSize, ReadBody, Invoke, WriteData, Drop, NextPosition, clientVars
  <2> QED
    BY <1>0, <1>2, <2>2, <2>3 DEF LoopLimits, DeadOK
<1>6. CASE Die
  <2>1. /\ result' = 0 /\ j' = N_POS_NOT_FREE /\ calls' = calls
        /\ sOpen' = [c \in Conn |-> FALSE]
    BY <1>6 DEF Die, clientVars
  <2> QED
    BY <1>0, <2>1 DEF LoopLimits, DeadOK
<1>7. ASSUME NEW c \in Conn, Connect(c)
      PROVE  LoopLimits' /\ DeadOK'
  <2>1. at # "dead" /\ at' = at /\ UNCHANGED <<result, j, calls>>
    BY <1>7 DEF Connect, serverVars
  <2> QED
    BY <1>0, <2>1 DEF LoopLimits, DeadOK
<1>8. ASSUME NEW c \in Conn, ClientStep(c) \/ Exit(c)
      PROVE  LoopLimits' /\ DeadOK'
  <2>1. UNCHANGED <<at, sOpen, result, j, calls>>
    BY <1>8 DEF ClientStep, WriteBody, ReadReplySize, ReadReplyData, Exit, Fail, serverVars
  <2> QED
    BY <1>0, <2>1 DEF LoopLimits, DeadOK
<1>9. ASSUME NEW c \in Conn, NEW m \in Asked, Call(c, m)
      PROVE  LoopLimits' /\ DeadOK'
  <2>1. UNCHANGED <<at, sOpen, result, j>> /\ calls < MaxCalls /\ calls' = calls + 1
    BY <1>9 DEF Call, Fail, serverVars
  <2>2. calls' \in 0..MaxCalls
    BY <1>0, <2>1, PollAssumption DEF LoopLimits
  <2> QED
    BY <1>0, <2>1, <2>2 DEF LoopLimits, DeadOK
<1>10. CASE UNCHANGED vars
  <2>1. UNCHANGED <<at, sOpen, result, j, calls>>
    BY <1>10 DEF vars, serverVars, streamVars, clientVars
  <2> QED
    BY <1>0, <2>1 DEF LoopLimits, DeadOK
<1> QED
  BY <1>3, <1>4, <1>5, <1>6, <1>7, <1>8, <1>9, <1>10 DEF Next, ServerStep

\* Nothing is under way at first.
LEMMA CallInit == Init => CallInv
<1> SUFFICES ASSUME Init PROVE CallInv
  OBVIOUS
<1>1. LoopInv
  BY LoopInit
<1>2. CallTypes
  <2>1. <<>> \in Bytes /\ NoReq \in Request /\ NoReply \in Reply
    BY EmptyBytes, ConstantMessages
  <2>2. NothingServed \in [req : Request, reply : Reply]
    BY <2>1 DEF NothingServed
  <2> QED
    BY <2>1, <2>2, PollAssumption DEF Init, CallTypes
<1>3. LoopLimits /\ DeadOK
  BY PollAssumption DEF Init, LoopLimits, DeadOK, N_POS_NOT_FREE
<1>4. ASSUME NEW c \in Conn PROVE ConnOK(c)
  <2>1. /\ cpc[c] = "new" /\ toServer[c] = <<>> /\ toClient[c] = <<>> /\ ~cOpen[c]
        /\ got[c] = NoReply /\ Pos(c) = "closed"
    BY DEF Init, Pos
  <2> QED
    BY <2>1 DEF ConnOK, EndsOK, GotOK, Framed, Quiet, NewOrIdle, SizeWritten, Waiting, Reading,
                Calling
<1> QED
  BY <1>1, <1>2, <1>3, <1>4 DEF CallInv

\* Every step keeps the invariant of the calls.
LEMMA CallStep ==
  ASSUME CallInv, [Next]_vars
  PROVE  CallInv'
<1>1. LoopInv' /\ LoopLimits' /\ DeadOK'
  BY LoopStep, LimitsStep DEF CallInv
<1>2. CallTypes' /\ \A c \in Conn : ConnOK(c)'
  <2>1. CASE ServerStep
    BY <2>1, RoundCalls, ReadSizeCalls, ReadBodyCalls, WriteDataCalls DEF ServerStep
  <2>2. CASE Die
    BY <2>2, DieCalls
  <2>3. ASSUME NEW c \in Conn, Connect(c) \/ \E m \in Asked : Call(c, m)
        PROVE  CallTypes' /\ \A d \in Conn : ConnOK(d)'
    BY <2>3, ConnectCalls, CallCalls
  <2>4. ASSUME NEW c \in Conn, ClientStep(c)
        PROVE  CallTypes' /\ \A d \in Conn : ConnOK(d)'
    BY <2>4, WriteBodyCalls, ReadReplySizeCalls, ReadReplyDataCalls DEF ClientStep
  <2>5. ASSUME NEW c \in Conn, Exit(c)
        PROVE  CallTypes' /\ \A d \in Conn : ConnOK(d)'
    BY <2>5, FailCalls
  <2>6. CASE UNCHANGED vars
    <3>1. UNCHANGED <<at, fds, j, size, reply, table, status, toServer, toClient, cOpen, sOpen,
                      cpc, creq, csize, got, served>>
      BY <2>6 DEF vars, serverVars, streamVars, clientVars
    <3>2. \A d \in Conn : Pos(d)' = Pos(d)
      BY <3>1 DEF Pos
    <3>3. \A d \in Conn : Same(d)
      BY <3>1, <3>2 DEF Same
    <3>4. CallTypes'
      BY <3>1 DEF CallInv, CallTypes
    <3> QED
      BY <3>3, <3>4, SameKeeps DEF CallInv
  <2> QED
    BY <2>1, <2>2, <2>3, <2>4, <2>5, <2>6 DEF Next
<1> QED
  BY <1>1, <1>2 DEF CallInv

\* The inductive invariant of what is under way on the connections.
THEOREM CallInductive == Spec => []CallInv
<1>1. CallInv /\ [Next]_vars => CallInv'
  BY CallStep
<1> QED
  BY CallInit, <1>1, PTL DEF Spec

\* A reply that network_send_receive returns is the one that invoke() gave to
\* this very request, for any number of connections, any requests, keys and
\* data, and any number of calls on a connection.
THEOREM CallAnsweredHolds == Spec => []CallAnswered
<1>1. CallInv => CallAnswered
  BY DEF CallInv, CallAnswered, ConnOK, GotOK, Pos
<1> QED
  BY <1>1, CallInductive, PTL

\* What the poll loop keeps has its type: no number leaves the array, and what
\* travels is bytes.
THEOREM PollTypeOKHolds == Spec => []TypeOK
<1>1. CallInv => TypeOK
  <2> SUFFICES ASSUME CallInv PROVE TypeOK
    OBVIOUS
  <2>1. LoopInv /\ LoopTypes /\ CallTypes /\ LoopLimits
    BY DEF CallInv, LoopInv
  <2>2. MAX_SOCKETS \in Int /\ N_POS_NOT_FREE \in Int
    BY PollAssumption DEF N_POS_NOT_FREE
  <2>3. number_clients \in 0..MAX_SOCKETS - N_POS_NOT_FREE
    <3>1. Occupied \in SUBSET Slot
      BY DEF Occupied
    <3>2. number_clients = Cardinality(Occupied)
      BY <2>1 DEF LoopInv, ArrayExact
    <3> QED
      BY <2>2, <3>1, <3>2, SlotCount
  <2>4. result \in -1..MAX_SOCKETS
    <3>1. Cardinality(revents) \in Nat /\ result >= Cardinality(revents)
      BY <2>1, SlotCount DEF LoopInv, LoopTypes, ScanOK
    <3> QED
      BY <2>1, <2>2, <3>1 DEF LoopTypes, LoopLimits
  <2>5. j \in N_POS_NOT_FREE..MAX_SOCKETS
    BY <2>1, <2>2 DEF LoopTypes, LoopLimits
  <2> QED
    BY <2>1, <2>3, <2>4, <2>5 DEF TypeOK, LoopTypes, CallTypes, LoopLimits, Bytes
<1> QED
  BY <1>1, CallInductive, PTL
=============================================================================
