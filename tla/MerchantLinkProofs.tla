------------------------- MODULE MerchantLinkProofs -------------------------
(***************************************************************************)
(* Proofs about the merchant's connection, for every limit, every initial  *)
(* interval and any number of sockets and network changes.                 *)
(***************************************************************************)
EXTENDS MerchantLink, SequenceTheorems, TLAPS

\* Scheduling n reconnections appends n timers, or none past the limit.
LEMMA ReconnectSchedules ==
    ASSUME TypeOK, NEW n \in Nat \ {0}, HandleReconnect(n)
    PROVE  /\ timers' \in Seq(1..MaxInterval)
           /\ reconnectInterval <= MaxInterval => timers' # <<>>
           /\ timers # <<>> => timers' # <<>>
<1> DEFINE new == [k \in 1..n |-> reconnectInterval]
<1>1. CASE reconnectInterval <= MaxInterval
    <2>1. reconnectInterval \in 1..MaxInterval
        BY <1>1, LinkAssumption DEF TypeOK
    <2>2. new \in Seq(1..MaxInterval) /\ Len(new) = n
        BY <2>1
    <2>3. timers' = timers \o new
        BY <1>1 DEF HandleReconnect
    <2>4. timers' \in Seq(1..MaxInterval) /\ Len(timers') = Len(timers) + n
        BY <2>2, <2>3, ConcatProperties DEF TypeOK
    <2>5. Len(timers) \in Nat
        BY LenProperties DEF TypeOK
    <2>6. timers' # <<>>
        BY <2>4, <2>5, EmptySeq
    <2> QED
        BY <2>4, <2>6
<1>2. CASE ~(reconnectInterval <= MaxInterval)
    BY <1>2 DEF HandleReconnect, TypeOK
<1> QED
    BY <1>1, <1>2

\* Changing the state of one socket keeps the sequence of sockets typed.
LEMMA SockUpdate ==
    ASSUME TypeOK, NEW s \in 1..Len(sock), NEW st \in ReadyState
    PROVE  /\ [sock EXCEPT ![s] = st] \in Seq(ReadyState)
           /\ Len([sock EXCEPT ![s] = st]) = Len(sock)
           /\ \A t \in 1..Len(sock) :
                  [sock EXCEPT ![s] = st][t] = IF t = s THEN st ELSE sock[t]
BY ExceptSeq DEF TypeOK

LEMMA LinkInit == Init => LinkInv
<1> SUFFICES ASSUME Init PROVE LinkInv
    OBVIOUS
<1>1. sock \in Seq(ReadyState) /\ Len(sock) = 1 /\ sock[1] = "connecting"
    BY DEF Init, ReadyState
<1>2. timers \in Seq(1..MaxInterval)
    BY EmptySeq DEF Init
<1>3. TypeOK
    <2>1. webSocket = Len(sock) /\ webSocket \in 1..MaxSockets
        BY <1>1, LinkAssumption DEF Init
    <2>2. announced \subseteq 1..Len(sock)
        BY DEF Init
    <2>3. reconnectInterval \in Nat \ {0}
        BY LinkAssumption DEF Init
    <2>4. flaps \in 0..MaxFlaps
        BY LinkAssumption DEF Init
    <2>5. network \in {"up", "down"} /\ destroyed \in BOOLEAN /\ cut \subseteq 1..Len(sock)
        BY DEF Init
    <2> QED
        BY <1>1, <1>2, <2>1, <2>2, <2>3, <2>4, <2>5 DEF TypeOK
<1> QED
    BY <1>1, <1>3 DEF Init, LinkInv, CurrentIsAnnounced, NeverSilentlyDisconnected, Live

\* A step of socket s to state st that leaves the current pointer, and the
\* timers if s stays alive, where the step's other effects are given.
LEMMA SocketInv ==
    ASSUME LinkInv, NEW s \in 1..Len(sock), NEW st \in ReadyState,
           sock' = [sock EXCEPT ![s] = st],
           webSocket' = webSocket, network' \in {"up", "down"},
           flaps' \in 0..MaxFlaps, destroyed' \in BOOLEAN, cut' \subseteq cut,
           reconnectInterval' \in Nat \ {0},
           timers' \in Seq(1..MaxInterval),
           announced' \subseteq 1..Len(sock),
           st = "open" /\ s = webSocket => s \in announced',
           announced \ {s} \subseteq announced',
           \/ st # "closed"
           \/ timers' # <<>>
           \/ reconnectInterval' > MaxInterval
    PROVE  LinkInv'
<1>1. /\ sock' \in Seq(ReadyState) /\ Len(sock') = Len(sock)
      /\ \A t \in 1..Len(sock) : sock'[t] = IF t = s THEN st ELSE sock[t]
    BY SockUpdate DEF LinkInv
<1>2. TypeOK'
    BY <1>1 DEF LinkInv, TypeOK
<1>3. CurrentIsAnnounced'
    <2>1. webSocket \in 1..Len(sock)
        BY LenProperties DEF LinkInv, TypeOK
    <2> QED
        BY <1>1, <2>1 DEF LinkInv, CurrentIsAnnounced
<1>4. NeverSilentlyDisconnected'
    BY <1>1 DEF NeverSilentlyDisconnected, Live
<1> QED
    BY <1>2, <1>3, <1>4 DEF LinkInv

LEMMA LinkStep == LinkInv /\ [Next]_lvars => LinkInv'
<1> SUFFICES ASSUME LinkInv, [Next]_lvars PROVE LinkInv'
    OBVIOUS
<1> USE LinkAssumption DEF ReadyState
<1>1. TypeOK /\ Len(sock) \in Nat
    BY LenProperties DEF LinkInv, TypeOK
<1>2. ASSUME NEW s \in 1..Len(sock), OnOpen(s) PROVE LinkInv'
    <2>1. announced \subseteq announced' /\ announced' \subseteq 1..Len(sock)
        <3>1. announced' = announced \cup {webSocket} \/ announced' = announced
            BY <1>2 DEF OnOpen, Announce
        <3>2. announced \subseteq announced'
            BY <3>1
        <3>3. webSocket \in 1..Len(sock) /\ announced \subseteq 1..Len(sock)
            BY <1>1 DEF TypeOK
        <3> QED
            BY <3>1, <3>2, <3>3, Zenon
    <2>2. s = webSocket => s \in announced'
        BY <1>2 DEF OnOpen, Announce
    <2> QED
        BY <1>1, <1>2, <2>1, <2>2, SocketInv DEF OnOpen, TypeOK
<1>3. ASSUME NEW s \in 1..Len(sock), HandshakeFail(s) \/ OnError(s) \/ OnClose(s)
      PROVE  LinkInv'
    <2>1. HandleReconnect(1) \/ HandleReconnect(2)
        BY <1>3 DEF HandshakeFail, OnError, OnClose
    <2>2. /\ timers' \in Seq(1..MaxInterval)
          /\ reconnectInterval <= MaxInterval => timers' # <<>>
        BY <1>1, <2>1, ReconnectSchedules
    <2>3. reconnectInterval' = reconnectInterval
        BY <1>3 DEF HandshakeFail, OnError, OnClose
    <2>4. timers' # <<>> \/ reconnectInterval' > MaxInterval
        BY <1>1, <2>2, <2>3 DEF TypeOK
    <2>5. PICK st \in {"closing", "closed"} : sock' = [sock EXCEPT ![s] = st]
        BY <1>3 DEF HandshakeFail, OnError, OnClose
    <2> QED
        BY <1>1, <1>3, <2>2, <2>3, <2>4, <2>5, SocketInv
        DEF HandshakeFail, OnError, OnClose, TypeOK
<1>4. ASSUME NEW s \in 1..Len(sock), Break(s) PROVE LinkInv'
    BY <1>1, <1>4, SocketInv DEF Break, TypeOK
<1>5. ASSUME NEW i \in 1..Len(timers), TimerFire(i) PROVE LinkInv'
    <2>1. timers' \in Seq(1..MaxInterval)
        <3>1. Len(timers) \in Nat /\ \A k \in 1..Len(timers) : timers[k] \in 1..MaxInterval
            BY <1>1, LenProperties, ElementOfSeq DEF TypeOK
        <3>2. /\ SubSeq(timers, 1, i - 1) \in Seq(1..MaxInterval)
              /\ SubSeq(timers, i + 1, Len(timers)) \in Seq(1..MaxInterval)
            BY <3>1, SubSeqProperties
        <3> QED
            BY <1>5, <3>2, ConcatProperties DEF TimerFire, WithoutTimer
    <2>2. /\ sock' \in Seq(ReadyState) /\ Len(sock') = Len(sock) + 1
          /\ sock'[Len(sock) + 1] = "connecting"
        BY <1>1, <1>5, AppendProperties DEF TimerFire, TypeOK
    <2>3. webSocket' = Len(sock') /\ webSocket' \in 1..MaxSockets
        BY <1>1, <1>5, <2>2 DEF TimerFire
    <2>4. announced' \subseteq 1..Len(sock') /\ cut' \subseteq 1..Len(sock')
        BY <1>1, <1>5, <2>2 DEF TimerFire, TypeOK
    <2>5. reconnectInterval' \in Nat \ {0}
        BY <1>1, <1>5 DEF TimerFire, TypeOK
    <2>6. TypeOK'
        BY <1>1, <1>5, <2>1, <2>2, <2>3, <2>4, <2>5 DEF TimerFire, TypeOK
    <2>7. CurrentIsAnnounced'
        BY <2>2, <2>3 DEF CurrentIsAnnounced
    <2>8. NeverSilentlyDisconnected'
        BY <1>1, <2>2 DEF NeverSilentlyDisconnected, Live
    <2> QED
        BY <2>6, <2>7, <2>8 DEF LinkInv
<1>6. CASE Destroy
    <2>1. PICK st \in ReadyState :
              /\ st # "open" /\ (sock[webSocket] # "closed" => st # "closed")
              /\ sock' = [sock EXCEPT ![webSocket] = st]
        <3>1. sock[webSocket] \in ReadyState
            BY <1>1, ElementOfSeq DEF TypeOK
        <3>2. CASE sock[webSocket] = "open"
            BY <1>6, <3>2 DEF Destroy
        <3>3. CASE sock[webSocket] = "connecting"
            BY <1>6, <3>3 DEF Destroy
        <3>4. CASE sock[webSocket] \notin {"open", "connecting"}
            BY <1>6, <3>1, <3>4 DEF Destroy
        <3> QED
            BY <3>2, <3>3, <3>4
    <2>2. webSocket \in 1..Len(sock)
        BY <1>1 DEF TypeOK
    <2>3. /\ sock' \in Seq(ReadyState) /\ Len(sock') = Len(sock)
          /\ \A t \in 1..Len(sock) : sock'[t] = IF t = webSocket THEN st ELSE sock[t]
        BY <1>1, <2>1, <2>2, SockUpdate
    <2>4. TypeOK'
        BY <1>1, <1>6, <2>3 DEF Destroy, TypeOK
    <2>5. CurrentIsAnnounced'
        BY <1>6, <2>1, <2>2, <2>3 DEF Destroy, CurrentIsAnnounced
    <2>6. NeverSilentlyDisconnected'
        <3>1. \A t \in 1..Len(sock) : sock[t] # "closed" => sock'[t] # "closed"
            BY <2>1, <2>3
        <3> QED
            BY <1>6, <2>3, <3>1 DEF Destroy, LinkInv, NeverSilentlyDisconnected, Live
    <2> QED
        BY <2>4, <2>5, <2>6 DEF LinkInv
<1>7. CASE Restart
    <2> DEFINE old == [s \in 1..Len(sock) |-> "closed"]
    <2>1. old \in Seq(ReadyState) /\ Len(old) = Len(sock)
        BY <1>1
    <2>2. /\ sock' \in Seq(ReadyState) /\ Len(sock') = Len(sock) + 1
          /\ sock'[Len(sock) + 1] = "connecting"
        BY <1>7, <2>1, AppendProperties DEF Restart
    <2>3. webSocket' = Len(sock') /\ webSocket' \in 1..MaxSockets
        BY <1>1, <1>7, <2>2 DEF Restart
    <2>4. announced' \subseteq 1..Len(sock') /\ cut' = {}
        BY <1>1, <1>7, <2>2 DEF Restart, TypeOK
    <2>5. timers' \in Seq(1..MaxInterval)
        BY <1>7, EmptySeq DEF Restart
    <2>6. TypeOK'
        BY <1>1, <1>7, <2>2, <2>3, <2>4, <2>5 DEF Restart, TypeOK
    <2>7. CurrentIsAnnounced'
        BY <2>2, <2>3 DEF CurrentIsAnnounced
    <2>8. NeverSilentlyDisconnected'
        BY <1>1, <2>2 DEF NeverSilentlyDisconnected, Live
    <2> QED
        BY <2>6, <2>7, <2>8 DEF LinkInv
<1>8. CASE (\E S \in SUBSET (1..Len(sock)) : Cut(S)) \/ Flap \/ UNCHANGED lvars
    <2>1. UNCHANGED <<sock, webSocket, reconnectInterval, timers, announced, destroyed>>
        BY <1>8 DEF Cut, Flap, lvars
    <2>2. /\ network' \in {"up", "down"} /\ flaps' \in 0..MaxFlaps
          /\ cut' \subseteq 1..Len(sock)
        <3>1. CASE \E S \in SUBSET (1..Len(sock)) : Cut(S)
            <4>1. PICK S \in SUBSET (1..Len(sock)) : Cut(S)
                BY <3>1
            <4> QED
                BY <1>1, <4>1 DEF Cut, TypeOK
        <3>2. CASE Flap
            BY <1>1, <3>2 DEF Flap, TypeOK
        <3>3. CASE UNCHANGED lvars
            BY <1>1, <3>3 DEF lvars, TypeOK
        <3> QED
            BY <1>8, <3>1, <3>2, <3>3
    <2>3. TypeOK'
        BY <1>1, <2>1, <2>2 DEF TypeOK
    <2> QED
        BY <2>1, <2>3 DEF LinkInv, CurrentIsAnnounced, NeverSilentlyDisconnected, Live
<1> QED
    BY <1>2, <1>3, <1>4, <1>5, <1>6, <1>7, <1>8 DEF Next, SocketStep

\* For every back-off limit and any number of attempts, breaks and network
\* changes: the socket replies go out on is announced while it is open, and the
\* merchant stops trying only past the limit.
THEOREM LinkInvariant == Spec => []LinkInv
<1> QED
    BY LinkInit, LinkStep, PTL DEF Spec

\* The current socket is the last one created, within the types.
THEOREM LinkTyped == Spec => []TypeOK
<1>1. LinkInv => TypeOK
    BY DEF LinkInv
<1> QED
    BY <1>1, LinkInvariant, PTL

\* The announcement always reaches the relay on the socket that replies use.
THEOREM CurrentAlwaysAnnounced == Spec => []CurrentIsAnnounced
<1>1. LinkInv => CurrentIsAnnounced
    BY DEF LinkInv
<1> QED
    BY <1>1, LinkInvariant, PTL

\* No path leads to a merchant without sockets and timers below the limit.
THEOREM NeverSilent == Spec => []NeverSilentlyDisconnected
<1>1. LinkInv => NeverSilentlyDisconnected
    BY DEF LinkInv
<1> QED
    BY <1>1, LinkInvariant, PTL
=============================================================================
