----------------------- MODULE MerchantAtRelayProofs -----------------------
(***************************************************************************)
(* Proofs about the merchant at the relay, for every limit and any number  *)
(* of sockets, outages and restarts.                                       *)
(***************************************************************************)
EXTENDS MerchantAtRelay, SequenceTheorems, TLAPS

\* What the merchant sends to the relay.
RegFrame == [event : {"Present", "Remove"}, id : {App}, from : Conn, n : Nat]

ConnState == {"none", "open", "closing", "closed"}

CTypeOK ==
    /\ sock \in Seq(Link!ReadyState)
    /\ webSocket = Len(sock) /\ webSocket \in Conn
    /\ conn \in [Conn -> ConnState]
    /\ inbox \in [Conn -> Seq(RegFrame)]
    /\ sent \in [Conn -> Nat]
    /\ users \in [{App} -> Conn \cup {NoConn}]
    /\ overtaken \in BOOLEAN

\* Unless a socket overtook the frames of an older one, only the current
\* connection has frames queued: none before it opened, announcements while
\* it is open.
QueuedOnCurrent ==
    /\ \A c \in Conn : c # webSocket => inbox[c] = <<>>
    /\ sock[webSocket] = "connecting" => inbox[webSocket] = <<>>
    /\ sock[webSocket] = "open" =>
           \A k \in 1..Len(inbox[webSocket]) : inbox[webSocket][k].event = "Present"

\* A connection open at both ends is registered or about to be.
RegistrationUnderway ==
    Connected => inbox[webSocket] # <<>> \/ users[App] = webSocket

CInv ==
    /\ CTypeOK
    /\ ~overtaken => QueuedOnCurrent /\ RegistrationUnderway

----------------------------------------------------------------------------
(* Types *)

\* A frame that is sent extends the queue of its own connection, if the relay
\* has not given that one up.
LEMMA TransmitEffect ==
    ASSUME CTypeOK, NEW c \in Conn, NEW e \in {"Present", "Remove"}, Transmit(c, e)
    PROVE  /\ UNCHANGED <<conn, users>>
           /\ inbox' \in [Conn -> Seq(RegFrame)] /\ sent' \in [Conn -> Nat]
           /\ \A d \in Conn \ {c} : inbox'[d] = inbox[d]
           /\ \/ inbox'[c] = inbox[c] /\ conn[c] # "open"
              \/ \E f \in RegFrame : f.event = e /\ inbox'[c] = Append(inbox[c], f)
<1>1. CASE conn[c] = "open"
    <2> DEFINE f == [event |-> e, id |-> App, from |-> c, n |-> sent[c] + 1]
    <2>1. /\ sent' = [sent EXCEPT ![c] = @ + 1]
          /\ inbox' = [inbox EXCEPT ![c] = Append(@, f)]
          /\ UNCHANGED <<conn, users>>
        BY <1>1 DEF Transmit, Server!PeerSend
    <2>2. f \in RegFrame /\ f.event = e
        BY DEF CTypeOK, RegFrame
    <2>3. inbox[c] \in Seq(RegFrame) /\ Append(inbox[c], f) \in Seq(RegFrame)
        BY <2>2, AppendProperties DEF CTypeOK
    <2> HIDE DEF f
    <2>4. inbox' \in [Conn -> Seq(RegFrame)]
        BY <2>1, <2>3 DEF CTypeOK
    <2>5. sent' \in [Conn -> Nat]
        BY <2>1 DEF CTypeOK
    <2>6. inbox'[c] = Append(inbox[c], f) /\ \A d \in Conn \ {c} : inbox'[d] = inbox[d]
        BY <2>1 DEF CTypeOK
    <2> QED
        BY <2>1, <2>2, <2>4, <2>5, <2>6
<1>2. CASE conn[c] # "open"
    BY <1>2 DEF Transmit, serverVars, CTypeOK
<1> QED
    BY <1>1, <1>2

\* One socket changes its state.
LEMMA SockStep ==
    ASSUME CTypeOK, NEW s \in 1..Len(sock), NEW st \in Link!ReadyState,
           sock' = [sock EXCEPT ![s] = st]
    PROVE  /\ sock' \in Seq(Link!ReadyState) /\ Len(sock') = Len(sock)
           /\ \A t \in 1..Len(sock) : sock'[t] = IF t = s THEN st ELSE sock[t]
BY ExceptSeq DEF CTypeOK

LEMMA CInit == Init => CInv
<1> SUFFICES ASSUME Init PROVE CInv
    OBVIOUS
<1> USE CompositionAssumption
<1>1. sock = <<"connecting">> /\ webSocket = 1
    BY DEF Init, Link!Init
<1>2. sock \in Seq(Link!ReadyState) /\ Len(sock) = 1 /\ sock[1] = "connecting"
    BY <1>1 DEF Link!ReadyState
<1>3. /\ conn = [c \in Conn |-> "none"] /\ inbox = [c \in Conn |-> <<>>]
      /\ users = [i \in {App} |-> NoConn] /\ sent = [c \in Conn |-> 0]
      /\ overtaken = FALSE
    BY DEF Init, Server!Init
<1>4. inbox \in [Conn -> Seq(RegFrame)]
    BY <1>3, EmptySeq
<1>5. CTypeOK
    <2>1. webSocket = Len(sock) /\ webSocket \in Conn
        BY <1>1, <1>2 DEF Conn
    <2>2. conn \in [Conn -> ConnState] /\ sent \in [Conn -> Nat]
        BY <1>3 DEF ConnState
    <2>3. users \in [{App} -> Conn \cup {NoConn}] /\ overtaken \in BOOLEAN
        BY <1>3
    <2> QED
        BY <1>2, <1>4, <2>1, <2>2, <2>3 DEF CTypeOK
<1>6. QueuedOnCurrent /\ RegistrationUnderway
    BY <1>1, <1>2, <1>3 DEF QueuedOnCurrent, RegistrationUnderway, Connected, Conn
<1> QED
    BY <1>5, <1>6 DEF CInv

----------------------------------------------------------------------------
(* Steps *)

\* A socket of the merchant leaves "connecting" or "open" for good.
LEMMA SocketEnds ==
    ASSUME CInv, NEW s \in 1..Len(sock), NEW st \in {"closing", "aborting", "closed"},
           sock' = [sock EXCEPT ![s] = st],
           UNCHANGED <<webSocket, conn, inbox, users, sent, overtaken>>
    PROVE  CInv'
<1>1. CTypeOK
    BY DEF CInv
<1>2. /\ sock' \in Seq(Link!ReadyState) /\ Len(sock') = Len(sock)
      /\ \A t \in 1..Len(sock) : sock'[t] = IF t = s THEN st ELSE sock[t]
    <2>1. st \in Link!ReadyState
        BY DEF Link!ReadyState
    <2> QED
        BY <1>1, <2>1, SockStep
<1>3. CTypeOK'
    BY <1>1, <1>2 DEF CTypeOK
<1>4. sock'[webSocket] = sock[webSocket] \/ sock'[webSocket] \notin {"connecting", "open"}
    BY <1>1, <1>2, LenProperties DEF CTypeOK
<1> QED
    BY <1>3, <1>4 DEF CInv, QueuedOnCurrent, RegistrationUnderway, Connected

LEMMA OnOpenStep ==
    ASSUME CInv, NEW s \in 1..Len(sock), OnOpen(s) PROVE CInv'
<1>1. CTypeOK /\ webSocket \in 1..Len(sock) /\ Len(sock) \in Nat
    BY LenProperties, CompositionAssumption DEF CInv, CTypeOK, Conn
<1>2. /\ sock[s] = "connecting" /\ sock' = [sock EXCEPT ![s] = "open"]
      /\ UNCHANGED <<webSocket, overtaken>>
    BY DEF OnOpen, Link!OnOpen
<1>3. /\ sock' \in Seq(Link!ReadyState) /\ Len(sock') = Len(sock)
      /\ \A t \in 1..Len(sock) : sock'[t] = IF t = s THEN "open" ELSE sock[t]
    BY <1>1, <1>2, SockStep DEF Link!ReadyState
<1>4. CASE webSocket = s \/ sock[webSocket] = "open"
    <2>1. Transmit(webSocket, "Present")
        BY <1>4 DEF OnOpen
    <2>2. webSocket \in Conn
        BY <1>1 DEF CTypeOK
    <2>3. /\ UNCHANGED <<conn, users>>
          /\ inbox' \in [Conn -> Seq(RegFrame)] /\ sent' \in [Conn -> Nat]
          /\ \A d \in Conn \ {webSocket} : inbox'[d] = inbox[d]
          /\ \/ inbox'[webSocket] = inbox[webSocket] /\ conn[webSocket] # "open"
             \/ \E f \in RegFrame :
                    f.event = "Present" /\ inbox'[webSocket] = Append(inbox[webSocket], f)
        BY <1>1, <2>1, <2>2, TransmitEffect
    <2>4. CTypeOK'
        BY <1>1, <1>2, <1>3, <2>3 DEF CTypeOK
    <2>5. inbox[webSocket] \in Seq(RegFrame)
        BY <1>1, <2>2 DEF CTypeOK
    <2>6. ASSUME ~overtaken PROVE QueuedOnCurrent'
        <3>1. /\ \A c \in Conn : c # webSocket => inbox[c] = <<>>
              /\ \A k \in 1..Len(inbox[webSocket]) : inbox[webSocket][k].event = "Present"
            BY <1>2, <1>4, <2>6 DEF CInv, QueuedOnCurrent
        <3>2. \A k \in 1..Len(inbox'[webSocket]) : inbox'[webSocket][k].event = "Present"
            <4>1. CASE inbox'[webSocket] = inbox[webSocket]
                BY <3>1, <4>1
            <4>2. ASSUME NEW f \in RegFrame, f.event = "Present",
                         inbox'[webSocket] = Append(inbox[webSocket], f)
                  PROVE  \A k \in 1..Len(inbox'[webSocket]) :
                             inbox'[webSocket][k].event = "Present"
                BY <2>5, <3>1, <4>2, AppendProperties, LenProperties
            <4> QED
                BY <2>3, <4>1, <4>2
        <3>3. sock'[webSocket] = "open"
            BY <1>1, <1>3, <1>4
        <3> QED
            BY <1>2, <2>3, <3>1, <3>2, <3>3 DEF QueuedOnCurrent
    <2>7. RegistrationUnderway'
        <3>1. CASE inbox'[webSocket] = inbox[webSocket] /\ conn[webSocket] # "open"
            BY <1>2, <2>3, <3>1 DEF RegistrationUnderway, Connected
        <3>2. ASSUME NEW f \in RegFrame, inbox'[webSocket] = Append(inbox[webSocket], f)
              PROVE  RegistrationUnderway'
            <4>1. inbox'[webSocket] # <<>>
                BY <2>5, <3>2, AppendProperties, LenProperties, EmptySeq
            <4> QED
                BY <1>2, <4>1 DEF RegistrationUnderway
        <3> QED
            BY <2>3, <3>1, <3>2
    <2> QED
        BY <1>2, <2>4, <2>6, <2>7 DEF CInv
<1>5. CASE ~(webSocket = s \/ sock[webSocket] = "open")
    <2>1. UNCHANGED <<conn, inbox, users, sent>>
        BY <1>5 DEF OnOpen, serverVars
    <2>2. CTypeOK'
        BY <1>1, <1>2, <1>3, <2>1 DEF CTypeOK
    <2>3. sock'[webSocket] = sock[webSocket]
        BY <1>1, <1>3, <1>5
    <2> QED
        BY <1>2, <2>1, <2>2, <2>3 DEF CInv, QueuedOnCurrent, RegistrationUnderway, Connected
<1> QED
    BY <1>4, <1>5

\* A new socket starts without frames, and without it counting against the
\* property if older ones have some left.
LEMMA NewSocket ==
    ASSUME CInv, NEW old \in Seq(Link!ReadyState), Len(old) = Len(sock),
           Len(sock) < MaxSockets,
           sock' = Append(old, "connecting"), webSocket' = Len(sock) + 1,
           UNCHANGED <<conn, inbox, users, sent>>, overtaken' = Overtaking
    PROVE  CInv'
<1>1. CTypeOK /\ Len(sock) \in Nat
    BY LenProperties DEF CInv, CTypeOK
<1>2. /\ sock' \in Seq(Link!ReadyState) /\ Len(sock') = Len(sock) + 1
      /\ sock'[Len(sock) + 1] = "connecting"
    BY AppendProperties DEF Link!ReadyState
<1>3. webSocket' = Len(sock') /\ webSocket' \in Conn
    BY <1>1, <1>2, CompositionAssumption DEF Conn
<1>4. overtaken' \in BOOLEAN
    BY <1>1 DEF CTypeOK, Overtaking
<1>5. CTypeOK'
    BY <1>1, <1>2, <1>3, <1>4 DEF CTypeOK
<1>6. ASSUME ~overtaken' PROVE QueuedOnCurrent' /\ RegistrationUnderway'
    <2>1. \A c \in Conn : inbox'[c] = <<>>
        BY <1>6 DEF Overtaking
    <2> QED
        BY <1>2, <1>3, <2>1 DEF QueuedOnCurrent, RegistrationUnderway, Connected
<1> QED
    BY <1>5, <1>6 DEF CInv

LEMMA DestroyStep == ASSUME CInv, Destroy PROVE CInv'
<1>1. CTypeOK /\ webSocket \in 1..Len(sock) /\ webSocket \in Conn /\ Len(sock) \in Nat
    BY LenProperties, CompositionAssumption DEF CInv, CTypeOK, Conn
<1>2. UNCHANGED <<webSocket, overtaken>>
    BY DEF Destroy, Link!Destroy
<1>3. sock[webSocket] \in Link!ReadyState
    BY <1>1, ElementOfSeq DEF CTypeOK
<1>4. CASE sock[webSocket] = "open"
    <2>1. Transmit(webSocket, "Remove") /\ sock' = [sock EXCEPT ![webSocket] = "closing"]
        BY <1>4 DEF Destroy, Link!Destroy
    <2>2. /\ UNCHANGED <<conn, users>>
          /\ inbox' \in [Conn -> Seq(RegFrame)] /\ sent' \in [Conn -> Nat]
          /\ \A d \in Conn \ {webSocket} : inbox'[d] = inbox[d]
        BY <1>1, <2>1, TransmitEffect
    <2>3. /\ sock' \in Seq(Link!ReadyState) /\ Len(sock') = Len(sock)
          /\ sock'[webSocket] = "closing"
        BY <1>1, <2>1, SockStep DEF Link!ReadyState
    <2>4. CTypeOK'
        BY <1>1, <1>2, <2>2, <2>3 DEF CTypeOK
    <2> QED
        BY <1>2, <2>2, <2>3, <2>4
        DEF CInv, QueuedOnCurrent, RegistrationUnderway, Connected
<1>5. CASE sock[webSocket] = "connecting"
    <2>1. UNCHANGED serverVars /\ sock' = [sock EXCEPT ![webSocket] = "aborting"]
        BY <1>5 DEF Destroy, Link!Destroy
    <2> QED
        BY <1>1, <1>2, <2>1, SocketEnds DEF serverVars
<1>6. CASE sock[webSocket] \notin {"open", "connecting"}
    <2>1. UNCHANGED serverVars /\ sock' = [sock EXCEPT ![webSocket] = sock[webSocket]]
        BY <1>6 DEF Destroy, Link!Destroy
    <2>2. sock[webSocket] \in {"closing", "aborting", "closed"}
        BY <1>3, <1>6 DEF Link!ReadyState
    <2> QED
        BY <1>1, <1>2, <2>1, <2>2, SocketEnds DEF serverVars
<1> QED
    BY <1>4, <1>5, <1>6

\* The relay handles a frame of some connection.
LEMMA HandleMessageStep ==
    ASSUME CInv, NEW c \in Conn, Server!HandleMessage(c),
           UNCHANGED <<linkVars, overtaken>>
    PROVE  CInv'
<1>1. CTypeOK /\ webSocket \in Conn
    BY DEF CInv, CTypeOK
<1>2. /\ inbox[c] # <<>> /\ inbox' = [inbox EXCEPT ![c] = Tail(@)]
      /\ UNCHANGED <<conn, sent>>
    BY DEF Server!HandleMessage
<1> DEFINE f == Head(inbox[c])
<1>3. /\ inbox[c] \in Seq(RegFrame) /\ f \in RegFrame /\ Tail(inbox[c]) \in Seq(RegFrame)
      /\ Len(inbox[c]) \in Nat /\ Len(inbox[c]) > 0 /\ f = inbox[c][1]
      /\ Len(Tail(inbox[c])) = Len(inbox[c]) - 1
      /\ \A k \in 1..(Len(inbox[c]) - 1) : Tail(inbox[c])[k] = inbox[c][k + 1]
    BY <1>1, <1>2, HeadTailProperties, LenProperties, EmptySeq DEF CTypeOK
<1>4. f.event \in {"Present", "Remove"} /\ f.id = App
    BY <1>3 DEF RegFrame
<1>5. \/ f.event = "Present" /\ users' = [users EXCEPT ![App] = c]
      \/ f.event = "Remove" /\ users' = [users EXCEPT ![App] = NoConn]
    BY <1>4 DEF Server!HandleMessage, Server!HandlePresentApplicationId,
       Server!HandlePresentRemoveApplicationId, Server!ForwardMessage,
       Server!DropMalformed, Server!Registered, Server!Deregistered
<1>6. CTypeOK'
    <2>1. inbox' \in [Conn -> Seq(RegFrame)]
        BY <1>1, <1>2, <1>3 DEF CTypeOK
    <2>2. users' \in [{App} -> Conn \cup {NoConn}]
        BY <1>1, <1>5 DEF CTypeOK
    <2> QED
        BY <1>1, <1>2, <2>1, <2>2 DEF CTypeOK, linkVars
<1>7. ASSUME ~overtaken PROVE QueuedOnCurrent' /\ RegistrationUnderway'
    <2>1. c = webSocket
        BY <1>2, <1>7 DEF CInv, QueuedOnCurrent
    <2>2. /\ inbox'[c] = Tail(inbox[c])
          /\ \A d \in Conn : d # c => inbox'[d] = inbox[d]
        BY <1>1, <1>2 DEF CTypeOK
    <2>3. QueuedOnCurrent'
        BY <1>2, <1>3, <1>7, <2>1, <2>2 DEF CInv, QueuedOnCurrent, linkVars
    <2>4. sock[webSocket] = "open" => f.event = "Present"
        BY <1>3, <1>7, <2>1 DEF CInv, QueuedOnCurrent
    <2>5. sock[webSocket] = "open" => users'[App] = webSocket
        BY <1>1, <1>5, <2>1, <2>4 DEF CTypeOK
    <2> QED
        BY <1>2, <2>3, <2>5 DEF RegistrationUnderway, Connected, linkVars
<1> QED
    BY <1>6, <1>7 DEF CInv

\* Connections change at the relay's end alone: queues may be cut short and
\* registrations go, but not those of the current connection while it is open.
LEMMA RelaySide ==
    ASSUME CInv, UNCHANGED <<linkVars, overtaken, sent>>,
           conn' \in [Conn -> ConnState],
           inbox' \in [Conn -> Seq(RegFrame)],
           users' \in [{App} -> Conn \cup {NoConn}],
           \A c \in Conn : Len(inbox'[c]) <= Len(inbox[c])
               /\ \A k \in 1..Len(inbox'[c]) : inbox'[c][k] = inbox[c][k],
           conn'[webSocket] = "open" =>
               /\ conn[webSocket] = "open" \/ sock[webSocket] = "connecting"
               /\ inbox'[webSocket] = inbox[webSocket]
               /\ (users[App] = webSocket => users'[App] = webSocket)
    PROVE  CInv'
<1>1. CTypeOK /\ webSocket \in Conn
    BY DEF CInv, CTypeOK
<1>2. CTypeOK'
    BY <1>1 DEF CTypeOK, linkVars
<1>3. ASSUME NEW c \in Conn, inbox[c] = <<>> PROVE inbox'[c] = <<>>
    BY <1>3, LenProperties, EmptySeq
<1>4. ASSUME ~overtaken PROVE QueuedOnCurrent' /\ RegistrationUnderway'
    <2>1. QueuedOnCurrent'
        <3>1. \A k \in 1..Len(inbox'[webSocket]) :
                  k \in 1..Len(inbox[webSocket]) /\ inbox'[webSocket][k] = inbox[webSocket][k]
            BY <1>1, LenProperties DEF CTypeOK
        <3> QED
            BY <1>1, <1>3, <1>4, <3>1 DEF CInv, QueuedOnCurrent, linkVars
    <2>2. RegistrationUnderway'
        BY <1>1, <1>4 DEF CInv, RegistrationUnderway, Connected, linkVars
    <2> QED
        BY <2>1, <2>2
<1> QED
    BY <1>2, <1>4 DEF CInv
LEMMA RelayStep ==
    ASSUME CInv, UNCHANGED <<linkVars, overtaken>>,
           \/ \E s \in 1..Len(sock) : sock[s] = "connecting" /\ Server!Accept(s)
           \/ \E c \in Conn : Server!HandleClose(c)
           \/ \E c \in Conn : \E k \in 0..Len(inbox[c]) : Server!Disconnect(c, k)
           \/ Server!Crash
    PROVE  CInv'
<1>1. CTypeOK /\ webSocket \in Conn /\ Len(sock) \in Conn
    BY DEF CInv, CTypeOK
<1>2. \A c \in Conn : Len(inbox[c]) \in Nat
    BY <1>1, LenProperties DEF CTypeOK
<1> USE DEF ConnState
<1>3. ASSUME NEW s \in 1..Len(sock), sock[s] = "connecting", Server!Accept(s) PROVE CInv'
    <2>1. conn' = [conn EXCEPT ![s] = "open"] /\ UNCHANGED <<inbox, users, sent>>
        BY <1>3 DEF Server!Accept
    <2>2. conn' \in [Conn -> ConnState]
        BY <1>1, <2>1 DEF CTypeOK
    <2>3. conn'[webSocket] = "open" =>
              conn[webSocket] = "open" \/ sock[webSocket] = "connecting"
        BY <1>1, <1>3, <2>1 DEF CTypeOK
    <2> QED
        BY <1>1, <1>2, <2>1, <2>2, <2>3, RelaySide DEF CTypeOK
<1>4. ASSUME NEW c \in Conn, Server!HandleClose(c) PROVE CInv'
    <2>1. /\ conn' = [conn EXCEPT ![c] = "closed"] /\ UNCHANGED <<inbox, sent>>
          /\ users' = [i \in {App} |-> IF users[i] = c THEN NoConn ELSE users[i]]
        BY <1>4 DEF Server!HandleClose, Server!WithoutSocket
    <2>2. conn' \in [Conn -> ConnState] /\ users' \in [{App} -> Conn \cup {NoConn}]
        BY <1>1, <2>1 DEF CTypeOK
    <2>3. conn'[webSocket] = "open" =>
              /\ conn[webSocket] = "open"
              /\ users[App] = webSocket => users'[App] = webSocket
        BY <1>1, <2>1 DEF CTypeOK
    <2> QED
        BY <1>1, <1>2, <2>1, <2>2, <2>3, RelaySide DEF CTypeOK
<1>5. ASSUME NEW c \in Conn, NEW k \in 0..Len(inbox[c]), Server!Disconnect(c, k) PROVE CInv'
    <2>1. /\ conn' = [conn EXCEPT ![c] = "closing"] /\ UNCHANGED <<users, sent>>
          /\ inbox' = [inbox EXCEPT ![c] = SubSeq(@, 1, k)]
        BY <1>5 DEF Server!Disconnect
    <2>2. inbox[c] \in Seq(RegFrame)
        BY <1>1 DEF CTypeOK
    <2>3. /\ SubSeq(inbox[c], 1, k) \in Seq(RegFrame) /\ Len(SubSeq(inbox[c], 1, k)) = k
          /\ \A j \in 1..k : SubSeq(inbox[c], 1, k)[j] = inbox[c][j]
        BY <1>2, <2>2, SubSeqProperties, ElementOfSeq
    <2> DEFINE q == SubSeq(inbox[c], 1, k)
    <2> HIDE DEF q
    <2>4. /\ inbox' \in [Conn -> Seq(RegFrame)]
          /\ inbox'[c] = q /\ \A d \in Conn : d # c => inbox'[d] = inbox[d]
        BY <1>1, <2>1, <2>3 DEF CTypeOK, q
    <2>5. \A d \in Conn : /\ Len(inbox'[d]) <= Len(inbox[d])
                          /\ \A j \in 1..Len(inbox'[d]) : inbox'[d][j] = inbox[d][j]
        BY <1>2, <2>3, <2>4 DEF q
    <2>6. conn' \in [Conn -> ConnState] /\ (conn'[webSocket] = "open" =>
              conn[webSocket] = "open" /\ inbox'[webSocket] = inbox[webSocket])
        BY <1>1, <2>1, <2>4 DEF CTypeOK
    <2> QED
        BY <1>1, <2>1, <2>4, <2>5, <2>6, RelaySide DEF CTypeOK
<1>6. ASSUME Server!Crash PROVE CInv'
    <2>1. /\ conn' = [c \in Conn |-> IF Server!Attached(c) THEN "closed" ELSE conn[c]]
          /\ inbox' = [c \in Conn |-> <<>>]
          /\ users' = [i \in {App} |-> NoConn]
          /\ UNCHANGED sent
        BY <1>6 DEF Server!Crash
    <2>2. /\ conn' \in [Conn -> ConnState] /\ conn'[webSocket] # "open"
          /\ users' \in [{App} -> Conn \cup {NoConn}]
        BY <1>1, <2>1 DEF CTypeOK, Server!Attached
    <2>3. inbox' \in [Conn -> Seq(RegFrame)]
        BY <2>1, EmptySeq
    <2>4. \A c \in Conn : inbox'[c] = <<>> /\ Len(inbox'[c]) = 0
        BY <2>1, EmptySeq
    <2>5. \A d \in Conn : /\ Len(inbox'[d]) <= Len(inbox[d])
                          /\ \A j \in 1..Len(inbox'[d]) : inbox'[d][j] = inbox[d][j]
        BY <1>2, <2>4
    <2> QED
        BY <2>1, <2>2, <2>3, <2>5, RelaySide
<1> QED
    BY <1>3, <1>4, <1>5, <1>6

LEMMA CStep == CInv /\ [Next]_cvars => CInv'
<1> SUFFICES ASSUME CInv, [Next]_cvars PROVE CInv'
    OBVIOUS
<1>1. ASSUME NEW s \in 1..Len(sock), OnOpen(s) PROVE CInv'
    BY <1>1, OnOpenStep
<1>2. ASSUME NEW s \in 1..Len(sock), SocketFails(s) \/ OnClose(s) PROVE CInv'
    <2>1. PICK st \in {"closing", "closed"} : sock' = [sock EXCEPT ![s] = st]
        BY <1>2 DEF SocketFails, OnClose, Link!HandshakeFail, Link!OnError, Link!Break,
           Link!OnClose
    <2>2. UNCHANGED <<webSocket, conn, inbox, users, sent, overtaken>>
        BY <1>2 DEF SocketFails, OnClose, Link!HandshakeFail, Link!OnError, Link!Break,
           Link!OnClose, serverVars
    <2> QED
        BY <2>1, <2>2, SocketEnds
<1>3. ASSUME (\E i \in 1..Len(timers) : TimerFire(i)) \/ Restart PROVE CInv'
    <2>1. PICK old \in {sock, [s \in 1..Len(sock) |-> "closed"]} :
              sock' = Append(old, "connecting")
        BY <1>3 DEF TimerFire, Restart, Link!TimerFire, Link!Restart
    <2>2. old \in Seq(Link!ReadyState) /\ Len(old) = Len(sock)
        BY LenProperties DEF CInv, CTypeOK, Link!ReadyState
    <2>3. /\ Len(sock) < MaxSockets /\ webSocket' = Len(sock) + 1
          /\ UNCHANGED <<conn, inbox, users, sent>> /\ overtaken' = Overtaking
        BY <1>3 DEF TimerFire, Restart, Link!TimerFire, Link!Restart, serverVars
    <2> QED
        BY <2>1, <2>2, <2>3, NewSocket
<1>4. CASE Destroy
    BY <1>4, DestroyStep
<1>5. ASSUME NEW c \in Conn, RelayHandles(c) PROVE CInv'
    BY <1>5, HandleMessageStep, RelayStep DEF RelayHandles
<1>6. ASSUME \/ \E s \in 1..Len(sock) : Accept(s)
             \/ \E c \in Conn : Disconnect(c)
             \/ RelayCrash
      PROVE  CInv'
    BY <1>6, RelayStep DEF Accept, Disconnect, RelayCrash
<1>7. CASE RelayFlaps \/ UNCHANGED cvars
    <2>1. UNCHANGED <<sock, webSocket, conn, inbox, users, sent, overtaken>>
        BY <1>7 DEF RelayFlaps, Link!Flap, Server!Start, cvars, linkVars, serverVars
    <2> QED
        BY <2>1 DEF CInv, CTypeOK, QueuedOnCurrent, RegistrationUnderway, Connected
<1> QED
    BY <1>1, <1>2, <1>3, <1>4, <1>5, <1>6, <1>7 DEF Next

\* For any number of sockets, outages and restarts of either process.
THEOREM CompositionInvariant == Spec => []CInv
<1> QED
    BY CInit, CStep, PTL DEF Spec

\* A connected merchant whose frames are handled is registered on the socket
\* it replies on, unless a socket overtook frames of an older one.
THEOREM CurrentAlwaysRegistered == Spec => []CurrentIsRegistered
<1>1. CInv => CurrentIsRegistered
    BY DEF CInv, RegistrationUnderway, CurrentIsRegistered
<1> QED
    BY <1>1, CompositionInvariant, PTL
----------------------------------------------------------------------------
(* The two halves are what their modules say *)

\* A step of the relay alone, in which connections may end but never come
\* back, is for the merchant the loss of some far ends.
LEMMA RelayCuts ==
    ASSUME CTypeOK, UNCHANGED linkVars,
           \A c \in Conn : conn[c] \in {"closing", "closed"} =>
                               conn'[c] \in {"closing", "closed"}
    PROVE  \E S \in SUBSET (1..Len(sock)) : Link!Cut(S)
<1>1. 1..Len(sock) \subseteq Conn
    BY CompositionAssumption DEF CTypeOK, Conn
<1>2. GivenUp \subseteq GivenUp' /\ GivenUp' \subseteq 1..Len(sock)
    BY <1>1 DEF GivenUp, linkVars
<1>3. GivenUp' \subseteq {s \in 1..Len(sock) : sock[s] \in {"connecting", "open"}}
    BY DEF GivenUp, linkVars
<1>4. GivenUp' = GivenUp \cup GivenUp'
    BY <1>2
<1>5. Link!Cut(GivenUp')
    BY <1>3, <1>4 DEF Link!Cut, linkVars
<1> QED
    BY <1>2, <1>5

LEMMA LinkSimulated == CInv /\ [Next]_cvars => [Link!Next]_(Link!lvars)
<1> SUFFICES ASSUME CInv, [Next]_cvars PROVE [Link!Next]_(Link!lvars)
    OBVIOUS
<1>1. CTypeOK
    BY DEF CInv
<1>2. ASSUME NEW s \in 1..Len(sock), OnOpen(s) \/ SocketFails(s) \/ OnClose(s)
      PROVE  Link!Next
    BY <1>2 DEF OnOpen, SocketFails, OnClose, Link!Next, Link!SocketStep
<1>3. ASSUME (\E i \in 1..Len(timers) : TimerFire(i)) \/ Restart \/ Destroy \/ RelayFlaps
      PROVE  Link!Next
    BY <1>3 DEF TimerFire, Restart, Destroy, RelayFlaps, Link!Next
<1>4. ASSUME \/ \E s \in 1..Len(sock) : Accept(s)
             \/ \E c \in Conn : RelayHandles(c) \/ Disconnect(c)
             \/ RelayCrash
      PROVE  Link!Next
    <2>1. UNCHANGED linkVars
        BY <1>4 DEF Accept, RelayHandles, Disconnect, RelayCrash
    <2>2. \A c \in Conn : conn[c] \in {"closing", "closed"} =>
                              conn'[c] \in {"closing", "closed"}
        <3> DEFINE Ended == \A c \in Conn : conn[c] \in {"closing", "closed"} =>
                                conn'[c] \in {"closing", "closed"}
        <3>1. 1..Len(sock) \subseteq Conn
            BY <1>1, CompositionAssumption DEF CTypeOK, Conn
        <3>2. ASSUME NEW s \in Conn, Server!Accept(s) PROVE Ended
            BY <1>1, <3>2 DEF Server!Accept, CTypeOK
        <3>3. ASSUME NEW c \in Conn, Server!HandleMessage(c) PROVE Ended
            BY <3>3 DEF Server!HandleMessage
        <3>4. ASSUME NEW c \in Conn, Server!HandleClose(c) PROVE Ended
            BY <1>1, <3>4 DEF Server!HandleClose, CTypeOK
        <3>5. ASSUME NEW c \in Conn, NEW k \in 0..Len(inbox[c]), Server!Disconnect(c, k)
              PROVE  Ended
            BY <1>1, <3>5 DEF Server!Disconnect, CTypeOK
        <3>6. ASSUME Server!Crash PROVE Ended
            BY <1>1, <3>6 DEF Server!Crash, Server!Attached, CTypeOK
        <3> QED
            BY <1>4, <3>1, <3>2, <3>3, <3>4, <3>5, <3>6
            DEF Accept, RelayHandles, Disconnect, RelayCrash
    <2> QED
        BY <1>1, <2>1, <2>2, RelayCuts DEF Link!Next
<1>5. CASE UNCHANGED cvars
    BY <1>5 DEF cvars, linkVars, serverVars, Link!lvars, GivenUp
<1> QED
    BY <1>2, <1>3, <1>4, <1>5 DEF Next
LEMMA LinkStarts == Init => Link!Init
BY DEF Init

LEMMA ServerSimulated == CInv /\ [Next]_cvars => [Server!Next]_(Server!vars)
<1> SUFFICES ASSUME CInv, [Next]_cvars PROVE [Server!Next]_(Server!vars)
    OBVIOUS
<1> USE DEF serverVars, Server!vars
<1>1. webSocket \in Conn /\ 1..Len(sock) \subseteq Conn
    BY CompositionAssumption DEF CInv, CTypeOK, Conn
<1>2. ASSUME NEW e \in {"Present", "Remove"}, Transmit(webSocket, e)
      PROVE  [Server!Next]_(Server!vars)
    <2>1. e \in Server!Event /\ App \in {App}
        BY DEF Server!Event
    <2> QED
        BY <1>1, <1>2, <2>1 DEF Transmit, Server!Next
<1>3. ASSUME (\E s \in 1..Len(sock) : OnOpen(s)) \/ Destroy
      PROVE  [Server!Next]_(Server!vars)
    BY <1>2, <1>3 DEF OnOpen, Destroy
<1>4. ASSUME \/ \E s \in 1..Len(sock) : SocketFails(s) \/ OnClose(s)
             \/ \E i \in 1..Len(timers) : TimerFire(i)
             \/ Restart
      PROVE  UNCHANGED serverVars
    BY <1>4 DEF SocketFails, OnClose, TimerFire, Restart
<1>5. ASSUME \/ \E s \in 1..Len(sock) : Accept(s)
             \/ \E c \in Conn : RelayHandles(c) \/ Disconnect(c)
             \/ RelayCrash \/ RelayFlaps
      PROVE  [Server!Next]_(Server!vars)
    BY <1>1, <1>5 DEF Accept, RelayHandles, Disconnect, RelayCrash, RelayFlaps, Server!Next
<1>6. CASE UNCHANGED cvars
    BY <1>6 DEF cvars
<1> QED
    BY <1>3, <1>4, <1>5, <1>6 DEF Next

\* The composition is a merchant as MerchantLink describes it: whatever the
\* relay does is, for the merchant, the loss of some far ends.
THEOREM CompositionImplementsLink == Spec => ImplementsLink
<1>1. Init => Link!Init
    BY DEF Init
<1> QED
    BY <1>1, LinkSimulated, CompositionInvariant, PTL DEF Spec, ImplementsLink, Link!Spec

\* The composition is a relay as SocketServer describes it: the merchant is
\* one of its peers, and its network one of those SocketServer allows.
THEOREM CompositionImplementsServer == Spec => ImplementsServer
<1>1. Init => Server!Init
    BY DEF Init
<1> QED
    BY <1>1, ServerSimulated, CompositionInvariant, PTL
    DEF Spec, ImplementsServer, Server!Spec

=============================================================================
