-------------------------- MODULE ClientAppProofs --------------------------
(***************************************************************************)
(* Proofs about the client's connections, for any set of servers, every    *)
(* back-off limit, and any number of scans, sockets and breaks.            *)
(***************************************************************************)
EXTENDS ClientApp, SequenceTheorems, TLAPS

Status == {"connecting", "open", "closing", "closed"}

\* Changing the status of one socket leaves everything else about it alone.
LEMMA StatusUpdate ==
    ASSUME TypeOK, NEW s \in 1..Len(sockets), NEW st \in Status,
           sockets' = [sockets EXCEPT ![s].status = st]
    PROVE  /\ sockets' \in Seq(Instance) /\ Len(sockets') = Len(sockets)
           /\ \A t \in 1..Len(sockets) :
                 /\ sockets'[t].url = sockets[t].url
                 /\ sockets'[t].interval = sockets[t].interval
                 /\ sockets'[t].status = IF t = s THEN st ELSE sockets[t].status
<1> DEFINE e == [sockets[s] EXCEPT !.status = st]
<1>1. sockets \in Seq(Instance) /\ sockets[s] \in Instance
    BY ElementOfSeq DEF TypeOK
<1>2. /\ e \in Instance /\ e.url = sockets[s].url
      /\ e.interval = sockets[s].interval /\ e.status = st
    BY <1>1 DEF Instance, Status
<1>3. sockets' = [sockets EXCEPT ![s] = e]
    OBVIOUS
<1>4. /\ sockets' \in Seq(Instance) /\ Len(sockets') = Len(sockets)
      /\ \A t \in 1..Len(sockets) : sockets'[t] = IF t = s THEN e ELSE sockets[t]
    BY <1>1, <1>2, <1>3, ExceptSeq
<1> QED
    BY <1>2, <1>4

\* createWebSocket appends one connecting socket of the first interval.
LEMMA SocketCreated ==
    ASSUME NEW u \in Server, NEW scan \in BOOLEAN, NEW old \in Seq(Instance),
           Len(old) = Len(sockets), CreateWebSocket(u, scan, old)
    PROVE  /\ sockets' \in Seq(Instance) /\ Len(sockets') = Len(sockets) + 1
           /\ Len(sockets') <= MaxSockets
           /\ \A t \in 1..Len(sockets) : sockets'[t] = old[t]
           /\ sockets'[Len(sockets) + 1].url = u
           /\ sockets'[Len(sockets) + 1].interval = InitialInterval
           /\ sockets'[Len(sockets) + 1].status = "connecting"
<1> DEFINE e == [url |-> u, scan |-> scan, interval |-> InitialInterval,
                 status |-> "connecting"]
<1>1. e \in Instance
    BY ClientAssumption DEF Instance
<1>2. sockets' = Append(old, e) /\ Len(sockets) < MaxSockets
    BY DEF CreateWebSocket
<1>3. Len(old) \in Nat
    BY LenProperties
<1> QED
    BY <1>1, <1>2, <1>3, AppendProperties, ClientAssumption

LEMMA ClientInit == Init => ClientInv
<1> SUFFICES ASSUME Init PROVE ClientInv
    OBVIOUS
<1>1. sockets = <<>> /\ sockets \in Seq(Instance) /\ Len(sockets) = 0
    BY EmptySeq DEF Init
<1>2. sent \in Seq([scan : 1..MaxSockets, presented : BOOLEAN])
    BY EmptySeq DEF Init
<1>3. TypeOK
    BY <1>1, <1>2, ClientAssumption DEF Init, TypeOK
<1> QED
    BY <1>1, <1>3 DEF Init, ClientInv, ConnectingUntouched, ServedOrConnecting

\* A connection that breaks: whatever is in the map is scheduled, or something
\* is connecting already.
LEMMA BreakStep ==
    ASSUME ClientInv, running, NEW s \in 1..Len(sockets),
           sockets[s].status \in {"open", "closing"}, NEW st \in {"closing", "closed"},
           sockets' = [sockets EXCEPT ![s].status = st],
           HandleReconnect(sockets[s].url), breaks' \in 0..MaxBreaks,
           UNCHANGED <<running, merchantsModel, sent>>
    PROVE  ClientInv'
<1> DEFINE u0 == sockets[s].url
           i0 == webSockets[u0]
<1>1. TypeOK /\ ConnectingUntouched /\ ServedOrConnecting
    BY DEF ClientInv
<1>2. /\ sockets' \in Seq(Instance) /\ Len(sockets') = Len(sockets)
      /\ \A t \in 1..Len(sockets) :
            /\ sockets'[t].url = sockets[t].url
            /\ sockets'[t].interval = sockets[t].interval
            /\ sockets'[t].status = IF t = s THEN st ELSE sockets[t].status
    <2>1. st \in Status
        BY DEF Status
    <2> QED
        BY <1>1, <2>1, StatusUpdate
<1>3. /\ u0 \in Server /\ i0 \in 0..Len(sockets)
      /\ Len(sockets) \in Nat /\ Len(sockets) <= MaxSockets
      /\ \A t \in 1..Len(sockets) : sockets[t].interval \in Nat
      /\ i0 # 0 => sockets[i0].url = u0 /\ sockets[i0].status # "connecting"
    <2>1. \A t \in 1..Len(sockets) : sockets[t] \in Instance
        BY <1>1, ElementOfSeq DEF TypeOK
    <2> QED
        BY <1>1, <2>1, LenProperties DEF TypeOK, Instance
<1>4. \/ i0 = 0 /\ UNCHANGED <<webSockets, timers>>
      \/ /\ i0 # 0 /\ sockets[i0].interval <= MaxInterval
         /\ timers' = [timers EXCEPT ![i0] = @ + 1] /\ UNCHANGED webSockets
      \/ /\ i0 # 0 /\ sockets[i0].interval > MaxInterval
         /\ webSockets' = [webSockets EXCEPT ![u0] = 0] /\ UNCHANGED timers
    BY DEF HandleReconnect
<1>5. /\ timers' \in [1..MaxSockets -> Nat]
      /\ \A t \in 1..MaxSockets : t # i0 => timers'[t] = timers[t]
      /\ \A t \in 1..MaxSockets : timers[t] > 0 => timers'[t] > 0
      /\ i0 # 0 /\ sockets[i0].interval <= MaxInterval => timers'[i0] > 0
    <2>1. timers \in [1..MaxSockets -> Nat]
        BY <1>1 DEF TypeOK
    <2>2. CASE timers' = timers /\ (i0 = 0 \/ sockets[i0].interval > MaxInterval)
        <3>1. i0 # 0 => ~(sockets[i0].interval <= MaxInterval)
            BY <1>3, <2>2, ClientAssumption
        <3> QED
            BY <2>1, <2>2, <3>1
    <2>3. CASE /\ i0 # 0 /\ sockets[i0].interval <= MaxInterval
               /\ timers' = [timers EXCEPT ![i0] = @ + 1]
        <3>1. i0 \in 1..MaxSockets
            BY <1>3, <2>3, ClientAssumption
        <3>2. timers[i0] \in Nat /\ timers' = [timers EXCEPT ![i0] = timers[i0] + 1]
            BY <2>1, <2>3, <3>1
        <3> QED
            BY <2>1, <3>1, <3>2
    <2> QED
        BY <1>4, <2>2, <2>3
<1>6. /\ webSockets' \in [Server -> 0..Len(sockets)]
      /\ \A u \in Server : webSockets'[u] # webSockets[u] =>
            u = u0 /\ i0 # 0 /\ sockets[i0].interval > MaxInterval /\ webSockets'[u] = 0
    BY <1>1, <1>3, <1>4 DEF TypeOK
<1>7. TypeOK'
    <2>1. ASSUME NEW u \in Server, webSockets'[u] # 0
          PROVE  sockets'[webSockets'[u]].url = u /\ sockets'[webSockets'[u]].status # "connecting"
        <3>1. webSockets'[u] = webSockets[u] /\ webSockets[u] \in 1..Len(sockets)
            BY <1>1, <1>6, <2>1 DEF TypeOK
        <3> QED
            BY <1>1, <1>2, <2>1, <3>1 DEF TypeOK
    <2> QED
        BY <1>1, <1>2, <1>5, <1>6, <2>1 DEF TypeOK
<1>8. ConnectingUntouched'
    <2>1. ASSUME NEW t \in 1..Len(sockets'), sockets'[t].status = "connecting"
          PROVE  sockets'[t].interval = InitialInterval /\ timers'[t] = 0
        <3>1. t \in 1..Len(sockets) /\ sockets[t].status = "connecting"
            BY <1>2, <2>1
        <3>2. t # i0 /\ t \in 1..MaxSockets
            BY <1>3, <3>1, ClientAssumption
        <3>3. sockets[t].interval = InitialInterval /\ timers[t] = 0
            BY <1>1, <3>1 DEF ConnectingUntouched
        <3> QED
            BY <1>2, <1>5, <3>1, <3>2, <3>3
    <2>2. ASSUME NEW t \in 1..MaxSockets, t > Len(sockets') PROVE timers'[t] = 0
        <3>1. t # i0 /\ timers[t] = 0
            BY <1>1, <1>2, <1>3, <2>2, ClientAssumption DEF ConnectingUntouched
        <3> QED
            BY <1>5, <3>1
    <2> QED
        BY <2>1, <2>2 DEF ConnectingUntouched
<1>9. ServedOrConnecting'
    <2>1. SUFFICES ASSUME NEW u \in Server, ~InState(u, {"connecting"})'
                   PROVE  \/ /\ webSockets'[u] # 0
                             /\ sockets'[webSockets'[u]].interval <= MaxInterval
                             /\ \/ sockets'[webSockets'[u]].status \in {"open", "closing"}
                                \/ timers'[webSockets'[u]] > 0
                          \/ /\ webSockets'[u] = 0
                             /\ \A t \in 1..Len(sockets') : sockets'[t].url # u
        BY DEF ServedOrConnecting
    <2>2. ~InState(u, {"connecting"})
        BY <1>2, <2>1 DEF InState
    <2>3. CASE webSockets[u] # 0
        <3>1. /\ webSockets[u] \in 1..Len(sockets)
              /\ sockets[webSockets[u]].interval <= MaxInterval
              /\ \/ sockets[webSockets[u]].status \in {"open", "closing"}
                 \/ timers[webSockets[u]] > 0
            BY <1>1, <2>2, <2>3 DEF ServedOrConnecting, TypeOK
        <3>2. webSockets'[u] = webSockets[u]
            BY <1>3, <1>6, <3>1, ClientAssumption
        <3>3. CASE u = u0
            BY <1>2, <1>5, <3>1, <3>2, <3>3
        <3>4. CASE u # u0
            <4>1. webSockets[u] # s
                BY <1>1, <2>3, <3>4 DEF TypeOK
            <4>2. webSockets[u] \in 1..MaxSockets
                BY <1>3, <3>1, ClientAssumption
            <4> QED
                BY <1>2, <1>5, <3>1, <3>2, <4>1, <4>2
        <3> QED
            BY <3>3, <3>4
    <2>4. CASE webSockets[u] = 0
        <3>1. \A t \in 1..Len(sockets) : sockets[t].url # u
            BY <1>1, <2>2, <2>4 DEF ServedOrConnecting
        <3> QED
            BY <1>2, <1>6, <2>4, <3>1
    <2> QED
        BY <2>3, <2>4
<1> QED
    BY <1>7, <1>8, <1>9 DEF ClientInv

\* A new socket for a server: it is connecting, and the others are as before
\* but for the interval of one that is not connecting.
LEMMA CreateStep ==
    ASSUME ClientInv, NEW u0 \in Server, NEW scan \in BOOLEAN, NEW old \in Seq(Instance),
           Len(old) = Len(sockets), CreateWebSocket(u0, scan, old),
           NEW i \in 0..Len(sockets),
           i # 0 => sockets[i].url = u0 /\ sockets[i].status # "connecting",
           \A t \in 1..Len(sockets) :
              /\ old[t].url = sockets[t].url /\ old[t].status = sockets[t].status
              /\ t # i => old[t].interval = sockets[t].interval,
           timers' \in [1..MaxSockets -> Nat],
           \A t \in 1..MaxSockets : t # i => timers'[t] = timers[t],
           merchantsModel' \in [Server -> 0..(Len(sockets) + 1)],
           UNCHANGED <<running, webSockets, sent, breaks>>
    PROVE  ClientInv'
<1> DEFINE n == Len(sockets) + 1
<1>1. TypeOK /\ ConnectingUntouched /\ ServedOrConnecting /\ Len(sockets) \in Nat
    BY LenProperties DEF ClientInv, TypeOK
<1>2. /\ sockets' \in Seq(Instance) /\ Len(sockets') = n /\ n <= MaxSockets
      /\ \A t \in 1..Len(sockets) :
            /\ sockets'[t].url = sockets[t].url /\ sockets'[t].status = sockets[t].status
            /\ t # i => sockets'[t].interval = sockets[t].interval
      /\ sockets'[n].url = u0 /\ sockets'[n].interval = InitialInterval
      /\ sockets'[n].status = "connecting"
    <2>1. /\ sockets' \in Seq(Instance) /\ Len(sockets') = n /\ n <= MaxSockets
          /\ \A t \in 1..Len(sockets) : sockets'[t] = old[t]
          /\ sockets'[n].url = u0 /\ sockets'[n].interval = InitialInterval
          /\ sockets'[n].status = "connecting"
        BY SocketCreated
    <2> QED
        BY <2>1
<1>3. TypeOK'
    <2>1. webSockets' \in [Server -> 0..Len(sockets')]
        BY <1>1, <1>2 DEF TypeOK
    <2>2. ASSUME NEW u \in Server, webSockets'[u] # 0
          PROVE  sockets'[webSockets'[u]].url = u /\ sockets'[webSockets'[u]].status # "connecting"
        <3>1. webSockets'[u] = webSockets[u] /\ webSockets[u] \in 1..Len(sockets)
            BY <1>1, <2>2 DEF TypeOK
        <3> QED
            BY <1>1, <1>2, <2>2, <3>1 DEF TypeOK
    <2> QED
        BY <1>1, <1>2, <2>1, <2>2 DEF TypeOK
<1>4. ConnectingUntouched'
    <2>a. ASSUME NEW t \in 1..MaxSockets, t > n PROVE timers'[t] = 0
        BY <1>1, <2>a, ClientAssumption DEF ConnectingUntouched
    <2> SUFFICES ASSUME NEW t \in 1..n, sockets'[t].status = "connecting"
                 PROVE  sockets'[t].interval = InitialInterval /\ timers'[t] = 0
        BY <1>2, <2>a DEF ConnectingUntouched
    <2>1. CASE t = n
        <3>1. n \in 1..MaxSockets /\ n > Len(sockets) /\ n # i
            BY <1>1, <1>2, ClientAssumption
        <3>2. timers'[n] = 0
            BY <1>1, <3>1 DEF ConnectingUntouched
        <3> QED
            BY <1>2, <2>1, <3>2
    <2>2. CASE t # n
        <3>1. t \in 1..Len(sockets) /\ t \in 1..MaxSockets
            BY <1>1, <1>2, <2>2, ClientAssumption
        <3>2. sockets[t].status = "connecting" /\ t # i
            BY <1>2, <3>1
        <3>3. sockets[t].interval = InitialInterval /\ timers[t] = 0
            BY <1>1, <3>1, <3>2 DEF ConnectingUntouched
        <3> QED
            BY <1>2, <3>1, <3>2, <3>3
    <2> QED
        BY <2>1, <2>2
<1>5. ServedOrConnecting'
    <2> SUFFICES ASSUME running, NEW u \in Server, ~InState(u, {"connecting"})'
                 PROVE  \/ /\ webSockets'[u] # 0
                           /\ sockets'[webSockets'[u]].interval <= MaxInterval
                           /\ \/ sockets'[webSockets'[u]].status \in {"open", "closing"}
                              \/ timers'[webSockets'[u]] > 0
                        \/ /\ webSockets'[u] = 0
                           /\ \A t \in 1..Len(sockets') : sockets'[t].url # u
        BY DEF ServedOrConnecting
    <2>1. u # u0
        <3>1. n \in 1..Len(sockets')
            BY <1>1, <1>2
        <3> QED
            BY <1>2, <3>1 DEF InState
    <2>2. ~InState(u, {"connecting"})
        <3> SUFFICES ASSUME NEW t \in 1..Len(sockets), sockets[t].url = u,
                            sockets[t].status = "connecting"
                     PROVE  FALSE
            BY DEF InState
        <3>1. t \in 1..Len(sockets') /\ sockets'[t].url = u /\ sockets'[t].status = "connecting"
            BY <1>1, <1>2
        <3> QED
            BY <3>1 DEF InState
    <2>3. CASE webSockets[u] # 0
        <3>1. /\ webSockets[u] \in 1..Len(sockets) /\ sockets[webSockets[u]].url = u
              /\ sockets[webSockets[u]].interval <= MaxInterval
              /\ \/ sockets[webSockets[u]].status \in {"open", "closing"}
                 \/ timers[webSockets[u]] > 0
            BY <1>1, <2>2, <2>3 DEF ServedOrConnecting, TypeOK
        <3>2. webSockets[u] # i /\ webSockets[u] \in 1..MaxSockets
            BY <1>1, <1>2, <2>1, <3>1, ClientAssumption
        <3> QED
            BY <1>2, <3>1, <3>2
    <2>4. CASE webSockets[u] = 0
        <3>1. \A t \in 1..Len(sockets) : sockets[t].url # u
            BY <1>1, <2>2, <2>4 DEF ServedOrConnecting
        <3>2. ASSUME NEW t \in 1..n PROVE sockets'[t].url # u
            <4>1. t \in 1..Len(sockets) \/ t = n
                BY <1>1
            <4> QED
                BY <1>2, <2>1, <3>1, <4>1
        <3> QED
            BY <1>2, <2>4, <3>2
    <2> QED
        BY <2>3, <2>4
<1> QED
    BY <1>3, <1>4, <1>5 DEF ClientInv

LEMMA ClientStep == ClientInv /\ [Next]_cvars => ClientInv'
<1> SUFFICES ASSUME ClientInv, [Next]_cvars PROVE ClientInv'
    OBVIOUS
<1>1. /\ TypeOK /\ ConnectingUntouched /\ ServedOrConnecting
      /\ Len(sockets) \in Nat /\ Len(sockets) <= MaxSockets
      /\ \A t \in 1..Len(sockets) : sockets[t] \in Instance
    BY LenProperties, ElementOfSeq DEF ClientInv, TypeOK
<1>2. ASSUME NEW u \in Server, ScanLink(u) PROVE ClientInv'
    <2>1. merchantsModel' \in [Server -> 0..(Len(sockets) + 1)]
        BY <1>1, <1>2 DEF ScanLink, TypeOK
    <2>2. 0 \in 0..Len(sockets)
        BY <1>1
    <2>3. CreateWebSocket(u, TRUE, sockets) /\ UNCHANGED <<running, webSockets, timers, sent, breaks>>
        BY <1>2 DEF ScanLink
    <2>4. sockets \in Seq(Instance) /\ timers' \in [1..MaxSockets -> Nat]
        BY <1>1, <2>3 DEF TypeOK
    <2> QED
        BY <2>1, <2>2, <2>3, <2>4, CreateStep
<1>3. ASSUME NEW u \in Server, SendSpvData(u) PROVE ClientInv'
    <2> DEFINE m == merchantsModel[u]
               e == [scan |-> m, presented |-> Presented(m)]
    <2>1. m \in 1..MaxSockets
        BY <1>1, <1>3, ClientAssumption DEF SendSpvData, TypeOK
    <2>2. Presented(m) \in BOOLEAN
        BY DEF Presented, Opened
    <2>3. e \in [scan : 1..MaxSockets, presented : BOOLEAN]
        BY <2>1, <2>2
    <2>4. sent' \in Seq([scan : 1..MaxSockets, presented : BOOLEAN])
        BY <1>1, <1>3, <2>3, AppendProperties DEF SendSpvData, TypeOK
    <2>5. TypeOK'
        BY <1>1, <1>3, <2>4 DEF SendSpvData, TypeOK
    <2> QED
        BY <1>1, <1>3, <2>5
        DEF SendSpvData, ClientInv, ConnectingUntouched, ServedOrConnecting, InState
<1>4. ASSUME NEW i \in 1..Len(sockets), TimerFires(i) PROVE ClientInv'
    <2> DEFINE old == [sockets EXCEPT ![i].interval = 2 * @]
               e == [sockets[i] EXCEPT !.interval = 2 * sockets[i].interval]
    <2>1. /\ timers[i] > 0 /\ timers' = [timers EXCEPT ![i] = @ - 1]
          /\ CreateWebSocket(sockets[i].url, FALSE, old)
          /\ UNCHANGED <<running, merchantsModel, webSockets, sent, breaks>>
        BY <1>4 DEF TimerFires
    <2>2. e \in Instance /\ e.url = sockets[i].url /\ e.status = sockets[i].status
        BY <1>1 DEF Instance
    <2>3. /\ old \in Seq(Instance) /\ Len(old) = Len(sockets)
          /\ \A t \in 1..Len(sockets) : old[t] = IF t = i THEN e ELSE sockets[t]
        <3>1. old = [sockets EXCEPT ![i] = e]
            OBVIOUS
        <3>2. sockets \in Seq(Instance)
            BY <1>1 DEF TypeOK
        <3> QED
            BY <2>2, <3>1, <3>2, ExceptSeq
    <2>4. sockets[i].status # "connecting" /\ sockets[i].url \in Server /\ i \in 0..Len(sockets)
        BY <1>1, <2>1 DEF ConnectingUntouched, Instance
    <2>5. /\ timers' \in [1..MaxSockets -> Nat]
          /\ \A t \in 1..MaxSockets : t # i => timers'[t] = timers[t]
        <3>1. i \in 1..MaxSockets /\ timers \in [1..MaxSockets -> Nat]
            BY <1>1, ClientAssumption DEF TypeOK
        <3>2. timers[i] - 1 \in Nat
            BY <2>1, <3>1
        <3> QED
            BY <2>1, <3>1, <3>2
    <2>6. merchantsModel' \in [Server -> 0..(Len(sockets) + 1)]
        BY <1>1, <2>1 DEF TypeOK
    <2>7. \A t \in 1..Len(sockets) :
              /\ old[t].url = sockets[t].url /\ old[t].status = sockets[t].status
              /\ t # i => old[t].interval = sockets[t].interval
        BY <2>2, <2>3
    <2> HIDE DEF old
    <2> QED
        BY <2>1, <2>3, <2>4, <2>5, <2>6, <2>7, CreateStep
<1>5. ASSUME NEW s \in 1..Len(sockets), Opens(s) \/ Fails(s) PROVE ClientInv'
    <2>1. PICK st \in {"open", "closed"} :
              /\ sockets' = [sockets EXCEPT ![s].status = st]
              /\ st = "open" => Opens(s)
              /\ st = "closed" => Fails(s)
        BY <1>5 DEF Opens, Fails
    <2>2. /\ sockets' \in Seq(Instance) /\ Len(sockets') = Len(sockets)
          /\ \A t \in 1..Len(sockets) :
                /\ sockets'[t].url = sockets[t].url
                /\ sockets'[t].interval = sockets[t].interval
                /\ sockets'[t].status = IF t = s THEN st ELSE sockets[t].status
        <3>1. st \in Status
            BY DEF Status
        <3> QED
            BY <1>1, <2>1, <3>1, StatusUpdate
    <2>3. /\ sockets[s].status = "connecting" /\ sockets[s].interval = InitialInterval
          /\ sockets[s].url \in Server
          /\ UNCHANGED <<merchantsModel, timers, sent, breaks>>
        BY <1>1, <1>5 DEF Opens, Fails, ConnectingUntouched, Instance
    <2>4. \/ webSockets' = webSockets /\ ~running'
          \/ /\ webSockets' = [webSockets EXCEPT ![sockets[s].url] = s]
             /\ running' = running /\ st = "open"
        BY <2>1 DEF Opens, Fails
    <2>5. ConnectingUntouched'
        BY <1>1, <2>1, <2>2, <2>3 DEF ConnectingUntouched
    <2>6. webSockets' \in [Server -> 0..Len(sockets')]
        BY <1>1, <2>2, <2>4 DEF TypeOK
    <2>7. ASSUME NEW u \in Server, webSockets'[u] # 0
          PROVE  sockets'[webSockets'[u]].url = u /\ sockets'[webSockets'[u]].status # "connecting"
        <3>1. CASE webSockets'[u] = webSockets[u]
            <4>1. /\ webSockets[u] \in 1..Len(sockets)
                  /\ sockets[webSockets[u]].url = u
                  /\ sockets[webSockets[u]].status # "connecting"
                BY <1>1, <2>7, <3>1 DEF TypeOK
            <4> QED
                BY <2>2, <2>3, <3>1, <4>1
        <3>2. CASE webSockets'[u] # webSockets[u]
            <4>1. u = sockets[s].url /\ webSockets'[u] = s
                BY <1>1, <2>3, <2>4, <3>2 DEF TypeOK
            <4> QED
                BY <2>2, <4>1
        <3> QED
            BY <3>1, <3>2
    <2>8. TypeOK'
        <3>1. running' \in BOOLEAN
            BY <1>1, <1>5 DEF Opens, Fails, TypeOK
        <3> QED
            BY <1>1, <2>2, <2>3, <2>6, <2>7, <3>1 DEF TypeOK
    <2>9. ServedOrConnecting'
        <3> SUFFICES ASSUME running', NEW u \in Server, ~InState(u, {"connecting"})'
                     PROVE  \/ /\ webSockets'[u] # 0
                               /\ sockets'[webSockets'[u]].interval <= MaxInterval
                               /\ \/ sockets'[webSockets'[u]].status \in {"open", "closing"}
                                  \/ timers'[webSockets'[u]] > 0
                            \/ /\ webSockets'[u] = 0
                               /\ \A t \in 1..Len(sockets') : sockets'[t].url # u
            BY DEF ServedOrConnecting
        <3>1. /\ webSockets' = [webSockets EXCEPT ![sockets[s].url] = s]
              /\ running /\ st = "open"
            BY <2>4
        <3>2. CASE u = sockets[s].url
            <4>1. webSockets'[u] = s /\ s # 0
                BY <1>1, <3>1, <3>2 DEF TypeOK
            <4> QED
                BY <2>2, <2>3, <3>1, <4>1, ClientAssumption
        <3>3. CASE u # sockets[s].url
            <4>1. webSockets'[u] = webSockets[u]
                BY <1>1, <3>1, <3>3 DEF TypeOK
            <4>2. ~InState(u, {"connecting"})
                BY <2>2, <3>3 DEF InState
            <4>3. CASE webSockets[u] # 0
                <5>1. /\ webSockets[u] \in 1..Len(sockets) /\ sockets[webSockets[u]].url = u
                      /\ sockets[webSockets[u]].interval <= MaxInterval
                      /\ \/ sockets[webSockets[u]].status \in {"open", "closing"}
                         \/ timers[webSockets[u]] > 0
                    BY <1>1, <3>1, <4>2, <4>3 DEF ServedOrConnecting, TypeOK
                <5>2. webSockets[u] # s
                    BY <3>3, <5>1
                <5> QED
                    BY <2>2, <2>3, <4>1, <5>1, <5>2
            <4>4. CASE webSockets[u] = 0
                BY <1>1, <2>2, <3>1, <4>1, <4>2, <4>4 DEF ServedOrConnecting
            <4> QED
                BY <4>3, <4>4
        <3> QED
            BY <3>2, <3>3
    <2> QED
        BY <2>5, <2>8, <2>9 DEF ClientInv
<1>6. ASSUME NEW s \in 1..Len(sockets), OnError(s) \/ OnClose(s) PROVE ClientInv'
    <2>1. /\ running /\ sockets[s].status \in {"open", "closing"}
          /\ HandleReconnect(sockets[s].url)
          /\ UNCHANGED <<running, merchantsModel, sent>>
        BY <1>6 DEF OnError, OnClose
    <2>2. PICK st \in {"closing", "closed"} : sockets' = [sockets EXCEPT ![s].status = st]
        BY <1>6 DEF OnError, OnClose
    <2>3. breaks' \in 0..MaxBreaks
        BY <1>1, <1>6, ClientAssumption DEF OnError, OnClose, Break, TypeOK
    <2> QED
        BY <2>1, <2>2, <2>3, BreakStep
<1>7. ASSUME NEW s \in 1..Len(sockets), NEW k \in 1..Len(sockets), HandleMessage(s, k)
      PROVE  ClientInv'
    <2>1. running' \in BOOLEAN /\ running
        BY <1>7 DEF HandleMessage, Decrypts
    <2>2. TypeOK'
        BY <1>1, <1>7, <2>1 DEF HandleMessage, TypeOK
    <2> QED
        BY <1>1, <1>7, <2>1, <2>2
        DEF HandleMessage, ClientInv, ConnectingUntouched, ServedOrConnecting, InState
<1>8. CASE UNCHANGED cvars
    BY <1>1, <1>8
    DEF cvars, ClientInv, TypeOK, ConnectingUntouched, ServedOrConnecting, InState
<1> QED
    BY <1>2, <1>3, <1>4, <1>5, <1>6, <1>7, <1>8 DEF Next

\* The invariant is inductive, for any number of servers, scans and breaks.
THEOREM ClientInvariant == Spec => []ClientInv
<1> QED
    BY ClientInit, ClientStep, PTL DEF Spec

LEMMA ServedIsNotStranded == ClientInv => NeverStranded
<1> SUFFICES ASSUME ClientInv, running, NEW s \in 1..Len(sockets)
             PROVE  \/ InState(sockets[s].url, {"connecting", "open", "closing"})
                    \/ Scheduled(sockets[s].url)
    BY DEF NeverStranded
<1> DEFINE u == sockets[s].url
<1>1. u \in Server
    <2>1. sockets \in Seq(Instance)
        BY DEF ClientInv, TypeOK
    <2>2. sockets[s] \in Instance
        BY <2>1, ElementOfSeq
    <2> QED
        BY <2>2 DEF Instance
<1>2. CASE InState(u, {"connecting"})
    BY <1>2 DEF InState
<1>3. CASE ~InState(u, {"connecting"})
    <2>1. /\ webSockets[u] # 0
          /\ \/ sockets[webSockets[u]].status \in {"open", "closing"}
             \/ timers[webSockets[u]] > 0
        BY <1>1, <1>3 DEF ClientInv, ServedOrConnecting
    <2>2. webSockets[u] \in 1..Len(sockets) /\ sockets[webSockets[u]].url = u
        BY <1>1, <2>1, LenProperties DEF ClientInv, TypeOK
    <2> QED
        BY <2>1, <2>2 DEF InState, Scheduled
<1> QED
    BY <1>2, <1>3

\* The client's variables keep their types.
THEOREM ClientTyped == Spec => []TypeOK
<1>1. ClientInv => TypeOK
    BY DEF ClientInv
<1> QED
    BY <1>1, ClientInvariant, PTL

\* A server that was scanned has an attempt under way, or an entry in the map
\* that is alive or scheduled within the limit, for any number of sockets.
THEOREM AlwaysServedOrConnecting == Spec => []ServedOrConnecting
<1>1. ClientInv => ServedOrConnecting
    BY DEF ClientInv
<1> QED
    BY <1>1, ClientInvariant, PTL

\* No client that once scanned a server's code is left without a connection,
\* an attempt or a timer for it while it runs.
THEOREM ClientNeverStranded == Spec => []NeverStranded
<1> QED
    BY ClientInvariant, ServedIsNotStranded, PTL
=============================================================================
