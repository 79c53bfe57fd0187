----------------------------- MODULE ClientApp -----------------------------
(***************************************************************************)
(* The customer's command-line client: scanLink, sendSpvData and replies   *)
(* (client/src/app.service.ts) over its connections to relay servers       *)
(* (client/src/web_socket/web_socket.service.ts), with what of             *)
(* encryption/encryption.service.ts decides whether a reply can be read.   *)
(*                                                                         *)
(* Every createWebSocket makes a new WebSocket.  The handlers of a socket  *)
(* are attached once it has opened and name the server, not the socket:    *)
(* what they reconnect is whatever webSockets holds for that server then.  *)
(* A connection attempt that fails rejects a promise nobody handles, which *)
(* ends the process.                                                       *)
(***************************************************************************)
EXTENDS Naturals, Sequences

CONSTANTS
    Server,             \* addresses of relay servers, each with one merchant
    InitialInterval,    \* initialReconnectInterval
    MaxInterval,        \* maxReconnectInterval, in the same unit
    MaxSockets,         \* bound: WebSocket objects created
    MaxBreaks,          \* bound: connections that break
    MaxSpv              \* bound: SPV data sent

ASSUME ClientAssumption ==
    /\ InitialInterval \in Nat \ {0}
    /\ MaxInterval \in Nat /\ InitialInterval <= MaxInterval
    /\ MaxSockets \in Nat
    /\ MaxBreaks \in Nat
    /\ MaxSpv \in Nat

VARIABLES
    running,        \* FALSE once an unhandled rejection has ended the process
    merchantsModel, \* [Server -> Nat] latest scan for it; 0: none
    sockets,        \* Seq(Instance): every WebSocket created
    webSockets,     \* [Server -> Nat] the instance in the map; 0: none
    timers,         \* [1..MaxSockets -> Nat] reconnections scheduled, by instance
    sent,           \* SPV data sent: the scan it is for, and whether the
                    \* scan's own presentation had been sent by then
    breaks

cvars == <<running, merchantsModel, sockets, webSockets, timers, sent, breaks>>

\* A scan opens a socket of its own and is known by its number; the key pair
\* and iv generated for the scan by the same number.
Instance ==
    [url : Server, scan : BOOLEAN, interval : Nat \ {0},
     status : {"connecting", "open", "closing", "closed"}]

TypeOK ==
    /\ running \in BOOLEAN
    /\ sockets \in Seq(Instance) /\ Len(sockets) <= MaxSockets
    /\ merchantsModel \in [Server -> 0..Len(sockets)]
    /\ webSockets \in [Server -> 0..Len(sockets)]
    /\ timers \in [1..MaxSockets -> Nat]
    /\ sent \in Seq([scan : 1..MaxSockets, presented : BOOLEAN])
    /\ breaks \in 0..MaxBreaks
    \* webSockets holds opened instances only.
    /\ \A u \in Server : webSockets[u] # 0 =>
          sockets[webSockets[u]].url = u /\ sockets[webSockets[u]].status # "connecting"

Init ==
    /\ running = TRUE
    /\ merchantsModel = [u \in Server |-> 0]
    /\ sockets = <<>>
    /\ webSockets = [u \in Server |-> 0]
    /\ timers = [s \in 1..MaxSockets |-> 0]
    /\ sent = <<>>
    /\ breaks = 0

----------------------------------------------------------------------------
(* web_socket.service.ts *)

Opened(s) == s \in 1..Len(sockets) /\ sockets[s].status # "connecting"

\* createWebSocket; the instance enters webSockets when it opens.
CreateWebSocket(u, scan, old) ==
    /\ Len(sockets) < MaxSockets
    /\ sockets' = Append(old, [url |-> u, scan |-> scan, interval |-> InitialInterval,
                               status |-> "connecting"])

\* Mutant of HandleReconnect: the limit itself is too long.
GivesUpAtLimit(u) ==
    LET i == webSockets[u]
    IN  \/ i = 0 /\ UNCHANGED <<webSockets, timers>>
        \/ /\ i # 0 /\ sockets[i].interval < MaxInterval
           /\ timers' = [timers EXCEPT ![i] = @ + 1]
           /\ UNCHANGED webSockets
        \/ /\ i # 0 /\ sockets[i].interval >= MaxInterval
           /\ webSockets' = [webSockets EXCEPT ![u] = 0]
           /\ UNCHANGED timers

\* handleReconnect of the server whose instance i is in webSockets.
HandleReconnect(u) ==
    LET i == webSockets[u]
    IN  \/ i = 0 /\ UNCHANGED <<webSockets, timers>>
        \/ /\ i # 0 /\ sockets[i].interval <= MaxInterval
           /\ timers' = [timers EXCEPT ![i] = @ + 1]
           /\ UNCHANGED webSockets
        \/ /\ i # 0 /\ sockets[i].interval > MaxInterval
           /\ webSockets' = [webSockets EXCEPT ![u] = 0]
           /\ UNCHANGED timers

\* Mutant of TimerFires: the new instance replaces the old one at once.
TimerReplaces(i) ==
    /\ running
    /\ timers[i] > 0
    /\ timers' = [timers EXCEPT ![i] = @ - 1]
    /\ CreateWebSocket(sockets[i].url, FALSE, [sockets EXCEPT ![i].interval = 2 * @])
    /\ webSockets' = [webSockets EXCEPT ![sockets[i].url] = Len(sockets) + 1]
    /\ UNCHANGED <<running, merchantsModel, sent, breaks>>

\* The setTimeout callback.
TimerFires(i) ==
    /\ running
    /\ timers[i] > 0
    /\ timers' = [timers EXCEPT ![i] = @ - 1]
    /\ CreateWebSocket(sockets[i].url, FALSE, [sockets EXCEPT ![i].interval = 2 * @])
    /\ UNCHANGED <<running, merchantsModel, webSockets, sent, breaks>>

\* onopen.  For a scan, handleInput goes on at once: it presents the client's
\* id to the server, and its callId and key to the merchant, on this socket.
Opens(s) ==
    /\ running
    /\ sockets[s].status = "connecting"
    /\ sockets' = [sockets EXCEPT ![s].status = "open"]
    /\ webSockets' = [webSockets EXCEPT ![sockets[s].url] = s]
    /\ UNCHANGED <<running, merchantsModel, timers, sent, breaks>>

Presented(s) == Opened(s) /\ sockets[s].scan

\* onerror before onopen: neither handleInput nor handleReconnect catches it.
Fails(s) ==
    /\ running
    /\ sockets[s].status = "connecting"
    /\ running' = FALSE
    /\ sockets' = [sockets EXCEPT ![s].status = "closed"]
    /\ UNCHANGED <<merchantsModel, webSockets, timers, sent, breaks>>

Break ==
    /\ breaks < MaxBreaks
    /\ breaks' = breaks + 1

\* on('error') of an open connection; its 'close' is still to come.
OnError(s) ==
    /\ running
    /\ sockets[s].status = "open"
    /\ sockets' = [sockets EXCEPT ![s].status = "closing"]
    /\ HandleReconnect(sockets[s].url)
    /\ Break
    /\ UNCHANGED <<running, merchantsModel, sent>>

\* Mutant of OnClose: only the socket webSockets holds is reconnected, and its
\* entry is deleted before handleReconnect looks it up.
CloseDeletes(s) ==
    /\ running
    /\ \/ sockets[s].status = "open" /\ Break
       \/ sockets[s].status = "closing" /\ UNCHANGED breaks
    /\ sockets' = [sockets EXCEPT ![s].status = "closed"]
    /\ webSockets' = [webSockets EXCEPT ![sockets[s].url] = IF @ = s THEN 0 ELSE @]
    /\ UNCHANGED <<running, merchantsModel, timers, sent>>

\* on('close')
OnClose(s) ==
    /\ running
    /\ \/ sockets[s].status = "open" /\ Break
       \/ sockets[s].status = "closing" /\ UNCHANGED breaks
    /\ sockets' = [sockets EXCEPT ![s].status = "closed"]
    /\ HandleReconnect(sockets[s].url)
    /\ UNCHANGED <<running, merchantsModel, sent>>

----------------------------------------------------------------------------
(* app.service.ts *)

\* handleInput("scanLink ..."), up to the await of the connection: the entry
\* of the server is replaced, and a new key pair generated for it.
ScanLink(u) ==
    /\ running
    /\ CreateWebSocket(u, TRUE, sockets)
    /\ merchantsModel' = [merchantsModel EXCEPT ![u] = Len(sockets) + 1]
    /\ UNCHANGED <<running, webSockets, timers, sent, breaks>>

\* handleInput("sendSpvData ..."): for the latest scan, on whatever connection
\* webSockets holds; without an open one the data is dropped.
SendSpvData(u) ==
    /\ running
    /\ Len(sent) < MaxSpv
    /\ merchantsModel[u] # 0
    /\ webSockets[u] # 0 /\ sockets[webSockets[u]].status = "open"
    /\ sent' = Append(sent, [scan |-> merchantsModel[u],
                             presented |-> Presented(merchantsModel[u])])
    /\ UNCHANGED <<running, merchantsModel, sockets, webSockets, timers, breaks>>

\* The OAEP labels: the merchant takes the bytes the iv's hex digits stand
\* for, the client the bytes of the digits.
MerchantLabel(iv) == <<"bytes", iv>>
ClientLabel(iv) == <<"digits", iv>>

Reply(k) == [key |-> k, label |-> MerchantLabel(k)]

\* decryptMyMessages with the key pair and iv of scan k; it throws otherwise.
Decrypts(r, k) == r.key = k /\ r.label = ClientLabel(k)

\* on('message') with a verdict on the data of scan k.  The handler is async,
\* so a reply that cannot be decrypted is a rejection nobody handles.
HandleMessage(s, k) ==
    /\ running
    /\ sockets[s].status = "open" /\ Presented(s)
    /\ Presented(k) /\ \E n \in 1..Len(sent) : sent[n].scan = k
    /\ sockets[s].url = sockets[k].url
    /\ running' = Decrypts(Reply(k), merchantsModel[sockets[s].url])
    /\ UNCHANGED <<merchantsModel, sockets, webSockets, timers, sent, breaks>>

----------------------------------------------------------------------------

Next ==
    \/ \E u \in Server : ScanLink(u) \/ SendSpvData(u)
    \/ \E s \in 1..Len(sockets) :
          TimerFires(s) \/ Opens(s) \/ Fails(s) \/ OnError(s) \/ OnClose(s)
    \/ \E s, k \in 1..Len(sockets) : HandleMessage(s, k)

Spec == Init /\ [][Next]_cvars

\* Attempts end one way or the other, an erroneous connection emits 'close',
\* and Node fires timers that are due.
Fairness ==
    \A s \in 1..MaxSockets :
        /\ WF_cvars(s <= Len(sockets) /\ TimerFires(s))
        /\ WF_cvars(s <= Len(sockets) /\ (Opens(s) \/ Fails(s)))
        /\ WF_cvars(s <= Len(sockets) /\ sockets[s].status = "closing" /\ OnClose(s))

FairSpec == Spec /\ Fairness

----------------------------------------------------------------------------
(* Properties *)

InState(u, st) == \E s \in 1..Len(sockets) : sockets[s].url = u /\ sockets[s].status \in st

Scheduled(u) == \E i \in 1..Len(sockets) : sockets[i].url = u /\ timers[i] > 0

\* A client that was once connected to a server is never left without a
\* connection, an attempt or a timer for it: although handleReconnect deletes
\* the entry when the interval has passed the limit, and ignores servers
\* without an entry, that only happens while another attempt is under way.
NeverStranded ==
    running => \A s \in 1..Len(sockets) :
        InState(sockets[s].url, {"connecting", "open", "closing"}) \/ Scheduled(sockets[s].url)

\* Why: the instance in the map is alive or scheduled and within the limit,
\* unless another attempt is connecting; without one in the map some attempt
\* is connecting, or the server was never scanned.
ServedOrConnecting ==
    running => \A u \in Server :
        LET i == webSockets[u]
        IN  \/ InState(u, {"connecting"})
            \/ /\ i # 0
               /\ sockets[i].interval <= MaxInterval
               /\ sockets[i].status \in {"open", "closing"} \/ timers[i] > 0
            \/ i = 0 /\ \A s \in 1..Len(sockets) : sockets[s].url # u

\* A socket has no timer before it opens, and the interval it was created with.
ConnectingUntouched ==
    /\ \A s \in 1..Len(sockets) : sockets[s].status = "connecting" =>
          sockets[s].interval = InitialInterval /\ timers[s] = 0
    /\ \A s \in 1..MaxSockets : s > Len(sockets) => timers[s] = 0

\* The inductive invariant.
ClientInv == TypeOK /\ ConnectingUntouched /\ ServedOrConnecting

\* After a connection broke the client is connected again, or has ended: it
\* never waits for ever (as long as the bound on sockets is not reached).
ReconnectsOrEnds ==
    [](Len(sockets) < MaxSockets) =>
        \A u \in Server :
            InState(u, {"closing", "closed"}) ~> (~running \/ InState(u, {"open"}))

\* What the README says of the relay, "the server stores the ID and socket
\* related to the presentApplicationID message and sends the message to the
\* client or merchant": a connected client has presented its id on a
\* connection that is open.
ConnectedIsPresented ==
    running => \A u \in Server :
        webSockets[u] # 0 /\ sockets[webSockets[u]].status = "open"
            => \E s \in 1..Len(sockets) :
                  sockets[s].url = u /\ sockets[s].status = "open" /\ Presented(s)

\* What the README says of the key exchange, which comes before the SPV data
\* "to establish secure communication": data is sent for a scan only after
\* the scan's own key and callId.
SpvAfterPresentation == \A n \in 1..Len(sent) : sent[n].presented

\* What the README says of the merchant's answer, sent "using the same
\* encryption method": the client can read it, and goes on.
RepliesAreRead == [][\A s, k \in 1..Len(sockets) : HandleMessage(s, k) => running']_cvars
=============================================================================
