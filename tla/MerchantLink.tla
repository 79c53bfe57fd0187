---------------------------- MODULE MerchantLink ----------------------------
(***************************************************************************)
(* The merchant's connection to the relay server, and its reconnection:    *)
(* connectWebSocket, handleReconnect, sendMessage and onModuleDestroy of   *)
(* merchant/src/web_socket/web_socket.service.ts.                          *)
(*                                                                         *)
(* Each connection attempt is a new WebSocket whose handlers stay attached *)
(* when this.webSocket is overwritten by the next attempt, so several      *)
(* sockets can be alive while only the last created one is "the" socket.   *)
(* Of the ws package only the order of its events is modelled: a failed    *)
(* handshake emits 'error' and then 'close' in one go, an established      *)
(* connection emits 'close' alone, or 'error' now and 'close' later.       *)
(* A connection fails because the relay cannot be reached, or because its  *)
(* own far end is gone; the merchant's process may also end and start      *)
(* again.                                                                  *)
(***************************************************************************)
EXTENDS Naturals, Sequences

CONSTANTS
    InitialInterval,    \* reconnectInterval after a successful open
    MaxInterval,        \* maxReconnectInterval, in the same unit
    MaxSockets,         \* bound: WebSocket objects created
    MaxFlaps            \* bound: times the network changes

ASSUME LinkAssumption ==
    /\ InitialInterval \in Nat \ {0}
    /\ MaxInterval \in Nat /\ InitialInterval <= MaxInterval
    /\ MaxSockets \in Nat \ {0}
    /\ MaxFlaps \in Nat

VARIABLES
    sock,               \* Seq of readyStates, in order of creation
    webSocket,          \* index of the socket this.webSocket points to
    reconnectInterval,
    timers,             \* Seq of delays: reconnections scheduled, oldest first
    announced,          \* sockets on which PresentApplicationId was last sent
    network,            \* "up" | "down": can the relay be reached
    flaps,              \* how often the network has changed
    cut,                \* sockets whose far end is gone, unnoticed so far
    destroyed           \* onModuleDestroy has run

lvars == <<sock, webSocket, reconnectInterval, timers, announced, network,
           flaps, cut, destroyed>>

\* "aborting": close() was called before the handshake ended.
ReadyState == {"connecting", "open", "closing", "aborting", "closed"}

TypeOK ==
    /\ sock \in Seq(ReadyState)
    /\ webSocket = Len(sock) /\ webSocket \in 1..MaxSockets
    /\ reconnectInterval \in Nat \ {0}
    /\ timers \in Seq(1..MaxInterval)
    /\ announced \subseteq 1..Len(sock)
    /\ network \in {"up", "down"}
    /\ flaps \in 0..MaxFlaps
    /\ cut \subseteq 1..Len(sock)
    /\ destroyed \in BOOLEAN

\* A socket that will still emit 'close'.
Live(s) == sock[s] # "closed"

----------------------------------------------------------------------------
(* Helpers of the service *)

\* Mutants of HandleReconnect: the limit compared with is the initial
\* interval; there is no limit.
LimitedByInitial(n) ==
    IF reconnectInterval <= InitialInterval
    THEN timers' = timers \o [k \in 1..n |-> reconnectInterval]
    ELSE UNCHANGED timers
Unlimited(n) == timers' = timers \o [k \in 1..n |-> reconnectInterval]

\* handleReconnect, run n times in one go: one timer each unless the interval
\* has passed the limit.
HandleReconnect(n) ==
    IF reconnectInterval <= MaxInterval
    THEN timers' = timers \o [k \in 1..n |-> reconnectInterval]
    ELSE UNCHANGED timers

\* Timers of one duration fire in creation order, and a longer one never
\* before a shorter one that was created earlier.
MayFire(i) == \A j \in 1..(i - 1) : timers[j] > timers[i]

\* What lets a connection attempt or an established connection fail.
Failing(s) == network = "down" \/ s \in cut

WithoutTimer(i) == SubSeq(timers, 1, i - 1) \o SubSeq(timers, i + 1, Len(timers))

\* Mutant: the id is announced on the first connection of the process only.
AnnounceOnce(s) ==
    announced' = IF announced = {} THEN {webSocket} ELSE announced

\* The open handler announces the application on this.webSocket -- the socket
\* that opened, or one created after it -- if that one is open by now.
Announce(s) ==
    announced' = IF webSocket = s \/ sock[webSocket] = "open"
                 THEN announced \cup {webSocket} ELSE announced

----------------------------------------------------------------------------
(* Actions *)

\* onModuleInit: connectWebSocket.
Init ==
    /\ sock = <<"connecting">>
    /\ webSocket = 1
    /\ reconnectInterval = InitialInterval
    /\ timers = <<>>
    /\ announced = {}
    /\ network \in {"up", "down"}
    /\ flaps = 0
    /\ cut = {}
    /\ destroyed = FALSE

\* on('open')
OnOpen(s) ==
    /\ sock[s] = "connecting"
    /\ network = "up"
    /\ sock' = [sock EXCEPT ![s] = "open"]
    /\ reconnectInterval' = InitialInterval
    /\ Announce(s)
    /\ UNCHANGED <<webSocket, timers, network, flaps, cut, destroyed>>

\* on('error') and on('close') of an attempt that fails: two reconnections.
HandshakeFail(s) ==
    /\ \/ sock[s] = "connecting" /\ Failing(s)
       \/ sock[s] = "aborting"
    /\ sock' = [sock EXCEPT ![s] = "closed"]
    /\ cut' = cut \ {s}
    /\ HandleReconnect(2)
    /\ UNCHANGED <<webSocket, reconnectInterval, announced, network, flaps, destroyed>>

\* on('error') of an established connection; its 'close' is still to come.
OnError(s) ==
    /\ sock[s] = "open"
    /\ Failing(s)
    /\ sock' = [sock EXCEPT ![s] = "closing"]
    /\ cut' = cut \ {s}
    /\ HandleReconnect(1)
    /\ UNCHANGED <<webSocket, reconnectInterval, announced, network, flaps, destroyed>>

\* An established connection breaks; no handler runs yet.
Break(s) ==
    /\ sock[s] = "open"
    /\ Failing(s)
    /\ sock' = [sock EXCEPT ![s] = "closing"]
    /\ cut' = cut \ {s}
    /\ UNCHANGED <<webSocket, reconnectInterval, timers, announced, network, flaps,
                   destroyed>>

\* on('close')
OnClose(s) ==
    /\ sock[s] = "closing"
    /\ sock' = [sock EXCEPT ![s] = "closed"]
    /\ HandleReconnect(1)
    /\ UNCHANGED <<webSocket, reconnectInterval, announced, network, flaps, cut,
                   destroyed>>

\* The setTimeout callback: connectWebSocket, then the interval doubles.
TimerFire(i) ==
    /\ MayFire(i)
    /\ Len(sock) < MaxSockets
    /\ timers' = WithoutTimer(i)
    /\ sock' = Append(sock, "connecting")
    /\ webSocket' = Len(sock) + 1
    /\ reconnectInterval' = 2 * reconnectInterval
    /\ UNCHANGED <<announced, network, flaps, cut, destroyed>>

\* onModuleDestroy: withdraw the id on the current socket and close it.  Its
\* handlers stay, and older sockets and pending timers are left alone.
Destroy ==
    /\ ~destroyed
    /\ destroyed' = TRUE
    /\ announced' = IF sock[webSocket] = "open" THEN announced \ {webSocket} ELSE announced
    /\ sock' = [sock EXCEPT ![webSocket] =
            CASE @ = "open" -> "closing"
              [] @ = "connecting" -> "aborting"
              [] OTHER -> @]
    /\ cut' = cut \ {webSocket}
    /\ UNCHANGED <<webSocket, reconnectInterval, timers, network, flaps>>

\* The process ends and starts again, with onModuleInit and field values of
\* its own: every socket and timer of the old one is gone.
Restart ==
    /\ Len(sock) < MaxSockets
    /\ sock' = Append([s \in 1..Len(sock) |-> "closed"], "connecting")
    /\ webSocket' = Len(sock) + 1
    /\ reconnectInterval' = InitialInterval
    /\ timers' = <<>>
    /\ cut' = {}
    /\ destroyed' = FALSE
    /\ UNCHANGED <<announced, network, flaps>>

\* The far ends of some connections go: the relay's process ends, or closes
\* them, or what is between forgets them.
Cut(S) ==
    /\ S \subseteq {s \in 1..Len(sock) : sock[s] \in {"connecting", "open"}}
    /\ cut' = cut \cup S
    /\ UNCHANGED <<sock, webSocket, reconnectInterval, timers, announced, network,
                   flaps, destroyed>>

\* The relay becomes reachable or unreachable.
Flap ==
    /\ flaps < MaxFlaps
    /\ flaps' = flaps + 1
    /\ network' = IF network = "up" THEN "down" ELSE "up"
    /\ UNCHANGED <<sock, webSocket, reconnectInterval, timers, announced, cut,
                   destroyed>>

SocketStep(s) ==
    OnOpen(s) \/ HandshakeFail(s) \/ OnError(s) \/ Break(s) \/ OnClose(s)

Next ==
    \/ \E s \in 1..Len(sock) : SocketStep(s)
    \/ \E i \in 1..Len(timers) : TimerFire(i)
    \/ Destroy
    \/ Restart
    \/ \E S \in SUBSET (1..Len(sock)) : Cut(S)
    \/ Flap

Spec == Init /\ [][Next]_lvars

\* An attempt ends one way or the other, a broken connection emits 'close',
\* and Node fires timers that are due.  Nothing is assumed of the network, nor
\* that an established connection whose far end is gone is ever noticed: the
\* code has no heartbeat.
Fairness ==
    /\ WF_lvars(\E i \in 1..Len(timers) : TimerFire(i))
    /\ \A s \in 1..MaxSockets :
         WF_lvars(s <= Len(sock) /\ (OnOpen(s) \/ HandshakeFail(s) \/ OnClose(s)))

FairSpec == Spec /\ Fairness

----------------------------------------------------------------------------
(* Properties *)

\* While the socket replies go out on is open, the application's id has been
\* announced on that very socket -- although the open handler of any of the
\* sockets announces on whichever is current at that moment.
CurrentIsAnnounced == sock[webSocket] = "open" => webSocket \in announced

\* The merchant is never left disconnected without a reason: as long as no
\* attempt is pending and no socket is alive, the back-off limit was passed.
NeverSilentlyDisconnected ==
    (\A s \in 1..Len(sock) : ~Live(s)) /\ timers = <<>> => reconnectInterval > MaxInterval

\* The two parts do not support each other: each is inductive with the types.
LinkInv == TypeOK /\ CurrentIsAnnounced /\ NeverSilentlyDisconnected

\* Once the relay stays reachable, the merchant ends up announced on an open
\* current socket and stays so, whatever happened before -- provided dead
\* connections are noticed and the back-off limit was never passed (and the
\* bound on sockets not reached).
ReconnectsWhenReachable ==
    /\ <>[](network = "up" /\ cut = {})
    /\ [](reconnectInterval <= MaxInterval /\ Len(sock) < MaxSockets)
    => <>[](sock[webSocket] = "open" /\ webSocket \in announced)

\* What the project's README says of the setup, "The ID is announced to the
\* socket server during setup": a merchant that is connected and has nothing
\* pending is announced on a connection that is open.
ConnectedIsAnnounced ==
    /\ ~destroyed
    /\ timers = <<>>
    /\ \A s \in 1..Len(sock) : sock[s] \in {"open", "closed"}
    /\ \E s \in 1..Len(sock) : sock[s] = "open"
    => \E s \in 1..Len(sock) : sock[s] = "open" /\ s \in announced

\* What the comment "Exponential backoff" in handleReconnect says: each
\* attempt that is scheduled waits longer than the ones scheduled before it.
BackoffGrows ==
    \A i, j \in 1..Len(timers) : i < j => timers[i] < timers[j]
=============================================================================
