-------------------------- MODULE MerchantAtRelay --------------------------
(***************************************************************************)
(* The merchant's connection and the relay server together: what the       *)
(* merchant sends when a socket opens or its module is destroyed reaches   *)
(* the relay's handlers some time later, connection by connection, while   *)
(* either process may end and start again and the network comes and goes.  *)
(*                                                                         *)
(* Both halves are the modules of the components, instantiated: the        *)
(* merchant's sockets are the relay's connections, numbered in the order   *)
(* of their creation.  A far end that is gone, an environment choice in    *)
(* MerchantLink, is here what the relay did with its end.                  *)
(***************************************************************************)
EXTENDS Naturals, Sequences

CONSTANTS
    InitialInterval, MaxInterval, MaxSockets, MaxFlaps, \* of MerchantLink
    MaxDestroyed        \* bound: sockets that onModuleDestroy may find current

ASSUME CompositionAssumption ==
    /\ InitialInterval \in Nat \ {0}
    /\ MaxInterval \in Nat /\ InitialInterval <= MaxInterval
    /\ MaxSockets \in Nat \ {0}
    /\ MaxFlaps \in Nat
    /\ MaxDestroyed \in Nat

VARIABLES
    sock, webSocket, reconnectInterval, timers, announced, network, flaps,
    destroyed,                                  \* of MerchantLink
    phase, conn, inbox, outbox, users, sent,    \* of SocketServer
    overtaken   \* history: a socket was created while an older one's frames
                \* were still to be handled by the relay

linkVars == <<sock, webSocket, reconnectInterval, timers, announced, network,
              flaps, destroyed>>
serverVars == <<phase, conn, inbox, outbox, users, sent>>
cvars == <<linkVars, serverVars, overtaken>>

App == "app"
NoConn == 0
Conn == 1..MaxSockets

\* Sockets the merchant still counts on although the relay gave them up.
GivenUp == {s \in 1..Len(sock) :
    sock[s] \in {"connecting", "open"} /\ conn[s] \in {"closing", "closed"}}

Link == INSTANCE MerchantLink WITH cut <- GivenUp

\* Each socket opens once and every opening sends one frame at most, a
\* destroyed module one more: the bound on frames is never reached.
Server == INSTANCE SocketServer WITH CallId <- {App}, MaxSent <- MaxSockets + 1

Init ==
    /\ Server!Init
    /\ Link!Init
    /\ network = "down"
    /\ overtaken = FALSE

----------------------------------------------------------------------------
(* Where the two meet *)

\* sendMessage on a socket of the merchant: lost if the relay gave it up.
Transmit(c, e) ==
    IF conn[c] = "open" THEN Server!PeerSend(c, e, App) ELSE UNCHANGED serverVars

\* The open handler runs on the answer to a handshake the relay accepted, and
\* announces the application on this.webSocket.
OnOpen(s) ==
    /\ conn[s] # "none"
    /\ IF webSocket = s \/ sock[webSocket] = "open"
       THEN Transmit(webSocket, "Present")
       ELSE UNCHANGED serverVars
    /\ Link!OnOpen(s)
    /\ UNCHANGED overtaken

\* onModuleDestroy withdraws the id on an open socket.
Destroy ==
    /\ webSocket <= MaxDestroyed
    /\ IF sock[webSocket] = "open"
       THEN Transmit(webSocket, "Remove")
       ELSE UNCHANGED serverVars
    /\ Link!Destroy
    /\ UNCHANGED overtaken

----------------------------------------------------------------------------
(* Steps of the merchant alone *)

SocketFails(s) ==
    /\ UNCHANGED serverVars
    /\ Link!HandshakeFail(s) \/ Link!OnError(s) \/ Link!Break(s)
    /\ UNCHANGED overtaken

OnClose(s) ==
    /\ UNCHANGED serverVars
    /\ Link!OnClose(s)
    /\ UNCHANGED overtaken

\* A new socket, by the reconnection timer or in a new process.
Overtaking == overtaken \/ \E c \in Conn : inbox[c] # <<>>

TimerFire(i) ==
    /\ UNCHANGED serverVars
    /\ Link!TimerFire(i)
    /\ overtaken' = Overtaking

Restart ==
    /\ UNCHANGED serverVars
    /\ Link!Restart
    /\ overtaken' = Overtaking

----------------------------------------------------------------------------
(* Steps of the relay alone *)

Accept(s) ==
    /\ network = "up"
    /\ sock[s] = "connecting"
    /\ Server!Accept(s)
    /\ UNCHANGED <<linkVars, overtaken>>

RelayHandles(c) ==
    /\ Server!HandleMessage(c) \/ Server!HandleClose(c)
    /\ UNCHANGED <<linkVars, overtaken>>

\* The relay loses or is told the end of a connection, whether or not the
\* merchant's end is still alive.
Disconnect(c) ==
    /\ \E k \in 0..Len(inbox[c]) : Server!Disconnect(c, k)
    /\ UNCHANGED <<linkVars, overtaken>>

\* The relay's process ends; it is out of reach by then.
RelayCrash ==
    /\ network = "down"
    /\ Server!Crash
    /\ UNCHANGED <<linkVars, overtaken>>

\* The relay is reachable only while its process accepts connections.
RelayFlaps ==
    /\ \/ network = "down" /\ Server!Start
       \/ (network = "down" => phase = "up") /\ UNCHANGED serverVars
    /\ Link!Flap
    /\ UNCHANGED overtaken

Next ==
    \/ \E s \in 1..Len(sock) :
           OnOpen(s) \/ SocketFails(s) \/ OnClose(s) \/ Accept(s)
    \/ \E i \in 1..Len(timers) : TimerFire(i)
    \/ Destroy
    \/ Restart
    \/ \E c \in Conn : RelayHandles(c) \/ Disconnect(c)
    \/ RelayCrash
    \/ RelayFlaps

Spec == Init /\ [][Next]_cvars

\* The event loops of both processes, and a handshake that is answered while
\* the relay is reachable.  Nothing is assumed of the network or of restarts.
Fairness ==
    /\ WF_cvars(\E i \in 1..Len(timers) : TimerFire(i))
    /\ \A s \in Conn :
         /\ WF_cvars(s <= Len(sock) /\ Accept(s))
         /\ WF_cvars(s <= Len(sock) /\ (OnOpen(s) \/ OnClose(s)))
         /\ WF_cvars(s <= Len(sock) /\ sock[s] # "open" /\ SocketFails(s))
         /\ WF_cvars(RelayHandles(s))

FairSpec == Spec /\ Fairness

----------------------------------------------------------------------------
(* Properties *)

\* The socket the merchant replies on is open at both ends.
Connected == sock[webSocket] = "open" /\ conn[webSocket] = "open"

\* A merchant that is connected at both ends, with every frame of that
\* connection handled, is the one the relay holds under its id: no earlier
\* connection -- its late frames, its 'close', a withdrawal by the process
\* before this one -- takes the registration away.  It needs that no socket was
\* created while frames of an older one were unhandled; then it may fail.
CurrentIsRegistered ==
    /\ ~overtaken
    /\ Connected
    /\ inbox[webSocket] = <<>>
    => users[App] = webSocket

\* After the last failure, whatever processes ended and started in between,
\* the merchant becomes reachable under its id and stays so, on the socket it
\* replies on: within the back-off limit, unless the module was destroyed for
\* good, and as far as the relay's handling kept up with the reconnections.
ReachableAgain ==
    /\ <>[](network = "up" /\ GivenUp = {} /\ ~destroyed)
    /\ [](reconnectInterval <= MaxInterval /\ Len(sock) < MaxSockets /\ ~overtaken)
    => <>[](Connected /\ users[App] = webSocket)

\* What MerchantLink assumes of the relay is no more than what the relay does.
ImplementsLink == Link!Spec

\* The relay behaves as SocketServer says when this merchant is its peer.
ImplementsServer == Server!Spec
=============================================================================
