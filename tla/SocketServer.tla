---------------------------- MODULE SocketServer ----------------------------
(***************************************************************************)
(* The relay of server/src/app.service.ts: a WebSocket server that keeps a *)
(* map from application id to WebSocket and forwards every frame that is   *)
(* not a (de)registration to the socket its callId names.                  *)
(*                                                                         *)
(* Every handler runs to its end on Node's one thread, so it is one        *)
(* action.  What interleaves are the connections: each has its own queue   *)
(* of frames received but not yet handled, and its 'close' event comes     *)
(* after the last 'message' event that will ever be emitted for it.        *)
(***************************************************************************)
EXTENDS Naturals, Sequences

CONSTANTS
    Conn,       \* WebSocket objects; each connects at most once
    CallId,     \* application ids
    NoConn,     \* users has no entry for the id
    MaxSent     \* bound: frames each peer sends

ASSUME ServerAssumption ==
    /\ NoConn \notin Conn
    /\ MaxSent \in Nat

VARIABLES
    phase,      \* "down" | "up" | "draining" (onModuleDestroy has run)
    conn,       \* [Conn -> "none" | "open" | "closing" | "closed"] readyState
    inbox,      \* [Conn -> Seq(Frame)] received, 'message' not yet emitted
    outbox,     \* [Conn -> Seq(Frame)] accepted by ws.send on an open socket
    users,      \* [CallId -> Conn \cup {NoConn}] the users map
    sent        \* [Conn -> Nat] frames the peer has sent, to number them

vars == <<phase, conn, inbox, outbox, users, sent>>

\* "Data" stands for every event of the default branch of the switch;
\* "Malformed" for text that JSON.parse or message.join throws on.
Event == {"Present", "Remove", "Data", "Malformed"}

Frame == [event : Event, id : CallId, from : Conn, n : 1..MaxSent]

TypeOK ==
    /\ phase \in {"down", "up", "draining"}
    /\ conn \in [Conn -> {"none", "open", "closing", "closed"}]
    /\ inbox \in [Conn -> Seq(Frame)]
    /\ outbox \in [Conn -> Seq(Frame)]
    /\ users \in [CallId -> Conn \cup {NoConn}]
    /\ sent \in [Conn -> 0..MaxSent]

Attached(c) == conn[c] \in {"open", "closing"}

----------------------------------------------------------------------------
(* The map operations *)

Registered(i, c) == [users EXCEPT ![i] = c]

Deregistered(i) == [users EXCEPT ![i] = NoConn]

\* Mutants of WithoutSocket: the entries are set to undefined; the map is
\* cleared; the loop stops at its first match.
UndefinedSocket(c) ==
    [i \in CallId |-> IF users[i] = c THEN "undefined" ELSE users[i]]
ClearedUsers(c) == [i \in CallId |-> NoConn]
WithoutFirstEntry(c) ==
    IF \E i \in CallId : users[i] = c
    THEN [users EXCEPT ![CHOOSE i \in CallId : users[i] = c] = NoConn]
    ELSE users

\* Every entry whose value is this very socket goes; an id that has moved to
\* a newer socket stays.
WithoutSocket(c) ==
    [i \in CallId |-> IF users[i] = c THEN NoConn ELSE users[i]]

\* ws.send on a socket that is not open drops the frame without an exception.
Delivered(c, f) ==
    IF conn[c] = "open" THEN [outbox EXCEPT ![c] = Append(@, f)] ELSE outbox

\* GET status: what checkUserIsOnline answers for an id.
Online(i) == users[i] # NoConn

----------------------------------------------------------------------------
(* The process *)

Init ==
    /\ phase = "down"
    /\ conn = [c \in Conn |-> "none"]
    /\ inbox = [c \in Conn |-> <<>>]
    /\ outbox = [c \in Conn |-> <<>>]
    /\ users = [i \in CallId |-> NoConn]
    /\ sent = [c \in Conn |-> 0]

\* onModuleInit
Start ==
    /\ phase = "down"
    /\ phase' = "up"
    /\ UNCHANGED <<conn, inbox, outbox, users, sent>>

\* onModuleDestroy stops listening; wss.close leaves open sockets as they are.
Destroy ==
    /\ phase = "up"
    /\ phase' = "draining"
    /\ UNCHANGED <<conn, inbox, outbox, users, sent>>

\* The process ends: the map and every socket are in memory only.
Crash ==
    /\ phase # "down"
    /\ phase' = "down"
    /\ conn' = [c \in Conn |-> IF Attached(c) THEN "closed" ELSE conn[c]]
    /\ inbox' = [c \in Conn |-> <<>>]
    /\ users' = [i \in CallId |-> NoConn]
    /\ UNCHANGED <<outbox, sent>>

----------------------------------------------------------------------------
(* The network *)

Accept(c) ==
    /\ phase = "up"
    /\ conn[c] = "none"
    /\ conn' = [conn EXCEPT ![c] = "open"]
    /\ UNCHANGED <<phase, inbox, outbox, users, sent>>

\* A frame of the peer reaches the socket.
PeerSend(c, e, i) ==
    /\ conn[c] = "open"
    /\ sent[c] < MaxSent
    /\ sent' = [sent EXCEPT ![c] = @ + 1]
    /\ inbox' = [inbox EXCEPT
            ![c] = Append(@, [event |-> e, id |-> i, from |-> c, n |-> sent[c] + 1])]
    /\ UNCHANGED <<phase, conn, outbox, users>>

\* The connection breaks or is closed by the peer: the first k of the queued
\* frames are still emitted, the others were never read.
Disconnect(c, k) ==
    /\ conn[c] = "open"
    /\ conn' = [conn EXCEPT ![c] = "closing"]
    /\ inbox' = [inbox EXCEPT ![c] = SubSeq(@, 1, k)]
    /\ UNCHANGED <<phase, outbox, users, sent>>

----------------------------------------------------------------------------
(* The event handlers of a connection *)

\* Mutant: the case has no break and falls through to forwardMessage.
PresentFallsThrough(c, f) ==
    /\ f.event = "Present"
    /\ users' = Registered(f.id, c)
    /\ outbox' = Delivered(c, f)

HandlePresentApplicationId(c, f) ==
    /\ f.event = "Present"
    /\ users' = Registered(f.id, c)
    /\ UNCHANGED outbox

\* The sender is not looked at: whoever names the id removes it.
HandlePresentRemoveApplicationId(c, f) ==
    /\ f.event = "Remove"
    /\ users' = Deregistered(f.id)
    /\ UNCHANGED outbox

\* Mutant: the frame is sent twice.
ForwardTwice(c, f) ==
    /\ f.event = "Data"
    /\ outbox' = IF users[f.id] # NoConn /\ conn[users[f.id]] = "open"
                 THEN [outbox EXCEPT ![users[f.id]] = @ \o <<f, f>>] ELSE outbox
    /\ UNCHANGED users

ForwardMessage(c, f) ==
    /\ f.event = "Data"
    /\ outbox' = IF users[f.id] # NoConn THEN Delivered(users[f.id], f) ELSE outbox
    /\ UNCHANGED users

\* The try/catch around JSON.parse and the switch logs and goes on.
DropMalformed(c, f) ==
    /\ f.event = "Malformed"
    /\ UNCHANGED <<users, outbox>>

HandleMessage(c) ==
    /\ Attached(c)
    /\ inbox[c] # <<>>
    /\ \/ HandlePresentApplicationId(c, Head(inbox[c]))
       \/ HandlePresentRemoveApplicationId(c, Head(inbox[c]))
       \/ ForwardMessage(c, Head(inbox[c]))
       \/ DropMalformed(c, Head(inbox[c]))
    /\ inbox' = [inbox EXCEPT ![c] = Tail(@)]
    /\ UNCHANGED <<phase, conn, sent>>

\* Mutant: the purge was done when the connection broke, not in 'close'.
CloseWithoutPurge(c) ==
    /\ conn[c] = "closing"
    /\ inbox[c] = <<>>
    /\ conn' = [conn EXCEPT ![c] = "closed"]
    /\ UNCHANGED <<phase, inbox, outbox, users, sent>>

\* 'close' follows the last 'message': removeWebSocketFromMaps.
HandleClose(c) ==
    /\ conn[c] = "closing"
    /\ inbox[c] = <<>>
    /\ conn' = [conn EXCEPT ![c] = "closed"]
    /\ users' = WithoutSocket(c)
    /\ UNCHANGED <<phase, inbox, outbox, sent>>

Next ==
    \/ Start
    \/ Destroy
    \/ Crash
    \/ \E c \in Conn : Accept(c)
    \/ \E c \in Conn, e \in Event, i \in CallId : PeerSend(c, e, i)
    \/ \E c \in Conn : \E k \in 0..Len(inbox[c]) : Disconnect(c, k)
    \/ \E c \in Conn : HandleMessage(c)
    \/ \E c \in Conn : HandleClose(c)

Spec == Init /\ [][Next]_vars

\* Node's event loop emits what it has queued; nothing is assumed of peers,
\* the network or the operator.
Fairness == \A c \in Conn : WF_vars(HandleMessage(c)) /\ WF_vars(HandleClose(c))

FairSpec == Spec /\ Fairness

----------------------------------------------------------------------------
(* Properties *)

\* The users map never names a socket whose 'close' has been handled, nor one
\* that never connected: the purge in the close handler is enough although a
\* registration may be handled while the socket is already closing, and moves
\* between sockets.  A frame is then never sent to a dead socket for ever.
NoDanglingRegistration ==
    \A i \in CallId : users[i] # NoConn => Attached(users[i])

\* Frames still queued are numbered above every frame of the same sender
\* that was forwarded: no frame of one sender is forwarded twice or overtakes an
\* earlier one, even when the id it is addressed to moves between sockets.
ForwardedInOrder ==
    \A c, d \in Conn :
        /\ \A k \in 1..Len(outbox[d]), m \in 1..Len(inbox[c]) :
               outbox[d][k].from = c => outbox[d][k].n < inbox[c][m].n
        /\ \A j, k \in 1..Len(outbox[d]) :
               (j < k /\ outbox[d][j].from = outbox[d][k].from)
                   => outbox[d][j].n < outbox[d][k].n

\* What a socket has queued was sent by its own peer, in the order of its
\* numbers.
QueuesNumbered ==
    \A c \in Conn : \A m \in 1..Len(inbox[c]) :
        /\ inbox[c][m].from = c
        /\ inbox[c][m].n <= sent[c]
        /\ \A l \in 1..Len(inbox[c]) : l < m => inbox[c][l].n < inbox[c][m].n

\* Nothing is forwarded that its sender has not sent.
ForwardedWasSent ==
    \A d \in Conn : \A k \in 1..Len(outbox[d]) :
        outbox[d][k].n <= sent[outbox[d][k].from]

\* The inductive invariant: NoDanglingRegistration needs nothing else, the
\* order of forwarding needs the numbering of the queues.
ServerInv ==
    /\ TypeOK
    /\ NoDanglingRegistration
    /\ QueuesNumbered
    /\ ForwardedWasSent
    /\ ForwardedInOrder

\* An id that was online goes offline only by the close of the very socket
\* that holds it, by a Remove frame that names it, or with the process.  The
\* late close of an older socket of the same application never takes the
\* registration its reconnection made.
OnlyHolderCloseEvicts ==
    [][ \A i \in CallId :
          (Online(i) /\ ~Online(i)') =>
            \/ phase' = "down"
            \/ conn[users[i]] = "closing" /\ conn'[users[i]] = "closed"
            \/ \E c \in Conn :
                 /\ inbox[c] # <<>>
                 /\ Head(inbox[c]).event = "Remove" /\ Head(inbox[c]).id = i
                 /\ inbox'[c] = Tail(inbox[c]) ]_vars

\* checkUserIsOnline does not lie for ever: once a socket breaks, the ids it
\* holds are purged and it never comes to hold one again, although frames it
\* had queued may still register it after the break.
StaleRegistrationPurged ==
    \A i \in CallId, c \in Conn : (conn[c] = "closing") ~> [](users[i] # c)

\* The server implements the abstract relay: each handler is one step of it
\* or none.
AbstractRelay == INSTANCE Relay WITH
    attached <- {c \in Conn : Attached(c)}, holder <- users, delivered <- outbox

ImplementsRelay == AbstractRelay!RelaySpec
=============================================================================
