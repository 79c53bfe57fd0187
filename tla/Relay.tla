------------------------------- MODULE Relay -------------------------------
(***************************************************************************)
(* What the relay promises to the merchant and the client behind it: an    *)
(* attached connection may hold application ids, a frame addressed to an   *)
(* id goes to the one connection that holds the id at that moment, and the *)
(* frames of one sender are passed on at most once and in the order they   *)
(* were sent, whoever receives them.  A frame may be lost.                 *)
(* Nothing here says how connections break or how frames are queued.       *)
(***************************************************************************)
EXTENDS Naturals, Sequences

CONSTANTS
    Conn,       \* connections, each a WebSocket object of the server
    CallId,     \* application ids, the keys of the users map
    NoConn,     \* "no entry in the map"
    Frame       \* what is forwarded: records with fields from, n and id

VARIABLES
    attached,   \* connections the relay still knows
    holder,     \* [CallId -> Conn \cup {NoConn}]
    delivered   \* [Conn -> Seq(Frame)]: what was handed to each connection

rvars == <<attached, holder, delivered>>

RInit ==
    /\ attached = {}
    /\ holder = [i \in CallId |-> NoConn]
    /\ delivered = [c \in Conn |-> <<>>]

\* A connection arrives.
Attach(c) ==
    /\ c \notin attached
    /\ attached' = attached \cup {c}
    /\ UNCHANGED <<holder, delivered>>

\* The latest announcement wins: the id moves to the announcing connection.
Announce(i, c) ==
    /\ c \in attached
    /\ holder' = [holder EXCEPT ![i] = c]
    /\ UNCHANGED <<attached, delivered>>

Withdraw(i) ==
    /\ holder' = [holder EXCEPT ![i] = NoConn]
    /\ UNCHANGED <<attached, delivered>>

\* A connection goes, and with it the ids it still holds -- no other id.
Leave(c) ==
    /\ c \in attached
    /\ attached' = attached \ {c}
    /\ holder' = [i \in CallId |-> IF holder[i] = c THEN NoConn ELSE holder[i]]
    /\ UNCHANGED delivered

\* f is newer than every frame of the same sender that was passed on so far.
Fresh(f) ==
    \A d \in Conn : \A k \in 1..Len(delivered[d]) :
        delivered[d][k].from = f.from => delivered[d][k].n < f.n

Pass(f, c) ==
    /\ c \in attached
    /\ holder[f.id] = c
    /\ Fresh(f)
    /\ delivered' = [delivered EXCEPT ![c] = Append(@, f)]
    /\ UNCHANGED <<attached, holder>>

\* The relay process ends: everything it knew is gone.
Reset ==
    /\ attached' = {}
    /\ holder' = [i \in CallId |-> NoConn]
    /\ UNCHANGED delivered

RNext ==
    \/ \E c \in Conn : Attach(c) \/ Leave(c)
    \/ \E i \in CallId, c \in Conn : Announce(i, c)
    \/ \E i \in CallId : Withdraw(i)
    \/ \E f \in Frame, c \in Conn : Pass(f, c)
    \/ Reset

RelaySpec == RInit /\ [][RNext]_rvars
=============================================================================
