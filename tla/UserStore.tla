----------------------------- MODULE UserStore -----------------------------
(***************************************************************************)
(* What the merchant expects of its user database: users are added with an *)
(* id above all earlier ones and the key generated for them, and the peer  *)
(* a user presents is recorded, each in one indivisible step that leaves   *)
(* every other user as it was.                                             *)
(***************************************************************************)
EXTENDS Naturals, Sequences

CONSTANTS Key, Client, NoClient

VARIABLE store      \* the users, oldest first

SInit == store = <<>>

Added(k) ==
    \E i \in 1..(Len(store) + 1) :
        /\ \A n \in 1..Len(store) : store[n].id < i
        /\ store' = Append(store, [id |-> i, key |-> k, peer |-> NoClient])

Presented(n, c) == store' = [store EXCEPT ![n].peer = c]

SNext ==
    \/ \E k \in Key : Added(k)
    \/ \E n \in 1..Len(store), c \in Client : Presented(n, c)

StoreSpec == SInit /\ [][SNext]_store
=============================================================================
