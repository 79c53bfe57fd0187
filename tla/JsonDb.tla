------------------------------- MODULE JsonDb -------------------------------
(***************************************************************************)
(* The merchant's user database, merchant/src/json-db/json-db.service.ts:  *)
(* one JSON file that every call reads whole and, to change it, writes     *)
(* whole.  There is no lock and no cache: between the await of the read,   *)
(* the truncation fs.writeFile starts with and the write itself, the calls *)
(* of other requests run.  Failures of the file system are swallowed.      *)
(*                                                                         *)
(* A Task is one request the merchant handles; its calls to the database   *)
(* follow each other: create, or findOne and perhaps update.               *)
(***************************************************************************)
EXTENDS Naturals, Sequences, FiniteSets

CONSTANTS
    Task,       \* requests; a bound on how many are in flight at once
    Key,        \* key pairs generateEncryptionKey can return, each once
    Client,     \* what a client presents: callId, public key and iv
    NoClient,   \* the empty callId and public key of a new user
    MaxId,      \* bound: ids a request may name
    MaxFaults   \* bound: failing file operations and restarts

ASSUME DbAssumption ==
    /\ NoClient \notin Client
    /\ MaxId \in Nat
    /\ MaxFaults \in Nat

VARIABLES
    file,       \* [users, size]: <<>> if missing, truncated or unparsable
    pc,         \* [Task -> Pc]
    op,         \* [Task -> Op] the call the task is in
    user,       \* [Task -> User] argument, then result of the call
    snap,       \* [Task -> Seq(User)] the array the call is about to write
    keys,       \* keys generated so far
    created,    \* history: the users create has handed out
    faults

dbvars == <<file, pc, op, user, snap, keys, created, faults>>

User == [id : Nat, key : Key, peer : Client \cup {NoClient}]

\* "read" | "open" | "write": the file operation awaited; "found" | "done" |
\* "missing": the promise is resolved with a user, resolved, or null/rejected.
Pc == {"idle", "read", "open", "write", "found", "done", "missing"}
Op == {"none", "create", "findOne", "update"}

TypeOK ==
    /\ file \in [users : Seq(User), size : Nat]
    /\ pc \in [Task -> Pc]
    /\ op \in [Task -> Op]
    /\ user \in [Task -> User \cup {NoClient}]
    /\ snap \in [Task -> Seq(User)]
    /\ keys \subseteq Key
    /\ created \subseteq User
    /\ faults \in 0..MaxFaults

----------------------------------------------------------------------------
(* Files *)

Missing == [users |-> <<>>, size |-> 0]

\* Length of the JSON text: a user that has presented itself takes more room,
\* though less than one more user.
Size(us) == 5 * Len(us) + Cardinality({n \in 1..Len(us) : us[n].peer # NoClient})

\* fs.writeFile after its truncation writes from the start of the file: what
\* another call wrote there in the meantime stays if it reaches further, and
\* then the text is no longer JSON.
Written(us) ==
    IF file.size <= Size(us) THEN [users |-> us, size |-> Size(us)]
    ELSE [users |-> <<>>, size |-> file.size]

\* Mutants of NextId: the length is used; the last id is given out again.
NextIdByLength(us) == Len(us)
NextIdRepeats(us) == IF us = <<>> THEN 1 ELSE us[Len(us)].id

NextId(us) == IF us = <<>> THEN 1 ELSE us[Len(us)].id + 1

\* find and findIndex: the first user with the id.
IsFirst(us, n, i) == us[n].id = i /\ \A m \in 1..(n - 1) : us[m].id # i

----------------------------------------------------------------------------
(* Calls *)

Init ==
    /\ file = Missing
    /\ pc = [t \in Task |-> "idle"]
    /\ op = [t \in Task |-> "none"]
    /\ user = [t \in Task |-> NoClient]
    /\ snap = [t \in Task |-> <<>>]
    /\ keys = {}
    /\ created = {}
    /\ faults = 0

\* Every call starts by awaiting readJsonFile.
Call(t, o, u) ==
    /\ pc' = [pc EXCEPT ![t] = "read"]
    /\ op' = [op EXCEPT ![t] = o]
    /\ user' = [user EXCEPT ![t] = u]
    /\ UNCHANGED <<file, snap, created, faults>>

\* create: the caller passes a new key pair; the id comes later.
Create(t, k) ==
    /\ pc[t] = "idle"
    /\ k \notin keys
    /\ keys' = keys \cup {k}
    /\ Call(t, "create", [id |-> 0, key |-> k, peer |-> NoClient])

\* findOne: only the id of the argument is used, the rest is a placeholder.
FindOne(t, i) ==
    /\ pc[t] = "idle"
    /\ \E k \in Key : Call(t, "findOne", [id |-> i, key |-> k, peer |-> NoClient])
    /\ UNCHANGED keys

\* update is called with the whole user findOne returned, the peer set in it.
Update(t, c) ==
    /\ pc[t] = "found"
    /\ Call(t, "update", [user[t] EXCEPT !.peer = c])
    /\ UNCHANGED keys

----------------------------------------------------------------------------
(* The continuation after the read *)

\* Mutant of CreateAfterRead: the id is given to a copy, the caller's user keeps 0.
CreateIdsCopy(t, us) ==
    /\ op[t] = "create"
    /\ snap' = [snap EXCEPT ![t] = Append(us, [user[t] EXCEPT !.id = NextId(us)])]
    /\ created' = created \cup {user[t]}
    /\ pc' = [pc EXCEPT ![t] = "open"]
    /\ UNCHANGED user

CreateAfterRead(t, us) ==
    /\ op[t] = "create"
    /\ LET u == [user[t] EXCEPT !.id = NextId(us)]
       IN  /\ user' = [user EXCEPT ![t] = u]
           /\ snap' = [snap EXCEPT ![t] = Append(us, u)]
           /\ created' = created \cup {u}
    /\ pc' = [pc EXCEPT ![t] = "open"]

FindOneAfterRead(t, us) ==
    /\ op[t] = "findOne"
    /\ \/ \E n \in 1..Len(us) :
            /\ IsFirst(us, n, user[t].id)
            /\ user' = [user EXCEPT ![t] = us[n]]
            /\ pc' = [pc EXCEPT ![t] = "found"]
       \/ /\ \A n \in 1..Len(us) : us[n].id # user[t].id
          /\ pc' = [pc EXCEPT ![t] = "missing"]
          /\ UNCHANGED user
    /\ UNCHANGED <<snap, created>>

\* Mutant of UpdateAfterRead: only the fields update is about are stored.
UpdateStoresPart(t, us) ==
    /\ op[t] = "update"
    /\ \E n \in 1..Len(us) :
          /\ IsFirst(us, n, user[t].id)
          /\ snap' = [snap EXCEPT ![t] = [us EXCEPT ![n] =
                                            [id |-> user[t].id, peer |-> user[t].peer]]]
    /\ pc' = [pc EXCEPT ![t] = "open"]
    /\ UNCHANGED <<user, created>>

\* Mutant of UpdateAfterRead: the old user is spread over the new one.
UpdateKeepsOld(t, us) ==
    /\ op[t] = "update"
    /\ \E n \in 1..Len(us) :
          /\ IsFirst(us, n, user[t].id)
          /\ snap' = [snap EXCEPT ![t] = us]
    /\ pc' = [pc EXCEPT ![t] = "open"]
    /\ UNCHANGED <<user, created>>

\* The spread of the new user over the old one takes every field of the new.
UpdateAfterRead(t, us) ==
    /\ op[t] = "update"
    /\ \/ \E n \in 1..Len(us) :
            /\ IsFirst(us, n, user[t].id)
            /\ snap' = [snap EXCEPT ![t] = [us EXCEPT ![n] = user[t]]]
            /\ pc' = [pc EXCEPT ![t] = "open"]
       \/ /\ \A n \in 1..Len(us) : us[n].id # user[t].id
          /\ pc' = [pc EXCEPT ![t] = "missing"]
          /\ UNCHANGED snap
    /\ UNCHANGED <<user, created>>

AfterRead(t, us) ==
    /\ pc[t] = "read"
    /\ \/ CreateAfterRead(t, us)
       \/ FindOneAfterRead(t, us)
       \/ UpdateAfterRead(t, us)
    /\ UNCHANGED <<file, op, keys>>

ReadFile(t) == AfterRead(t, file.users) /\ UNCHANGED faults

Fault ==
    /\ faults < MaxFaults
    /\ faults' = faults + 1

\* The read fails, or the file grew between the stat and the read of it, so
\* that its text is cut short: readJsonFile logs and returns [].
ReadFails(t) == AfterRead(t, <<>>) /\ Fault

----------------------------------------------------------------------------
(* fs.writeFile *)

TruncateFile(t) ==
    /\ pc[t] = "open"
    /\ file' = Missing
    /\ pc' = [pc EXCEPT ![t] = "write"]
    /\ UNCHANGED <<op, user, snap, keys, created, faults>>

WriteFile(t) ==
    /\ pc[t] = "write"
    /\ file' = Written(snap[t])
    /\ pc' = [pc EXCEPT ![t] = "done"]
    /\ UNCHANGED <<op, user, snap, keys, created, faults>>

\* The open or the write fails: writeJsonFile logs, its caller sees success.
WriteFails(t) ==
    /\ pc[t] \in {"open", "write"}
    /\ pc' = [pc EXCEPT ![t] = "done"]
    /\ Fault
    /\ UNCHANGED <<file, op, user, snap, keys, created>>

FileStep(t) ==
    ReadFile(t) \/ ReadFails(t) \/ TruncateFile(t) \/ WriteFile(t) \/ WriteFails(t)

\* The request is over.
Finish(t) ==
    /\ pc[t] \in {"found", "done", "missing"}
    /\ pc' = [pc EXCEPT ![t] = "idle"]
    /\ op' = [op EXCEPT ![t] = "none"]
    /\ user' = [user EXCEPT ![t] = NoClient]
    /\ snap' = [snap EXCEPT ![t] = <<>>]
    /\ UNCHANGED <<file, keys, created, faults>>

\* The merchant restarts: what was in flight is lost; the file stays, or is
\* deleted with the build directory it lies in (deleteOutDir).
Restart ==
    /\ Fault
    /\ pc' = [t \in Task |-> "idle"]
    /\ op' = [t \in Task |-> "none"]
    /\ user' = [t \in Task |-> NoClient]
    /\ snap' = [t \in Task |-> <<>>]
    /\ file' \in {file, Missing}
    /\ UNCHANGED <<keys, created>>

Next ==
    \/ \E t \in Task, k \in Key : Create(t, k)
    \/ \E t \in Task, i \in 1..MaxId : FindOne(t, i)
    \/ \E t \in Task, c \in Client : Update(t, c)
    \/ \E t \in Task : FileStep(t) \/ Finish(t)
    \/ Restart

Spec == Init /\ [][Next]_dbvars

----------------------------------------------------------------------------
(* Properties *)

Increasing(us) ==
    /\ \A n \in 1..Len(us) : us[n].id >= 1
    /\ \A m, n \in 1..Len(us) : m < n => us[m].id < us[n].id

\* Whatever calls overlap and whatever fails, the file and every array about
\* to be written hold each id at most once, in increasing order: find returns
\* the only user with the id, and the last user's id is the largest.
IdsIncreasing ==
    /\ Increasing(file.users)
    /\ \A t \in Task : Increasing(snap[t])

Origin(u, users) == \E v \in users : v.id = u.id /\ v.key = u.key

\* Overwriting, resurrecting and losing users never mixes two of them: each
\* stored user has the id and the key that create handed out together.
StoredAsCreated ==
    /\ \A n \in 1..Len(file.users) : Origin(file.users[n], created)
    /\ \A t \in Task : \A n \in 1..Len(snap[t]) : Origin(snap[t][n], created)

\* The inductive invariant: a user a handler holds comes from an array that was
\* read, so updating with it brings nothing new into the file.
HeldAsCreated ==
    \A t \in Task :
        /\ pc[t] \in {"read", "found"} => user[t] \in User
        /\ pc[t] = "found" \/ op[t] = "update" => Origin(user[t], created)

DbInv == TypeOK /\ IdsIncreasing /\ StoredAsCreated /\ HeldAsCreated

\* Requests that do not overlap, on a file system that does not fail, see a
\* store that changes atomically.  The write is under way from its truncation
\* on, and counts from there.
Store ==
    IF \E t \in Task : pc[t] = "write" THEN snap[CHOOSE t \in Task : pc[t] = "write"]
    ELSE file.users

AtomicStore == INSTANCE UserStore WITH store <- Store

SerialCallsAreAtomic == AtomicStore!StoreSpec

\* The inductive invariant of that: ids count the users from one, what a request
\* holds is in the file, and what it is about to write is one step from it.
Serial == (\A s, t \in Task : s = t) /\ MaxFaults = 0

Numbered(us) == \A n \in 1..Len(us) : us[n].id = n

OneStep(us, next) ==
    \/ \E k \in Key :
          next = Append(us, [id |-> Len(us) + 1, key |-> k, peer |-> NoClient])
    \/ \E n \in 1..Len(us), c \in Client : next = [us EXCEPT ![n].peer = c]

SerialInv ==
    /\ Numbered(file.users)
    /\ \A t \in Task :
          /\ Numbered(snap[t])
          /\ pc[t] = "read" /\ op[t] = "create" => user[t].peer = NoClient
          /\ pc[t] = "read" /\ op[t] = "update" =>
                \E n \in 1..Len(file.users), c \in Client :
                   user[t] = [file.users[n] EXCEPT !.peer = c]
          /\ pc[t] = "found" => \E n \in 1..Len(file.users) : user[t] = file.users[n]
          /\ pc[t] = "open" => OneStep(file.users, snap[t])
          /\ pc[t] = "write" => file = Missing

\* What the README says of the id in a frame, "O you on the other side who
\* knows me through it": no two QR codes carry the same id.  Overlapping requests
\* break it; requests one after the other on a sound file system keep it.
IssuedIdsUnique == \A u, v \in created : u.id = v.id => u = v

\* Its inductive invariant: no id was handed out that is beyond the array which
\* the next request will read, or which is about to become that array.
Latest(t) == IF pc[t] \in {"open", "write"} THEN snap[t] ELSE file.users

IssuedInv ==
    /\ IssuedIdsUnique
    /\ \A t \in Task : \A u \in created : u.id <= Len(Latest(t))
=============================================================================
