---------------------------- MODULE JsonDbProofs ----------------------------
(***************************************************************************)
(* Proofs about the merchant's database for any number of overlapping      *)
(* requests, failures and restarts, and, for requests that do not overlap, *)
(* that it implements UserStore.                                           *)
(***************************************************************************)
EXTENDS JsonDb, SequenceTheorems, FiniteSetTheorems, TLAPS

----------------------------------------------------------------------------
(* Arrays of users *)

\* What holds of every array of users the database reads or writes.
Good(us, users) ==
    /\ us \in Seq(User)
    /\ Increasing(us)
    /\ \A n \in 1..Len(us) : Origin(us[n], users)

LEMMA EmptyGood == ASSUME NEW users PROVE Good(<<>>, users)
<1>1. <<>> \in Seq(User) /\ Len(<<>>) = 0
    BY EmptySeq
<1> QED
    BY <1>1 DEF Good, Increasing

\* create can always number a user.
LEMMA NextIdNat == ASSUME NEW us \in Seq(User) PROVE NextId(us) \in Nat
<1>1. CASE us = <<>>
    BY <1>1 DEF NextId
<1>2. CASE us # <<>>
    <2>1. Len(us) \in 1..Len(us)
        BY <1>2, EmptySeq, LenProperties
    <2>2. us[Len(us)] \in User
        BY <2>1, ElementOfSeq
    <2> QED
        BY <1>2, <2>2 DEF NextId, User
<1> QED
    BY <1>1, <1>2

\* create: the new user's id is above all others.
LEMMA AppendGood ==
    ASSUME NEW us, NEW users, Good(us, users), NEW u \in User, u.id = NextId(us), Origin(u, users)
    PROVE  Good(Append(us, u), users)
<1> DEFINE ws == Append(us, u)
<1>1. /\ ws \in Seq(User) /\ Len(us) \in Nat /\ Len(ws) = Len(us) + 1
      /\ ws[Len(us) + 1] = u /\ \A n \in 1..Len(us) : ws[n] = us[n]
    BY AppendProperties, LenProperties DEF Good
<1>2. \A n \in 1..Len(us) : us[n].id \in Nat
    <2>1. \A n \in 1..Len(us) : us[n] \in User
        BY ElementOfSeq DEF Good
    <2> QED
        BY <2>1 DEF User
<1>3. u.id >= 1 /\ u.id \in Nat /\ \A n \in 1..Len(us) : us[n].id < u.id
    <2>1. CASE us = <<>>
        BY <2>1, EmptySeq DEF NextId
    <2>2. CASE us # <<>>
        <3>1. Len(us) \in 1..Len(us)
            BY <1>1, <2>2, EmptySeq DEF Good
        <3>2. u.id = us[Len(us)].id + 1
            BY <2>2 DEF NextId
        <3>3. \A n \in 1..Len(us) : us[n].id <= us[Len(us)].id
            BY <1>1, <1>2, <3>1 DEF Good, Increasing
        <3> QED
            BY <1>2, <3>1, <3>2, <3>3
    <2> QED
        BY <2>1, <2>2
<1>4. Increasing(ws)
    <2>1. ASSUME NEW n \in 1..Len(ws) PROVE ws[n].id >= 1
        <3>1. n = Len(us) + 1 \/ n \in 1..Len(us)
            BY <1>1
        <3> QED
            BY <1>1, <1>3, <3>1 DEF Good, Increasing
    <2>2. ASSUME NEW m \in 1..Len(ws), NEW n \in 1..Len(ws), m < n
          PROVE  ws[m].id < ws[n].id
        <3>1. m \in 1..Len(us) /\ (n = Len(us) + 1 \/ n \in 1..Len(us))
            BY <1>1, <2>2
        <3> QED
            BY <1>1, <1>3, <2>2, <3>1 DEF Good, Increasing
    <2> QED
        BY <2>1, <2>2 DEF Increasing
<1>5. \A n \in 1..Len(ws) : Origin(ws[n], users)
    <2> SUFFICES ASSUME NEW n \in 1..Len(ws) PROVE Origin(ws[n], users)
        OBVIOUS
    <2>1. n = Len(us) + 1 \/ n \in 1..Len(us)
        BY <1>1
    <2> QED
        BY <1>1, <2>1 DEF Good
<1> QED
    BY <1>1, <1>4, <1>5 DEF Good

\* update: a user takes the place of the one with the same id.
LEMMA ReplaceGood ==
    ASSUME NEW us, NEW users, Good(us, users), NEW n \in 1..Len(us), NEW u \in User,
           u.id = us[n].id, Origin(u, users)
    PROVE  Good([us EXCEPT ![n] = u], users)
<1> DEFINE ws == [us EXCEPT ![n] = u]
<1>1. /\ ws \in Seq(User) /\ Len(ws) = Len(us)
      /\ \A m \in 1..Len(us) : ws[m] = IF m = n THEN u ELSE us[m]
    BY ExceptSeq DEF Good
<1>2. \A m \in 1..Len(ws) : ws[m].id = us[m].id
    BY <1>1
<1>3. Increasing(ws)
    BY <1>1, <1>2 DEF Good, Increasing
<1>4. \A m \in 1..Len(ws) : Origin(ws[m], users)
    BY <1>1 DEF Good
<1> QED
    BY <1>1, <1>3, <1>4 DEF Good

\* A text has a length.
LEMMA SizeNat == ASSUME NEW us \in Seq(User) PROVE Size(us) \in Nat
<1> DEFINE S == {n \in 1..Len(us) : us[n].peer # NoClient}
<1>1. Len(us) \in Nat
    BY LenProperties
<1>2. IsFiniteSet(1..Len(us))
    BY <1>1, FS_Interval
<1>3. IsFiniteSet(S) /\ Cardinality(S) \in Nat
    BY <1>2, FS_Subset, FS_CardinalityType
<1> QED
    BY <1>1, <1>3 DEF Size

\* Users created later do not change what was good.
LEMMA GoodGrows ==
    ASSUME NEW us, NEW users, NEW more, users \subseteq more, Good(us, users)
    PROVE  Good(us, more)
BY DEF Good, Origin

----------------------------------------------------------------------------
(* The invariant *)

\* DbInv, array by array.
LEMMA DbInvByArray ==
    DbInv <=> /\ TypeOK
              /\ Good(file.users, created)
              /\ \A t \in Task : Good(snap[t], created)
              /\ HeldAsCreated
BY DEF DbInv, TypeOK, IdsIncreasing, StoredAsCreated, Good

LEMMA DbInit == Init => DbInv
<1> SUFFICES ASSUME Init PROVE DbInv
    OBVIOUS
<1>1. <<>> \in Seq(User)
    BY EmptySeq
<1>2. TypeOK
    BY <1>1, DbAssumption DEF Init, TypeOK, Missing, Pc, Op
<1>3. HeldAsCreated
    BY DEF Init, HeldAsCreated
<1> QED
    BY <1>2, <1>3, EmptyGood, DbInvByArray DEF Init, Missing

\* A call begins: the file and all arrays are as they were.
LEMMA CallStep ==
    ASSUME DbInv, NEW t \in Task, NEW o \in Op, NEW u \in User,
           Call(t, o, u), keys' \subseteq Key,
           o = "update" => Origin(u, created)
    PROVE  DbInv'
<1>1. TypeOK'
    BY DEF DbInv, TypeOK, Call, Pc
<1>2. HeldAsCreated'
    BY DEF DbInv, TypeOK, HeldAsCreated, Call, Origin
<1>3. Good(file'.users, created') /\ \A s \in Task : Good(snap'[s], created')
    BY DbInvByArray DEF Call
<1> QED
    BY <1>1, <1>2, <1>3 DEF DbInv, IdsIncreasing, StoredAsCreated, Good

\* The continuation after a read, whatever good array was read.
LEMMA AfterReadStep ==
    ASSUME DbInv, NEW t \in Task, NEW us, Good(us, created), AfterRead(t, us),
           faults' \in 0..MaxFaults
    PROVE  DbInv'
<1>1. /\ TypeOK /\ HeldAsCreated
      /\ Good(file.users, created) /\ \A s \in Task : Good(snap[s], created)
    BY DbInvByArray
<1>2. user[t] \in User /\ pc[t] = "read"
    BY <1>1 DEF AfterRead, HeldAsCreated
<1>3. UNCHANGED <<file, op, keys>>
    BY DEF AfterRead
<1>4. CASE CreateAfterRead(t, us)
    <2> DEFINE u == [user[t] EXCEPT !.id = NextId(us)]
    <2>1. NextId(us) \in Nat
        BY NextIdNat DEF Good
    <2>2. u \in User /\ u.id = NextId(us)
        BY <1>2, <2>1 DEF User
    <2>3. /\ user' = [user EXCEPT ![t] = u] /\ snap' = [snap EXCEPT ![t] = Append(us, u)]
          /\ created' = created \cup {u} /\ pc' = [pc EXCEPT ![t] = "open"]
          /\ op[t] = "create"
        BY <1>4 DEF CreateAfterRead
    <2>4. Good(us, created') /\ Origin(u, created')
        <3>1. created \subseteq created' /\ u \in created'
            BY <2>3
        <3>2. Origin(u, created')
            BY <3>1 DEF Origin
        <3> QED
            BY <3>1, <3>2, GoodGrows
    <2>5. Good(Append(us, u), created')
        BY <2>2, <2>4, AppendGood
    <2>6. Good(file'.users, created') /\ \A s \in Task : Good(snap'[s], created')
        BY <1>1, <1>3, <2>3, <2>5, GoodGrows DEF TypeOK
    <2>7. TypeOK'
        BY <1>1, <1>3, <2>2, <2>3, <2>5 DEF TypeOK, Good, Pc
    <2>8. HeldAsCreated'
        BY <1>1, <1>3, <2>3 DEF TypeOK, HeldAsCreated, Origin
    <2> QED
        BY <2>6, <2>7, <2>8 DEF DbInv, IdsIncreasing, StoredAsCreated, Good
<1>5. CASE FindOneAfterRead(t, us)
    <2>1. UNCHANGED <<snap, created>> /\ op[t] = "findOne"
        BY <1>5 DEF FindOneAfterRead
    <2>2. Good(file'.users, created') /\ \A s \in Task : Good(snap'[s], created')
        BY <1>1, <1>3, <2>1
    <2>3. CASE pc' = [pc EXCEPT ![t] = "missing"] /\ UNCHANGED user
        <3>1. TypeOK'
            BY <1>1, <1>3, <2>1, <2>3 DEF TypeOK, Pc
        <3>2. HeldAsCreated'
            BY <1>1, <1>3, <2>1, <2>3 DEF TypeOK, HeldAsCreated
        <3> QED
            BY <2>2, <3>1, <3>2 DEF DbInv, IdsIncreasing, StoredAsCreated, Good
    <2>4. ASSUME NEW n \in 1..Len(us), user' = [user EXCEPT ![t] = us[n]],
                 pc' = [pc EXCEPT ![t] = "found"]
          PROVE  DbInv'
        <3>1. us[n] \in User /\ Origin(us[n], created)
            BY ElementOfSeq DEF Good
        <3>2. TypeOK'
            BY <1>1, <1>3, <2>1, <2>4, <3>1 DEF TypeOK, Pc
        <3>3. HeldAsCreated'
            BY <1>1, <1>3, <2>1, <2>4, <3>1 DEF TypeOK, HeldAsCreated
        <3> QED
            BY <2>2, <3>2, <3>3 DEF DbInv, IdsIncreasing, StoredAsCreated, Good
    <2> QED
        BY <1>5, <2>3, <2>4 DEF FindOneAfterRead
<1>6. CASE UpdateAfterRead(t, us)
    <2>1. UNCHANGED <<user, created>> /\ op[t] = "update"
        BY <1>6 DEF UpdateAfterRead
    <2>2. CASE pc' = [pc EXCEPT ![t] = "missing"] /\ UNCHANGED snap
        <3>1. TypeOK'
            BY <1>1, <1>3, <2>1, <2>2 DEF TypeOK, Pc
        <3>2. HeldAsCreated'
            BY <1>1, <1>3, <2>1, <2>2 DEF TypeOK, HeldAsCreated
        <3> QED
            BY <1>1, <1>3, <2>1, <2>2, <3>1, <3>2 DEF DbInv, IdsIncreasing, StoredAsCreated, Good
    <2>3. ASSUME NEW n \in 1..Len(us), IsFirst(us, n, user[t].id),
                 snap' = [snap EXCEPT ![t] = [us EXCEPT ![n] = user[t]]],
                 pc' = [pc EXCEPT ![t] = "open"]
          PROVE  DbInv'
        <3>1. Origin(user[t], created)
            BY <1>1, <2>1 DEF HeldAsCreated
        <3>2. Good([us EXCEPT ![n] = user[t]], created)
            BY <1>2, <2>3, <3>1, ReplaceGood DEF IsFirst
        <3>3. TypeOK'
            BY <1>1, <1>3, <2>1, <2>3, <3>2 DEF TypeOK, Good, Pc
        <3>4. HeldAsCreated'
            BY <1>1, <1>3, <2>1, <2>3 DEF TypeOK, HeldAsCreated
        <3>5. \A s \in Task : Good(snap'[s], created')
            BY <1>1, <2>1, <2>3, <3>2 DEF TypeOK
        <3> QED
            BY <1>1, <1>3, <2>1, <3>3, <3>4, <3>5 DEF DbInv, IdsIncreasing, StoredAsCreated, Good
    <2> QED
        BY <1>6, <2>2, <2>3 DEF UpdateAfterRead
<1> QED
    BY <1>4, <1>5, <1>6 DEF AfterRead

\* A file operation or a continuation of one request.
LEMMA FileStepInv ==
    ASSUME DbInv, NEW t \in Task, FileStep(t)
    PROVE  DbInv'
<1>1. /\ TypeOK /\ HeldAsCreated
      /\ Good(file.users, created) /\ \A s \in Task : Good(snap[s], created)
    BY DbInvByArray
<1>2. Fault => faults' \in 0..MaxFaults
    BY <1>1, DbAssumption DEF TypeOK, Fault
<1>3. CASE ReadFile(t)
    BY <1>1, <1>3, AfterReadStep DEF ReadFile, TypeOK
<1>4. CASE ReadFails(t)
    BY <1>2, <1>4, EmptyGood, AfterReadStep DEF ReadFails
<1>5. ASSUME UNCHANGED <<op, user, snap, keys, created>>, faults' \in 0..MaxFaults,
             NEW p \in {"write", "done"}, pc' = [pc EXCEPT ![t] = p],
             Good(file'.users, created), file' \in [users : Seq(User), size : Nat]
      PROVE  DbInv'
    <2>1. TypeOK'
        BY <1>1, <1>5 DEF TypeOK, Pc
    <2>2. HeldAsCreated'
        BY <1>1, <1>5 DEF TypeOK, HeldAsCreated
    <2> QED
        BY <1>1, <1>5, <2>1, <2>2 DEF DbInv, IdsIncreasing, StoredAsCreated, Good
<1>6. CASE TruncateFile(t)
    <2>1. Missing \in [users : Seq(User), size : Nat] /\ Good(Missing.users, created)
        BY EmptyGood, EmptySeq DEF Missing
    <2> QED
        BY <1>1, <1>5, <1>6, <2>1 DEF TruncateFile, TypeOK
<1>7. CASE WriteFile(t)
    <2>1. Size(snap[t]) \in Nat /\ file.size \in Nat
        BY <1>1, SizeNat DEF TypeOK
    <2>2. /\ Written(snap[t]) \in [users : Seq(User), size : Nat]
          /\ Good(Written(snap[t]).users, created)
        <3>1. CASE file.size <= Size(snap[t])
            BY <1>1, <2>1, <3>1 DEF Written, TypeOK
        <3>2. CASE ~(file.size <= Size(snap[t]))
            BY <2>1, <3>2, EmptyGood, EmptySeq DEF Written
        <3> QED
            BY <3>1, <3>2
    <2> QED
        BY <1>1, <1>5, <1>7, <2>2 DEF WriteFile, TypeOK
<1>8. CASE WriteFails(t)
    BY <1>1, <1>2, <1>5, <1>8 DEF WriteFails, TypeOK
<1> QED
    BY <1>3, <1>4, <1>6, <1>7, <1>8 DEF FileStep

LEMMA DbStep == DbInv /\ [Next]_dbvars => DbInv'
<1> SUFFICES ASSUME DbInv, [Next]_dbvars PROVE DbInv'
    OBVIOUS
<1>1. /\ TypeOK /\ HeldAsCreated
      /\ Good(file.users, created) /\ \A s \in Task : Good(snap[s], created)
    BY DbInvByArray
<1>2. ASSUME NEW t \in Task, NEW k \in Key, Create(t, k) PROVE DbInv'
    <2> DEFINE u == [id |-> 0, key |-> k, peer |-> NoClient]
    <2>1. u \in User /\ keys' \subseteq Key
        BY <1>1, <1>2 DEF Create, TypeOK, User
    <2> QED
        BY <1>2, <2>1, CallStep DEF Create, Op
<1>3. ASSUME NEW t \in Task, NEW i \in 1..MaxId, FindOne(t, i) PROVE DbInv'
    <2>1. PICK k \in Key : Call(t, "findOne", [id |-> i, key |-> k, peer |-> NoClient])
        BY <1>3 DEF FindOne
    <2>2. i \in Nat
        BY DbAssumption
    <2>3. [id |-> i, key |-> k, peer |-> NoClient] \in User
        BY <2>2 DEF User
    <2> QED
        BY <1>1, <1>3, <2>1, <2>3, CallStep DEF FindOne, Op, TypeOK
<1>4. ASSUME NEW t \in Task, NEW c \in Client, Update(t, c) PROVE DbInv'
    <2> DEFINE u == [user[t] EXCEPT !.peer = c]
    <2>1. user[t] \in User /\ Origin(user[t], created)
        BY <1>1, <1>4 DEF Update, HeldAsCreated
    <2>2. u \in User /\ Origin(u, created)
        BY <2>1 DEF User, Origin
    <2> QED
        BY <1>1, <1>4, <2>2, CallStep DEF Update, Op, TypeOK
<1>5. ASSUME NEW t \in Task, FileStep(t) PROVE DbInv'
    BY <1>5, FileStepInv
<1>6. ASSUME NEW t \in Task, Finish(t) PROVE DbInv'
    <2>1. Good(file'.users, created') /\ \A s \in Task : Good(snap'[s], created')
        BY <1>1, <1>6, EmptyGood DEF Finish, TypeOK
    <2>2. TypeOK'
        BY <1>1, <1>6, EmptySeq DEF Finish, TypeOK, Pc, Op
    <2>3. HeldAsCreated'
        BY <1>1, <1>6 DEF Finish, TypeOK, HeldAsCreated
    <2> QED
        BY <2>1, <2>2, <2>3 DEF DbInv, IdsIncreasing, StoredAsCreated, Good
<1>7. CASE Restart
    <2>1. Good(file'.users, created') /\ \A s \in Task : Good(snap'[s], created')
        BY <1>1, <1>7, EmptyGood DEF Restart, TypeOK, Missing
    <2>2. file' \in [users : Seq(User), size : Nat] /\ <<>> \in Seq(User)
        <3>1. <<>> \in Seq(User)
            BY EmptySeq
        <3>2. Missing \in [users : Seq(User), size : Nat]
            BY <3>1 DEF Missing
        <3>3. file' \in {file, Missing}
            BY <1>7 DEF Restart
        <3> QED
            BY <1>1, <3>1, <3>2, <3>3 DEF TypeOK
    <2>3. faults' \in 0..MaxFaults
        BY <1>1, <1>7, DbAssumption DEF Restart, Fault, TypeOK
    <2>4. TypeOK'
        BY <1>1, <1>7, <2>2, <2>3 DEF Restart, TypeOK, Pc, Op
    <2>5. HeldAsCreated'
        BY <1>1, <1>7 DEF Restart, TypeOK, HeldAsCreated
    <2> QED
        BY <2>1, <2>4, <2>5 DEF DbInv, IdsIncreasing, StoredAsCreated, Good
<1>8. CASE UNCHANGED dbvars
    BY <1>8 DEF dbvars, DbInv, TypeOK, IdsIncreasing, StoredAsCreated, HeldAsCreated
<1> QED
    BY <1>2, <1>3, <1>4, <1>5, <1>6, <1>7, <1>8 DEF Next

\* DbInv is inductive: it holds however many requests overlap, whatever file
\* operations fail and whenever the merchant restarts.
THEOREM DbInvariant == Spec => []DbInv
<1> QED
    BY DbInit, DbStep, PTL DEF Spec

\* The database's variables keep their types under any faults and restarts.
THEOREM DbTyped == Spec => []TypeOK
<1>1. DbInv => TypeOK
    BY DEF DbInv
<1> QED
    BY <1>1, DbInvariant, PTL

\* Every array in the file or about to be written holds each id once, in order.
THEOREM IdsAlwaysIncreasing == Spec => []IdsIncreasing
<1>1. DbInv => IdsIncreasing
    BY DEF DbInv
<1> QED
    BY <1>1, DbInvariant, PTL

\* No two created users are ever mixed into one record.
THEOREM UsersStoredAsCreated == Spec => []StoredAsCreated
<1>1. DbInv => StoredAsCreated
    BY DEF DbInv
<1> QED
    BY <1>1, DbInvariant, PTL

----------------------------------------------------------------------------
(* Requests that do not overlap *)

\* The number of a new user, when ids count the users.
LEMMA NextIdNumbered ==
    ASSUME NEW us \in Seq(User), Numbered(us)
    PROVE  NextId(us) = Len(us) + 1
<1>1. CASE us = <<>>
    BY <1>1, EmptySeq DEF NextId
<1>2. CASE us # <<>>
  <2>1. Len(us) \in 1..Len(us)
      BY <1>2, EmptySeq, LenProperties
  <2> QED
      BY <1>2, <2>1 DEF NextId, Numbered
<1> QED
    BY <1>1, <1>2

\* create and update take an array one step on, and leave it numbered.
LEMMA CreateIsStep ==
    ASSUME NEW us \in Seq(User), Numbered(us), NEW u \in User,
           u.id = NextId(us), u.peer = NoClient
    PROVE  OneStep(us, Append(us, u)) /\ Numbered(Append(us, u))
<1>1. u.id = Len(us) + 1
    BY NextIdNumbered
<1>2. u = [id |-> Len(us) + 1, key |-> u.key, peer |-> NoClient] /\ u.key \in Key
    BY <1>1 DEF User
<1> DEFINE ws == Append(us, u)
           len == Len(us)
<1>3. /\ len \in Nat /\ Len(ws) = len + 1
      /\ ws[len + 1] = u /\ \A n \in 1..len : ws[n] = us[n]
    BY AppendProperties, LenProperties
<1>4. OneStep(us, ws)
    BY <1>2 DEF OneStep
<1> HIDE DEF ws
<1>5. Numbered(ws)
  <2> SUFFICES ASSUME NEW n \in 1..Len(ws)
               PROVE  ws[n].id = n
      BY DEF Numbered
  <2>1. CASE n = len + 1
      BY <1>1, <1>3, <2>1
  <2>2. CASE n # len + 1
    <3>1. n \in 1..len
      <4> HIDE DEF len
      <4> QED
          BY <1>3, <2>2
    <3> QED
        BY <1>3, <3>1 DEF Numbered
  <2> QED
      BY <2>1, <2>2
<1> QED
    BY <1>4, <1>5 DEF ws

\* update: the user is put where it was found.
LEMMA UpdateIsStep ==
    ASSUME NEW us \in Seq(User), Numbered(us), NEW m \in 1..Len(us), NEW c \in Client,
           NEW u, u = [us[m] EXCEPT !.peer = c], NEW n \in 1..Len(us), IsFirst(us, n, u.id)
    PROVE  OneStep(us, [us EXCEPT ![n] = u]) /\ Numbered([us EXCEPT ![n] = u])
<1>1. us[m] \in User /\ us[n] \in User
    BY ElementOfSeq
<1>2. u \in User /\ u.id = us[m].id
    BY <1>1 DEF User
<1>3. n = m
    BY <1>2 DEF IsFirst, Numbered
<1> DEFINE ws == [us EXCEPT ![n] = u]
<1>4. ws = [us EXCEPT ![n].peer = c]
    BY <1>3
<1>5. /\ Len(ws) = Len(us)
      /\ \A k \in 1..Len(us) : ws[k] = IF k = n THEN u ELSE us[k]
    BY <1>2, ExceptSeq
<1> HIDE DEF ws
<1>6. Numbered(ws)
    BY <1>2, <1>3, <1>5 DEF Numbered
<1> QED
    BY <1>4, <1>6 DEF OneStep, ws

\* Nothing is in the file, and no request under way.
LEMMA SerialInit == Init => SerialInv
<1> SUFFICES ASSUME Init
             PROVE  SerialInv
    OBVIOUS
<1>1. Numbered(<<>>)
    BY EmptySeq DEF Numbered
<1> QED
    BY <1>1 DEF Init, Missing, SerialInv

\* No request runs beside another, so nobody changes the file between a
\* request's read of it and its write.
LEMMA SerialStep == Serial /\ DbInv /\ SerialInv /\ [Next]_dbvars => SerialInv'
<1> SUFFICES ASSUME Serial, DbInv, SerialInv, [Next]_dbvars
             PROVE  SerialInv'
    OBVIOUS
<1>0. TypeOK /\ HeldAsCreated /\ file.users \in Seq(User)
    BY DEF DbInv, TypeOK
<1>1. ~Fault
    BY <1>0 DEF Fault, Serial, TypeOK
<1>2. Numbered(<<>>)
    BY EmptySeq DEF Numbered
<1>3. \A s, t \in Task : s = t
    BY DEF Serial
<1>4. ASSUME NEW t \in Task, NEW k \in Key, Create(t, k)
      PROVE  SerialInv'
    BY <1>0, <1>3, <1>4 DEF SerialInv, Create, Call, TypeOK
<1>5. ASSUME NEW t \in Task, NEW i \in 1..MaxId, FindOne(t, i)
      PROVE  SerialInv'
    BY <1>0, <1>3, <1>5 DEF SerialInv, FindOne, Call, TypeOK
<1>6. ASSUME NEW t \in Task, NEW c \in Client, Update(t, c)
      PROVE  SerialInv'
    BY <1>0, <1>3, <1>6 DEF SerialInv, Update, Call, TypeOK
<1>7. ASSUME NEW t \in Task, ReadFile(t)
      PROVE  SerialInv'
  <2> DEFINE us == file.users
  <2>1. /\ pc[t] = "read" /\ UNCHANGED <<file, op, keys>>
        /\ CreateAfterRead(t, us) \/ FindOneAfterRead(t, us) \/ UpdateAfterRead(t, us)
      BY <1>7 DEF ReadFile, AfterRead
  <2>2. user[t] \in User
      BY <1>0, <2>1 DEF HeldAsCreated
  <2>3. us \in Seq(User) /\ Numbered(us)
      BY <1>0 DEF SerialInv
  <2>4. ASSUME NEW next, OneStep(us, next), Numbered(next),
               snap' = [snap EXCEPT ![t] = next], pc' = [pc EXCEPT ![t] = "open"]
        PROVE  SerialInv'
      BY <1>0, <1>3, <2>1, <2>3, <2>4 DEF SerialInv, TypeOK, OneStep
  <2>5. CASE CreateAfterRead(t, us)
    <3> DEFINE u == [user[t] EXCEPT !.id = NextId(us)]
    <3>1. user[t].peer = NoClient
        BY <2>1, <2>5 DEF CreateAfterRead, SerialInv
    <3>2. u \in User /\ u.id = NextId(us) /\ u.peer = NoClient
        BY <2>2, <2>3, <3>1, NextIdNat DEF User
    <3>3. snap' = [snap EXCEPT ![t] = Append(us, u)] /\ pc' = [pc EXCEPT ![t] = "open"]
        BY <2>5 DEF CreateAfterRead
    <3>4. OneStep(us, Append(us, u)) /\ Numbered(Append(us, u))
        BY <2>3, <3>2, CreateIsStep
    <3> QED
        BY <2>4, <3>3, <3>4
  <2>6. CASE FindOneAfterRead(t, us)
    <3>1. CASE pc' = [pc EXCEPT ![t] = "missing"] /\ UNCHANGED <<user, snap>>
        BY <1>0, <1>3, <2>1, <3>1 DEF SerialInv, TypeOK
    <3>2. ASSUME NEW n \in 1..Len(us), user' = [user EXCEPT ![t] = us[n]],
                 pc' = [pc EXCEPT ![t] = "found"], UNCHANGED snap
          PROVE  SerialInv'
        BY <1>0, <1>3, <2>1, <3>2 DEF SerialInv, TypeOK
    <3> QED
        BY <2>6, <3>1, <3>2 DEF FindOneAfterRead
  <2>7. CASE UpdateAfterRead(t, us)
    <3>1. CASE pc' = [pc EXCEPT ![t] = "missing"] /\ UNCHANGED <<user, snap>>
        BY <1>0, <1>3, <2>1, <3>1 DEF SerialInv, TypeOK
    <3>2. ASSUME NEW n \in 1..Len(us), IsFirst(us, n, user[t].id),
                 snap' = [snap EXCEPT ![t] = [us EXCEPT ![n] = user[t]]],
                 pc' = [pc EXCEPT ![t] = "open"]
          PROVE  SerialInv'
      <4>1. PICK m \in 1..Len(us), c \in Client : user[t] = [us[m] EXCEPT !.peer = c]
          BY <2>1, <2>7 DEF UpdateAfterRead, SerialInv
      <4>2. OneStep(us, [us EXCEPT ![n] = user[t]]) /\ Numbered([us EXCEPT ![n] = user[t]])
          BY <2>3, <3>2, <4>1, UpdateIsStep
      <4> QED
          BY <2>4, <3>2, <4>2
    <3> QED
        BY <2>7, <3>1, <3>2 DEF UpdateAfterRead
  <2> QED
      BY <2>1, <2>5, <2>6, <2>7
<1>8. ASSUME NEW t \in Task, TruncateFile(t)
      PROVE  SerialInv'
    BY <1>0, <1>2, <1>3, <1>8 DEF SerialInv, TruncateFile, TypeOK, Missing
<1>9. ASSUME NEW t \in Task, WriteFile(t)
      PROVE  SerialInv'
  <2>1. snap[t] \in Seq(User) /\ file.size = 0 /\ Numbered(snap[t])
      BY <1>0, <1>9 DEF WriteFile, SerialInv, Missing, TypeOK
  <2>2. file'.users = snap[t]
      BY <1>9, <2>1, SizeNat DEF WriteFile, Written
  <2> QED
      BY <1>0, <1>3, <1>9, <2>1, <2>2 DEF SerialInv, WriteFile, TypeOK
<1>10. ASSUME NEW t \in Task, ReadFails(t) \/ WriteFails(t)
       PROVE  SerialInv'
    BY <1>1, <1>10 DEF ReadFails, WriteFails
<1>11. ASSUME NEW t \in Task, Finish(t)
       PROVE  SerialInv'
    BY <1>0, <1>2, <1>3, <1>11 DEF SerialInv, Finish, TypeOK
<1>12. CASE Restart
    BY <1>1, <1>12 DEF Restart
<1>13. CASE UNCHANGED dbvars
    BY <1>13 DEF dbvars, SerialInv
<1> QED
    BY <1>4, <1>5, <1>6, <1>7, <1>8, <1>9, <1>10, <1>11, <1>12, <1>13 DEF Next, FileStep

\* What the store is, of one task.
LEMMA StoreOfTask ==
    ASSUME Serial, NEW t \in Task
    PROVE  /\ Store = IF pc[t] = "write" THEN snap[t] ELSE file.users
           /\ Store' = IF pc'[t] = "write" THEN snap'[t] ELSE file'.users
<1>1. \A s \in Task : s = t
    BY DEF Serial
<1> QED
    BY <1>1 DEF Store

\* The store is empty at first.
LEMMA StoreInit == Init => AtomicStore!SInit
BY DEF Init, Missing, Store, AtomicStore!SInit

\* A step of the database is a step of the store, where the file is truncated
\* to be written, or leaves the store as it is.
LEMMA StoreStep ==
    Serial /\ DbInv /\ SerialInv /\ [Next]_dbvars => [AtomicStore!SNext]_Store
<1> SUFFICES ASSUME Serial, DbInv, SerialInv, [Next]_dbvars
             PROVE  AtomicStore!SNext \/ Store' = Store
    OBVIOUS
<1>0. TypeOK /\ file.users \in Seq(User)
    BY DEF DbInv, TypeOK
<1>1. ~Fault
    BY <1>0 DEF Fault, Serial, TypeOK
<1>2. ASSUME NEW t \in Task, file' = file, pc[t] # "write", pc'[t] # "write"
      PROVE  Store' = Store
    BY <1>2, StoreOfTask
<1>3. ASSUME NEW t \in Task, NEW k \in Key, Create(t, k)
      PROVE  Store' = Store
    BY <1>0, <1>2, <1>3 DEF Create, Call, TypeOK
<1>4. ASSUME NEW t \in Task, NEW i \in 1..MaxId, FindOne(t, i)
      PROVE  Store' = Store
    BY <1>0, <1>2, <1>4 DEF FindOne, Call, TypeOK
<1>5. ASSUME NEW t \in Task, NEW c \in Client, Update(t, c)
      PROVE  Store' = Store
    BY <1>0, <1>2, <1>5 DEF Update, Call, TypeOK
<1>6. ASSUME NEW t \in Task, ReadFile(t)
      PROVE  Store' = Store
  <2>1. pc[t] = "read" /\ file' = file
      BY <1>6 DEF ReadFile, AfterRead
  <2>2. pc'[t] \in {"open", "found", "missing"}
      BY <1>0, <1>6 DEF ReadFile, AfterRead, CreateAfterRead, FindOneAfterRead,
                        UpdateAfterRead, TypeOK
  <2> QED
      BY <1>2, <2>1, <2>2
<1>7. ASSUME NEW t \in Task, TruncateFile(t)
      PROVE  AtomicStore!SNext
  <2>1. Store = file.users /\ Store' = snap[t]
      BY <1>0, <1>7, StoreOfTask DEF TruncateFile, TypeOK
  <2>2. OneStep(file.users, snap[t]) /\ Numbered(file.users)
      BY <1>7 DEF TruncateFile, SerialInv
  <2>3. ASSUME NEW k \in Key,
               snap[t] = Append(Store, [id |-> Len(Store) + 1, key |-> k, peer |-> NoClient])
        PROVE  AtomicStore!Added(k)
    <3>1. Len(Store) \in Nat /\ \A n \in 1..Len(Store) : Store[n].id = n
        BY <1>0, <2>1, <2>2, LenProperties DEF Numbered
    <3>2. Len(Store) + 1 \in 1..(Len(Store) + 1)
          /\ \A n \in 1..Len(Store) : Store[n].id < Len(Store) + 1
        BY <3>1
    <3> QED
        BY <2>1, <2>3, <3>2 DEF AtomicStore!Added
  <2>4. ASSUME NEW n \in 1..Len(Store), NEW c \in Client,
               snap[t] = [Store EXCEPT ![n].peer = c]
        PROVE  AtomicStore!Presented(n, c)
      BY <2>1, <2>4 DEF AtomicStore!Presented
  <2> QED
      BY <2>1, <2>2, <2>3, <2>4 DEF OneStep, AtomicStore!SNext
<1>8. ASSUME NEW t \in Task, WriteFile(t)
      PROVE  Store' = Store
  <2>1. snap[t] \in Seq(User) /\ file.size = 0
      BY <1>0, <1>8 DEF WriteFile, SerialInv, Missing, TypeOK
  <2>2. file'.users = snap[t]
      BY <1>8, <2>1, SizeNat DEF WriteFile, Written
  <2> QED
      BY <1>0, <1>8, <2>2, StoreOfTask DEF WriteFile, TypeOK
<1>9. ASSUME NEW t \in Task, Finish(t)
      PROVE  Store' = Store
    BY <1>0, <1>2, <1>9 DEF Finish, TypeOK
<1>10. ASSUME NEW t \in Task, ReadFails(t) \/ WriteFails(t)
       PROVE  Store' = Store
    BY <1>1, <1>10 DEF ReadFails, WriteFails
<1>11. CASE Restart
    BY <1>1, <1>11 DEF Restart
<1>12. CASE UNCHANGED dbvars
    BY <1>12 DEF dbvars, Store
<1> QED
    BY <1>3, <1>4, <1>5, <1>6, <1>7, <1>8, <1>9, <1>10, <1>11, <1>12 DEF Next, FileStep

\* Requests that never overlap, on a file system that never fails, see a store
\* that changes in indivisible steps, whatever the keys, clients and ids.
THEOREM SerialCallsAlwaysAtomic == Serial => (Spec => SerialCallsAreAtomic)
<1> SUFFICES ASSUME Serial
             PROVE  Spec => SerialCallsAreAtomic
    OBVIOUS
<1>1. DbInv /\ SerialInv /\ [Next]_dbvars => SerialInv'
    BY SerialStep
<1>2. DbInv /\ SerialInv /\ [Next]_dbvars => [AtomicStore!SNext]_Store
    BY StoreStep
<1> QED
    BY <1>1, <1>2, DbInvariant, SerialInit, StoreInit, PTL
    DEF Spec, SerialCallsAreAtomic, AtomicStore!StoreSpec

----------------------------------------------------------------------------
(* The ids handed out, one request after the other *)

LEMMA IssuedInit == Init => IssuedInv
BY DEF Init, IssuedInv, IssuedIdsUnique

\* Steps that hand out no user and leave the latest array as long as it was.
LEMMA SameIssued ==
    ASSUME Serial, IssuedInv, NEW t \in Task, created' = created,
           Len(Latest(t)') = Len(Latest(t))
    PROVE  IssuedInv'
<1>1. \A s \in Task : s = t
    BY DEF Serial
<1> QED
    BY <1>1 DEF IssuedInv, IssuedIdsUnique

\* Only the continuation of a create or an update changes the latest array: what
\* is written is what was about to be.
LEMMA LatestKept ==
    ASSUME DbInv, SerialInv, NEW t \in Task,
           \/ \E k \in Key : Create(t, k)
           \/ \E i \in 1..MaxId : FindOne(t, i)
           \/ \E c \in Client : Update(t, c)
           \/ TruncateFile(t) \/ WriteFile(t) \/ Finish(t)
    PROVE  Latest(t)' = Latest(t) /\ created' = created
<1>0. TypeOK
    BY DEF DbInv
<1>1. CASE WriteFile(t)
  <2>1. snap[t] \in Seq(User) /\ file.size = 0
      BY <1>0, <1>1 DEF WriteFile, SerialInv, Missing, TypeOK
  <2>2. file'.users = snap[t]
      BY <1>1, <2>1, SizeNat DEF WriteFile, Written
  <2> QED
      BY <1>0, <1>1, <2>2 DEF WriteFile, TypeOK, Latest
<1>2. CASE TruncateFile(t) \/ Finish(t)
    BY <1>0, <1>2 DEF TruncateFile, Finish, TypeOK, Latest
<1>3. ASSUME NEW o, NEW u, Call(t, o, u), pc[t] \in {"idle", "found"}
      PROVE  Latest(t)' = Latest(t) /\ created' = created
    BY <1>0, <1>3 DEF Call, TypeOK, Latest
<1> QED
    BY <1>1, <1>2, <1>3 DEF Create, FindOne, Update

LEMMA IssuedStep ==
    Serial /\ DbInv /\ SerialInv /\ IssuedInv /\ [Next]_dbvars => IssuedInv'
<1> SUFFICES ASSUME Serial, DbInv, SerialInv, IssuedInv, [Next]_dbvars
             PROVE  IssuedInv'
    OBVIOUS
<1>0. TypeOK /\ file.users \in Seq(User)
    BY DEF DbInv, TypeOK
<1>1. ~Fault
    BY <1>0 DEF Fault, Serial, TypeOK
<1>2. ASSUME NEW t \in Task,
             \/ \E k \in Key : Create(t, k)
             \/ \E i \in 1..MaxId : FindOne(t, i)
             \/ \E c \in Client : Update(t, c)
             \/ TruncateFile(t) \/ WriteFile(t) \/ Finish(t)
      PROVE  IssuedInv'
    BY <1>2, LatestKept, SameIssued
<1>3. ASSUME NEW t \in Task, ReadFile(t)
      PROVE  IssuedInv'
  <2> DEFINE us == file.users
  <2>1. /\ pc[t] = "read" /\ UNCHANGED <<file, op, keys>>
        /\ CreateAfterRead(t, us) \/ FindOneAfterRead(t, us) \/ UpdateAfterRead(t, us)
      BY <1>3 DEF ReadFile, AfterRead
  <2>2. Latest(t) = us /\ Numbered(us)
      BY <2>1 DEF Latest, SerialInv
  <2>3. CASE CreateAfterRead(t, us)
    <3> DEFINE u == [user[t] EXCEPT !.id = NextId(us)]
    <3>1. user[t] \in User
        BY <2>1 DEF DbInv, HeldAsCreated
    <3>2. u \in User /\ u.id = Len(us) + 1
        BY <1>0, <2>2, <3>1, NextIdNat, NextIdNumbered DEF User
    <3>3. created' = created \cup {u} /\ Latest(t)' = Append(us, u)
        BY <1>0, <2>1, <2>3 DEF CreateAfterRead, Latest, TypeOK
    <3>4. Len(us) \in Nat /\ Len(Append(us, u)) = Len(us) + 1
        BY <1>0, <3>2, LenProperties, AppendProperties
    <3>5. \A v \in created : v.id \in Nat /\ v.id <= Len(us)
        BY <1>0, <2>2 DEF IssuedInv, TypeOK, User
    <3> HIDE DEF u
    <3>6. IssuedIdsUnique'
        BY <3>2, <3>3, <3>4, <3>5 DEF IssuedInv, IssuedIdsUnique
    <3>7. \A v \in created' : v.id <= Len(Latest(t)')
        BY <3>2, <3>3, <3>4, <3>5
    <3>8. \A s \in Task : s = t
        BY DEF Serial
    <3> QED
        BY <3>6, <3>7, <3>8 DEF IssuedInv
  <2>4. CASE FindOneAfterRead(t, us)
    <3>1. pc'[t] \in {"found", "missing"} /\ created' = created
        BY <1>0, <2>4 DEF FindOneAfterRead, TypeOK
    <3> QED
        BY <2>1, <2>2, <3>1, SameIssued DEF Latest
  <2>5. CASE UpdateAfterRead(t, us)
    <3>1. CASE pc' = [pc EXCEPT ![t] = "missing"]
      <4>1. Latest(t)' = us /\ created' = created
          BY <1>0, <2>1, <2>5, <3>1 DEF UpdateAfterRead, Latest, TypeOK
      <4> QED
          BY <2>2, <4>1, SameIssued
    <3>2. ASSUME NEW n \in 1..Len(us), pc' = [pc EXCEPT ![t] = "open"],
                 snap' = [snap EXCEPT ![t] = [us EXCEPT ![n] = user[t]]]
          PROVE  IssuedInv'
      <4>1. user[t] \in User
          BY <2>1 DEF DbInv, HeldAsCreated
      <4>2. Len([us EXCEPT ![n] = user[t]]) = Len(us)
          BY <1>0, <4>1, ExceptSeq
      <4>3. Latest(t)' = [us EXCEPT ![n] = user[t]] /\ created' = created
          BY <1>0, <2>5, <3>2 DEF UpdateAfterRead, Latest, TypeOK
      <4> QED
          BY <2>2, <4>2, <4>3, SameIssued
    <3> QED
        BY <2>5, <3>1, <3>2 DEF UpdateAfterRead
  <2> QED
      BY <2>1, <2>3, <2>4, <2>5
<1>4. ASSUME NEW t \in Task, ReadFails(t) \/ WriteFails(t)
      PROVE  IssuedInv'
    BY <1>1, <1>4 DEF ReadFails, WriteFails
<1>5. CASE Restart
    BY <1>1, <1>5 DEF Restart
<1>6. CASE UNCHANGED dbvars
    BY <1>6 DEF dbvars, IssuedInv, IssuedIdsUnique, Latest
<1> QED
    BY <1>2, <1>3, <1>4, <1>5, <1>6 DEF Next, FileStep

\* Requests one after the other on a sound file system never hand out an id twice,
\* and so no two QR codes of the merchant carry the same id.
THEOREM SerialIdsUnique == Serial => (Spec => []IssuedIdsUnique)
<1>1. SUFFICES ASSUME Serial
               PROVE  Spec => []IssuedIdsUnique
    OBVIOUS
<1>2. IssuedInv => IssuedIdsUnique
    BY DEF IssuedInv
<1>3. Init => SerialInv /\ IssuedInv
    BY SerialInit, IssuedInit
<1>4. DbInv /\ SerialInv /\ IssuedInv /\ [Next]_dbvars => (SerialInv /\ IssuedInv)'
    BY <1>1, SerialStep, IssuedStep
<1> QED
    BY <1>2, <1>3, <1>4, DbInvariant, PTL DEF Spec
=============================================================================
