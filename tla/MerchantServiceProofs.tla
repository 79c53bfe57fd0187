----------------------- MODULE MerchantServiceProofs -----------------------
(***************************************************************************)
(* Proofs about the merchant for any number of overlapping requests and    *)
(* frames, any clients and any SPV data: it uses its database as JsonDb    *)
(* says, and peers and verdicts stay with clients that scanned the code.   *)
(***************************************************************************)
EXTENDS MerchantService, JsonDbProofs

\* What holds of every user the database or a handler holds.
Ok(u, sc) ==
    u.peer # NoClient => u.peer # Merchant /\ \E q \in sc[u.peer] : q.id = u.id /\ q.key = u.key

AllOk(us, sc) == \A n \in 1..Len(us) : Ok(us[n], sc)

\* PeersScannedTheCode, array by array.
Peers(us, ss, calls, held, sc) ==
    /\ AllOk(us, sc)
    /\ \A t \in Task : AllOk(ss[t], sc)
    /\ \A t \in Task : calls[t] # "none" => Ok(held[t], sc)

LEMMA PeersByArray == PeersScannedTheCode <=> Peers(file.users, snap, op, user, scanned)
BY DEF PeersScannedTheCode, HasScanned, Peers, AllOk, Ok

LEMMA PeersByArrayNext ==
    PeersScannedTheCode' <=> Peers(file'.users, snap', op', user', scanned')
BY DEF PeersScannedTheCode, HasScanned, Peers, AllOk, Ok

LEMMA EmptyOk == ASSUME NEW sc PROVE AllOk(<<>>, sc)
<1>1. Len(<<>>) = 0
    BY EmptySeq
<1> QED
    BY <1>1 DEF AllOk

LEMMA AppendOk ==
    ASSUME NEW sc, NEW us \in Seq(User), NEW u \in User, AllOk(us, sc), Ok(u, sc)
    PROVE  AllOk(Append(us, u), sc)
<1> DEFINE ws == Append(us, u)
<1>1. /\ Len(us) \in Nat /\ Len(ws) = Len(us) + 1
      /\ ws[Len(us) + 1] = u /\ \A n \in 1..Len(us) : ws[n] = us[n]
    BY AppendProperties, LenProperties
<1> SUFFICES ASSUME NEW n \in 1..Len(ws) PROVE Ok(ws[n], sc)
    BY DEF AllOk
<1>2. n = Len(us) + 1 \/ n \in 1..Len(us)
    BY <1>1
<1> QED
    BY <1>1, <1>2 DEF AllOk

LEMMA ReplaceOk ==
    ASSUME NEW sc, NEW us \in Seq(User), NEW n \in 1..Len(us), NEW u \in User,
           AllOk(us, sc), Ok(u, sc)
    PROVE  AllOk([us EXCEPT ![n] = u], sc)
<1>1. /\ Len([us EXCEPT ![n] = u]) = Len(us)
      /\ \A m \in 1..Len(us) : [us EXCEPT ![n] = u][m] = IF m = n THEN u ELSE us[m]
    BY ExceptSeq
<1> QED
    BY <1>1 DEF AllOk

\* Scanning more codes changes nothing that was right.
LEMMA OkGrows ==
    ASSUME NEW sc, NEW more, \A c \in Client : sc[c] \subseteq more[c],
           NEW u \in User, Ok(u, sc)
    PROVE  Ok(u, more)
BY DEF Ok, User

----------------------------------------------------------------------------
(* The merchant uses the database as its specification says *)

LEMMA UsesDb == MerchantInv /\ [MNext]_<<dbvars, mvars>> => [Next]_dbvars
<1> SUFFICES ASSUME MerchantInv, [MNext]_<<dbvars, mvars>> PROVE [Next]_dbvars
    OBVIOUS
<1>1. ASSUME NEW t \in Task, NEW k \in Key, GenerateQRCode(t, k) PROVE Next
    BY <1>1 DEF GenerateQRCode, Next
<1>2. ASSUME NEW c \in Client, NEW q \in shown, Scan(c, q) PROVE UNCHANGED dbvars
    BY <1>2 DEF Scan
<1>3. ASSUME NEW t \in Task, NEW k, NEW c, NEW q, NEW d, Receive(t, k, c, q, d) PROVE Next
    BY <1>3 DEF Receive, Next
<1>4. ASSUME NEW t \in Task, MFileStep(t) PROVE Next
    BY <1>4 DEF MFileStep, Next
<1>5. ASSUME NEW t \in Task, Finish(t) PROVE Next
    BY <1>5 DEF Next
<1>6. ASSUME NEW t \in Task,
             \/ ShowQRCode(t) \/ PresentDataUpdated(t) \/ UserMissing(t)
             \/ RejectSpvData(t) \/ VerifySpvData(t) \/ FetchMerklePath(t)
      PROVE  Next
    <2>1. Finish(t)
        BY <1>6 DEF ShowQRCode, PresentDataUpdated, UserMissing, RejectSpvData,
                    VerifySpvData, FetchMerklePath, End
    <2> QED
        BY <1>5, <2>1
<1>7. ASSUME NEW t \in Task, HandlePresentData(t) PROVE Next
    <2>1. CASE Readable(t) /\ frame[t].sender # Merchant
        <3>1. Update(t, frame[t].sender) /\ pc[t] = "found"
            BY <1>7, <2>1 DEF HandlePresentData, Found
        <3>2. frame[t].sender \in Client
            BY <3>1 DEF MerchantInv, HandlersHold, Frame
        <3> QED
            BY <3>1, <3>2 DEF Next
    <2>2. CASE ~(Readable(t) /\ frame[t].sender # Merchant)
        BY <1>5, <1>7, <2>2 DEF HandlePresentData, End
    <2> QED
        BY <2>1, <2>2
<1>8. CASE MRestart
    BY <1>8 DEF MRestart, Next
<1>9. CASE UNCHANGED <<dbvars, mvars>>
    BY <1>9
<1> QED
    BY <1>1, <1>2, <1>3, <1>4, <1>6, <1>7, <1>8, <1>9 DEF MNext

----------------------------------------------------------------------------
(* The invariant *)

LEMMA MerchantInit == MInit => MerchantInv
<1> SUFFICES ASSUME MInit PROVE MerchantInv
    OBVIOUS
<1>1. Init /\ DbInv
    BY DbInit DEF MInit
<1>2. MTypeOK
    BY <1>1, MerchantAssumption DEF MInit, MTypeOK, DbInv
<1>3. HandlersHold
    BY <1>1 DEF Init, HandlersHold
<1>4. PeersScannedTheCode
    <2>1. file.users = <<>> /\ \A t \in Task : snap[t] = <<>> /\ op[t] = "none"
        BY <1>1 DEF Init, Missing
    <2> QED
        BY <2>1, EmptyOk, PeersByArray DEF Peers
<1>5. RepliesWithinTheCode
    BY DEF MInit, RepliesWithinTheCode
<1> QED
    BY <1>1, <1>2, <1>3, <1>4, <1>5 DEF MerchantInv

\* A request that ends gives up what it held.
LEMMA FinishHolds ==
    ASSUME MerchantInv, NEW t \in Task, Finish(t), UNCHANGED scanned,
           \A s \in Task \ {t} : frame'[s] = frame[s]
    PROVE  HandlersHold' /\ PeersScannedTheCode'
<1>1. TypeOK /\ HandlersHold /\ Peers(file.users, snap, op, user, scanned)
    BY PeersByArray DEF MerchantInv, DbInv
<1>2. /\ pc'[t] = "idle" /\ op'[t] = "none" /\ user'[t] = NoClient /\ snap'[t] = <<>>
      /\ \A s \in Task \ {t} : /\ pc'[s] = pc[s] /\ op'[s] = op[s]
                               /\ user'[s] = user[s] /\ snap'[s] = snap[s]
      /\ file' = file
    BY <1>1 DEF Finish, TypeOK
<1>3. HandlersHold'
    <2> SUFFICES ASSUME NEW s \in Task
                 PROVE  /\ op'[s] # "none" => user'[s] \in User
                        /\ op'[s] \in {"findOne", "update"} =>
                              frame'[s] \in Frame /\ frame'[s].code \in scanned'[frame'[s].sender]
                        /\ op'[s] = "findOne" /\ pc'[s] \in {"read", "found"} =>
                              user'[s].id = frame'[s].code.id
                        /\ op'[s] = "create" /\ pc'[s] = "read" => user'[s].peer = NoClient
                        /\ pc'[s] = "found" => op'[s] = "findOne"
        BY DEF HandlersHold, Frame
    <2>1. CASE s = t
        BY <1>2, <2>1
    <2>2. CASE s # t
        BY <1>1, <1>2, <2>2 DEF HandlersHold
    <2> QED
        BY <2>1, <2>2
<1>4. Peers(file'.users, snap', op', user', scanned')
    <2>1. \A s \in Task : AllOk(snap'[s], scanned')
        BY <1>1, <1>2, EmptyOk DEF Peers
    <2> QED
        BY <1>1, <1>2, <2>1 DEF Peers
<1> QED
    BY <1>3, <1>4, PeersByArrayNext

\* A request that calls the database hands it a user that is right.
LEMMA CallHolds ==
    ASSUME MerchantInv, NEW t \in Task, NEW o \in {"create", "findOne", "update"},
           NEW u \in User, Call(t, o, u), Ok(u, scanned), UNCHANGED scanned,
           \A s \in Task \ {t} : frame'[s] = frame[s],
           o # "create" =>
              frame'[t] \in Frame /\ frame'[t].code \in scanned[frame'[t].sender],
           o = "findOne" => u.id = frame'[t].code.id,
           o = "create" => u.peer = NoClient
    PROVE  HandlersHold' /\ PeersScannedTheCode'
<1>1. TypeOK /\ HandlersHold /\ Peers(file.users, snap, op, user, scanned)
    BY PeersByArray DEF MerchantInv, DbInv
<1>2. /\ pc'[t] = "read" /\ op'[t] = o /\ user'[t] = u
      /\ \A s \in Task \ {t} : pc'[s] = pc[s] /\ op'[s] = op[s] /\ user'[s] = user[s]
      /\ file' = file /\ snap' = snap
    BY <1>1 DEF Call, TypeOK
<1>3. HandlersHold'
    <2> SUFFICES ASSUME NEW s \in Task
                 PROVE  /\ op'[s] # "none" => user'[s] \in User
                        /\ op'[s] \in {"findOne", "update"} =>
                              frame'[s] \in Frame /\ frame'[s].code \in scanned'[frame'[s].sender]
                        /\ op'[s] = "findOne" /\ pc'[s] \in {"read", "found"} =>
                              user'[s].id = frame'[s].code.id
                        /\ op'[s] = "create" /\ pc'[s] = "read" => user'[s].peer = NoClient
                        /\ pc'[s] = "found" => op'[s] = "findOne"
        BY DEF HandlersHold, Frame
    <2>1. CASE s = t
        BY <1>2, <2>1
    <2>2. CASE s # t
        BY <1>1, <1>2, <2>2 DEF HandlersHold
    <2> QED
        BY <2>1, <2>2
<1>4. Peers(file'.users, snap', op', user', scanned')
    BY <1>1, <1>2 DEF Peers
<1> QED
    BY <1>3, <1>4, PeersByArrayNext

\* Reading and writing the file brings no peer where it does not belong.
LEMMA FileStepHolds ==
    ASSUME MerchantInv, NEW t \in Task, FileStep(t), UNCHANGED mvars
    PROVE  HandlersHold' /\ PeersScannedTheCode'
<1>1. /\ TypeOK /\ HeldAsCreated /\ HandlersHold
      /\ Peers(file.users, snap, op, user, scanned)
    BY PeersByArray DEF MerchantInv, DbInv
<1>2. UNCHANGED <<frame, scanned>>
    BY DEF mvars
<1>3. ASSUME NEW us \in Seq(User), AllOk(us, scanned), AfterRead(t, us)
      PROVE  HandlersHold' /\ PeersScannedTheCode'
    <2>1. /\ pc[t] = "read" /\ UNCHANGED <<file, op, keys>> /\ user[t] \in User
          /\ CreateAfterRead(t, us) \/ FindOneAfterRead(t, us) \/ UpdateAfterRead(t, us)
        BY <1>1, <1>3 DEF AfterRead, HeldAsCreated
    <2>2. Ok(user[t], scanned)
        BY <1>1, <2>1 DEF Peers, CreateAfterRead, FindOneAfterRead, UpdateAfterRead
    <2>3. /\ pc'[t] \in {"open", "found", "missing"}
          /\ pc'[t] = "found" => op[t] = "findOne"
          /\ \A s \in Task \ {t} : pc'[s] = pc[s]
        BY <1>1, <2>1 DEF TypeOK, CreateAfterRead, FindOneAfterRead, UpdateAfterRead
    <2>4. /\ Ok(user'[t], scanned) /\ user'[t] \in User
          /\ op[t] = "findOne" /\ pc'[t] = "found" => user'[t].id = user[t].id
          /\ \A s \in Task \ {t} : user'[s] = user[s]
        <3>1. CASE CreateAfterRead(t, us)
            <4>1. user' = [user EXCEPT ![t] = [user[t] EXCEPT !.id = NextId(us)]] /\ op[t] = "create"
                BY <3>1 DEF CreateAfterRead
            <4>2. user[t].peer = NoClient
                BY <1>1, <2>1, <4>1 DEF HandlersHold
            <4>3. user'[t] = [user[t] EXCEPT !.id = NextId(us)] /\ user'[t].peer = NoClient
                BY <1>1, <2>1, <4>1, <4>2 DEF TypeOK, User
            <4>4. user'[t] \in User
                BY <1>3, <2>1, <4>3, NextIdNat DEF User
            <4> QED
                BY <1>1, <4>1, <4>3, <4>4 DEF Ok, TypeOK
        <3>2. CASE FindOneAfterRead(t, us)
            <4>1. CASE user' = user /\ pc'[t] = "missing"
                BY <2>1, <2>2, <4>1
            <4>2. CASE \E n \in 1..Len(us) : /\ IsFirst(us, n, user[t].id)
                                            /\ user' = [user EXCEPT ![t] = us[n]]
                BY <1>1, <1>3, <4>2, ElementOfSeq DEF IsFirst, AllOk, TypeOK
            <4> QED
                BY <1>1, <3>2, <4>1, <4>2 DEF FindOneAfterRead, TypeOK
        <3>3. CASE UpdateAfterRead(t, us)
            BY <2>1, <2>2, <3>3 DEF UpdateAfterRead
        <3> QED
            BY <2>1, <3>1, <3>2, <3>3
    <2>5. AllOk(snap'[t], scanned) /\ \A s \in Task \ {t} : snap'[s] = snap[s]
        <3>1. CASE CreateAfterRead(t, us)
            <4> DEFINE u == [user[t] EXCEPT !.id = NextId(us)]
            <4>1. snap' = [snap EXCEPT ![t] = Append(us, u)] /\ user' = [user EXCEPT ![t] = u]
                BY <3>1 DEF CreateAfterRead
            <4>2. u \in User /\ u = user'[t]
                <5>1. NextId(us) \in Nat
                    BY <1>3, NextIdNat
                <5> QED
                    BY <1>1, <2>1, <4>1, <5>1 DEF User, TypeOK
            <4>3. AllOk(Append(us, u), scanned)
                BY <1>3, <2>4, <4>2, AppendOk
            <4> QED
                BY <1>1, <4>1, <4>3 DEF TypeOK
        <3>2. CASE FindOneAfterRead(t, us)
            BY <1>1, <3>2 DEF FindOneAfterRead, Peers
        <3>3. CASE UpdateAfterRead(t, us)
            <4>1. CASE snap' = snap
                BY <1>1, <4>1 DEF Peers
            <4>2. CASE \E n \in 1..Len(us) : snap' = [snap EXCEPT ![t] = [us EXCEPT ![n] = user[t]]]
                <5>1. PICK n \in 1..Len(us) : snap' = [snap EXCEPT ![t] = [us EXCEPT ![n] = user[t]]]
                    BY <4>2
                <5>2. AllOk([us EXCEPT ![n] = user[t]], scanned)
                    BY <1>3, <2>1, <2>2, ReplaceOk
                <5> QED
                    BY <1>1, <5>1, <5>2 DEF TypeOK
            <4> QED
                BY <3>3, <4>1, <4>2 DEF UpdateAfterRead
        <3> QED
            BY <2>1, <3>1, <3>2, <3>3
    <2>6. HandlersHold'
        <3> SUFFICES ASSUME NEW s \in Task
                     PROVE  /\ op'[s] # "none" => user'[s] \in User
                            /\ op'[s] \in {"findOne", "update"} =>
                                  frame'[s] \in Frame /\ frame'[s].code \in scanned'[frame'[s].sender]
                            /\ op'[s] = "findOne" /\ pc'[s] \in {"read", "found"} =>
                                  user'[s].id = frame'[s].code.id
                            /\ op'[s] = "create" /\ pc'[s] = "read" => user'[s].peer = NoClient
                            /\ pc'[s] = "found" => op'[s] = "findOne"
            BY DEF HandlersHold, Frame
        <3>1. CASE s = t
            BY <1>1, <1>2, <2>1, <2>3, <2>4, <3>1 DEF HandlersHold
        <3>2. CASE s # t
            BY <1>1, <1>2, <2>1, <2>3, <2>4, <3>2 DEF HandlersHold
        <3> QED
            BY <3>1, <3>2
    <2>7. Peers(file'.users, snap', op', user', scanned')
        BY <1>1, <1>2, <2>1, <2>4, <2>5 DEF Peers
    <2> QED
        BY <2>6, <2>7, PeersByArrayNext
<1>4. CASE ReadFile(t)
    <2>1. file.users \in Seq(User) /\ AllOk(file.users, scanned)
        BY <1>1 DEF TypeOK, Peers
    <2> QED
        BY <1>3, <1>4, <2>1 DEF ReadFile
<1>5. CASE ReadFails(t)
    <2>1. <<>> \in Seq(User) /\ AllOk(<<>>, scanned)
        BY EmptySeq, EmptyOk
    <2> QED
        BY <1>3, <1>5, <2>1 DEF ReadFails
<1>6. CASE TruncateFile(t) \/ WriteFile(t) \/ WriteFails(t)
    <2>1. /\ pc'[t] \in {"write", "done"} /\ \A s \in Task \ {t} : pc'[s] = pc[s]
          /\ UNCHANGED <<op, user, snap>>
        BY <1>1, <1>6 DEF TypeOK, TruncateFile, WriteFile, WriteFails
    <2>2. AllOk(file'.users, scanned)
        <3>1. file'.users \in {file.users, <<>>, snap[t]}
            BY <1>6 DEF TruncateFile, WriteFile, WriteFails, Missing, Written
        <3> QED
            BY <1>1, <3>1, EmptyOk DEF Peers
    <2>3. HandlersHold'
        BY <1>1, <1>2, <2>1 DEF HandlersHold
    <2>4. Peers(file'.users, snap', op', user', scanned')
        BY <1>1, <1>2, <2>1, <2>2 DEF Peers
    <2> QED
        BY <2>3, <2>4, PeersByArrayNext
<1> QED
    BY <1>4, <1>5, <1>6 DEF FileStep

\* Verdicts given earlier stay right when more codes are scanned.
LEMMA RepliesKept ==
    ASSUME MerchantInv, UNCHANGED replies,
           \A c \in Client : scanned[c] \subseteq scanned'[c]
    PROVE  RepliesWithinTheCode'
<1> SUFFICES ASSUME NEW r \in replies
             PROVE  /\ r.to # Merchant
                    /\ \E q \in scanned'[r.to] : q.id = r.code.id /\ q.key = r.code.key
                    /\ \E q \in scanned'[r.frame.sender] : q.key = r.code.key
    BY DEF RepliesWithinTheCode, HasScanned
<1>1. r.to \in Client /\ r.frame.sender \in Client
    BY DEF MerchantInv, MTypeOK, Reply, Frame
<1> QED
    BY <1>1 DEF MerchantInv, RepliesWithinTheCode, HasScanned

\* A verdict goes out on data that was decrypted with the key of a user that
\* has a peer.
LEMMA ReplyWithin ==
    ASSUME MerchantInv, NEW t \in Task, NEW v \in {"valid", "invalid"},
           Found(t, "presentSpvData"), Acceptable(t)
    PROVE  LET r == ReplyWith(t, v)
           IN  /\ r \in Reply /\ r.to # Merchant /\ HasScanned(r.to, r.code)
               /\ \E q \in scanned[r.frame.sender] : q.key = r.code.key
<1>1. /\ pc[t] = "found" /\ op[t] = "findOne"
      /\ frame[t] \in Frame /\ frame[t].code \in scanned[frame[t].sender]
    BY DEF Found, MerchantInv, HandlersHold
<1>2. user[t] \in User
    BY <1>1 DEF MerchantInv, DbInv, HeldAsCreated
<1>3. user[t].peer # NoClient /\ frame[t].code.key = user[t].key
    BY DEF Acceptable, Readable
<1>4. user[t].peer # Merchant /\ HasScanned(user[t].peer, user[t])
    BY <1>1, <1>3 DEF MerchantInv, PeersScannedTheCode
<1>5. user[t].peer \in Client
    BY <1>2, <1>3 DEF User
<1>6. ReplyWith(t, v) \in Reply
    BY <1>1, <1>2, <1>5 DEF ReplyWith, Reply
<1> QED
    BY <1>1, <1>3, <1>4, <1>6 DEF ReplyWith

LEMMA MerchantStep == MerchantInv /\ [MNext]_<<dbvars, mvars>> => MerchantInv'
<1> SUFFICES ASSUME MerchantInv, [MNext]_<<dbvars, mvars>> PROVE MerchantInv'
    OBVIOUS
<1>1. MTypeOK /\ TypeOK /\ HandlersHold /\ PeersScannedTheCode /\ RepliesWithinTheCode
    BY DEF MerchantInv, DbInv
<1>2. DbInv' /\ TypeOK'
    <2>1. DbInv /\ [Next]_dbvars
        BY UsesDb DEF MerchantInv
    <2> QED
        BY <2>1, DbStep DEF DbInv
<1> DEFINE Rest == MTypeOK' /\ HandlersHold' /\ PeersScannedTheCode' /\ RepliesWithinTheCode'
<1>3. SUFFICES Rest
    BY <1>2 DEF MerchantInv
<1>4. ASSUME NEW t \in Task, NEW k \in Key, GenerateQRCode(t, k) PROVE Rest
    <2> DEFINE u == [id |-> 0, key |-> k, peer |-> NoClient]
    <2>1. Call(t, "create", u) /\ UNCHANGED mvars
        BY <1>4 DEF GenerateQRCode, Create
    <2>2. u \in User /\ Ok(u, scanned)
        BY DEF User, Ok
    <2>3. HandlersHold' /\ PeersScannedTheCode'
        BY <2>1, <2>2, CallHolds DEF mvars
    <2> QED
        BY <1>1, <1>2, <2>1, <2>3, RepliesKept DEF MTypeOK, mvars
<1>5. ASSUME NEW c \in Client, NEW q \in shown, Scan(c, q) PROVE Rest
    <2>1. /\ scanned' = [scanned EXCEPT ![c] = @ \cup {q}]
          /\ UNCHANGED <<dbvars, requireClientMerklePath, shown, frame, acknowledged,
                         replies, received>>
        BY <1>5 DEF Scan
    <2>2. /\ scanned' \in [Client -> SUBSET User]
          /\ \A d \in Client : scanned[d] \subseteq scanned'[d]
        BY <1>1, <2>1 DEF MTypeOK
    <2>3. MTypeOK'
        BY <1>1, <1>2, <2>1, <2>2 DEF MTypeOK
    <2>4. HandlersHold'
        <3>1. ASSUME NEW t \in Task, frame[t] \in Frame, frame[t].code \in scanned[frame[t].sender]
              PROVE  frame[t].code \in scanned'[frame[t].sender]
            BY <2>2, <3>1 DEF Frame
        <3> QED
            BY <1>1, <2>1, <3>1 DEF HandlersHold, dbvars
    <2>5. PeersScannedTheCode'
        <3>1. /\ UNCHANGED <<file, snap, op, user>>
              /\ Peers(file.users, snap, op, user, scanned)
            BY <1>1, <2>1, PeersByArray DEF dbvars
        <3>2. ASSUME NEW us \in Seq(User), AllOk(us, scanned) PROVE AllOk(us, scanned')
            <4> SUFFICES ASSUME NEW n \in 1..Len(us) PROVE Ok(us[n], scanned')
                BY DEF AllOk
            <4>1. us[n] \in User
                BY ElementOfSeq
            <4> QED
                BY <2>2, <3>2, <4>1, OkGrows DEF AllOk
        <3>3. ASSUME NEW t \in Task, op[t] # "none" PROVE Ok(user[t], scanned')
            <4>1. Ok(user[t], scanned)
                BY <3>1, <3>3 DEF Peers
            <4>2. user[t] \in User
                BY <1>1, <3>3 DEF HandlersHold
            <4> QED
                BY <2>2, <4>1, <4>2, OkGrows
        <3>4. file.users \in Seq(User) /\ \A t \in Task : snap[t] \in Seq(User)
            BY <1>1 DEF TypeOK
        <3> QED
            BY <3>1, <3>2, <3>3, <3>4, PeersByArrayNext DEF Peers
    <2> QED
        BY <2>1, <2>2, <2>3, <2>4, <2>5, RepliesKept
<1>6. ASSUME NEW t \in Task, NEW k \in {"presentData", "presentSpvData"}, NEW c \in Client,
             NEW q \in scanned[c], NEW d \in Data \cup {NoClient}, Receive(t, k, c, q, d)
      PROVE  Rest
    <2> DEFINE f == [kind |-> k, sender |-> c, code |-> q, data |-> d,
                     stored |-> <<c, q>> \in acknowledged]
    <2>1. /\ frame' = [frame EXCEPT ![t] = f] /\ received' = received + 1
          /\ received < MaxFrames /\ FindOne(t, q.id)
          /\ UNCHANGED <<requireClientMerklePath, shown, scanned, acknowledged, replies>>
        BY <1>6 DEF Receive
    <2>2. q \in User /\ f \in Frame
        BY <1>1 DEF MTypeOK, Frame
    <2>3. /\ frame' \in [Task -> Frame \cup {NoClient}] /\ frame'[t] = f
          /\ \A s \in Task \ {t} : frame'[s] = frame[s]
        BY <1>1, <2>1, <2>2 DEF MTypeOK
    <2>4. received' \in 0..MaxFrames
        BY <1>1, <2>1, MerchantAssumption DEF MTypeOK
    <2>5. MTypeOK'
        BY <1>1, <1>2, <2>1, <2>3, <2>4 DEF MTypeOK
    <2>6. HandlersHold' /\ PeersScannedTheCode'
        <3>1. PICK k0 \in Key : Call(t, "findOne", [id |-> q.id, key |-> k0, peer |-> NoClient])
            BY <2>1 DEF FindOne
        <3> DEFINE u == [id |-> q.id, key |-> k0, peer |-> NoClient]
        <3>2. u \in User /\ Ok(u, scanned) /\ u.id = q.id
            BY <2>2 DEF User, Ok
        <3>3. f.code = q /\ f.sender = c
            OBVIOUS
        <3> HIDE DEF f, u
        <3>4. Call(t, "findOne", u)
            BY <3>1 DEF u
        <3> QED
            BY <2>1, <2>2, <2>3, <3>2, <3>3, <3>4, CallHolds
    <2> QED
        BY <2>1, <2>5, <2>6, RepliesKept
<1>7. ASSUME NEW t \in Task, MFileStep(t) PROVE Rest
    <2>1. FileStep(t) /\ UNCHANGED mvars
        BY <1>7 DEF MFileStep
    <2> QED
        BY <1>1, <1>2, <2>1, FileStepHolds, RepliesKept DEF MTypeOK, mvars
<1>8. ASSUME NEW t \in Task, ShowQRCode(t) PROVE Rest
    <2>1. Finish(t) /\ shown' = shown \cup {user[t]} /\ op[t] = "create"
          /\ UNCHANGED <<requireClientMerklePath, scanned, frame, acknowledged, replies,
                         received>>
        BY <1>8 DEF ShowQRCode
    <2>2. user[t] \in User
        BY <1>1, <2>1 DEF HandlersHold
    <2>3. MTypeOK'
        BY <1>1, <1>2, <2>1, <2>2 DEF MTypeOK
    <2> QED
        BY <2>1, <2>3, FinishHolds, RepliesKept
\* The ends of handlers: what they share, and then what each adds.
<1>9. ASSUME NEW t \in Task, End(t),
             UNCHANGED <<requireClientMerklePath, shown, scanned, received>>
      PROVE  /\ HandlersHold' /\ PeersScannedTheCode'
             /\ frame' \in [Task -> Frame \cup {NoClient}]
             /\ acknowledged' \subseteq Client \X User /\ replies' \subseteq Reply => MTypeOK'
    <2>1. Finish(t) /\ frame' = [frame EXCEPT ![t] = NoClient]
        BY <1>9 DEF End
    <2>2. /\ frame' \in [Task -> Frame \cup {NoClient}]
          /\ \A s \in Task \ {t} : frame'[s] = frame[s]
        BY <1>1, <2>1 DEF MTypeOK
    <2> QED
        BY <1>1, <1>2, <1>9, <2>1, <2>2, FinishHolds DEF MTypeOK
<1>10. ASSUME NEW t \in Task, End(t),
              UNCHANGED <<requireClientMerklePath, shown, scanned, acknowledged, replies,
                          received>>
       PROVE  Rest
    BY <1>1, <1>9, <1>10, RepliesKept DEF MTypeOK
<1>11. ASSUME NEW t \in Task, HandlePresentData(t) PROVE Rest
    <2>1. /\ Found(t, "presentData")
          /\ UNCHANGED <<requireClientMerklePath, shown, scanned, acknowledged, replies,
                         received>>
        BY <1>11 DEF HandlePresentData
    <2>2. CASE Readable(t) /\ frame[t].sender # Merchant
        <3> DEFINE u == [user[t] EXCEPT !.peer = frame[t].sender]
        <3>1. Call(t, "update", u) /\ UNCHANGED frame
            BY <1>11, <2>2 DEF HandlePresentData, Update
        <3>2. /\ frame[t] \in Frame /\ frame[t].code \in scanned[frame[t].sender]
              /\ user[t] \in User /\ user[t].id = frame[t].code.id
            BY <1>1, <2>1 DEF Found, HandlersHold
        <3>3. u \in User
            BY <3>2 DEF User, Frame
        <3>4. Ok(u, scanned)
            <4>1. u.peer = frame[t].sender /\ u.id = frame[t].code.id /\ u.key = frame[t].code.key
                BY <2>2, <3>2 DEF User, Readable
            <4> QED
                BY <2>2, <3>2, <4>1 DEF Ok
        <3> HIDE DEF u
        <3>5. HandlersHold' /\ PeersScannedTheCode'
            BY <2>1, <3>1, <3>2, <3>3, <3>4, CallHolds
        <3>6. MTypeOK'
            BY <1>1, <1>2, <2>1, <3>1 DEF MTypeOK
        <3> QED
            BY <2>1, <3>5, <3>6, RepliesKept
    <2>3. CASE ~(Readable(t) /\ frame[t].sender # Merchant)
        BY <1>10, <1>11, <2>1, <2>3 DEF HandlePresentData
    <2> QED
        BY <2>2, <2>3
<1>12. ASSUME NEW t \in Task, UserMissing(t) \/ RejectSpvData(t) \/ FetchMerklePath(t)
       PROVE  Rest
    BY <1>10, <1>12 DEF UserMissing, RejectSpvData, FetchMerklePath
<1>13. ASSUME NEW t \in Task, PresentDataUpdated(t) PROVE Rest
    <2>1. /\ End(t) /\ acknowledged' = acknowledged \cup {<<frame[t].sender, frame[t].code>>}
          /\ UNCHANGED <<requireClientMerklePath, shown, scanned, replies, received>>
          /\ op[t] = "update"
        BY <1>13 DEF PresentDataUpdated
    <2>2. <<frame[t].sender, frame[t].code>> \in Client \X User
        BY <1>1, <2>1 DEF HandlersHold, Frame
    <2>3. acknowledged' \subseteq Client \X User /\ replies' \subseteq Reply
        BY <1>1, <2>1, <2>2 DEF MTypeOK
    <2> QED
        BY <1>9, <2>1, <2>3, RepliesKept
<1>14. ASSUME NEW t \in Task, VerifySpvData(t) PROVE Rest
    <2>1. /\ Found(t, "presentSpvData") /\ Acceptable(t) /\ End(t)
          /\ UNCHANGED <<requireClientMerklePath, shown, scanned, acknowledged, received>>
          /\ replies' = replies \cup Verdicts(t)
               \cup (IF frame[t].data.path THEN {} ELSE {ReplyWith(t, "invalid")})
        BY <1>14 DEF VerifySpvData
    <2>2. replies' \subseteq replies \cup {ReplyWith(t, "valid"), ReplyWith(t, "invalid")}
        BY <2>1 DEF Verdicts
    <2>3. ASSUME NEW r \in replies'
          PROVE  /\ r \in Reply /\ r.to # Merchant /\ HasScanned(r.to, r.code)
                 /\ \E q \in scanned[r.frame.sender] : q.key = r.code.key
        <3>1. CASE r \in replies
            BY <1>1, <3>1 DEF MTypeOK, RepliesWithinTheCode
        <3>2. CASE r = ReplyWith(t, "valid") \/ r = ReplyWith(t, "invalid")
            BY <2>1, <3>2, ReplyWithin
        <3> QED
            BY <2>2, <3>1, <3>2
    <2>4. RepliesWithinTheCode'
        BY <2>1, <2>3 DEF RepliesWithinTheCode, HasScanned
    <2>5. replies' \subseteq Reply /\ acknowledged' \subseteq Client \X User
        BY <1>1, <2>1, <2>3 DEF MTypeOK
    <2> QED
        BY <1>9, <2>1, <2>4, <2>5
<1>15. CASE MRestart
    <2>1. /\ frame' = [t \in Task |-> NoClient] /\ Restart
          /\ UNCHANGED <<requireClientMerklePath, shown, scanned, acknowledged, replies,
                         received>>
        BY <1>15 DEF MRestart
    <2>2. MTypeOK'
        BY <1>1, <1>2, <2>1 DEF MTypeOK
    <2>3. /\ \A t \in Task : /\ pc'[t] = "idle" /\ op'[t] = "none" /\ snap'[t] = <<>>
          /\ file'.users = file.users \/ file'.users = <<>>
        BY <2>1 DEF Restart, Missing
    <2>4. HandlersHold'
        BY <2>3 DEF HandlersHold
    <2>5. PeersScannedTheCode'
        <3>1. AllOk(file.users, scanned)
            BY <1>1, PeersByArray DEF Peers
        <3>2. AllOk(file'.users, scanned') /\ \A t \in Task : AllOk(snap'[t], scanned')
            BY <2>1, <2>3, <3>1, EmptyOk
        <3> QED
            BY <2>3, <3>2, PeersByArrayNext DEF Peers
    <2> QED
        BY <2>1, <2>2, <2>4, <2>5, RepliesKept
<1>16. CASE UNCHANGED <<dbvars, mvars>>
    <2>1. Peers(file'.users, snap', op', user', scanned')
        BY <1>1, <1>16, PeersByArray DEF dbvars, mvars
    <2>2. HandlersHold'
        BY <1>1, <1>16 DEF HandlersHold, dbvars, mvars
    <2>3. UNCHANGED <<replies, scanned>>
        BY <1>16 DEF mvars
    <2> QED
        BY <1>1, <1>2, <1>16, <2>1, <2>2, <2>3, PeersByArrayNext, RepliesKept DEF MTypeOK, mvars
<1> QED
    <2>1. ASSUME NEW t \in Task, NEW c \in Client, NEW q \in scanned[c],
                 \/ \E d \in Data : Receive(t, "presentSpvData", c, q, d)
                 \/ Receive(t, "presentData", c, q, NoClient)
          PROVE  Rest
        BY <1>6, <2>1
    <2> HIDE DEF Rest
    <2> QED
        BY <1>4, <1>5, <1>7, <1>8, <1>11, <1>12, <1>13, <1>14, <1>15, <1>16, <2>1 DEF MNext

\* The invariant is inductive, however many handlers overlap.
THEOREM MerchantInvariant == MSpec => []MerchantInv
<1> QED
    BY MerchantInit, MerchantStep, PTL DEF MSpec

\* The merchant implements the specification of its database: every step of a
\* handler is a call, a file operation or the end of a request.
THEOREM MerchantUsesDb == MSpec => Spec
<1>1. MInit => Init
    BY DEF MInit
<1> QED
    BY <1>1, UsesDb, MerchantInvariant, PTL DEF MSpec, Spec

\* The merchant's variables keep their types: replies name users and frames.
THEOREM MerchantTyped == MSpec => []MTypeOK
<1>1. MerchantInv => MTypeOK
    BY DEF MerchantInv
<1> QED
    BY <1>1, MerchantInvariant, PTL

\* Peers have scanned the code of the user they are stored with.
THEOREM PeersHaveScanned == MSpec => []PeersScannedTheCode
<1>1. MerchantInv => PeersScannedTheCode
    BY DEF MerchantInv
<1> QED
    BY <1>1, MerchantInvariant, PTL

\* Verdicts stay among the clients that scanned the code.
THEOREM VerdictsWithinTheCode == MSpec => []RepliesWithinTheCode
<1>1. MerchantInv => RepliesWithinTheCode
    BY DEF MerchantInv
<1> QED
    BY <1>1, MerchantInvariant, PTL

----------------------------------------------------------------------------
(* Requests and frames one after the other *)

\* What is recorded stays so: create adds behind it, update puts a user with a
\* peer in the place of the one with the same id.
LEMMA RecordedKept ==
    ASSUME Serial, DbInv, SerialInv, [Next]_dbvars, NEW t \in Task,
           op[t] = "update" => user[t].peer # NoClient,
           NEW q, Recorded(Latest(t), q)
    PROVE  Recorded(Latest(t)', q)
<1>0. TypeOK /\ file.users \in Seq(User)
    BY DEF DbInv, TypeOK
<1>1. ~Fault
    BY <1>0 DEF Fault, Serial, TypeOK
<1>2. \A s \in Task : s = t
    BY DEF Serial
<1>3. CASE Latest(t)' = Latest(t)
    BY <1>3
<1>4. CASE ReadFile(t)
  <2> DEFINE us == file.users
  <2>1. /\ pc[t] = "read" /\ file' = file /\ user[t] \in User
        /\ CreateAfterRead(t, us) \/ FindOneAfterRead(t, us) \/ UpdateAfterRead(t, us)
      BY <1>4 DEF ReadFile, AfterRead, DbInv, HeldAsCreated
  <2>2. PICK m \in 1..Len(us) : us[m].id = q.id /\ us[m].peer # NoClient
      BY <2>1 DEF Latest, Recorded
  <2>3. CASE pc'[t] \in {"found", "missing"}
      BY <1>3, <2>1, <2>3 DEF Latest
  <2>4. CASE CreateAfterRead(t, us)
    <3> DEFINE u == [user[t] EXCEPT !.id = NextId(us)]
    <3>1. u \in User
        BY <1>0, <2>1, NextIdNat DEF User
    <3>2. Latest(t)' = Append(us, u)
        BY <1>0, <2>4 DEF CreateAfterRead, Latest, TypeOK
    <3>3. m \in 1..Len(Append(us, u)) /\ Append(us, u)[m] = us[m]
        BY <1>0, <3>1, AppendProperties, LenProperties
    <3> QED
        BY <2>2, <3>2, <3>3 DEF Recorded
  <2>5. ASSUME NEW n \in 1..Len(us), IsFirst(us, n, user[t].id), op[t] = "update",
               snap' = [snap EXCEPT ![t] = [us EXCEPT ![n] = user[t]]],
               pc' = [pc EXCEPT ![t] = "open"]
        PROVE  Recorded(Latest(t)', q)
    <3> DEFINE ws == [us EXCEPT ![n] = user[t]]
    <3>1. Latest(t)' = ws
        BY <1>0, <2>5 DEF Latest, TypeOK
    <3>2. Len(ws) = Len(us) /\ \A k \in 1..Len(us) : ws[k] = IF k = n THEN user[t] ELSE us[k]
        BY <1>0, <2>1, ExceptSeq
    <3> HIDE DEF ws
    <3>3. ws[m].id = q.id /\ ws[m].peer # NoClient
        BY <2>2, <2>5, <3>2 DEF IsFirst
    <3> QED
        BY <3>1, <3>2, <3>3 DEF Recorded
  <2> QED
      BY <1>0, <2>1, <2>3, <2>4, <2>5 DEF FindOneAfterRead, UpdateAfterRead, TypeOK
<1>5. CASE UNCHANGED dbvars
    BY <1>3, <1>5 DEF dbvars, Latest
<1> QED
    BY <1>1, <1>2, <1>3, <1>4, <1>5, LatestKept
    DEF Next, FileStep, ReadFails, WriteFails, Restart

LEMMA AcknowledgedInit == MInit => AcknowledgedInv
BY DEF MInit, Init, AcknowledgedInv, AcknowledgedIsFound

\* What the handler of a frame holds follows the database's answers.
LEMMA AcknowledgedFileStep ==
    ASSUME Serial, MerchantInv, SerialInv, AcknowledgedInv, NEW t \in Task,
           FileStep(t), UNCHANGED mvars,
           \A a \in acknowledged : Recorded(Latest(t)', a[2])
    PROVE  AcknowledgedInv'
<1>0. TypeOK /\ HandlersHold /\ file.users \in Seq(User)
    BY DEF MerchantInv, DbInv, TypeOK
<1>1. ~Fault
    BY <1>0 DEF Fault, Serial, TypeOK
<1>2. \A s \in Task : s = t
    BY DEF Serial
<1>3. UNCHANGED <<frame, acknowledged>>
    BY DEF mvars
<1>4. CASE ReadFile(t)
  <2> DEFINE us == file.users
  <2>1. /\ pc[t] = "read" /\ UNCHANGED <<file, op>> /\ user[t] \in User
        /\ CreateAfterRead(t, us) \/ FindOneAfterRead(t, us) \/ UpdateAfterRead(t, us)
      BY <1>4 DEF ReadFile, AfterRead, MerchantInv, DbInv, HeldAsCreated
  <2>2. Latest(t) = us /\ Numbered(us)
      BY <2>1 DEF Latest, SerialInv
  <2>3. CASE CreateAfterRead(t, us)
    <3>1. op'[t] = "create" /\ pc'[t] = "open"
        BY <1>0, <2>1, <2>3 DEF CreateAfterRead, TypeOK
    <3> QED
        BY <1>2, <1>3, <3>1 DEF AcknowledgedInv, AcknowledgedIsFound
  <2>4. CASE FindOneAfterRead(t, us)
    <3>1. op'[t] = "findOne" /\ user[t].id = frame[t].code.id
        BY <1>0, <2>1, <2>4 DEF FindOneAfterRead, HandlersHold
    <3>2. pc'[t] \in {"found", "missing"}
        BY <1>0, <2>4 DEF FindOneAfterRead, TypeOK
    <3>3. ASSUME frame[t] # NoClient, frame[t].stored
          PROVE  pc'[t] = "found" /\ user'[t].peer # NoClient
      <4>1. <<frame[t].sender, frame[t].code>> \in acknowledged
          BY <3>3 DEF AcknowledgedInv
      <4>2. Recorded(us, frame[t].code)
          BY <2>2, <4>1 DEF AcknowledgedInv
      <4>3. PICK m \in 1..Len(us) : us[m].id = user[t].id /\ us[m].peer # NoClient
          BY <3>1, <4>2 DEF Recorded
      <4>4. PICK n \in 1..Len(us) : /\ IsFirst(us, n, user[t].id)
                                   /\ user' = [user EXCEPT ![t] = us[n]]
                                   /\ pc' = [pc EXCEPT ![t] = "found"]
          BY <2>4, <4>3 DEF FindOneAfterRead
      <4>5. n = m
          BY <2>2, <4>3, <4>4 DEF IsFirst, Numbered
      <4> QED
          BY <1>0, <4>3, <4>4, <4>5 DEF TypeOK
    <3> QED
        BY <1>2, <1>3, <3>1, <3>2, <3>3 DEF AcknowledgedInv, AcknowledgedIsFound
  <2>5. CASE UpdateAfterRead(t, us)
    <3>1. /\ op'[t] = "update" /\ user' = user /\ op[t] = "update"
          /\ frame[t].kind = "presentData"
          /\ user[t].id = frame[t].code.id /\ user[t].peer # NoClient
        BY <2>1, <2>5 DEF UpdateAfterRead, AcknowledgedInv
    <3>2. CASE pc' = [pc EXCEPT ![t] = "missing"]
      <4>1. pc'[t] = "missing"
          BY <1>0, <3>2 DEF TypeOK
      <4> QED
          BY <1>2, <1>3, <3>1, <4>1 DEF AcknowledgedInv, AcknowledgedIsFound
    <3>3. ASSUME NEW n \in 1..Len(us), pc' = [pc EXCEPT ![t] = "open"],
                 snap' = [snap EXCEPT ![t] = [us EXCEPT ![n] = user[t]]]
          PROVE  AcknowledgedInv'
      <4> DEFINE ws == [us EXCEPT ![n] = user[t]]
      <4>1. pc'[t] = "open" /\ Latest(t)' = ws
          BY <1>0, <3>3 DEF TypeOK, Latest
      <4>2. n \in 1..Len(ws) /\ ws[n] = user[t]
          BY <1>0, <2>1, ExceptSeq
      <4> HIDE DEF ws
      <4>3. Recorded(Latest(t)', frame[t].code)
          BY <3>1, <4>1, <4>2 DEF Recorded
      <4> QED
          BY <1>2, <1>3, <3>1, <4>1, <4>3 DEF AcknowledgedInv, AcknowledgedIsFound
    <3> QED
        BY <2>5, <3>2, <3>3 DEF UpdateAfterRead
  <2> QED
      BY <2>1, <2>3, <2>4, <2>5
<1>5. CASE TruncateFile(t) \/ WriteFile(t)
  <2>1. /\ pc[t] \in {"open", "write"} /\ pc'[t] \in {"write", "done"}
        /\ UNCHANGED <<op, user>>
      BY <1>0, <1>5 DEF TruncateFile, WriteFile, TypeOK
  <2>2. Latest(t)' = Latest(t)
      BY <1>5, LatestKept DEF MerchantInv
  <2> QED
      BY <1>2, <1>3, <2>1, <2>2 DEF AcknowledgedInv, AcknowledgedIsFound
<1> QED
    BY <1>1, <1>4, <1>5 DEF FileStep, ReadFails, WriteFails

LEMMA AcknowledgedStep ==
    Serial /\ MerchantInv /\ SerialInv /\ AcknowledgedInv /\ [MNext]_<<dbvars, mvars>>
      => AcknowledgedInv'
<1> SUFFICES ASSUME Serial, MerchantInv, SerialInv, AcknowledgedInv,
                    [MNext]_<<dbvars, mvars>>
             PROVE  AcknowledgedInv'
    OBVIOUS
<1>0. TypeOK /\ MTypeOK /\ HandlersHold /\ DbInv
    BY DEF MerchantInv, DbInv
<1>1. ~Fault
    BY <1>0 DEF Fault, Serial, TypeOK
<1>2. \A s, t \in Task : s = t
    BY DEF Serial
<1>3. \A t \in Task : \A a \in acknowledged : Recorded(Latest(t)', a[2])
    BY <1>0, UsesDb, RecordedKept DEF AcknowledgedInv
<1>4. ASSUME NEW t \in Task, NEW k \in Key, GenerateQRCode(t, k)
      PROVE  AcknowledgedInv'
  <2>1. pc'[t] = "read" /\ op'[t] = "create" /\ UNCHANGED <<frame, acknowledged>>
      BY <1>0, <1>4 DEF GenerateQRCode, Create, Call, TypeOK, mvars
  <2> QED
      BY <1>2, <1>3, <2>1 DEF AcknowledgedInv, AcknowledgedIsFound
<1>5. CASE UNCHANGED <<dbvars, frame, acknowledged>>
    BY <1>5 DEF AcknowledgedInv, AcknowledgedIsFound, Latest, dbvars
<1>6. ASSUME NEW t \in Task, NEW k, NEW c, NEW q, NEW d, Receive(t, k, c, q, d)
      PROVE  AcknowledgedInv'
  <2>1. pc'[t] = "read" /\ op'[t] = "findOne" /\ acknowledged' = acknowledged
      BY <1>0, <1>6 DEF Receive, FindOne, Call, TypeOK
  <2>2. /\ frame'[t].sender = c /\ frame'[t].code = q
        /\ frame'[t].stored = (<<c, q>> \in acknowledged)
      BY <1>0, <1>6 DEF Receive, MTypeOK
  <2> QED
      BY <1>2, <1>3, <2>1, <2>2 DEF AcknowledgedInv, AcknowledgedIsFound
<1>7. ASSUME NEW t \in Task, MFileStep(t)
      PROVE  AcknowledgedInv'
    BY <1>3, <1>7, AcknowledgedFileStep DEF MFileStep
\* A request that ends leaves the file as it is; what it adds to the presentations
\* acknowledged is recorded in it.
<1>8. ASSUME NEW t \in Task, Finish(t),
             frame' = frame \/ frame' = [frame EXCEPT ![t] = NoClient],
             \A a \in acknowledged' \ acknowledged : Recorded(Latest(t), a[2]),
             acknowledged \subseteq acknowledged'
      PROVE  AcknowledgedInv'
  <2>1. pc'[t] = "idle" /\ op'[t] = "none" /\ Latest(t)' = Latest(t)
      BY <1>0, <1>8, LatestKept DEF Finish, TypeOK
  <2>2. frame'[t] \in {frame[t], NoClient}
      BY <1>0, <1>8 DEF MTypeOK
  <2>3. \A a \in acknowledged' : Recorded(Latest(t)', a[2])
      BY <1>3, <1>8, <2>1
  <2> QED
      BY <1>2, <1>8, <2>1, <2>2, <2>3 DEF AcknowledgedInv, AcknowledgedIsFound
<1>9. ASSUME NEW t \in Task,
             \/ ShowQRCode(t) \/ UserMissing(t) \/ RejectSpvData(t)
             \/ VerifySpvData(t) \/ FetchMerklePath(t)
      PROVE  AcknowledgedInv'
  <2>1. /\ Finish(t) /\ acknowledged' = acknowledged
        /\ frame' = frame \/ frame' = [frame EXCEPT ![t] = NoClient]
      BY <1>9 DEF ShowQRCode, UserMissing, RejectSpvData, VerifySpvData, FetchMerklePath, End
  <2> QED
      BY <1>8, <2>1
<1>10. ASSUME NEW t \in Task, HandlePresentData(t)
       PROVE  AcknowledgedInv'
  <2>1. acknowledged' = acknowledged /\ Found(t, "presentData")
      BY <1>10 DEF HandlePresentData
  <2>2. CASE End(t)
      BY <1>8, <2>1, <2>2 DEF End
  <2>3. CASE Update(t, frame[t].sender) /\ UNCHANGED frame
    <3>1. /\ frame[t] \in Frame /\ user[t] \in User
          /\ user[t].id = frame[t].code.id /\ frame[t].kind = "presentData"
        BY <1>0, <2>1 DEF Found, HandlersHold
    <3>2. frame[t].sender # NoClient
        BY <3>1, DbAssumption DEF Frame
    <3>3. /\ pc'[t] = "read" /\ op'[t] = "update"
          /\ user'[t] = [user[t] EXCEPT !.peer = frame[t].sender]
        BY <1>0, <2>3 DEF Update, Call, TypeOK
    <3>4. user'[t].id = frame[t].code.id /\ user'[t].peer # NoClient
        BY <3>1, <3>2, <3>3 DEF User
    <3> QED
        BY <1>2, <1>3, <2>1, <2>3, <3>1, <3>3, <3>4 DEF AcknowledgedInv, AcknowledgedIsFound
  <2> QED
      BY <1>10, <2>2, <2>3 DEF HandlePresentData
<1>11. ASSUME NEW t \in Task, PresentDataUpdated(t)
       PROVE  AcknowledgedInv'
  <2>1. /\ op[t] = "update" /\ pc[t] = "done"
        /\ acknowledged' = acknowledged \cup {<<frame[t].sender, frame[t].code>>}
        /\ Finish(t) /\ frame' = [frame EXCEPT ![t] = NoClient]
      BY <1>11 DEF PresentDataUpdated, End
  <2>2. Recorded(Latest(t), frame[t].code)
      BY <2>1 DEF AcknowledgedInv
  <2>3. ASSUME NEW a \in acknowledged' \ acknowledged
        PROVE  Recorded(Latest(t), a[2])
    <3>1. a[2] = frame[t].code
        BY <2>1
    <3> QED
        BY <2>2, <3>1
  <2> QED
      BY <1>8, <2>1, <2>3
<1>12. CASE MRestart
    BY <1>1, <1>12 DEF MRestart, Restart
<1>13. CASE UNCHANGED <<dbvars, mvars>>
    BY <1>5, <1>13 DEF mvars
<1>14. ASSUME NEW c \in Client, NEW q \in shown, Scan(c, q)
       PROVE  AcknowledgedInv'
    BY <1>5, <1>14 DEF Scan
<1> QED
    BY <1>4, <1>6, <1>7, <1>9, <1>10, <1>11, <1>12, <1>13, <1>14 DEF MNext

\* With requests one after the other on a sound file system no acknowledged
\* presentation is lost: the client's data finds its user, with a peer.
THEOREM SerialAcknowledgedIsFound == Serial => (MSpec => []AcknowledgedIsFound)
<1>1. SUFFICES ASSUME Serial
               PROVE  MSpec => []AcknowledgedIsFound
    OBVIOUS
<1>2. AcknowledgedInv => AcknowledgedIsFound
    BY DEF AcknowledgedInv
<1>3. MInit => SerialInv /\ AcknowledgedInv
    BY SerialInit, AcknowledgedInit DEF MInit
<1>4. MerchantInv /\ SerialInv /\ AcknowledgedInv /\ [MNext]_<<dbvars, mvars>>
        => (SerialInv /\ AcknowledgedInv)'
    BY <1>1, UsesDb, SerialStep, AcknowledgedStep DEF MerchantInv
<1> QED
    BY <1>2, <1>3, <1>4, MerchantInvariant, PTL DEF MSpec
=============================================================================
