------------------------- MODULE SocketServerProofs -------------------------
(***************************************************************************)
(* Proofs about the relay server, for any set of sockets, any set of ids   *)
(* and any number of frames: the invariant ServerInv, the rule about which *)
(* steps take an id offline, and that the server implements Relay.         *)
(***************************************************************************)
EXTENDS SocketServer, SequenceTheorems, TLAPS

----------------------------------------------------------------------------
(* Type correctness *)

\* One handler of a connection keeps the users map and the outboxes typed.
LEMMA HandlersTyped ==
    ASSUME TypeOK, NEW c \in Conn, HandleMessage(c)
    PROVE  TypeOK'
<1> DEFINE f == Head(inbox[c])
<1>1. f \in Frame /\ Tail(inbox[c]) \in Seq(Frame)
    BY HeadTailProperties DEF TypeOK, HandleMessage
<1>2. inbox' \in [Conn -> Seq(Frame)]
    BY <1>1 DEF TypeOK, HandleMessage
<1>3. f.id \in CallId
    BY <1>1 DEF Frame
<1>4. CASE HandlePresentApplicationId(c, f)
    BY <1>2, <1>3, <1>4 DEF TypeOK, HandleMessage, HandlePresentApplicationId, Registered
<1>5. CASE HandlePresentRemoveApplicationId(c, f)
    BY <1>2, <1>3, <1>5
       DEF TypeOK, HandleMessage, HandlePresentRemoveApplicationId, Deregistered
<1>6. CASE ForwardMessage(c, f)
    <2>1. outbox' \in [Conn -> Seq(Frame)]
        <3> DEFINE d == users[f.id]
        <3>1. CASE d # NoConn /\ conn[d] = "open"
            <4>1. d \in Conn
                BY <1>3, <3>1 DEF TypeOK
            <4>2. Append(outbox[d], f) \in Seq(Frame)
                BY <1>1, <4>1, AppendProperties DEF TypeOK
            <4> QED
                BY <1>6, <3>1, <4>1, <4>2 DEF TypeOK, ForwardMessage, Delivered
        <3>2. CASE ~(d # NoConn /\ conn[d] = "open")
            BY <1>6, <3>2 DEF TypeOK, ForwardMessage, Delivered
        <3> QED
            BY <3>1, <3>2
    <2> QED
        BY <1>2, <1>6, <2>1 DEF TypeOK, HandleMessage, ForwardMessage
<1>7. CASE DropMalformed(c, f)
    BY <1>2, <1>7 DEF TypeOK, HandleMessage, DropMalformed
<1> QED
    BY <1>4, <1>5, <1>6, <1>7 DEF HandleMessage

LEMMA TypeStep == TypeOK /\ [Next]_vars => TypeOK'
<1> SUFFICES ASSUME TypeOK, [Next]_vars PROVE TypeOK'
    OBVIOUS
<1> USE ServerAssumption
<1>1. CASE Start
    BY <1>1 DEF TypeOK, Start
<1>2. CASE Destroy
    BY <1>2 DEF TypeOK, Destroy
<1>3. CASE Crash
    BY <1>3 DEF TypeOK, Crash
<1>4. ASSUME NEW c \in Conn, Accept(c) PROVE TypeOK'
    BY <1>4 DEF TypeOK, Accept
<1>5. ASSUME NEW c \in Conn, NEW e \in Event, NEW i \in CallId, PeerSend(c, e, i)
      PROVE  TypeOK'
    <2> DEFINE f == [event |-> e, id |-> i, from |-> c, n |-> sent[c] + 1]
    <2>1. sent[c] + 1 \in 1..MaxSent /\ sent' \in [Conn -> 0..MaxSent]
        BY <1>5 DEF TypeOK, PeerSend
    <2>2. Append(inbox[c], f) \in Seq(Frame)
        BY <2>1, AppendProperties DEF TypeOK, Frame
    <2> QED
        BY <1>5, <2>1, <2>2 DEF TypeOK, PeerSend
<1>6. ASSUME NEW c \in Conn, NEW k \in 0..Len(inbox[c]), Disconnect(c, k)
      PROVE  TypeOK'
    <2>1. SubSeq(inbox[c], 1, k) \in Seq(Frame)
        BY SubSeqProperties, ElementOfSeq DEF TypeOK
    <2> QED
        BY <1>6, <2>1 DEF TypeOK, Disconnect
<1>7. ASSUME NEW c \in Conn, HandleMessage(c) PROVE TypeOK'
    BY <1>7, HandlersTyped
<1>8. ASSUME NEW c \in Conn, HandleClose(c) PROVE TypeOK'
    BY <1>8 DEF TypeOK, HandleClose, WithoutSocket
<1>9. CASE UNCHANGED vars
    BY <1>9 DEF TypeOK, vars
<1> QED
    BY <1>1, <1>2, <1>3, <1>4, <1>5, <1>6, <1>7, <1>8, <1>9 DEF Next

LEMMA TypeInit == Init => TypeOK
<1> SUFFICES ASSUME Init PROVE TypeOK
    OBVIOUS
<1>1. <<>> \in Seq(Frame)
    BY EmptySeq
<1> QED
    BY <1>1, ServerAssumption DEF Init, TypeOK

\* The variables of the server always have the types the code gives them:
\* the users map holds sockets only, the queues hold frames of known peers.
THEOREM TypeCorrect == Spec => []TypeOK
<1> QED
    BY TypeInit, TypeStep, PTL DEF Spec

----------------------------------------------------------------------------
(* Registrations *)

\* Purging a socket leaves no entry for it, and no new entries.
LEMMA PurgeComplete ==
    ASSUME TypeOK, NEW c \in Conn, NEW i \in CallId,
           WithoutSocket(c)[i] # NoConn
    PROVE  WithoutSocket(c)[i] = users[i] /\ users[i] # c
BY DEF WithoutSocket

LEMMA RegistrationStep ==
    ASSUME TypeOK, NoDanglingRegistration, [Next]_vars
    PROVE  NoDanglingRegistration'
<1> USE ServerAssumption
<1>1. CASE Start \/ Destroy \/ UNCHANGED vars
    BY <1>1 DEF NoDanglingRegistration, Attached, Start, Destroy, vars
<1>2. CASE Crash
    BY <1>2 DEF NoDanglingRegistration, Crash
<1>3. ASSUME NEW c \in Conn, Accept(c) PROVE NoDanglingRegistration'
    BY <1>3 DEF TypeOK, NoDanglingRegistration, Attached, Accept
<1>4. ASSUME NEW c \in Conn, NEW e \in Event, NEW i \in CallId, PeerSend(c, e, i)
      PROVE  NoDanglingRegistration'
    BY <1>4 DEF NoDanglingRegistration, Attached, PeerSend
<1>5. ASSUME NEW c \in Conn, NEW k \in 0..Len(inbox[c]), Disconnect(c, k)
      PROVE  NoDanglingRegistration'
    BY <1>5 DEF TypeOK, NoDanglingRegistration, Attached, Disconnect
<1>6. ASSUME NEW c \in Conn, HandleMessage(c) PROVE NoDanglingRegistration'
    <2> DEFINE f == Head(inbox[c])
    <2>1. CASE HandlePresentApplicationId(c, f)
        BY <1>6, <2>1 DEF TypeOK, NoDanglingRegistration, Attached, HandleMessage,
                          HandlePresentApplicationId, Registered
    <2>2. CASE HandlePresentRemoveApplicationId(c, f)
        BY <1>6, <2>2 DEF TypeOK, NoDanglingRegistration, Attached, HandleMessage,
                          HandlePresentRemoveApplicationId, Deregistered
    <2>3. CASE ForwardMessage(c, f) \/ DropMalformed(c, f)
        BY <1>6, <2>3 DEF NoDanglingRegistration, Attached, HandleMessage,
                          ForwardMessage, DropMalformed
    <2> QED
        BY <1>6, <2>1, <2>2, <2>3 DEF HandleMessage
<1>7. ASSUME NEW c \in Conn, HandleClose(c) PROVE NoDanglingRegistration'
    BY <1>7, PurgeComplete DEF TypeOK, NoDanglingRegistration, Attached, HandleClose
<1> QED
    BY <1>1, <1>2, <1>3, <1>4, <1>5, <1>6, <1>7 DEF Next

\* The users map never names a socket that is gone, whatever the order of
\* registrations, breaks and close events.
THEOREM RegistrationsLive == Spec => []NoDanglingRegistration
<1>1. Init => NoDanglingRegistration
    BY DEF Init, NoDanglingRegistration
<1> QED
    BY <1>1, TypeInit, TypeStep, RegistrationStep, PTL DEF Spec

\* An id goes offline only by its holder's close, a Remove or the process.
THEOREM OnlyHolderCloseEvictsHolds == Spec => OnlyHolderCloseEvicts
<1> DEFINE Evicts == \A i \in CallId :
          (Online(i) /\ ~Online(i)') =>
            \/ phase' = "down"
            \/ conn[users[i]] = "closing" /\ conn'[users[i]] = "closed"
            \/ \E c \in Conn :
                 /\ inbox[c] # <<>>
                 /\ Head(inbox[c]).event = "Remove" /\ Head(inbox[c]).id = i
                 /\ inbox'[c] = Tail(inbox[c])
<1>1. ASSUME TypeOK, [Next]_vars, ~UNCHANGED vars PROVE Evicts
    <2> SUFFICES ASSUME NEW i \in CallId, Online(i), ~Online(i)'
                 PROVE  \/ phase' = "down"
                        \/ conn[users[i]] = "closing" /\ conn'[users[i]] = "closed"
                        \/ \E c \in Conn :
                             /\ inbox[c] # <<>>
                             /\ Head(inbox[c]).event = "Remove" /\ Head(inbox[c]).id = i
                             /\ inbox'[c] = Tail(inbox[c])
        BY Zenon
    <2> USE ServerAssumption
    <2>1. CASE Start \/ Destroy \/ Crash
        BY <2>1 DEF Online, Start, Destroy, Crash
    <2>2. ASSUME NEW c \in Conn,
                 \/ Accept(c)
                 \/ \E e \in Event, j \in CallId : PeerSend(c, e, j)
                 \/ \E k \in 0..Len(inbox[c]) : Disconnect(c, k)
          PROVE  FALSE
        BY <2>2 DEF Online, Accept, PeerSend, Disconnect
    <2>3. ASSUME NEW c \in Conn, HandleMessage(c)
          PROVE  \E d \in Conn :
                   /\ inbox[d] # <<>>
                   /\ Head(inbox[d]).event = "Remove" /\ Head(inbox[d]).id = i
                   /\ inbox'[d] = Tail(inbox[d])
        <3> DEFINE f == Head(inbox[c])
        <3>1. ~HandlePresentApplicationId(c, f)
            BY <1>1, <2>3 DEF TypeOK, Online, HandlePresentApplicationId, Registered
        <3>2. ~(ForwardMessage(c, f) \/ DropMalformed(c, f))
            BY DEF Online, ForwardMessage, DropMalformed
        <3>3. HandlePresentRemoveApplicationId(c, f)
            BY <2>3, <3>1, <3>2 DEF HandleMessage
        <3>4. f.event = "Remove" /\ f.id = i
            BY <1>1, <3>3 DEF TypeOK, Online, HandlePresentRemoveApplicationId, Deregistered
        <3> QED
            BY <1>1, <2>3, <3>4 DEF TypeOK, HandleMessage
    <2>4. ASSUME NEW c \in Conn, HandleClose(c)
          PROVE  conn[users[i]] = "closing" /\ conn'[users[i]] = "closed"
        BY <1>1, <2>4 DEF TypeOK, Online, HandleClose, WithoutSocket
    <2> QED
        BY <1>1, <2>1, <2>2, <2>3, <2>4 DEF Next
<1>2. TypeOK /\ [Next]_vars => [Evicts]_vars
    BY <1>1
<1> QED
    BY <1>2, TypeInit, TypeStep, PTL DEF Spec, OnlyHolderCloseEvicts

----------------------------------------------------------------------------
(* Numbering of the frames *)

\* A forwarded frame is appended to the outbox of the socket that is open and
\* holds the id; otherwise no outbox changes.
LEMMA ForwardOutcome ==
    ASSUME TypeOK, NEW c \in Conn, HandleMessage(c), NEW d \in Conn,
           outbox'[d] # outbox[d]
    PROVE  /\ users[Head(inbox[c]).id] = d /\ conn[d] = "open"
           /\ outbox' = [outbox EXCEPT ![d] = Append(@, Head(inbox[c]))]
           /\ users' = users
<1> DEFINE f == Head(inbox[c])
<1>1. ForwardMessage(c, f)
    BY DEF HandleMessage, HandlePresentApplicationId, HandlePresentRemoveApplicationId,
           DropMalformed
<1> QED
    BY <1>1 DEF TypeOK, ForwardMessage, Delivered

\* The numbering part of ServerInv.
Numbering == QueuesNumbered /\ ForwardedWasSent /\ ForwardedInOrder

LEMMA NumberingFrame ==
    ASSUME Numbering, UNCHANGED <<inbox, outbox, sent>>
    PROVE  Numbering'
BY DEF Numbering, QueuesNumbered, ForwardedWasSent, ForwardedInOrder

\* Dropping a suffix of a queue, or the whole of it, keeps its numbering.
LEMMA NumberingCut ==
    ASSUME TypeOK, Numbering, UNCHANGED <<outbox, sent>>,
           \A c \in Conn : \E k \in 0..Len(inbox[c]) :
               /\ Len(inbox'[c]) = k
               /\ \A m \in 1..k : inbox'[c][m] = inbox[c][m]
    PROVE  Numbering'
<1>1. \A c \in Conn : Len(inbox[c]) \in Nat
    BY LenProperties DEF TypeOK
<1>2. \A c \in Conn : \A m \in 1..Len(inbox'[c]) :
          m \in 1..Len(inbox[c]) /\ inbox'[c][m] = inbox[c][m]
    BY <1>1
<1>3. QueuesNumbered'
    BY <1>2 DEF Numbering, QueuesNumbered
<1>4. ForwardedWasSent'
    BY DEF Numbering, ForwardedWasSent
<1>5. ForwardedInOrder'
    BY <1>2 DEF Numbering, ForwardedInOrder
<1> QED
    BY <1>3, <1>4, <1>5 DEF Numbering

LEMMA FrameFields ==
    ASSUME TypeOK
    PROVE  \A d \in Conn :
             /\ \A m \in 1..Len(inbox[d]) : inbox[d][m].n \in Nat
             /\ \A k \in 1..Len(outbox[d]) :
                    outbox[d][k].n \in Nat /\ outbox[d][k].from \in Conn
<1>1. \A f \in Frame : f.n \in Nat /\ f.from \in Conn
    BY ServerAssumption DEF Frame
<1>2. \A d \in Conn :
        /\ \A m \in 1..Len(inbox[d]) : inbox[d][m] \in Frame
        /\ \A k \in 1..Len(outbox[d]) : outbox[d][k] \in Frame
    BY ElementOfSeq DEF TypeOK
<1> QED
    BY <1>1, <1>2

LEMMA NumberingSend ==
    ASSUME TypeOK, Numbering,
           NEW c \in Conn, NEW e \in Event, NEW i \in CallId, PeerSend(c, e, i)
    PROVE  Numbering'
<1> DEFINE f == [event |-> e, id |-> i, from |-> c, n |-> sent[c] + 1]
<1> USE ServerAssumption
<1>1. f \in Frame /\ sent[c] \in Nat
    BY DEF TypeOK, PeerSend, Frame
<1>2. /\ Len(inbox[c]) \in Nat
      /\ Len(inbox'[c]) = Len(inbox[c]) + 1
      /\ inbox'[c][Len(inbox[c]) + 1] = f
      /\ \A m \in 1..Len(inbox[c]) : inbox'[c][m] = inbox[c][m]
    BY <1>1, AppendProperties, LenProperties DEF TypeOK, PeerSend
<1>3. \A d \in Conn : d # c => inbox'[d] = inbox[d] /\ sent'[d] = sent[d]
    BY DEF TypeOK, PeerSend
<1>4. sent'[c] = sent[c] + 1 /\ outbox' = outbox
    BY DEF TypeOK, PeerSend
<1>5. \A d \in Conn : \A m \in 1..Len(inbox[d]) : inbox[d][m].n \in Nat
    BY FrameFields
<1>6. \A d \in Conn : \A k \in 1..Len(outbox[d]) :
          outbox[d][k].n \in Nat /\ outbox[d][k].from \in Conn
    BY FrameFields
\* A queued frame is the new one or was there at the same place.
<1>7. ASSUME NEW d \in Conn, NEW m \in 1..Len(inbox'[d])
      PROVE  \/ d = c /\ m = Len(inbox[c]) + 1 /\ inbox'[d][m] = f
             \/ m \in 1..Len(inbox[d]) /\ inbox'[d][m] = inbox[d][m]
    <2>1. CASE d = c
        BY <1>2, <2>1
    <2>2. CASE d # c
        BY <1>3, <2>2
    <2> QED
        BY <2>1, <2>2
<1>8. QueuesNumbered'
    <2> SUFFICES ASSUME NEW d \in Conn, NEW m \in 1..Len(inbox'[d]),
                        NEW l \in 1..Len(inbox'[d])
                 PROVE  /\ inbox'[d][m].from = d
                        /\ inbox'[d][m].n <= sent'[d]
                        /\ l < m => inbox'[d][l].n < inbox'[d][m].n
        BY DEF QueuesNumbered
    <2>1. CASE d = c /\ m = Len(inbox[c]) + 1 /\ inbox'[d][m] = f
        <3>1. f.from = d /\ f.n = sent[c] + 1
            BY <2>1
        <3>2. l < m => l \in 1..Len(inbox[c]) /\ inbox'[d][l] = inbox[c][l]
            BY <1>2, <2>1
        <3>3. \A j \in 1..Len(inbox[c]) : inbox[c][j].n <= sent[c]
            BY DEF Numbering, QueuesNumbered
        <3> QED
            BY <1>1, <1>4, <1>5, <2>1, <3>1, <3>2, <3>3
    <2>2. CASE m \in 1..Len(inbox[d]) /\ inbox'[d][m] = inbox[d][m]
        <3>1. sent[d] <= sent'[d] /\ sent[d] \in Nat /\ sent'[d] \in Nat
            <4>1. sent[d] \in Nat
                BY DEF TypeOK
            <4> QED
                BY <1>3, <1>4, <4>1
        <3>2. l < m => l \in 1..Len(inbox[d]) /\ inbox'[d][l] = inbox[d][l]
            BY <1>7, <1>2, <2>2
        <3> QED
            BY <1>5, <2>2, <3>1, <3>2 DEF Numbering, QueuesNumbered
    <2> QED
        BY <1>7, <2>1, <2>2
<1>9. ForwardedWasSent'
    BY <1>1, <1>3, <1>4, <1>6 DEF Numbering, ForwardedWasSent
<1>10. ForwardedInOrder'
    <2>1. ASSUME NEW a \in Conn, NEW d \in Conn, NEW k \in 1..Len(outbox[d]),
                 NEW m \in 1..Len(inbox'[a]), outbox[d][k].from = a
          PROVE  outbox[d][k].n < inbox'[a][m].n
        <3>1. CASE a = c /\ m = Len(inbox[c]) + 1 /\ inbox'[a][m] = f
            <4>1. outbox[d][k].n <= sent[c]
                BY <2>1, <3>1 DEF Numbering, ForwardedWasSent
            <4> QED
                BY <1>1, <1>6, <3>1, <4>1
        <3>2. CASE m \in 1..Len(inbox[a]) /\ inbox'[a][m] = inbox[a][m]
            BY <2>1, <3>2 DEF Numbering, ForwardedInOrder
        <3> QED
            BY <1>7, <3>1, <3>2
    <2> QED
        BY <1>4, <2>1 DEF Numbering, ForwardedInOrder
<1> QED
    BY <1>8, <1>9, <1>10 DEF Numbering

LEMMA NumberingHandle ==
    ASSUME TypeOK, Numbering, NEW c \in Conn, HandleMessage(c)
    PROVE  Numbering'
<1> DEFINE f == Head(inbox[c])
<1>1. /\ Len(inbox[c]) \in Nat \ {0} /\ f = inbox[c][1]
      /\ Len(inbox'[c]) = Len(inbox[c]) - 1
      /\ \A m \in 1..Len(inbox'[c]) : inbox'[c][m] = inbox[c][m + 1]
    BY HeadTailProperties, EmptySeq, LenProperties DEF TypeOK, HandleMessage
<1>2. \A d \in Conn : d # c => inbox'[d] = inbox[d]
    BY DEF TypeOK, HandleMessage
<1>3. sent' = sent
    BY DEF HandleMessage
\* What is queued after the step was queued before it.
<1>4. ASSUME NEW a \in Conn, NEW m \in 1..Len(inbox'[a])
      PROVE  \E l \in 1..Len(inbox[a]) :
                 inbox'[a][m] = inbox[a][l] /\ l = IF a = c THEN m + 1 ELSE m
    <2>1. CASE a = c
        <3>1. m + 1 \in 1..Len(inbox[a]) /\ inbox'[a][m] = inbox[a][m + 1]
            BY <1>1, <2>1
        <3> QED
            BY <2>1, <3>1
    <2>2. CASE a # c
        BY <1>2, <2>2
    <2> QED
        BY <2>1, <2>2
<1>5. QueuesNumbered'
    <2> SUFFICES ASSUME NEW a \in Conn, NEW m \in 1..Len(inbox'[a]),
                        NEW l \in 1..Len(inbox'[a])
                 PROVE  /\ inbox'[a][m].from = a
                        /\ inbox'[a][m].n <= sent[a]
                        /\ l < m => inbox'[a][l].n < inbox'[a][m].n
        BY <1>3 DEF QueuesNumbered
    <2>1. PICK i \in 1..Len(inbox[a]) :
              inbox'[a][m] = inbox[a][i] /\ i = IF a = c THEN m + 1 ELSE m
        BY <1>4
    <2>2. PICK j \in 1..Len(inbox[a]) :
              inbox'[a][l] = inbox[a][j] /\ j = IF a = c THEN l + 1 ELSE l
        BY <1>4
    <2>3. l < m => j < i
        BY <2>1, <2>2
    <2> QED
        BY <2>1, <2>2, <2>3 DEF Numbering, QueuesNumbered
<1>6. f.from = c /\ f.n <= sent[c] /\ f.n \in Nat /\ f \in Frame
    <2>1. f \in Frame
        BY HeadTailProperties DEF TypeOK, HandleMessage
    <2>2. f.n \in Nat
        BY <2>1, ServerAssumption DEF Frame
    <2> QED
        BY <1>1, <2>1, <2>2 DEF Numbering, QueuesNumbered
<1>7. \A m \in 1..Len(inbox'[c]) : f.n < inbox'[c][m].n
    BY <1>1 DEF Numbering, QueuesNumbered
<1>8. CASE outbox' = outbox
    <2>1. ForwardedWasSent'
        BY <1>3, <1>8 DEF Numbering, ForwardedWasSent
    <2>2. ForwardedInOrder'
        <3>1. ASSUME NEW a \in Conn, NEW d \in Conn, NEW k \in 1..Len(outbox[d]),
                     NEW m \in 1..Len(inbox'[a]), outbox[d][k].from = a
              PROVE  outbox[d][k].n < inbox'[a][m].n
            <4>1. PICK l \in 1..Len(inbox[a]) : inbox'[a][m] = inbox[a][l]
                BY <1>4
            <4> QED
                BY <3>1, <4>1 DEF Numbering, ForwardedInOrder
        <3> QED
            BY <1>8, <3>1 DEF Numbering, ForwardedInOrder
    <2> QED
        BY <1>5, <2>1, <2>2 DEF Numbering
<1>9. ASSUME NEW d \in Conn, outbox'[d] # outbox[d]
      PROVE  Numbering'
    <2>1. /\ outbox'[d] = Append(outbox[d], f)
          /\ \A b \in Conn : b # d => outbox'[b] = outbox[b]
        BY <1>9, ForwardOutcome DEF TypeOK
    <2>2. /\ Len(outbox[d]) \in Nat
          /\ Len(outbox'[d]) = Len(outbox[d]) + 1
          /\ outbox'[d][Len(outbox[d]) + 1] = f
          /\ \A k \in 1..Len(outbox[d]) : outbox'[d][k] = outbox[d][k]
        BY <1>6, <2>1, AppendProperties, LenProperties DEF TypeOK
    \* Every frame of an outbox is the new one or was there at the same place.
    <2>3. ASSUME NEW b \in Conn, NEW k \in 1..Len(outbox'[b])
          PROVE  \/ b = d /\ k = Len(outbox[d]) + 1 /\ outbox'[b][k] = f
                 \/ k \in 1..Len(outbox[b]) /\ outbox'[b][k] = outbox[b][k]
        <3>1. CASE b = d
            BY <2>2, <3>1
        <3>2. CASE b # d
            BY <2>1, <3>2
        <3> QED
            BY <3>1, <3>2
    <2>4. ForwardedWasSent'
        <3> SUFFICES ASSUME NEW b \in Conn, NEW k \in 1..Len(outbox'[b])
                     PROVE  outbox'[b][k].n <= sent[outbox'[b][k].from]
            BY <1>3 DEF ForwardedWasSent
        <3> QED
            BY <1>6, <2>3 DEF Numbering, ForwardedWasSent
    \* Frames of c forwarded so far are older than f, the first of c's queue.
    <2>5. ASSUME NEW b \in Conn, NEW j \in 1..Len(outbox[b]), outbox[b][j].from = c
          PROVE  outbox[b][j].n < f.n
        BY <1>1, <2>5 DEF Numbering, ForwardedInOrder
    <2>6. ASSUME NEW a \in Conn, NEW b \in Conn, NEW k \in 1..Len(outbox'[b]),
                 NEW m \in 1..Len(inbox'[a]), outbox'[b][k].from = a
          PROVE  outbox'[b][k].n < inbox'[a][m].n
        <3>1. CASE b = d /\ k = Len(outbox[d]) + 1
            BY <1>6, <1>7, <2>2, <2>6, <3>1
        <3>2. CASE k \in 1..Len(outbox[b]) /\ outbox'[b][k] = outbox[b][k]
            <4>1. PICK l \in 1..Len(inbox[a]) : inbox'[a][m] = inbox[a][l]
                BY <1>4
            <4> QED
                BY <2>6, <3>2, <4>1 DEF Numbering, ForwardedInOrder
        <3> QED
            BY <2>3, <3>1, <3>2
    <2>7. ASSUME NEW b \in Conn, NEW j \in 1..Len(outbox'[b]), NEW k \in 1..Len(outbox'[b]),
                 j < k, outbox'[b][j].from = outbox'[b][k].from
          PROVE  outbox'[b][j].n < outbox'[b][k].n
        <3>1. j \in 1..Len(outbox[b]) /\ outbox'[b][j] = outbox[b][j]
            BY <2>2, <2>7, <2>3
        <3>2. CASE b = d /\ k = Len(outbox[d]) + 1 /\ outbox'[b][k] = f
            BY <1>6, <2>7, <2>5, <3>1, <3>2
        <3>3. CASE k \in 1..Len(outbox[b]) /\ outbox'[b][k] = outbox[b][k]
            BY <2>7, <3>1, <3>3 DEF Numbering, ForwardedInOrder
        <3> QED
            BY <2>3, <3>2, <3>3
    <2>8. ForwardedInOrder'
        BY <2>6, <2>7 DEF ForwardedInOrder
    <2> QED
        BY <1>5, <2>4, <2>8 DEF Numbering
<1>10. outbox' = outbox \/ \E d \in Conn : outbox'[d] # outbox[d]
    BY HandlersTyped DEF TypeOK
<1> QED
    BY <1>8, <1>9, <1>10

LEMMA NumberingStep ==
    ASSUME TypeOK, Numbering, [Next]_vars
    PROVE  Numbering'
<1>1. CASE Start \/ Destroy \/ UNCHANGED vars
    BY <1>1, NumberingFrame DEF Start, Destroy, vars
<1>2. CASE Crash
    <2>1. \A c \in Conn : Len(inbox[c]) \in Nat /\ Len(inbox'[c]) = 0
        BY <1>2, LenProperties, EmptySeq DEF TypeOK, Crash
    <2> QED
        BY <1>2, <2>1, NumberingCut DEF Crash
<1>3. ASSUME NEW c \in Conn, Accept(c) \/ HandleClose(c) PROVE Numbering'
    BY <1>3, NumberingFrame DEF Accept, HandleClose
<1>4. ASSUME NEW c \in Conn, NEW e \in Event, NEW i \in CallId, PeerSend(c, e, i)
      PROVE  Numbering'
    BY <1>4, NumberingSend
<1>5. ASSUME NEW c \in Conn, NEW k \in 0..Len(inbox[c]), Disconnect(c, k)
      PROVE  Numbering'
    <2>1. Len(SubSeq(inbox[c], 1, k)) = k
          /\ \A m \in 1..k : SubSeq(inbox[c], 1, k)[m] = inbox[c][m]
        BY SubSeqProperties, ElementOfSeq DEF TypeOK
    <2>2. \A d \in Conn : Len(inbox[d]) \in Nat
        BY LenProperties DEF TypeOK
    <2>3. \A d \in Conn : \E j \in 0..Len(inbox[d]) :
               /\ Len(inbox'[d]) = j
               /\ \A m \in 1..j : inbox'[d][m] = inbox[d][m]
        <3> TAKE d \in Conn
        <3>1. CASE d = c
            <4>1. inbox'[d] = SubSeq(inbox[c], 1, k)
                BY <1>5, <3>1 DEF TypeOK, Disconnect
            <4> QED
                BY <2>1, <3>1, <4>1
        <3>2. CASE d # c
            <4>1. inbox'[d] = inbox[d] /\ Len(inbox[d]) \in 0..Len(inbox[d])
                BY <1>5, <2>2, <3>2 DEF TypeOK, Disconnect
            <4> QED
                BY <4>1
        <3> QED
            BY <3>1, <3>2
    <2> QED
        BY <1>5, <2>3, NumberingCut DEF Disconnect
<1>6. ASSUME NEW c \in Conn, HandleMessage(c) PROVE Numbering'
    BY <1>6, NumberingHandle
<1> QED
    BY <1>1, <1>2, <1>3, <1>4, <1>5, <1>6 DEF Next

LEMMA InvInit == Init => ServerInv
<1> SUFFICES ASSUME Init PROVE ServerInv
    OBVIOUS
<1>1. \A c \in Conn : inbox[c] = <<>> /\ outbox[c] = <<>>
    BY DEF Init
<1>2. Len(<<>>) = 0
    BY EmptySeq
<1>3. QueuesNumbered /\ ForwardedWasSent /\ ForwardedInOrder
    BY <1>1, <1>2 DEF QueuesNumbered, ForwardedWasSent, ForwardedInOrder
<1> QED
    BY <1>3, TypeInit DEF Init, ServerInv, NoDanglingRegistration

LEMMA InvStep == ServerInv /\ [Next]_vars => ServerInv'
BY TypeStep, RegistrationStep, NumberingStep DEF ServerInv, Numbering

\* ServerInv is inductive; with it no frame of a sender is forwarded twice or
\* overtaken, for any number of sockets and frames.
THEOREM ServerInvariant == Spec => []ServerInv
<1> QED
    BY InvInit, InvStep, PTL DEF Spec

\* The frames of one sender reach the sockets in the order they were sent.
THEOREM SenderOrderKept == Spec => []ForwardedInOrder
<1>1. ServerInv => ForwardedInOrder
    BY DEF ServerInv
<1> QED
    BY <1>1, ServerInvariant, PTL

----------------------------------------------------------------------------
(* Refinement *)

\* The refinement mapping of Relay's attached.
attachedNow == {c \in Conn : Attached(c)}

USE DEF attachedNow

\* A frame taken from the head of its queue is newer than all that its sender
\* had forwarded.
LEMMA HeadIsFresh ==
    ASSUME ServerInv, NEW c \in Conn, HandleMessage(c)
    PROVE  AbstractRelay!Fresh(Head(inbox[c]))
<1>1. Len(inbox[c]) \in Nat \ {0} /\ Head(inbox[c]) = inbox[c][1]
    BY HeadTailProperties, EmptySeq, LenProperties DEF ServerInv, TypeOK, HandleMessage
<1>2. inbox[c][1].from = c
    BY <1>1 DEF ServerInv, QueuesNumbered
<1> QED
    BY <1>1, <1>2 DEF ServerInv, ForwardedInOrder, AbstractRelay!Fresh

LEMMA RefinementStep ==
    ASSUME ServerInv, [Next]_vars
    PROVE  [AbstractRelay!RNext]_<<attachedNow, users, outbox>>
<1> USE ServerAssumption
<1>1. TypeOK
    BY DEF ServerInv
<1>2. ASSUME UNCHANGED <<conn, users, outbox>>
      PROVE  UNCHANGED <<attachedNow, users, outbox>>
    BY <1>2 DEF Attached
<1>3. CASE Start \/ Destroy \/ UNCHANGED vars
    BY <1>2, <1>3 DEF Start, Destroy, vars
<1>4. CASE Crash
    <2>1. attachedNow' = {}
        BY <1>1, <1>4 DEF TypeOK, Crash, Attached
    <2>2. AbstractRelay!Reset
        BY <1>4, <2>1 DEF Crash, AbstractRelay!Reset
    <2> QED
        BY <2>2 DEF AbstractRelay!RNext
<1>5. ASSUME NEW c \in Conn, Accept(c)
      PROVE  AbstractRelay!RNext
    <2>1. c \notin attachedNow /\ attachedNow' = attachedNow \cup {c}
        BY <1>1, <1>5 DEF TypeOK, Accept, Attached
    <2>2. AbstractRelay!Attach(c)
        BY <1>5, <2>1 DEF Accept, AbstractRelay!Attach
    <2> QED
        BY <2>2 DEF AbstractRelay!RNext
<1>6. ASSUME NEW c \in Conn, NEW e \in Event, NEW i \in CallId, PeerSend(c, e, i)
      PROVE  UNCHANGED <<attachedNow, users, outbox>>
    BY <1>2, <1>6 DEF PeerSend
<1>7. ASSUME NEW c \in Conn, NEW k \in 0..Len(inbox[c]), Disconnect(c, k)
      PROVE  UNCHANGED <<attachedNow, users, outbox>>
    BY <1>1, <1>7 DEF TypeOK, Disconnect, Attached
<1>8. ASSUME NEW c \in Conn, HandleClose(c)
      PROVE  AbstractRelay!RNext
    <2>1. c \in attachedNow /\ attachedNow' = attachedNow \ {c}
        BY <1>1, <1>8 DEF TypeOK, HandleClose, Attached
    <2>2. AbstractRelay!Leave(c)
        BY <1>8, <2>1 DEF HandleClose, WithoutSocket, AbstractRelay!Leave
    <2> QED
        BY <2>2 DEF AbstractRelay!RNext
<1>9. ASSUME NEW c \in Conn, HandleMessage(c)
      PROVE  [AbstractRelay!RNext]_<<attachedNow, users, outbox>>
    <2> DEFINE f == Head(inbox[c])
    <2>1. f \in Frame /\ f.id \in CallId
        <3>1. f \in Frame
            BY <1>1, <1>9, HeadTailProperties DEF TypeOK, HandleMessage
        <3> QED
            BY <3>1 DEF Frame
    <2>2. c \in attachedNow /\ attachedNow' = attachedNow
        BY <1>9 DEF HandleMessage, Attached
    <2>3. CASE HandlePresentApplicationId(c, f)
        <3>1. AbstractRelay!Announce(f.id, c)
            BY <2>2, <2>3 DEF HandlePresentApplicationId, Registered, AbstractRelay!Announce
        <3> QED
            BY <2>1, <3>1 DEF AbstractRelay!RNext
    <2>4. CASE HandlePresentRemoveApplicationId(c, f)
        <3>1. AbstractRelay!Withdraw(f.id)
            BY <2>2, <2>4 DEF HandlePresentRemoveApplicationId, Deregistered,
                              AbstractRelay!Withdraw
        <3> QED
            BY <2>1, <3>1 DEF AbstractRelay!RNext
    <2>5. CASE ForwardMessage(c, f) \/ DropMalformed(c, f)
        <3>1. CASE outbox' = outbox
            BY <2>2, <2>5, <3>1 DEF ForwardMessage, DropMalformed
        <3>2. ASSUME NEW d \in Conn, outbox'[d] # outbox[d]
              PROVE  AbstractRelay!RNext
            <4>1. /\ users[f.id] = d /\ conn[d] = "open"
                  /\ outbox' = [outbox EXCEPT ![d] = Append(@, f)]
                  /\ users' = users
                BY <1>1, <1>9, <3>2, ForwardOutcome
            <4>2. d \in attachedNow
                BY <4>1 DEF Attached
            <4>3. AbstractRelay!Pass(f, d)
                BY <1>9, <2>2, <4>1, <4>2, HeadIsFresh DEF AbstractRelay!Pass
            <4> QED
                BY <2>1, <4>3 DEF AbstractRelay!RNext
        <3>3. outbox' = outbox \/ \E d \in Conn : outbox'[d] # outbox[d]
            BY <1>1, <1>9, HandlersTyped DEF TypeOK
        <3> QED
            BY <3>1, <3>2, <3>3
    <2> QED
        BY <1>9, <2>3, <2>4, <2>5 DEF HandleMessage
<1> QED
    BY <1>3, <1>4, <1>5, <1>6, <1>7, <1>8, <1>9 DEF Next

\* The WebSocket server implements the abstract relay: whatever breaks and
\* reconnects, ids belong to attached sockets, and frames reach the current
\* holder in order and at most once.
THEOREM RefinesRelay == Spec => ImplementsRelay
<1>1. Init => AbstractRelay!RInit
    BY DEF Init, AbstractRelay!RInit, Attached
<1>2. ServerInv /\ [Next]_vars => [AbstractRelay!RNext]_(AbstractRelay!rvars)
    BY RefinementStep DEF AbstractRelay!rvars
<1> QED
    BY <1>1, <1>2, InvInit, InvStep, PTL
    DEF Spec, ImplementsRelay, AbstractRelay!RelaySpec
=============================================================================
