-------------------------- MODULE MerchantService --------------------------
(***************************************************************************)
(* The merchant: it shows QR codes (api/api.service.ts), and handles the   *)
(* presentations and the SPV data clients send                             *)
(* (web_socket/web_socket.service.ts), on top of the JSON database.        *)
(*                                                                         *)
(* The 'message' handler is async and nothing queues its calls, so the     *)
(* handlers of several frames and QR requests overlap at every await.      *)
(*                                                                         *)
(* Encryption is abstract: what is encrypted for a key can be read with    *)
(* that key only.  Transactions are abstract too: Data says what the       *)
(* checks of transaction.service.ts would find; SpvVerification has them.  *)
(***************************************************************************)
EXTENDS JsonDb

CONSTANTS
    Merchant,       \* the callId of the merchant itself
    Data,           \* SPV data: records [path, txids, scripts]
    MaxFrames       \* bound: frames received

\* Some client of the bound may present the merchant's own callId.
ASSUME MerchantAssumption ==
    /\ Merchant # NoClient
    /\ MaxFrames \in Nat
    /\ Data \subseteq [path : BOOLEAN,                       \* branches and heights given
                       txids : {"match", "differ", "throw"}, \* what verifyTxIds does
                       scripts : BOOLEAN]                    \* verifyInputScripts

VARIABLES
    requireClientMerklePath,    \* configuration
    shown,          \* QR codes returned by generateQRCode: the users in them
    scanned,        \* [Client -> SUBSET User] codes each client has scanned
    frame,          \* [Task -> Frame \cup {NoClient}] frame being handled
    acknowledged,   \* history: presentations whose update has resolved
    replies,        \* history: replies handed to sendMessage
    received        \* frames received, to bound them

mvars == <<requireClientMerklePath, shown, scanned, frame, acknowledged, replies,
           received>>

\* A frame names a user by its id and is encrypted for the key of the code it
\* came with.  stored: the sender's presentation was acknowledged before.
Frame ==
    [kind : {"presentData", "presentSpvData"}, sender : Client, code : User,
     data : Data \cup {NoClient}, stored : BOOLEAN]

Reply == [to : Client, code : User, frame : Frame, verdict : {"valid", "invalid"}]

MTypeOK ==
    /\ TypeOK
    /\ requireClientMerklePath \in BOOLEAN
    /\ shown \subseteq User
    /\ scanned \in [Client -> SUBSET User]
    /\ frame \in [Task -> Frame \cup {NoClient}]
    /\ acknowledged \subseteq Client \X User
    /\ replies \subseteq Reply
    /\ received \in 0..MaxFrames

MInit ==
    /\ Init
    /\ requireClientMerklePath \in BOOLEAN
    /\ shown = {}
    /\ scanned = [c \in Client |-> {}]
    /\ frame = [t \in Task |-> NoClient]
    /\ acknowledged = {}
    /\ replies = {}
    /\ received = 0

----------------------------------------------------------------------------
(* QR codes *)

\* GET qrCode: a new key, and a user created for it.
GenerateQRCode(t, k) ==
    /\ Create(t, k)
    /\ UNCHANGED mvars

\* The code shows the id and the key of the user create returned.
ShowQRCode(t) ==
    /\ op[t] = "create" /\ pc[t] = "done"
    /\ shown' = shown \cup {user[t]}
    /\ Finish(t)
    /\ UNCHANGED <<requireClientMerklePath, scanned, frame, acknowledged, replies,
                   received>>

\* A customer scans a code on the screen.
Scan(c, q) ==
    /\ q \in shown
    /\ scanned' = [scanned EXCEPT ![c] = @ \cup {q}]
    /\ UNCHANGED <<dbvars, requireClientMerklePath, shown, frame, acknowledged,
                   replies, received>>

----------------------------------------------------------------------------
(* Frames *)

\* on('message') up to the await of findOne in the handler of the event.
Receive(t, k, c, q, d) ==
    /\ received < MaxFrames
    /\ received' = received + 1
    /\ q \in scanned[c]
    /\ q.id \in 1..MaxId
    /\ FindOne(t, q.id)
    /\ frame' = [frame EXCEPT ![t] =
            [kind |-> k, sender |-> c, code |-> q, data |-> d,
             stored |-> <<c, q>> \in acknowledged]]
    /\ UNCHANGED <<requireClientMerklePath, shown, scanned, acknowledged, replies>>

\* The handler returns, or throws and 'message' logs it.
End(t) ==
    /\ frame' = [frame EXCEPT ![t] = NoClient]
    /\ Finish(t)

Found(t, k) == pc[t] = "found" /\ frame[t].kind = k

\* Mutant: the id alone decides whose frame it is.
ReadableById(t) == frame[t].code.id = user[t].id

\* decryptMyMessages with another key yields '', which JSON.parse refuses.
Readable(t) == frame[t].code.key = user[t].key

\* Mutant: the merchant's own callId is not refused.
PresentOwnCallId(t) ==
    /\ Found(t, "presentData")
    /\ IF Readable(t)
       THEN Update(t, frame[t].sender) /\ UNCHANGED frame
       ELSE End(t)
    /\ UNCHANGED <<requireClientMerklePath, shown, scanned, acknowledged, replies,
                   received>>

\* handlePresentData after findOne: record the peer unless the frame cannot be
\* read or presents the merchant's own callId.
HandlePresentData(t) ==
    /\ Found(t, "presentData")
    /\ IF Readable(t) /\ frame[t].sender # Merchant
       THEN Update(t, frame[t].sender) /\ UNCHANGED frame
       ELSE End(t)
    /\ UNCHANGED <<requireClientMerklePath, shown, scanned, acknowledged, replies,
                   received>>

\* The update has resolved: 'Updated user successfully'.
PresentDataUpdated(t) ==
    /\ op[t] = "update" /\ pc[t] = "done"
    /\ acknowledged' = acknowledged \cup {<<frame[t].sender, frame[t].code>>}
    /\ End(t)
    /\ UNCHANGED <<requireClientMerklePath, shown, scanned, replies, received>>

\* findOne yielded null, whose fields cannot be read, or update threw.
UserMissing(t) ==
    /\ pc[t] = "missing"
    /\ End(t)
    /\ UNCHANGED <<requireClientMerklePath, shown, scanned, acknowledged, replies,
                   received>>

----------------------------------------------------------------------------
(* SPV data *)

\* sendMessageToClient: to the callId of the user as it was read, encrypted
\* for the key stored with it.
ReplyWith(t, v) == [to |-> user[t].peer, code |-> user[t], frame |-> frame[t], verdict |-> v]

\* verifyTxIds and verifyInputScripts decide; verifyInputsTransaction and
\* verifyTransaction are promises nobody awaits, so they count as true.
Verified(d) == d.txids = "match" /\ d.scripts

Verdicts(t) == IF Verified(frame[t].data) THEN {ReplyWith(t, "valid")} ELSE {}

\* Mutant: the callId and the public key of the user are not looked at.
AcceptableUnpresented(t) == Readable(t)

\* The guards before the message is decrypted and parsed, and the parse.
Acceptable(t) == user[t].peer # NoClient /\ Readable(t)

RejectSpvData(t) ==
    /\ Found(t, "presentSpvData")
    /\ ~Acceptable(t)
    /\ End(t)
    /\ UNCHANGED <<requireClientMerklePath, shown, scanned, acknowledged, replies,
                   received>>

\* Without the branches a client must send, the reply is 'invalid' -- and the
\* handler goes on to the checks like the other branches.
VerifySpvData(t) ==
    /\ Found(t, "presentSpvData")
    /\ Acceptable(t)
    /\ frame[t].data.path \/ requireClientMerklePath
    /\ replies' = replies \cup Verdicts(t)
         \cup (IF frame[t].data.path THEN {} ELSE {ReplyWith(t, "invalid")})
    /\ End(t)
    /\ UNCHANGED <<requireClientMerklePath, shown, scanned, acknowledged, received>>

\* addMerklePathAndBlockHeightToData reads the branches off what request.get
\* returns, which is not the answer of the block API: it always throws.
FetchMerklePath(t) ==
    /\ Found(t, "presentSpvData")
    /\ Acceptable(t)
    /\ ~frame[t].data.path /\ ~requireClientMerklePath
    /\ End(t)
    /\ UNCHANGED <<requireClientMerklePath, shown, scanned, acknowledged, replies,
                   received>>

----------------------------------------------------------------------------

MRestart ==
    /\ Restart
    /\ frame' = [t \in Task |-> NoClient]
    /\ UNCHANGED <<requireClientMerklePath, shown, scanned, acknowledged, replies,
                   received>>

MFileStep(t) == FileStep(t) /\ UNCHANGED mvars

MNext ==
    \/ \E t \in Task, k \in Key : GenerateQRCode(t, k)
    \/ \E c \in Client, q \in shown : Scan(c, q)
    \/ \E t \in Task, c \in Client : \E q \in scanned[c], d \in Data :
          Receive(t, "presentSpvData", c, q, d)
    \/ \E t \in Task, c \in Client : \E q \in scanned[c] :
          Receive(t, "presentData", c, q, NoClient)
    \/ \E t \in Task :
          \/ MFileStep(t)
          \/ ShowQRCode(t)
          \/ HandlePresentData(t)
          \/ PresentDataUpdated(t)
          \/ UserMissing(t)
          \/ RejectSpvData(t)
          \/ VerifySpvData(t)
          \/ FetchMerklePath(t)
    \/ MRestart

MSpec == MInit /\ [][MNext]_<<dbvars, mvars>>

----------------------------------------------------------------------------
(* Properties *)

HasScanned(c, u) == \E q \in scanned[c] : q.id = u.id /\ q.key = u.key

\* A peer in the file, and in every copy of it a handler holds, is never the
\* merchant and has scanned the code with that user's id and key -- although
\* ids are handed out twice, stale arrays overwrite newer ones and clients
\* present themselves for the same id at the same time.
PeersScannedTheCode ==
    LET ok(u) == u.peer # NoClient => u.peer # Merchant /\ HasScanned(u.peer, u)
    IN  /\ \A n \in 1..Len(file.users) : ok(file.users[n])
        /\ \A t \in Task : \A n \in 1..Len(snap[t]) : ok(snap[t][n])
        /\ \A t \in Task : op[t] # "none" => ok(user[t])

\* A verdict is only ever sent to a client that scanned the code with the id
\* and key of the user it concerns, about data from a client that did so too.
RepliesWithinTheCode ==
    \A r \in replies :
        /\ r.to # Merchant
        /\ HasScanned(r.to, r.code)
        /\ \E q \in scanned[r.frame.sender] : q.key = r.code.key

\* What handlers hold while the database works for them: a frame whose sender
\* has scanned the code it came with, and the user with that code's id.
HandlersHold ==
    \A t \in Task :
        /\ op[t] # "none" => user[t] \in User
        /\ op[t] \in {"findOne", "update"} =>
              frame[t] \in Frame /\ frame[t].code \in scanned[frame[t].sender]
        /\ op[t] = "findOne" /\ pc[t] \in {"read", "found"} => user[t].id = frame[t].code.id
        /\ op[t] = "create" /\ pc[t] = "read" => user[t].peer = NoClient
        /\ pc[t] = "found" => op[t] = "findOne"

\* The inductive invariant.
MerchantInv ==
    MTypeOK /\ DbInv /\ HandlersHold /\ PeersScannedTheCode /\ RepliesWithinTheCode

\* What the README says of SPV data, "The merchant decrypts these data,
\* verifies them": data of a client whose presentation the merchant has
\* acknowledged finds a user with a peer, and is not dropped unread.
AcknowledgedIsFound ==
    \A t \in Task :
        (frame[t] # NoClient /\ frame[t].kind = "presentSpvData" /\ frame[t].stored
           /\ pc[t] \in {"found", "missing"})
            => pc[t] = "found" /\ user[t].peer # NoClient

\* The inductive invariant of that for requests one after the other: what was
\* acknowledged is in the array that the next request will read, or that is
\* about to become it.
Recorded(us, q) == \E n \in 1..Len(us) : us[n].id = q.id /\ us[n].peer # NoClient

AcknowledgedInv ==
    /\ AcknowledgedIsFound
    /\ \A t \in Task :
          /\ \A a \in acknowledged : Recorded(Latest(t), a[2])
          /\ frame[t] # NoClient /\ frame[t].stored =>
                <<frame[t].sender, frame[t].code>> \in acknowledged
          /\ pc[t] = "missing" => op[t] \in {"findOne", "update"}
          /\ op[t] = "update" =>
                /\ frame[t].kind = "presentData"
                /\ user[t].id = frame[t].code.id
                /\ user[t].peer # NoClient
                /\ pc[t] \in {"open", "write", "done"} => Recorded(Latest(t), frame[t].code)

\* What the README says of the answer, "sends a success message back to the
\* client": the client whose data was verified.
AnswerGoesToSender ==
    \A r \in replies : r.verdict = "valid" => r.to = r.frame.sender
=============================================================================
