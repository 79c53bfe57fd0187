-------------------------- MODULE SpvVerification --------------------------
(***************************************************************************)
(* One client's session with the merchant, from its presentation to the    *)
(* end of the checks on its SPV data: what the client encrypts             *)
(* (client/src/encryption), what the merchant reads, the checks on the     *)
(* transactions (merchant/src/transaction), and those on their Merkle      *)
(* paths, which ask a block API and go on after the verdict was sent       *)
(* (merchant/src/block).  MerchantService has the database around it.      *)
(***************************************************************************)
EXTENDS Naturals, Sequences, FiniteSets, MerklePath, Encryption

CONSTANTS
    TxId,           \* ids of transactions
    Session,        \* sessions tried: records [callId, keyed, data]
    applicationWebSocketCallId,  \* the callId of the merchant itself
    Chain           \* the blocks: height -> the ids of its transactions

\* What parseRawTransaction makes of a text, as far as anybody looks at it:
\* the id, the inputs with the output each names and the key it is signed with,
\* and the keys its outputs are locked to (in.vout counts them from 0).
\* rawTxid is the hash of the bytes sent; parses, whether the library accepts
\* the text at all.
IsTransaction(tx) ==
    /\ DOMAIN tx = {"txid", "rawTxid", "parses", "vin", "vouts"}
    /\ tx.txid \in TxId /\ tx.parses \in BOOLEAN
    /\ \A n \in DOMAIN tx.vin :
          DOMAIN tx.vin[n] = {"txid", "vout", "key"} /\ tx.vin[n].vout \in Nat

IsSequence(s) == Len(s) \in Nat /\ DOMAIN s = 1..Len(s)

\* ReqUserDataModel as handlePresentSpvData rebuilds it: a missing height is 0
\* and a missing branch is empty.  Bytes with one hash are one transaction.
IsData(d) ==
    /\ IsTransaction(d.currentTx)
    /\ IsSequence(d.inputs)
    /\ \A n \in DOMAIN d.inputs :
          /\ DOMAIN d.inputs[n] = {"rawTx", "branch", "blockheight"}
          /\ IsTransaction(d.inputs[n].rawTx)
          /\ IsSequence(d.inputs[n].branch)
          /\ d.inputs[n].blockheight \in Nat
    /\ \A k, n \in DOMAIN d.inputs :
          d.inputs[k].rawTx.rawTxid = d.inputs[n].rawTx.rawTxid
             => d.inputs[k].rawTx = d.inputs[n].rawTx

\* The id of the client, from its environment, is well-formed text.
ASSUME SpvAssumption ==
    \A s \in Session :
        /\ s.callId \in Seq(Unit) /\ \A n \in DOMAIN s.callId : ~Lone(s.callId, n)
        /\ s.keyed \in BOOLEAN
        /\ IsData(s.data)

\* A block has a transaction, and the block at height 0 no other.  An id is the
\* hash of one text, <<text>>, and thereby never that of two nodes of a tree.
ASSUME ChainAssumption ==
    /\ Chain \in [DOMAIN Chain -> Seq(TxId) \ {<<>>}]
    /\ DOMAIN Chain \subseteq Nat
    /\ 0 \in DOMAIN Chain => Len(Chain[0]) = 1
    /\ \A id \in TxId : DOMAIN id = {1}

VARIABLES
    settings,       \* app.config.service.ts
    library,        \* external: what becomes of a call of the block API, see below
    session,        \* the callId, the keys of the scanned link, the data
    stage,          \* how far the handler of the current frame has come
    messages,       \* the frame on its way: encrypted chunks
    peer,           \* the callId stored for the user, <<>> for none
    replies,        \* verdicts sent, each to a callId
    checks          \* the two promises nobody awaits

vars == <<settings, library, session, stage, messages, peer, replies, checks>>

\* The getters a handler asks; each is true for '1' only.
Settings ==
    [acceptUnconfirmedUTXOs : BOOLEAN, requireClientMerklePath : BOOLEAN,
     shouldGenerateMerkleRootLocally : BOOLEAN]

Check == {"verifyInputsTransaction", "verifyTransaction"}
Stage == {"scanned", "presenting", "presented", "sending", "checking", "dropped",
          "clientEnded", "merchantEnded"}

\* What request and bsv make of a call.  "unimported": the default import of
\* request is undefined, as the repository compiles it, and every call throws.
\* "stored": requests go out, and bsv keeps the root of a header in the order of
\* its bytes, as in the version that is installed.  "display": it gives the root
\* in the order the code computes it in; the model allows it although no
\* installed version does, to say what the comparison would then be worth.
Library == {"unimported", "stored", "display"}

data == session.data

TypeOK ==
    /\ settings \in Settings
    /\ library \in Library
    /\ session.callId \in Seq(Unit) /\ session.keyed \in BOOLEAN
    /\ stage \in Stage
    /\ messages \in Seq(Seq(Unit))
    /\ peer \in Seq(Unit)
    /\ replies \in Seq([to : Seq(Unit), verdict : {"valid", "invalid"}])
    /\ checks \in [Check -> [input : 1..(Len(data.inputs) + 1),
                             result : {"none", "pending", "true", "false"}]]
    /\ \A c \in Check : checks[c].result = "pending" => checks[c].input \in DOMAIN data.inputs

Init ==
    /\ settings \in Settings
    /\ library \in Library
    /\ session \in Session
    /\ stage = "scanned"
    /\ messages = <<>>
    /\ peer = <<>>
    /\ replies = <<>>
    /\ checks = [c \in Check |-> [input |-> 1, result |-> "none"]]

----------------------------------------------------------------------------
(* The presentation *)

Ascii(n) == [i \in 1..n |-> "a"]

\* JSON.stringify({callId, publicKeyHex, ivHex}): {"callId":" is 11 units; of
\* what follows the callId, all of it ASCII, two units are kept.
BeforeCallId == 11
AfterCallId == 2
PresentationText(callId) == Ascii(BeforeCallId) \o callId \o Ascii(AfterCallId)

\* The callId that JSON.parse finds in a text.
CallIdIn(text) == SubSeq(text, BeforeCallId + 1, Len(text) - AfterCallId)

\* Encrypts a text and sends it; the client ends when a chunk is too long.
ClientSends(text, next) ==
    /\ IF session.keyed /\ ~Encrypts(text)
       THEN stage' = "clientEnded" /\ UNCHANGED messages
       ELSE stage' = next /\ messages' = EncryptMyMessages(text, session.keyed)
    /\ UNCHANGED <<settings, library, session, peer, replies, checks>>

\* scanLink: PresentData with the client's callId.
SendPresentData ==
    /\ stage = "scanned"
    /\ ClientSends(PresentationText(session.callId), "presenting")

\* handlePresentData: '' is no JSON and throws, '' is no callId, and the callId of
\* the merchant itself is not stored.
HandlePresentData ==
    /\ stage = "presenting"
    /\ LET text == DecryptMyMessages(messages)
           callId == IF text = <<>> THEN <<>> ELSE CallIdIn(text)
       IN  peer' = IF callId \in {<<>>, applicationWebSocketCallId} THEN peer ELSE callId
    /\ stage' = "presented"
    /\ UNCHANGED <<settings, library, session, messages, replies, checks>>

----------------------------------------------------------------------------
(* The checks *)

\* The transactions in the order verifyTxIds takes them.
RawTransactions(d) ==
    Append([n \in DOMAIN d.inputs |-> d.inputs[n].rawTx], d.currentTx)

\* A branch that is empty or a height of 0 counts as missing.
CheckDataHasBranchesAndBlockheight(d) ==
    \A n \in DOMAIN d.inputs : d.inputs[n].branch # <<>> /\ d.inputs[n].blockheight # 0

VerifyTxIds(d) ==
    \A n \in DOMAIN RawTransactions(d) :
        RawTransactions(d)[n].txid = RawTransactions(d)[n].rawTxid

\* verifyTxIds throws at a text that is no transaction, unless it has found an
\* id that differs before.
VerifyTxIdsThrows(d) ==
    LET txs == RawTransactions(d)
    IN  \E n \in DOMAIN txs :
            ~txs[n].parses /\ \A k \in 1..(n - 1) : txs[k].txid = txs[k].rawTxid

\* The first transaction sent whose bytes hash to the id.
Previous(d, txid) ==
    LET found == {n \in DOMAIN d.inputs : d.inputs[n].rawTx.rawTxid = txid}
    IN  {d.inputs[n].rawTx : n \in {k \in found : \A j \in found : k <= j}}

\* The output exists and the interpreter accepts the script that unlocks it.
VerifyScript(in, tx) == in.vout < Len(tx.vouts) /\ in.key = tx.vouts[in.vout + 1]

\* Mutant: an input is checked against the transaction sent at its place.
ScriptsByPlace(d) ==
    \A n \in DOMAIN d.currentTx.vin :
        n <= Len(d.inputs) /\ VerifyScript(d.currentTx.vin[n], d.inputs[n].rawTx)

VerifyInputScripts(d) ==
    \A n \in DOMAIN d.currentTx.vin :
        \E tx \in Previous(d, d.currentTx.vin[n].txid) : VerifyScript(d.currentTx.vin[n], tx)

\* validateSourceOfTransaction from the n-th input on, up to the next call of
\* the block API.  With unconfirmed outputs accepted nothing is looked at, and
\* with the root computed locally any branch will do.
Validate(d, n) ==
    LET rest == n..Len(d.inputs)
    IN  [input |-> n,
         result |->
            IF rest = {} \/ settings.acceptUnconfirmedUTXOs THEN "true"
            ELSE IF settings.shouldGenerateMerkleRootLocally
            THEN IF \A k \in rest : d.inputs[k].rawTx.parses THEN "true" ELSE "false"
            ELSE IF d.inputs[n].rawTx.parses THEN "pending" ELSE "false"]

\* verifyInputsTransaction and verifyTransaction, which only calls the former.
VerifyInputsTransaction(d) ==
    IF d.currentTx.parses THEN Validate(d, 1) ELSE [input |-> 1, result |-> "false"]

\* Mutant: the ids are not compared.
VerifiedByScripts(d) == VerifyInputScripts(d)

Verified(d) == VerifyTxIds(d) /\ VerifyInputScripts(d)

Reply(verdict) == [to |-> peer, verdict |-> verdict]

----------------------------------------------------------------------------
(* The SPV data *)

\* sendSpvData: the text is hex digits and other ASCII, of more than a chunk.
SendSpvData ==
    /\ stage = "presented"
    /\ ClientSends(Ascii(ChunkSize + 1), "sending")

\* Nobody presented, or the message cannot be read: the handler ends.
DropSpvData ==
    /\ stage = "sending"
    /\ peer = <<>> \/ DecryptMyMessages(messages) = <<>>
    /\ stage' = "dropped"
    /\ UNCHANGED <<settings, library, session, messages, peer, replies, checks>>

\* addMerklePathAndBlockHeightToData always throws: request is undefined, and
\* where it is not, what request.get returns is taken for the answer.
FetchMerklePath ==
    /\ stage = "sending"
    /\ peer # <<>> /\ DecryptMyMessages(messages) # <<>>
    /\ ~CheckDataHasBranchesAndBlockheight(data) /\ ~settings.requireClientMerklePath
    /\ stage' = "dropped"
    /\ UNCHANGED <<settings, library, session, messages, peer, replies, checks>>

\* The rest of handlePresentSpvData runs in one step: 'invalid' for a missing
\* path, the checks, the start of the two verifications, and the verdict.
VerifySpvData ==
    /\ stage = "sending"
    /\ peer # <<>> /\ DecryptMyMessages(messages) # <<>>
    /\ CheckDataHasBranchesAndBlockheight(data) \/ settings.requireClientMerklePath
    /\ replies' =
         (IF CheckDataHasBranchesAndBlockheight(data) THEN <<>> ELSE <<Reply("invalid")>>)
         \o (IF ~VerifyTxIdsThrows(data) /\ Verified(data) THEN <<Reply("valid")>> ELSE <<>>)
    /\ IF VerifyTxIdsThrows(data)
       THEN stage' = "dropped" /\ UNCHANGED checks
       ELSE stage' = "checking" /\ checks' = [c \in Check |-> VerifyInputsTransaction(data)]
    /\ UNCHANGED <<settings, library, session, messages, peer>>

----------------------------------------------------------------------------
(* The block API *)

\* Mutant: the root is turned to the order the code computes it in.
TurnedRoot(height) == MerkleRoot(Chain[height])

\* toString('hex') of the root in a header.
HeaderRoot(height) ==
    IF library = "display" THEN MerkleRoot(Chain[height])
    ELSE <<"reversed", "bytes", MerkleRoot(Chain[height])>>

\* Mutant: the first input decides.
ComparedFirst(c) ==
    LET in == data.inputs[checks[c].input]
    IN  [checks[c] EXCEPT !.result =
            IF ComputeMerkleRoot(in.rawTx.txid, in.branch) = HeaderRoot(in.blockheight)
            THEN "true" ELSE "false"]

\* Mutant: the end of the inputs is not noticed.
ComparedOn(c) ==
    LET in == data.inputs[checks[c].input]
    IN  IF ComputeMerkleRoot(in.rawTx.txid, in.branch) # HeaderRoot(in.blockheight)
        THEN [checks[c] EXCEPT !.result = "false"]
        ELSE [checks[c] EXCEPT !.input = @ + 1]

\* getMerkleRoot resolves: the next input, or the result of the check.
Compared(c) ==
    LET in == data.inputs[checks[c].input]
    IN  IF ComputeMerkleRoot(in.rawTx.txid, in.branch) # HeaderRoot(in.blockheight)
        THEN [checks[c] EXCEPT !.result = "false"]
        ELSE Validate(data, checks[c].input + 1)

\* The API answers with the header of the height.
HeaderArrives(c) ==
    /\ library # "unimported"
    /\ stage = "checking" /\ checks[c].result = "pending"
    /\ data.inputs[checks[c].input].blockheight \in DOMAIN Chain
    /\ checks' = [checks EXCEPT ![c] = Compared(c)]
    /\ UNCHANGED <<settings, library, session, stage, messages, peer, replies>>

\* The call throws, the request fails, or the JSON holds no header.
HeaderFails(c) ==
    /\ stage = "checking" /\ checks[c].result = "pending"
    /\ checks' = [checks EXCEPT ![c].result = "false"]
    /\ UNCHANGED <<settings, library, session, stage, messages, peer, replies>>

\* JSON.parse throws in the callback of the request, where nobody catches it.
AnswerIsNoJson(c) ==
    /\ library # "unimported"
    /\ stage = "checking" /\ checks[c].result = "pending"
    /\ stage' = "merchantEnded"
    /\ UNCHANGED <<settings, library, session, messages, peer, replies, checks>>

Next ==
    \/ SendPresentData
    \/ HandlePresentData
    \/ SendSpvData
    \/ DropSpvData
    \/ FetchMerklePath
    \/ VerifySpvData
    \/ \E c \in Check : HeaderArrives(c) \/ HeaderFails(c) \/ AnswerIsNoJson(c)

Spec == Init /\ [][Next]_vars

----------------------------------------------------------------------------
(* Properties *)

\* No chunk ends inside a surrogate pair.
PairsWhole(text) ==
    \A n \in 1..Len(text) : n % ChunkSize = 0 => text[n] # "hi"

\* What the merchant stores is the callId the client registered at the relay,
\* for any text without a surrogate pair across two chunks; and characters of
\* one byte never make a chunk too long for one encryption.
PresentedAsSent ==
    /\ peer # <<>> /\ PairsWhole(PresentationText(session.callId)) => peer = session.callId
    /\ stage = "clientEnded" => \E n \in DOMAIN session.callId : session.callId[n] # "a"

IncludedAt(txid, height) ==
    height \in DOMAIN Chain /\ \E n \in DOMAIN Chain[height] : Chain[height][n] = txid

\* With confirmed outputs required and the root fetched, a check that comes out
\* true has seen every transaction of the inputs in the block at its height.
TrueMeansIncluded ==
    \A c \in Check :
        /\ checks[c].result = "true"
        /\ ~settings.acceptUnconfirmedUTXOs /\ ~settings.shouldGenerateMerkleRootLocally
        => \A n \in DOMAIN data.inputs :
              IncludedAt(data.inputs[n].rawTx.txid, data.inputs[n].blockheight)

HonestInput(in) ==
    /\ in.blockheight \in DOMAIN Chain
    /\ \E n \in DOMAIN Chain[in.blockheight] :
          /\ Chain[in.blockheight][n] = in.rawTx.txid
          /\ in.branch = Branch(Chain[in.blockheight], n)

\* What computeMerkleRoot computes is worth comparing with the root of a block:
\* an honest branch leads to it, whatever its length and wherever an odd level
\* repeats its last node, and a branch that leads to it, honest or not, starts at
\* a transaction of the block.
BranchProvesInclusion ==
    \A n \in DOMAIN data.inputs :
        LET in == data.inputs[n]
            leads == ComputeMerkleRoot(in.rawTx.txid, in.branch) = MerkleRoot(Chain[in.blockheight])
        IN  in.blockheight \in DOMAIN Chain =>
                /\ HonestInput(in) => leads
                /\ leads => IncludedAt(in.rawTx.txid, in.blockheight)

\* No request ever confirms anything: with the import of request undefined, or
\* the root of a header in its stored order, a check that needs a header never
\* comes out true, however honest the branches are.
NothingIsConfirmed ==
    \A c \in Check :
        /\ library # "display" /\ Len(data.inputs) > 0
        /\ ~settings.acceptUnconfirmedUTXOs /\ ~settings.shouldGenerateMerkleRootLocally
        => checks[c].result # "true"

\* What one expects of an honest branch, and what therefore fails: the check goes
\* on to the next input when the header arrives.
HonestBranchesPass ==
    [][\A c \in Check :
          HeaderArrives(c) /\ HonestInput(data.inputs[checks[c].input])
             => checks'[c].input = checks[c].input + 1]_vars

SpendsSent(in) ==
    \E k \in DOMAIN data.inputs :
        /\ data.inputs[k].rawTx.txid = in.txid
        /\ in.vout < Len(data.inputs[k].rawTx.vouts)
        /\ in.key = data.inputs[k].rawTx.vouts[in.vout + 1]

\* A success message is only sent for a transaction each input of which spends
\* an existing output of a transaction that was sent, and is signed for it.
SuccessSpendsWhatWasSent ==
    \A r \in DOMAIN replies : replies[r].verdict = "valid" =>
        \A n \in DOMAIN data.currentTx.vin : SpendsSent(data.currentTx.vin[n])

WellFormed(tx) == tx.parses /\ tx.rawTxid = tx.txid

HonestData ==
    /\ WellFormed(data.currentTx)
    /\ \A n \in DOMAIN data.inputs :
          WellFormed(data.inputs[n].rawTx) /\ HonestInput(data.inputs[n])
    /\ \A n \in DOMAIN data.currentTx.vin : SpendsSent(data.currentTx.vin[n])

\* The inductive invariant: no verdict before the data is there, and a success
\* message only for transactions that passed.
SuccessInv ==
    /\ session \in Session
    /\ stage \in Stage
    /\ stage \notin {"checking", "dropped", "merchantEnded"} => replies = <<>>
    /\ SuccessSpendsWhatWasSent

\* Conversely, honest data of a client that is known gets the success message
\* and no other, however its inputs are ordered -- unless an input is alone in
\* its block, as at height 0: its branch is honest and empty, and counts as missing.
HonestDataSucceeds ==
    stage \in {"checking", "dropped"} /\ peer # <<>> /\ HonestData
        => \/ replies = <<Reply("valid")>>
           \/ \E n \in DOMAIN data.inputs : Len(Chain[data.inputs[n].blockheight]) = 1

\* What is on its way is what the client encrypted.
SentInv ==
    /\ stage = "presenting" =>
          messages = EncryptMyMessages(PresentationText(session.callId), session.keyed)
    /\ stage = "sending" =>
          messages = EncryptMyMessages(Ascii(ChunkSize + 1), session.keyed)
    /\ peer # <<>> => session.keyed

\* A check that goes on has compared the roots of all inputs before its own.
CheckedInv ==
    ~settings.acceptUnconfirmedUTXOs /\ ~settings.shouldGenerateMerkleRootLocally =>
        \A c \in Check, n \in DOMAIN data.inputs :
            \/ checks[c].result = "true"
            \/ checks[c].result = "pending" /\ n < checks[c].input
            => IncludedAt(data.inputs[n].rawTx.txid, data.inputs[n].blockheight)

\* The inductive invariant of the session as a whole.
SpvInv ==
    /\ TypeOK
    /\ SuccessInv
    /\ SentInv
    /\ PresentedAsSent
    /\ CheckedInv
    /\ HonestDataSucceeds

\* What the README says of the verdict, "verifies them, performs the SPV
\* operation, and if successful, sends a success message": where confirmed
\* outputs are required and the root is fetched, the branches of data that
\* succeeds lead to the roots of the blocks at their heights.
SuccessMeansSpv ==
    \A r \in DOMAIN replies :
        /\ replies[r].verdict = "valid" /\ CheckDataHasBranchesAndBlockheight(data)
        /\ ~settings.acceptUnconfirmedUTXOs /\ ~settings.shouldGenerateMerkleRootLocally
        => \A n \in DOMAIN data.inputs :
              LET in == data.inputs[n]
              IN  /\ in.blockheight \in DOMAIN Chain
                  /\ ComputeMerkleRoot(in.rawTx.txid, in.branch) = MerkleRoot(Chain[in.blockheight])

\* What the README's setting REQUIRED_MERKLE_PATH_FROM_CLIENT says: with it, no
\* data without a Merkle path succeeds.
RequiredPathIsRequired ==
    \A r \in DOMAIN replies :
        replies[r].verdict = "valid" /\ settings.requireClientMerklePath
            => CheckDataHasBranchesAndBlockheight(data)
=============================================================================
