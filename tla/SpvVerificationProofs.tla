----------------------- MODULE SpvVerificationProofs -----------------------
(***************************************************************************)
(* Proofs about one session: what the merchant reads of a presentation,    *)
(* what a success message vouches for, what a true Merkle check says, and  *)
(* that honest data succeeds, whatever is sent, whatever the chain and the *)
(* settings are.                                                           *)
(***************************************************************************)
EXTENDS SpvVerification, VerificationLemmas, TLAPS

USE SpvAssumption

\* The transactions verifyTxIds goes through are those of the inputs and the
\* current one.
LEMMA InputsAmongTransactions ==
    ASSUME NEW s \in Session, NEW k \in DOMAIN s.data.inputs
    PROVE  /\ k \in DOMAIN RawTransactions(s.data)
           /\ RawTransactions(s.data)[k] = s.data.inputs[k].rawTx
<1> DEFINE len == Len(s.data.inputs)
           txs == [n \in 1..len |-> s.data.inputs[n].rawTx]
<1>1. len \in Nat /\ DOMAIN s.data.inputs = 1..len
    BY DEF IsData
<1>2. RawTransactions(s.data) = Append(txs, s.data.currentTx)
    BY <1>1 DEF RawTransactions
<1>3. txs \in Seq({txs[n] : n \in 1..len}) /\ Len(txs) = len
    BY <1>1
<1> HIDE DEF len, txs
<1>4. Len(Append(txs, s.data.currentTx)) = len + 1
      /\ \A n \in 1..len : Append(txs, s.data.currentTx)[n] = txs[n]
    BY <1>1, <1>3
<1> QED
    BY <1>1, <1>2, <1>3, <1>4 DEF len, txs

\* Data that passes the checks spends what was sent: the transaction found by
\* the hash of its bytes has that hash for its id.
LEMMA VerifiedSpendsSent ==
    ASSUME session \in Session, Verified(data), NEW n \in DOMAIN data.currentTx.vin
    PROVE  SpendsSent(data.currentTx.vin[n])
<1> DEFINE in == data.currentTx.vin[n]
<1>1. PICK tx \in Previous(data, in.txid) : VerifyScript(in, tx)
    BY DEF Verified, VerifyInputScripts
<1>2. PICK k \in DOMAIN data.inputs : tx = data.inputs[k].rawTx /\ tx.rawTxid = in.txid
    BY <1>1 DEF Previous
<1>3. tx.txid = tx.rawTxid
    BY <1>2, InputsAmongTransactions DEF Verified, VerifyTxIds, data
<1> QED
    BY <1>1, <1>2, <1>3 DEF SpendsSent, VerifyScript

\* The handler of the SPV data: 'valid' is among the replies only if the checks
\* passed, since 'invalid' before it is another verdict.
LEMMA VerdictIsVerified ==
    ASSUME SuccessInv, VerifySpvData
    PROVE  SuccessSpendsWhatWasSent'
<1> DEFINE first == IF CheckDataHasBranchesAndBlockheight(data) THEN <<>>
                    ELSE <<Reply("invalid")>>
           second == IF ~VerifyTxIdsThrows(data) /\ Verified(data) THEN <<Reply("valid")>>
                     ELSE <<>>
<1>1. replies' = first \o second /\ session' = session
    BY DEF VerifySpvData
<1>2. CASE Verified(data)
  <2>1. \A n \in DOMAIN data.currentTx.vin : SpendsSent(data.currentTx.vin[n])
      BY <1>2, VerifiedSpendsSent DEF SuccessInv
  <2> QED
      BY <1>1, <2>1 DEF SuccessSpendsWhatWasSent, SpendsSent, data
<1>3. CASE ~Verified(data)
  <2>1. replies' = first
      BY <1>1, <1>3
  <2>2. \A r \in DOMAIN first : first[r].verdict = "invalid"
      BY DEF Reply
  <2> QED
      BY <2>1, <2>2 DEF SuccessSpendsWhatWasSent
<1> QED
    BY <1>2, <1>3

\* Nothing is answered at first.
LEMMA SuccessInit == Init => SuccessInv
BY DEF Init, SuccessInv, Stage, SuccessSpendsWhatWasSent

\* Only the handler of the SPV data replies, and only the first time.
LEMMA SuccessStep == SuccessInv /\ [Next]_vars => SuccessInv'
<1> SUFFICES ASSUME SuccessInv, [Next]_vars
             PROVE  SuccessInv'
    OBVIOUS
<1> USE DEF SuccessInv, Stage
<1>1. CASE UNCHANGED <<replies, session>> /\ stage' \in Stage
             /\ (stage' \in {"checking", "dropped", "merchantEnded"} \/ replies = <<>>)
    BY <1>1 DEF SuccessSpendsWhatWasSent, SpendsSent, data
<1>2. CASE SendPresentData
    BY <1>1, <1>2 DEF SendPresentData, ClientSends
<1>3. CASE HandlePresentData
    BY <1>1, <1>3 DEF HandlePresentData
<1>4. CASE SendSpvData
    BY <1>1, <1>4 DEF SendSpvData, ClientSends
<1>5. CASE DropSpvData
    BY <1>1, <1>5 DEF DropSpvData
<1>6. CASE FetchMerklePath
    BY <1>1, <1>6 DEF FetchMerklePath
<1>7. CASE VerifySpvData
  <2>1. stage' \in {"checking", "dropped"} /\ session' = session
      BY <1>7 DEF VerifySpvData
  <2> QED
      BY <1>7, <2>1, VerdictIsVerified
<1>8. ASSUME NEW c \in Check, HeaderArrives(c) \/ HeaderFails(c) \/ AnswerIsNoJson(c)
      PROVE  SuccessInv'
    BY <1>1, <1>8 DEF HeaderArrives, HeaderFails, AnswerIsNoJson
<1>9. CASE UNCHANGED vars
    BY <1>1, <1>9 DEF vars
<1> QED
    BY <1>2, <1>3, <1>4, <1>5, <1>6, <1>7, <1>8, <1>9 DEF Next

\* A success message vouches for every input: it spends an existing output of a
\* transaction that was sent, and is signed for it.
THEOREM SuccessAlwaysSpendsSent == Spec => []SuccessSpendsWhatWasSent
<1>1. SuccessInv => SuccessSpendsWhatWasSent
    BY DEF SuccessInv
<1> QED
    BY <1>1, SuccessInit, SuccessStep, PTL DEF Spec
----------------------------------------------------------------------------
(* What the assumptions say of the session that was chosen *)

\* The assumptions on the data, for the session at hand.
LEMMA SessionFacts ==
    ASSUME session \in Session
    PROVE  /\ session.callId \in Seq(Unit) /\ session.keyed \in BOOLEAN
           /\ \A n \in DOMAIN session.callId : ~Lone(session.callId, n)
           /\ IsData(data)
           /\ Len(data.inputs) \in Nat /\ DOMAIN data.inputs = 1..Len(data.inputs)
           /\ \A n \in DOMAIN data.inputs :
                 /\ data.inputs[n].rawTx.txid \in TxId
                 /\ IsSequence(data.inputs[n].branch)
                 /\ data.inputs[n].blockheight \in Nat
BY DEF data, IsData, IsTransaction, IsSequence

\* A block is a level of a tree.
LEMMA BlockFacts ==
    ASSUME NEW height \in DOMAIN Chain
    PROVE  Chain[height] \in Seq(TxId) /\ IsLevel(Chain[height])
<1>1. Chain[height] \in Seq(TxId) \ {<<>>}
    BY ChainAssumption
<1> DEFINE block == Chain[height]
<1> HIDE DEF block
<1>2. block \in Seq(TxId) \ {<<>>} => block \in Seq(TxId) /\ IsLevel(block)
    BY DEF IsLevel
<1> QED
    BY <1>1, <1>2 DEF block

\* Whoever reaches the root of a block started in the block.
LEMMA LeadsFromTheBlock ==
    ASSUME session \in Session,
           NEW n \in DOMAIN data.inputs, data.inputs[n].blockheight \in DOMAIN Chain,
           ComputeMerkleRoot(data.inputs[n].rawTx.txid, data.inputs[n].branch)
              = MerkleRoot(Chain[data.inputs[n].blockheight])
    PROVE  IncludedAt(data.inputs[n].rawTx.txid, data.inputs[n].blockheight)
<1> DEFINE txid == data.inputs[n].rawTx.txid
           branch == data.inputs[n].branch
           height == data.inputs[n].blockheight
           len == Len(branch)
<1>1. txid \in TxId /\ len \in Nat /\ DOMAIN branch = 1..len
    BY SessionFacts DEF IsSequence
<1>2. /\ height \in DOMAIN Chain
      /\ ComputeMerkleRoot(txid, branch) = MerkleRoot(Chain[height])
    OBVIOUS
<1>3. Chain[height] \in Seq(TxId) /\ IsLevel(Chain[height])
    BY <1>2, BlockFacts
<1>4. \A id \in TxId : DOMAIN id = {1}
    BY ChainAssumption
<1> HIDE DEF txid, branch, height, len
<1> QED
    BY <1>1, <1>2, <1>3, <1>4, OnlyFromTheBlock DEF IncludedAt, txid, height

\* The root of a header is reached by nobody if the library leaves its bytes in
\* the stored order, and by a transaction of the block otherwise.
LEMMA RootMeansIncluded ==
    ASSUME session \in Session,
           NEW n \in DOMAIN data.inputs, data.inputs[n].blockheight \in DOMAIN Chain,
           ComputeMerkleRoot(data.inputs[n].rawTx.txid, data.inputs[n].branch)
              = HeaderRoot(data.inputs[n].blockheight)
    PROVE  /\ library = "display"
           /\ IncludedAt(data.inputs[n].rawTx.txid, data.inputs[n].blockheight)
<1> DEFINE txid == data.inputs[n].rawTx.txid
           branch == data.inputs[n].branch
           height == data.inputs[n].blockheight
           len == Len(branch)
<1>1. txid \in TxId /\ len \in Nat /\ DOMAIN branch = 1..len
    BY SessionFacts DEF IsSequence
<1>2. ComputeMerkleRoot(txid, branch) = HeaderRoot(height)
    OBVIOUS
<1>3. \A id \in TxId : DOMAIN id = {1}
    BY ChainAssumption
<1> HIDE DEF txid, branch, height, len
<1>4. library = "display"
  <2> SUFFICES ASSUME library # "display" PROVE FALSE
      OBVIOUS
  <2>1. ComputeMerkleRoot(txid, branch) = <<"reversed", "bytes", MerkleRoot(Chain[height])>>
      BY <1>2 DEF HeaderRoot
  <2> QED
      BY <1>1, <1>3, <2>1, RootIsNoTriple
<1>5. ComputeMerkleRoot(txid, branch) = MerkleRoot(Chain[height])
    BY <1>2, <1>4 DEF HeaderRoot
<1> QED
    BY <1>4, <1>5, LeadsFromTheBlock DEF txid, branch, height

\* An honest branch leads to the root of its block, and is empty only for the
\* one transaction of a block.
LEMMA HonestBranch ==
    ASSUME NEW in, HonestInput(in)
    PROVE  /\ ComputeMerkleRoot(in.rawTx.txid, in.branch) = MerkleRoot(Chain[in.blockheight])
           /\ Len(Chain[in.blockheight]) # 1 => in.branch # <<>> /\ in.blockheight # 0
<1> DEFINE block == Chain[in.blockheight]
<1>1. in.blockheight \in DOMAIN Chain
    BY DEF HonestInput
<1>2. PICK n \in DOMAIN block : block[n] = in.rawTx.txid /\ in.branch = Branch(block, n)
    BY DEF HonestInput
<1>3. IsLevel(block)
    BY <1>1, BlockFacts
<1>4. in.blockheight = 0 => Len(block) = 1
    BY <1>1, ChainAssumption
<1> HIDE DEF block
<1>5. Len(block) # 1 => Len(block) > 1
    BY <1>3 DEF IsLevel
<1>6. /\ ComputeMerkleRoot(block[n], Branch(block, n)) = MerkleRoot(block)
      /\ Len(block) > 1 => Branch(block, n) # <<>>
    BY <1>3, BranchLeadsToRoot
<1>7. /\ ComputeMerkleRoot(in.rawTx.txid, in.branch) = MerkleRoot(block)
      /\ Len(block) # 1 => in.branch # <<>> /\ in.blockheight # 0
    BY <1>2, <1>4, <1>5, <1>6
<1> QED
    BY <1>7 DEF block

----------------------------------------------------------------------------
(* The presentation *)

\* A text of n ASCII characters.
LEMMA AsciiType ==
    ASSUME NEW n \in Nat
    PROVE  /\ Ascii(n) \in Seq(Unit) /\ Len(Ascii(n)) = n
           /\ \A i \in 1..n : Ascii(n)[i] = "a"
BY DEF Ascii, Unit

\* Where the elements of two sequences are in the one made of them.
LEMMA Concatenation ==
    ASSUME NEW S, NEW s \in Seq(S), NEW t \in Seq(S)
    PROVE  /\ s \o t \in Seq(S) /\ Len(s \o t) = Len(s) + Len(t)
           /\ \A i \in 1..(Len(s) + Len(t)) :
                 (s \o t)[i] = IF i <= Len(s) THEN s[i] ELSE t[i - Len(s)]
OBVIOUS

\* Where the callId is in the text.
LEMMA PresentationParts ==
    ASSUME NEW callId \in Seq(Unit)
    PROVE  LET text == PresentationText(callId)
           IN  /\ text \in Seq(Unit) /\ Len(text) = Len(callId) + 13
               /\ \A i \in 1..Len(text) :
                     text[i] = IF i - 11 \in 1..Len(callId) THEN callId[i - 11] ELSE "a"
<1> DEFINE before == Ascii(11)
           after == Ascii(2)
           len == Len(callId)
           text == before \o callId \o after
<1>1. /\ before \in Seq(Unit) /\ Len(before) = 11 /\ \A i \in 1..11 : before[i] = "a"
      /\ after \in Seq(Unit) /\ Len(after) = 2 /\ \A i \in 1..2 : after[i] = "a"
    BY AsciiType
<1>2. PresentationText(callId) = text
    BY DEF PresentationText, BeforeCallId, AfterCallId
<1> HIDE DEF before, after
<1>3. len \in Nat
    OBVIOUS
<1> DEFINE first == before \o callId
<1>4. /\ first \in Seq(Unit) /\ Len(first) = Len(before) + Len(callId)
      /\ \A i \in 1..(Len(before) + Len(callId)) :
            first[i] = IF i <= Len(before) THEN before[i] ELSE callId[i - Len(before)]
    BY <1>1, Concatenation, Zenon
<1>5. first \in Seq(Unit) /\ Len(first) = 11 + len
      /\ \A i \in 1..(11 + len) : first[i] = IF i <= 11 THEN before[i] ELSE callId[i - 11]
  <2> HIDE DEF first
  <2> QED
      BY <1>1, <1>4
<1>6. text = first \o after
    OBVIOUS
<1> HIDE DEF first, text, len
<1>7. text \in Seq(Unit) /\ Len(text) = len + 13
      /\ \A i \in 1..(len + 13) : text[i] = IF i <= 11 + len THEN first[i] ELSE after[i - (11 + len)]
  <2>1. /\ text \in Seq(Unit) /\ Len(text) = Len(first) + Len(after)
        /\ \A i \in 1..(Len(first) + Len(after)) :
              text[i] = IF i <= Len(first) THEN first[i] ELSE after[i - Len(first)]
      BY <1>1, <1>5, <1>6, Concatenation, Zenon
  <2>2. (11 + len) + 2 = len + 13 /\ Len(first) = 11 + len /\ Len(after) = 2
      BY <1>1, <1>3, <1>5
  <2> QED
      BY <2>1, <2>2
<1>8. ASSUME NEW i \in 1..(len + 13)
      PROVE  text[i] = IF i - 11 \in 1..len THEN callId[i - 11] ELSE "a"
  <2>1. CASE i <= 11 + len
    <3>1. i \in 1..(11 + len)
        BY <1>3, <2>1
    <3>2. text[i] = first[i]
        BY <1>7, <2>1
    <3>3. CASE i <= 11
        BY <1>1, <1>5, <3>1, <3>2, <3>3
    <3>4. CASE i > 11
        BY <1>3, <1>5, <3>1, <3>2, <3>4
    <3> QED
        BY <3>3, <3>4
  <2>2. CASE i > 11 + len
    <3> DEFINE j == i - (11 + len)
    <3>1. j \in 1..2 /\ i = (11 + len) + j /\ ~(i - 11 \in 1..len)
        BY <1>3, <2>2
    <3>2. text[i] = after[j]
        BY <1>3, <1>7, <2>2
    <3> HIDE DEF j
    <3> QED
        BY <1>1, <3>1, <3>2
  <2> QED
      BY <1>3, <2>1, <2>2
<1>9. /\ text \in Seq(Unit) /\ Len(text) = len + 13
      /\ \A i \in 1..Len(text) : text[i] = IF i - 11 \in 1..len THEN callId[i - 11] ELSE "a"
    BY <1>7, <1>8
<1> QED
    BY <1>2, <1>9 DEF len

\* No half of a pair is alone in the text when none is in the callId.
LEMMA PresentationHasPairs ==
    ASSUME NEW callId \in Seq(Unit), \A n \in DOMAIN callId : ~Lone(callId, n),
           NEW i \in DOMAIN PresentationText(callId)
    PROVE  ~Lone(PresentationText(callId), i)
<1> DEFINE text == PresentationText(callId)
           len == Len(callId)
           p == i - 11
<1>1. len \in Nat /\ DOMAIN callId = 1..len
    OBVIOUS
<1>2. /\ text \in Seq(Unit) /\ Len(text) = len + 13
      /\ \A k \in 1..(len + 13) : text[k] = IF k - 11 \in 1..len THEN callId[k - 11] ELSE "a"
    BY PresentationParts
<1>3. i \in 1..(len + 13)
    BY <1>2
<1>4. p = i - 11 /\ p + 1 = (i + 1) - 11 /\ p - 1 = (i - 1) - 11
    BY <1>3
<1> HIDE DEF text, len, p
<1>5. CASE p \in 1..len
  <2>1. text[i] = callId[p] /\ ~Lone(callId, p)
      BY <1>1, <1>2, <1>3, <1>4, <1>5
  <2>2. CASE callId[p] = "hi"
    <3>1. p < len /\ callId[p + 1] = "lo"
        BY <2>1, <2>2 DEF Lone, len
    <3>2. i + 1 \in 1..(len + 13) /\ (i + 1) - 11 \in 1..len
        BY <1>1, <1>3, <1>4, <1>5, <3>1
    <3>3. text[i + 1] = "lo" /\ i < Len(text)
        BY <1>1, <1>2, <1>3, <1>4, <3>1, <3>2
    <3> QED
        BY <2>1, <2>2, <3>3 DEF Lone, text
  <2>3. CASE callId[p] = "lo"
    <3>1. p > 1 /\ callId[p - 1] = "hi"
        BY <2>1, <2>3 DEF Lone
    <3>2. i - 1 \in 1..(len + 13) /\ (i - 1) - 11 \in 1..len
        BY <1>1, <1>3, <1>4, <1>5, <3>1
    <3>3. text[i - 1] = "hi" /\ i > 1
        BY <1>1, <1>2, <1>3, <1>4, <3>1, <3>2
    <3> QED
        BY <2>1, <2>3, <3>3 DEF Lone, text
  <2> QED
      BY <2>1, <2>2, <2>3 DEF Lone, text
<1>6. CASE p \notin 1..len
  <2>1. text[i] = "a"
      BY <1>2, <1>3, <1>4, <1>6
  <2> QED
      BY <2>1 DEF Lone, text
<1> QED
    BY <1>5, <1>6

\* The callId is found where it was put.
LEMMA CallIdFound ==
    ASSUME NEW callId \in Seq(Unit)
    PROVE  CallIdIn(PresentationText(callId)) = callId
<1> DEFINE text == PresentationText(callId)
           len == Len(callId)
           read == SubSeq(text, 12, len + 11)
<1>1. len \in Nat /\ DOMAIN callId = 1..len /\ callId = [i \in 1..len |-> callId[i]]
    OBVIOUS
<1>2. /\ text \in Seq(Unit) /\ Len(text) = len + 13
      /\ \A k \in 1..(len + 13) : text[k] = IF k - 11 \in 1..len THEN callId[k - 11] ELSE "a"
    BY PresentationParts
<1>3. CallIdIn(text) = read
  <2>1. CallIdIn(text) = SubSeq(text, 11 + 1, Len(text) - 2)
      BY DEF CallIdIn, BeforeCallId, AfterCallId
  <2> HIDE DEF text, len
  <2>2. Len(text) - 2 = len + 11 /\ 11 + 1 = 12
      BY <1>1, <1>2
  <2> QED
      BY <2>1, <2>2
<1> HIDE DEF text, len
<1>4. read \in Seq(Unit) /\ Len(read) = len /\ \A i \in 1..len : read[i] = text[i + 11]
    BY <1>1, <1>2
<1> HIDE DEF read
<1>5. ASSUME NEW i \in 1..len
      PROVE  read[i] = callId[i]
  <2>1. i + 11 \in 1..(len + 13) /\ (i + 11) - 11 = i
      BY <1>1
  <2> QED
      BY <1>2, <1>4, <2>1
<1>6. read = callId
    BY <1>1, <1>4, <1>5
<1> QED
    BY <1>3, <1>6 DEF text

\* A callId of ASCII characters is never refused by the encryption.
LEMMA AsciiPresents ==
    ASSUME NEW callId \in Seq(Unit), \A n \in DOMAIN callId : callId[n] = "a"
    PROVE  Encrypts(PresentationText(callId))
<1> DEFINE text == PresentationText(callId)
           len == Len(callId)
<1>1. len \in Nat /\ \A n \in 1..len : callId[n] = "a"
    OBVIOUS
<1>2. /\ text \in Seq(Unit) /\ Len(text) = len + 13
      /\ \A k \in 1..Len(text) : text[k] = IF k - 11 \in 1..len THEN callId[k - 11] ELSE "a"
    BY PresentationParts
<1> HIDE DEF text, len
<1>3. \A k \in DOMAIN text : text[k] = "a"
    BY <1>1, <1>2
<1> QED
    BY <1>2, <1>3, AsciiEncrypts DEF text

----------------------------------------------------------------------------
(* The session as a whole *)

\* A session begins with nothing sent, stored or checked.
LEMMA SpvInit == Init => SpvInv
<1> SUFFICES ASSUME Init
             PROVE  SpvInv
    OBVIOUS
<1>1. session \in Session
    BY DEF Init
<1>2. SuccessInv
    BY SuccessInit
<1>3. Len(data.inputs) \in Nat /\ session.callId \in Seq(Unit) /\ session.keyed \in BOOLEAN
    BY <1>1, SessionFacts
<1> DEFINE len == Len(data.inputs)
<1>4. 1 \in 1..(len + 1)
  <2> HIDE DEF len
  <2> QED
      BY <1>3 DEF len
<1>5. checks \in [Check -> [input : 1..(len + 1), result : {"none", "pending", "true", "false"}]]
      /\ \A c \in Check : checks[c].result = "none"
    BY <1>4 DEF Init
<1>6. TypeOK
    BY <1>3, <1>5 DEF Init, TypeOK, Stage
<1>7. SentInv /\ PresentedAsSent /\ HonestDataSucceeds
    BY DEF Init, SentInv, PresentedAsSent, HonestDataSucceeds
<1>8. CheckedInv
    BY <1>5 DEF CheckedInv
<1> QED
    BY <1>2, <1>6, <1>7, <1>8 DEF SpvInv

\* A verification from the n-th input on: its place, and whether it goes on.
LEMMA ValidateFrom ==
    ASSUME session \in Session, NEW n \in 1..(Len(data.inputs) + 1)
    PROVE  LET next == Validate(data, n)
           IN  /\ next \in [input : 1..(Len(data.inputs) + 1),
                            result : {"none", "pending", "true", "false"}]
               /\ next.input = n
               /\ next.result = "pending" => n \in DOMAIN data.inputs
               /\ ~settings.acceptUnconfirmedUTXOs /\ ~settings.shouldGenerateMerkleRootLocally
                     /\ next.result = "true" => n = Len(data.inputs) + 1
<1> DEFINE len == Len(data.inputs)
<1>1. len \in Nat /\ DOMAIN data.inputs = 1..len
    BY SessionFacts
<1>2. (n..len = {} <=> n = len + 1) /\ (n # len + 1 => n \in 1..len)
  <2>1. n \in 1..(len + 1)
      OBVIOUS
  <2> HIDE DEF len
  <2>2. n = len + 1 => n..len = {}
      BY <1>1, <2>1
  <2>3. n # len + 1 => n \in n..len /\ n \in 1..len
      BY <1>1, <2>1
  <2> QED
      BY <2>2, <2>3
<1> QED
    BY <1>1, <1>2 DEF Validate

\* The start of the two verifications.
LEMMA ChecksStart ==
    ASSUME session \in Session
    PROVE  LET start == VerifyInputsTransaction(data)
           IN  /\ start \in [input : 1..(Len(data.inputs) + 1),
                             result : {"none", "pending", "true", "false"}]
               /\ start.input = 1
               /\ start.result = "pending" => start.input \in DOMAIN data.inputs
               /\ ~settings.acceptUnconfirmedUTXOs /\ ~settings.shouldGenerateMerkleRootLocally
                     /\ start.result = "true" => Len(data.inputs) = 0
<1> DEFINE len == Len(data.inputs)
<1>1. len \in Nat
    BY SessionFacts
<1>2. 1 \in 1..(len + 1) /\ (1 = len + 1 => len = 0)
  <2> HIDE DEF len
  <2> QED
      BY <1>1
<1>3. CASE data.currentTx.parses
    BY <1>2, <1>3, ValidateFrom DEF VerifyInputsTransaction
<1>4. CASE ~data.currentTx.parses
    BY <1>2, <1>4 DEF VerifyInputsTransaction
<1> QED
    BY <1>3, <1>4

\* The replies of the handler of the SPV data.
LEMMA VerdictTyped ==
    ASSUME TypeOK, VerifySpvData
    PROVE  replies' \in Seq([to : Seq(Unit), verdict : {"valid", "invalid"}])
<1> DEFINE R == [to : Seq(Unit), verdict : {"valid", "invalid"}]
           first == IF CheckDataHasBranchesAndBlockheight(data) THEN <<>>
                    ELSE <<Reply("invalid")>>
           second == IF ~VerifyTxIdsThrows(data) /\ Verified(data) THEN <<Reply("valid")>>
                     ELSE <<>>
<1>1. Reply("invalid") \in R /\ Reply("valid") \in R
    BY DEF Reply, TypeOK
<1> HIDE DEF R
<1>2. first \in Seq(R) /\ second \in Seq(R)
    BY <1>1
<1>3. replies' = first \o second
    BY DEF VerifySpvData
<1> HIDE DEF first, second
<1> QED
    BY <1>2, <1>3, Concatenation DEF R

\* Only the checks change once they run.
LEMMA ComparedFacts ==
    ASSUME TypeOK, session \in Session, NEW c \in Check, HeaderArrives(c)
    PROVE  /\ checks' = [checks EXCEPT ![c] = Compared(c)]
           /\ checks[c].input \in DOMAIN data.inputs
           /\ Compared(c) \in [input : 1..(Len(data.inputs) + 1),
                               result : {"none", "pending", "true", "false"}]
           /\ Compared(c).result = "pending" => Compared(c).input \in DOMAIN data.inputs
           /\ \/ Compared(c).result = "false"
              \/ /\ Compared(c) = Validate(data, checks[c].input + 1)
                 /\ ComputeMerkleRoot(data.inputs[checks[c].input].rawTx.txid,
                                      data.inputs[checks[c].input].branch)
                       = HeaderRoot(data.inputs[checks[c].input].blockheight)
<1> DEFINE len == Len(data.inputs)
           k == checks[c].input
           compared == Compared(c)
           in == data.inputs[k]
<1>1. len \in Nat /\ DOMAIN data.inputs = 1..len
    BY SessionFacts
<1>2. k \in DOMAIN data.inputs /\ checks' = [checks EXCEPT ![c] = compared]
    BY DEF TypeOK, HeaderArrives
<1>3. k + 1 \in 1..(len + 1)
  <2> HIDE DEF len, k
  <2> QED
      BY <1>1, <1>2
<1>4. CASE ComputeMerkleRoot(in.rawTx.txid, in.branch) # HeaderRoot(in.blockheight)
  <2>1. compared = [checks[c] EXCEPT !.result = "false"]
      BY <1>4 DEF Compared
  <2>2. checks[c] \in [input : 1..(len + 1), result : {"none", "pending", "true", "false"}]
      BY DEF TypeOK
  <2>3. compared \in [input : 1..(len + 1), result : {"none", "pending", "true", "false"}]
        /\ compared.result = "false"
      BY <2>1, <2>2
  <2> QED
      BY <1>2, <2>3
<1>5. CASE ComputeMerkleRoot(in.rawTx.txid, in.branch) = HeaderRoot(in.blockheight)
  <2>1. compared = Validate(data, k + 1)
      BY <1>5 DEF Compared
  <2> HIDE DEF compared
  <2> QED
      BY <1>2, <1>3, <1>5, <2>1, ValidateFrom DEF compared
<1> QED
    BY <1>4, <1>5

\* Every action keeps the types.
LEMMA TypeStep == SpvInv /\ [Next]_vars => TypeOK'
<1> SUFFICES ASSUME SpvInv, [Next]_vars
             PROVE  TypeOK'
    OBVIOUS
<1>1. TypeOK /\ session \in Session
    BY DEF SpvInv, SuccessInv
<1>2. ASSUME NEW text \in Seq(Unit), NEW next \in Stage, ClientSends(text, next)
      PROVE  TypeOK'
  <2>1. EncryptMyMessages(text, session.keyed) \in Seq(Seq(Unit))
      BY <1>1, <1>2, EncryptedType DEF TypeOK
  <2>2. stage' \in Stage /\ messages' \in Seq(Seq(Unit))
      BY <1>1, <1>2, <2>1 DEF ClientSends, TypeOK, Stage
  <2> QED
      BY <1>1, <1>2, <2>2 DEF ClientSends, TypeOK, data
<1>3. CASE SendPresentData
    BY <1>1, <1>2, <1>3, PresentationParts DEF SendPresentData, TypeOK, Stage
<1>4. CASE HandlePresentData
  <2> DEFINE text == DecryptMyMessages(messages)
  <2>1. text \in Seq(Unit)
      BY <1>1, DecryptedType DEF TypeOK
  <2>2. peer' \in {peer, CallIdIn(text)}
      BY <1>4 DEF HandlePresentData
  <2> HIDE DEF text
  <2>3. CallIdIn(text) \in Seq(Unit)
    <3> DEFINE to == Len(text) - 2
               read == SubSeq(text, 12, to)
    <3>1. to <= Len(text) /\ to \in Int
        BY <2>1
    <3>2. CallIdIn(text) = read
        BY DEF CallIdIn, BeforeCallId, AfterCallId
    <3> HIDE DEF to
    <3>3. read \in Seq(Unit)
        BY <2>1, <3>1
    <3> QED
        BY <3>2, <3>3
  <2>4. peer' \in Seq(Unit)
      BY <1>1, <2>2, <2>3 DEF TypeOK
  <2> QED
      BY <1>1, <1>4, <2>4 DEF HandlePresentData, TypeOK, Stage, data
<1>5. CASE SendSpvData
  <2>1. ChunkSize + 1 \in Nat
      BY EncryptionAssumption
  <2>2. Ascii(ChunkSize + 1) \in Seq(Unit) /\ "sending" \in Stage
      BY <2>1, AsciiType DEF Stage
  <2> QED
      BY <1>2, <1>5, <2>2 DEF SendSpvData
<1>6. CASE DropSpvData
    BY <1>1, <1>6 DEF DropSpvData, TypeOK, Stage, data
<1>7. CASE FetchMerklePath
    BY <1>1, <1>7 DEF FetchMerklePath, TypeOK, Stage, data
<1>8. CASE VerifySpvData
  <2>1. /\ replies' \in Seq([to : Seq(Unit), verdict : {"valid", "invalid"}])
        /\ stage' \in Stage
        /\ UNCHANGED <<settings, library, session, messages, peer>>
      BY <1>1, <1>8, VerdictTyped DEF VerifySpvData, Stage
  <2>2. CASE checks' = checks
      BY <1>1, <2>1, <2>2 DEF TypeOK, data
  <2>3. CASE checks' = [c \in Check |-> VerifyInputsTransaction(data)]
    <3> DEFINE R == [input : 1..(Len(data.inputs) + 1),
                     result : {"none", "pending", "true", "false"}]
    <3>1. checks' \in [Check -> R]
        BY <1>1, <2>3, ChecksStart
    <3>2. \A c \in Check : checks'[c].result = "pending" => checks'[c].input \in DOMAIN data.inputs
        BY <1>1, <2>3, ChecksStart
    <3>3. data' = data
        BY <2>1 DEF data
    <3> QED
        BY <1>1, <2>1, <3>1, <3>2, <3>3 DEF TypeOK
  <2> QED
      BY <1>8, <2>2, <2>3 DEF VerifySpvData
<1>9. ASSUME NEW c \in Check, HeaderArrives(c)
      PROVE  TypeOK'
  <2> DEFINE R == [input : 1..(Len(data.inputs) + 1),
                   result : {"none", "pending", "true", "false"}]
  <2>1. /\ checks' = [checks EXCEPT ![c] = Compared(c)]
        /\ Compared(c) \in R
        /\ Compared(c).result = "pending" => Compared(c).input \in DOMAIN data.inputs
      BY <1>1, <1>9, ComparedFacts
  <2>2. checks \in [Check -> R]
        /\ \A d \in Check : checks[d].result = "pending" => checks[d].input \in DOMAIN data.inputs
      BY <1>1 DEF TypeOK
  <2>3. UNCHANGED <<settings, library, session, stage, messages, peer, replies>>
        /\ data' = data
      BY <1>9 DEF HeaderArrives, data
  <2> HIDE DEF R
  <2>4. checks' \in [Check -> R]
        /\ \A d \in Check : checks'[d].result = "pending" => checks'[d].input \in DOMAIN data.inputs
      BY <2>1, <2>2
  <2> QED
      BY <1>1, <2>3, <2>4 DEF TypeOK, R
<1>10. ASSUME NEW c \in Check, HeaderFails(c) \/ AnswerIsNoJson(c)
       PROVE  TypeOK'
    BY <1>1, <1>10 DEF HeaderFails, AnswerIsNoJson, TypeOK, Stage, data
<1>11. CASE UNCHANGED vars
    BY <1>1, <1>11 DEF vars, TypeOK, data
<1> QED
    BY <1>3, <1>4, <1>5, <1>6, <1>7, <1>8, <1>9, <1>10, <1>11 DEF Next

\* The two messages, and who is known.
LEMMA SentStep == SpvInv /\ [Next]_vars => SentInv'
<1> SUFFICES ASSUME SpvInv, [Next]_vars
             PROVE  SentInv'
    OBVIOUS
<1>1. SentInv
    BY DEF SpvInv
<1>2. CASE SendPresentData
    BY <1>1, <1>2 DEF SendPresentData, ClientSends, SentInv
<1>3. CASE HandlePresentData
  <2>1. UNCHANGED session /\ stage' = "presented"
      BY <1>3 DEF HandlePresentData
  <2>2. peer' # <<>> => session.keyed
    <3>1. CASE session.keyed
        BY <3>1
    <3>2. CASE ~session.keyed
      <4>1. messages = << <<>> >>
          BY <1>1, <1>3, <3>2 DEF HandlePresentData, SentInv, EncryptMyMessages
      <4>2. 1 \in DOMAIN << <<>> >> /\ << <<>> >>[1] = <<>>
          OBVIOUS
      <4>3. DecryptMyMessages(messages) = <<>>
          BY <4>1, <4>2 DEF DecryptMyMessages
      <4>4. peer' = peer
          BY <1>3, <4>3 DEF HandlePresentData
      <4> QED
          BY <1>1, <4>4 DEF SentInv
    <3> QED
        BY <3>1, <3>2
  <2> QED
      BY <2>1, <2>2 DEF SentInv
<1>4. CASE SendSpvData
    BY <1>1, <1>4 DEF SendSpvData, ClientSends, SentInv
<1>5. CASE DropSpvData
    BY <1>1, <1>5 DEF DropSpvData, SentInv
<1>6. CASE FetchMerklePath
    BY <1>1, <1>6 DEF FetchMerklePath, SentInv
<1>7. CASE VerifySpvData
    BY <1>1, <1>7 DEF VerifySpvData, SentInv
<1>8. ASSUME NEW c \in Check, HeaderArrives(c) \/ HeaderFails(c) \/ AnswerIsNoJson(c)
      PROVE  SentInv'
    BY <1>1, <1>8 DEF HeaderArrives, HeaderFails, AnswerIsNoJson, SentInv
<1>9. CASE UNCHANGED vars
    BY <1>1, <1>9 DEF vars, SentInv
<1> QED
    BY <1>2, <1>3, <1>4, <1>5, <1>6, <1>7, <1>8, <1>9 DEF Next

\* The handler of the presentation reads the callId the client sent.
LEMMA PresentedRight ==
    ASSUME SpvInv, HandlePresentData, PairsWhole(PresentationText(session.callId)), peer' # <<>>
    PROVE  peer' = session.callId
<1> DEFINE text == PresentationText(session.callId)
<1>1. /\ session.callId \in Seq(Unit) /\ session.keyed \in BOOLEAN
      /\ \A n \in DOMAIN session.callId : ~Lone(session.callId, n)
    BY SessionFacts DEF SpvInv, SuccessInv
<1>2. text \in Seq(Unit) /\ Len(text) = Len(session.callId) + 13
    BY <1>1, PresentationParts
<1>3. \A i \in DOMAIN text : ~Lone(text, i)
    BY <1>1, PresentationHasPairs
<1>4. text # <<>>
  <2> DEFINE len == Len(session.callId)
  <2>1. len \in Nat
      BY <1>1
  <2> HIDE DEF len
  <2>2. Len(text) = len + 13
      BY <1>2 DEF len
  <2> HIDE DEF text
  <2>3. Len(text) # 0
      BY <2>1, <2>2
  <2> QED
      BY <2>3
<1>5. \A i \in 1..Len(text) : i % ChunkSize = 0 => text[i] # "hi"
    BY DEF PairsWhole
<1>6. DecryptMyMessages(EncryptMyMessages(text, TRUE)) = text
  <2> HIDE DEF text
  <2> QED
      BY <1>2, <1>3, <1>4, <1>5, ReadAsSent
<1>7. SentInv' /\ SentInv
    BY SentStep DEF SpvInv, Next
<1>8. session' = session /\ stage = "presenting"
    BY DEF HandlePresentData
<1>9. session.keyed = TRUE
    BY <1>1, <1>7, <1>8 DEF SentInv
<1>10. messages = EncryptMyMessages(text, TRUE)
    BY <1>7, <1>8, <1>9 DEF SentInv
<1>11. peer' \in {peer, CallIdIn(text)}
    BY <1>4, <1>6, <1>10 DEF HandlePresentData
<1>12. peer # <<>> => peer = session.callId
    BY DEF SpvInv, PresentedAsSent
<1> QED
    BY <1>1, <1>11, <1>12, CallIdFound

\* Only the handler of the presentation stores a callId.
LEMMA PresentedStep == SpvInv /\ [Next]_vars => PresentedAsSent'
<1> SUFFICES ASSUME SpvInv, [Next]_vars
             PROVE  PresentedAsSent'
    OBVIOUS
<1>1. PresentedAsSent /\ session \in Session
    BY DEF SpvInv, SuccessInv
<1>2. CASE UNCHANGED <<session, peer>> /\ (stage' = "clientEnded" => stage = "clientEnded")
    BY <1>1, <1>2 DEF PresentedAsSent
<1>3. CASE SendPresentData
  <2>1. CASE stage' = "clientEnded"
    <3>1. ~Encrypts(PresentationText(session.callId)) /\ UNCHANGED <<session, peer>>
        BY <1>3, <2>1 DEF SendPresentData, ClientSends
    <3>2. \E n \in DOMAIN session.callId : session.callId[n] # "a"
        BY <1>1, <3>1, SessionFacts, AsciiPresents
    <3> QED
        BY <1>1, <3>1, <3>2 DEF PresentedAsSent
  <2>2. CASE stage' # "clientEnded"
      BY <1>2, <1>3, <2>2 DEF SendPresentData, ClientSends
  <2> QED
      BY <2>1, <2>2
<1>4. CASE HandlePresentData
  <2>1. session' = session /\ stage' = "presented"
      BY <1>4 DEF HandlePresentData
  <2>2. peer' # <<>> /\ PairsWhole(PresentationText(session.callId)) => peer' = session.callId
      BY <1>4, PresentedRight
  <2> QED
      BY <2>1, <2>2 DEF PresentedAsSent
<1>5. CASE SendSpvData
  <2>1. ChunkSize + 1 \in Nat
      BY EncryptionAssumption
  <2> DEFINE text == Ascii(ChunkSize + 1)
  <2>2. text \in Seq(Unit) /\ Len(text) = ChunkSize + 1
        /\ \A i \in 1..(ChunkSize + 1) : text[i] = "a"
      BY <2>1, AsciiType
  <2> HIDE DEF text
  <2>3. \A i \in DOMAIN text : text[i] = "a"
      BY <2>2
  <2>4. Encrypts(text)
      BY <2>2, <2>3, AsciiEncrypts
  <2>5. stage' = "sending" /\ UNCHANGED <<session, peer>>
      BY <1>5, <2>4 DEF SendSpvData, ClientSends, text
  <2> QED
      BY <1>2, <2>5
<1>6. CASE DropSpvData
    BY <1>2, <1>6 DEF DropSpvData
<1>7. CASE FetchMerklePath
    BY <1>2, <1>7 DEF FetchMerklePath
<1>8. CASE VerifySpvData
    BY <1>2, <1>8 DEF VerifySpvData
<1>9. ASSUME NEW c \in Check, HeaderArrives(c) \/ HeaderFails(c) \/ AnswerIsNoJson(c)
      PROVE  PresentedAsSent'
    BY <1>2, <1>9 DEF HeaderArrives, HeaderFails, AnswerIsNoJson
<1>10. CASE UNCHANGED vars
    BY <1>2, <1>10 DEF vars
<1> QED
    BY <1>3, <1>4, <1>5, <1>6, <1>7, <1>8, <1>9, <1>10 DEF Next

\* A check that goes on has found every root so far.
LEMMA CheckedStep == SpvInv /\ [Next]_vars => CheckedInv'
<1> SUFFICES ASSUME SpvInv, [Next]_vars
             PROVE  CheckedInv'
    OBVIOUS
<1> SUFFICES ASSUME ~settings.acceptUnconfirmedUTXOs, ~settings.shouldGenerateMerkleRootLocally
             PROVE  CheckedInv'
  <2>1. settings' = settings
      BY DEF Next, SendPresentData, ClientSends, HandlePresentData, SendSpvData, DropSpvData,
             FetchMerklePath, VerifySpvData, HeaderArrives, HeaderFails, AnswerIsNoJson, vars
  <2> QED
      BY <2>1 DEF CheckedInv
<1> DEFINE Included(n) == IncludedAt(data.inputs[n].rawTx.txid, data.inputs[n].blockheight)
           Seen(check) == \A n \in DOMAIN data.inputs :
                             \/ check.result = "true"
                             \/ check.result = "pending" /\ n < check.input
                             => Included(n)
<1>1. TypeOK /\ session \in Session /\ \A c \in Check : Seen(checks[c])
    BY DEF SpvInv, SuccessInv, CheckedInv
<1>2. Len(data.inputs) \in Nat /\ DOMAIN data.inputs = 1..Len(data.inputs)
    BY <1>1, SessionFacts
<1>3. ASSUME session' = session, \A c \in Check : Seen(checks'[c])
      PROVE  CheckedInv'
    BY <1>3 DEF CheckedInv, IncludedAt, data
<1> HIDE DEF Seen
<1>4. CASE UNCHANGED <<session, checks>>
    BY <1>1, <1>3, <1>4
<1>5. CASE SendPresentData
    BY <1>4, <1>5 DEF SendPresentData, ClientSends
<1>6. CASE HandlePresentData
    BY <1>4, <1>6 DEF HandlePresentData
<1>7. CASE SendSpvData
    BY <1>4, <1>7 DEF SendSpvData, ClientSends
<1>8. CASE DropSpvData
    BY <1>4, <1>8 DEF DropSpvData
<1>9. CASE FetchMerklePath
    BY <1>4, <1>9 DEF FetchMerklePath
<1>10. CASE VerifySpvData
  <2>1. CASE checks' = checks
      BY <1>4, <1>10, <2>1 DEF VerifySpvData
  <2>2. CASE checks' = [c \in Check |-> VerifyInputsTransaction(data)]
    <3> DEFINE start == VerifyInputsTransaction(data)
               len == Len(data.inputs)
    <3>1. /\ start.input = 1
          /\ start.result = "true" => len = 0
        BY <1>1, ChecksStart
    <3> HIDE DEF start
    <3>2. \A n \in DOMAIN data.inputs : ~(n < 1) /\ len # 0
      <4>1. len \in Nat /\ DOMAIN data.inputs = 1..len
          BY <1>2
      <4> HIDE DEF len
      <4> QED
          BY <4>1
    <3>3. Seen(start)
        BY <3>1, <3>2 DEF Seen
    <3> QED
        BY <1>3, <1>10, <2>2, <3>3 DEF VerifySpvData, start
  <2> QED
      BY <1>10, <2>1, <2>2 DEF VerifySpvData
<1>11. ASSUME NEW c \in Check, HeaderArrives(c)
       PROVE  CheckedInv'
  <2> DEFINE k == checks[c].input
             in == data.inputs[k]
             compared == Compared(c)
             len == Len(data.inputs)
  <2>1. /\ checks' = [checks EXCEPT ![c] = compared] /\ k \in DOMAIN data.inputs
        /\ \/ compared.result = "false"
           \/ /\ compared = Validate(data, k + 1)
              /\ ComputeMerkleRoot(in.rawTx.txid, in.branch) = HeaderRoot(in.blockheight)
      BY <1>1, <1>11, ComparedFacts
  <2>2. Seen(compared)
    <3>1. CASE compared.result = "false"
        BY <3>1 DEF Seen
    <3>2. CASE /\ compared = Validate(data, k + 1)
               /\ ComputeMerkleRoot(in.rawTx.txid, in.branch) = HeaderRoot(in.blockheight)
      <4>1. in.blockheight \in DOMAIN Chain /\ checks[c].result = "pending"
          BY <1>11 DEF HeaderArrives
      <4>2. Included(k)
          BY <1>1, <2>1, <3>2, <4>1, RootMeansIncluded DEF TypeOK
      <4>3. \A n \in DOMAIN data.inputs : n < k => Included(n)
          BY <1>1, <4>1 DEF Seen
      <4>4. len \in Nat /\ DOMAIN data.inputs = 1..len
          BY <1>2
      <4>5. k + 1 \in 1..(len + 1)
        <5> HIDE DEF k, len
        <5> QED
            BY <2>1, <4>4
      <4>6. /\ compared.input = k + 1
            /\ compared.result = "true" => k + 1 = len + 1
          BY <1>1, <3>2, <4>5, ValidateFrom
      <4> HIDE DEF k, len, compared, Included
      <4>7. \A n \in DOMAIN data.inputs : n < k + 1 => Included(n)
        <5>1. \A n \in DOMAIN data.inputs : n < k + 1 => n < k \/ n = k
            BY <2>1, <4>4
        <5> QED
            BY <4>2, <4>3, <5>1
      <4>8. k + 1 = len + 1 => \A n \in DOMAIN data.inputs : n < k + 1
          BY <2>1, <4>4
      <4> QED
          BY <4>6, <4>7, <4>8 DEF Seen, Included
    <3> QED
        BY <2>1, <3>1, <3>2
  <2>3. \A d \in Check : Seen(checks'[d])
    <3> HIDE DEF compared
    <3>1. \A d \in Check : checks'[d] = IF d = c THEN compared ELSE checks[d]
        BY <1>1, <2>1 DEF TypeOK
    <3> QED
        BY <1>1, <2>2, <3>1
  <2> QED
      BY <1>3, <1>11, <2>3 DEF HeaderArrives
<1>12. ASSUME NEW c \in Check, HeaderFails(c)
       PROVE  CheckedInv'
  <2>1. \A d \in Check : Seen(checks'[d])
    <3>1. \A d \in Check : checks'[d] = checks[d] \/ checks'[d].result = "false"
        BY <1>1, <1>12 DEF HeaderFails, TypeOK
    <3> QED
        BY <1>1, <3>1 DEF Seen
  <2> QED
      BY <1>3, <1>12, <2>1 DEF HeaderFails
<1>13. ASSUME NEW c \in Check, AnswerIsNoJson(c)
       PROVE  CheckedInv'
    BY <1>4, <1>13 DEF AnswerIsNoJson
<1>14. CASE UNCHANGED vars
    BY <1>4, <1>14 DEF vars
<1> QED
    BY <1>5, <1>6, <1>7, <1>8, <1>9, <1>10, <1>11, <1>12, <1>13, <1>14 DEF Next

\* The transaction an input names is found among those sent, when its id is the
\* hash of its bytes: the first with that hash is the same transaction.
LEMMA PreviousFound ==
    ASSUME session \in Session, NEW in, NEW k \in DOMAIN data.inputs,
           data.inputs[k].rawTx.rawTxid = in.txid, VerifyScript(in, data.inputs[k].rawTx)
    PROVE  \E tx \in Previous(data, in.txid) : VerifyScript(in, tx)
<1> DEFINE found == {n \in DOMAIN data.inputs : data.inputs[n].rawTx.rawTxid = in.txid}
<1>1. Len(data.inputs) \in Nat /\ DOMAIN data.inputs = 1..Len(data.inputs)
    BY SessionFacts
<1>2. found \in SUBSET Nat /\ k \in found
    BY <1>1
<1> HIDE DEF found
<1>3. PICK j \in found : \A i \in found : j <= i
    BY <1>2, LeastNumber
<1>4. data.inputs[j].rawTx.rawTxid = in.txid /\ j \in DOMAIN data.inputs
    BY <1>3 DEF found
<1>5. data.inputs[j].rawTx = data.inputs[k].rawTx
    BY <1>4, SessionFacts DEF IsData
<1>6. data.inputs[j].rawTx \in Previous(data, in.txid)
    BY <1>3 DEF Previous, found
<1> QED
    BY <1>5, <1>6

\* Honest data passes both checks of the transactions.
LEMMA HonestVerified ==
    ASSUME session \in Session, HonestData
    PROVE  Verified(data) /\ ~VerifyTxIdsThrows(data)
<1> DEFINE txs == RawTransactions(data)
           len == Len(data.inputs)
<1>1. \A n \in DOMAIN txs : txs[n].parses /\ txs[n].rawTxid = txs[n].txid
  <2> DEFINE sent == [n \in DOMAIN data.inputs |-> data.inputs[n].rawTx]
             S == {tx \in {sent[n] : n \in DOMAIN data.inputs} \cup {data.currentTx} :
                      tx.parses /\ tx.rawTxid = tx.txid}
  <2>1. len \in Nat /\ DOMAIN data.inputs = 1..len
      BY SessionFacts
  <2>2. \A n \in DOMAIN data.inputs : data.inputs[n].rawTx \in S
      BY DEF HonestData, WellFormed
  <2>3. data.currentTx \in S
      BY DEF HonestData, WellFormed
  <2>4. sent \in Seq(S)
      BY <2>1, <2>2
  <2>5. txs = Append(sent, data.currentTx)
      BY DEF RawTransactions
  <2>6. \A tx \in S : tx.parses /\ tx.rawTxid = tx.txid
      OBVIOUS
  <2> HIDE DEF S, sent, txs
  <2>7. txs \in Seq(S)
      BY <2>3, <2>4, <2>5
  <2>8. \A n \in DOMAIN txs : txs[n] \in S
      BY <2>7
  <2> QED
      BY <2>6, <2>8
<1>2. VerifyTxIds(data)
    BY <1>1 DEF VerifyTxIds
<1>3. ~VerifyTxIdsThrows(data)
    BY <1>1 DEF VerifyTxIdsThrows
<1>4. ASSUME NEW n \in DOMAIN data.currentTx.vin
      PROVE  \E tx \in Previous(data, data.currentTx.vin[n].txid) :
                VerifyScript(data.currentTx.vin[n], tx)
  <2> DEFINE in == data.currentTx.vin[n]
  <2>1. PICK k \in DOMAIN data.inputs :
           /\ data.inputs[k].rawTx.txid = in.txid
           /\ in.vout < Len(data.inputs[k].rawTx.vouts)
           /\ in.key = data.inputs[k].rawTx.vouts[in.vout + 1]
      BY DEF HonestData, SpendsSent
  <2>2. data.inputs[k].rawTx.rawTxid = in.txid
      BY <2>1 DEF HonestData, WellFormed
  <2>3. VerifyScript(in, data.inputs[k].rawTx)
      BY <2>1 DEF VerifyScript
  <2> HIDE DEF in
  <2>4. \E tx \in Previous(data, in.txid) : VerifyScript(in, tx)
      BY <2>2, <2>3, PreviousFound
  <2> QED
      BY <2>4 DEF in
<1> QED
    BY <1>2, <1>3, <1>4 DEF Verified, VerifyInputScripts

\* Its branches are all there, unless an input is alone in its block.
LEMMA HonestDataComplete ==
    ASSUME HonestData, \A n \in DOMAIN data.inputs : Len(Chain[data.inputs[n].blockheight]) # 1
    PROVE  CheckDataHasBranchesAndBlockheight(data)
<1> SUFFICES ASSUME NEW n \in DOMAIN data.inputs
             PROVE  data.inputs[n].branch # <<>> /\ data.inputs[n].blockheight # 0
    BY DEF CheckDataHasBranchesAndBlockheight
<1>1. HonestInput(data.inputs[n])
    BY DEF HonestData
<1> QED
    BY <1>1, HonestBranch

\* Honest data of a client that is known is neither dropped nor refused.
LEMMA HonestStep == SpvInv /\ [Next]_vars => HonestDataSucceeds'
<1> SUFFICES ASSUME SpvInv, [Next]_vars
             PROVE  HonestDataSucceeds'
    OBVIOUS
<1>1. HonestDataSucceeds /\ SentInv /\ TypeOK /\ session \in Session
    BY DEF SpvInv, SuccessInv
<1>2. CASE UNCHANGED <<session, peer, replies>>
           /\ (stage' \in {"checking", "dropped"} => stage \in {"checking", "dropped"})
  <2>1. HonestData' = HonestData /\ data' = data /\ Reply("valid")' = Reply("valid")
      BY <1>2 DEF HonestData, HonestInput, SpendsSent, data, Reply
  <2> QED
      BY <1>1, <1>2, <2>1 DEF HonestDataSucceeds
<1>3. CASE stage' \notin {"checking", "dropped"}
    BY <1>3 DEF HonestDataSucceeds
<1>4. CASE SendPresentData
    BY <1>3, <1>4 DEF SendPresentData, ClientSends
<1>5. CASE HandlePresentData
    BY <1>3, <1>5 DEF HandlePresentData
<1>6. CASE SendSpvData
    BY <1>3, <1>6 DEF SendSpvData, ClientSends
<1>7. CASE DropSpvData
  <2>1. peer' = peer /\ stage = "sending"
      BY <1>7 DEF DropSpvData
  <2>2. CASE peer = <<>>
      BY <2>1, <2>2 DEF HonestDataSucceeds
  <2>3. CASE peer # <<>>
    <3>1. session.keyed = TRUE
        BY <1>1, <2>3 DEF SentInv, TypeOK
    <3>2. messages = EncryptMyMessages(Ascii(ChunkSize + 1), TRUE)
        BY <1>1, <2>1, <3>1 DEF SentInv
    <3> DEFINE text == Ascii(ChunkSize + 1)
    <3>3. text \in Seq(Unit) /\ Len(text) = ChunkSize + 1 /\ ChunkSize \in Nat
        BY EncryptionAssumption, AsciiType
    <3> HIDE DEF text
    <3>4. text # <<>>
        BY <3>3
    <3>5. DecryptMyMessages(messages) # <<>>
        BY <3>2, <3>3, <3>4, SentIsReadable DEF text
    <3> QED
        BY <1>7, <2>3, <3>5 DEF DropSpvData
  <2> QED
      BY <2>2, <2>3
<1>8. CASE FetchMerklePath
  <2>1. UNCHANGED <<session, peer, replies>> /\ ~CheckDataHasBranchesAndBlockheight(data)
      BY <1>8 DEF FetchMerklePath
  <2>2. HonestData' = HonestData /\ data' = data
      BY <2>1 DEF HonestData, HonestInput, SpendsSent, data
  <2> QED
      BY <2>1, <2>2, HonestDataComplete DEF HonestDataSucceeds
<1>9. CASE VerifySpvData
  <2>1. UNCHANGED <<session, peer>>
      BY <1>9 DEF VerifySpvData
  <2>2. HonestData' = HonestData /\ data' = data /\ Reply("valid")' = Reply("valid")
      BY <2>1 DEF HonestData, HonestInput, SpendsSent, data, Reply
  <2>3. ASSUME HonestData, CheckDataHasBranchesAndBlockheight(data)
        PROVE  replies' = <<Reply("valid")>>
    <3>1. Verified(data) /\ ~VerifyTxIdsThrows(data)
        BY <1>1, <2>3, HonestVerified
    <3>2. replies' = <<>> \o <<Reply("valid")>>
        BY <1>9, <2>3, <3>1 DEF VerifySpvData
    <3> QED
        BY <3>2
  <2> QED
      BY <2>2, <2>3, HonestDataComplete DEF HonestDataSucceeds
<1>10. ASSUME NEW c \in Check, HeaderArrives(c) \/ HeaderFails(c) \/ AnswerIsNoJson(c)
       PROVE  HonestDataSucceeds'
    BY <1>2, <1>3, <1>10 DEF HeaderArrives, HeaderFails, AnswerIsNoJson
<1>11. CASE UNCHANGED vars
    BY <1>2, <1>11 DEF vars
<1> QED
    BY <1>4, <1>5, <1>6, <1>7, <1>8, <1>9, <1>10, <1>11 DEF Next

\* Every action keeps the invariant.
LEMMA SpvStep == SpvInv /\ [Next]_vars => SpvInv'
<1>1. SpvInv => SuccessInv
    BY DEF SpvInv
<1> QED
    BY <1>1, TypeStep, SuccessStep, SentStep, PresentedStep, CheckedStep, HonestStep DEF SpvInv

\* The session as a whole: what is on its way, what the merchant stored, what
\* the verdict is, and what the two verifications have compared.
THEOREM SpvInvariant == Spec => []SpvInv
BY SpvInit, SpvStep, PTL DEF Spec

\* The session, its frames, the verdicts and the checks keep their types.
THEOREM SpvTyped == Spec => []TypeOK
<1>1. SpvInv => TypeOK
    BY DEF SpvInv
<1> QED
    BY <1>1, SpvInvariant, PTL

\* For chunks and callIds of any length: the callId the merchant stores is the
\* client's if no chunk ends inside a pair, and ASCII never stops the client.
THEOREM PresentedAlwaysAsSent == Spec => []PresentedAsSent
<1>1. SpvInv => PresentedAsSent
    BY DEF SpvInv
<1> QED
    BY <1>1, SpvInvariant, PTL

\* For a chain of any blocks, and whatever branches are sent: a check that comes
\* out true, with confirmed outputs required and the root fetched, has found
\* each input in the block at its height.
THEOREM TrueAlwaysMeansIncluded == Spec => []TrueMeansIncluded
<1>1. SpvInv => TrueMeansIncluded
    BY DEF SpvInv, CheckedInv, TrueMeansIncluded
<1> QED
    BY <1>1, SpvInvariant, PTL

\* Honest data gets the success message and no other, unless an input is alone
\* in its block.
THEOREM HonestDataAlwaysSucceeds == Spec => []HonestDataSucceeds
<1>1. SpvInv => HonestDataSucceeds
    BY DEF SpvInv
<1> QED
    BY <1>1, SpvInvariant, PTL

\* For blocks of any size: the branch of each of their transactions leads to the
\* root, and whatever branch leads there starts at one of their transactions.
THEOREM BranchAlwaysProvesInclusion == Spec => []BranchProvesInclusion
<1>1. ASSUME session \in Session
      PROVE  BranchProvesInclusion
  <2> SUFFICES ASSUME NEW n \in DOMAIN data.inputs,
                      data.inputs[n].blockheight \in DOMAIN Chain
               PROVE  LET in == data.inputs[n]
                          leads == ComputeMerkleRoot(in.rawTx.txid, in.branch)
                                      = MerkleRoot(Chain[in.blockheight])
                      IN  /\ HonestInput(in) => leads
                          /\ leads => IncludedAt(in.rawTx.txid, in.blockheight)
      BY DEF BranchProvesInclusion
  <2> QED
      BY <1>1, HonestBranch, LeadsFromTheBlock
<1>2. SpvInv => session \in Session
    BY DEF SpvInv, SuccessInv
<1> QED
    BY <1>1, <1>2, SpvInvariant, PTL

\* A check that needs a header starts with its first input and, unless the library
\* gives the root in the order it is computed in, goes no further.
LEMMA NothingStep == SpvInv /\ NothingIsConfirmed /\ [Next]_vars => NothingIsConfirmed'
<1> SUFFICES ASSUME SpvInv, NothingIsConfirmed, [Next]_vars
             PROVE  NothingIsConfirmed'
    OBVIOUS
<1>1. TypeOK /\ session \in Session
    BY DEF SpvInv, SuccessInv
<1>2. UNCHANGED <<library, settings, session>>
    BY DEF Next, SendPresentData, ClientSends, HandlePresentData, SendSpvData, DropSpvData,
           FetchMerklePath, VerifySpvData, HeaderArrives, HeaderFails, AnswerIsNoJson, vars
<1> SUFFICES ASSUME library # "display", Len(data.inputs) > 0,
                    ~settings.acceptUnconfirmedUTXOs, ~settings.shouldGenerateMerkleRootLocally
             PROVE  \A c \in Check : checks'[c].result # "true"
    BY <1>2 DEF NothingIsConfirmed, data
<1>3. \A c \in Check : checks[c].result # "true"
    BY DEF NothingIsConfirmed
<1>4. CASE UNCHANGED checks
    BY <1>3, <1>4
<1>5. CASE SendPresentData \/ SendSpvData
    BY <1>4, <1>5 DEF SendPresentData, SendSpvData, ClientSends
<1>6. CASE HandlePresentData \/ DropSpvData \/ FetchMerklePath
    BY <1>4, <1>6 DEF HandlePresentData, DropSpvData, FetchMerklePath
<1>7. CASE VerifySpvData
  <2>1. CASE checks' = checks
      BY <1>4, <2>1
  <2>2. CASE checks' = [c \in Check |-> VerifyInputsTransaction(data)]
    <3>1. Len(data.inputs) \in Nat /\ Len(data.inputs) # 0
        BY <1>1, SessionFacts
    <3>2. VerifyInputsTransaction(data).result # "true"
        BY <1>1, <3>1, ChecksStart
    <3> QED
        BY <2>2, <3>2
  <2> QED
      BY <1>7, <2>1, <2>2 DEF VerifySpvData
<1>8. ASSUME NEW c \in Check, HeaderArrives(c)
      PROVE  \A d \in Check : checks'[d].result # "true"
  <2> DEFINE k == checks[c].input
             in == data.inputs[k]
  <2>1. /\ checks' = [checks EXCEPT ![c] = Compared(c)] /\ k \in DOMAIN data.inputs
        /\ \/ Compared(c).result = "false"
           \/ ComputeMerkleRoot(in.rawTx.txid, in.branch) = HeaderRoot(in.blockheight)
      BY <1>1, <1>8, ComparedFacts
  <2>2. in.blockheight \in DOMAIN Chain
      BY <1>8 DEF HeaderArrives
  <2>3. Compared(c).result = "false"
      BY <1>1, <2>1, <2>2, RootMeansIncluded
  <2> QED
      BY <1>1, <1>3, <2>1, <2>3 DEF TypeOK
<1>9. ASSUME NEW c \in Check, HeaderFails(c)
      PROVE  \A d \in Check : checks'[d].result # "true"
    BY <1>1, <1>3, <1>9 DEF HeaderFails, TypeOK
<1>10. ASSUME NEW c \in Check, AnswerIsNoJson(c)
       PROVE  \A d \in Check : checks'[d].result # "true"
    BY <1>4, <1>10 DEF AnswerIsNoJson
<1>11. CASE UNCHANGED vars
    BY <1>4, <1>11 DEF vars
<1> QED
    BY <1>5, <1>6, <1>7, <1>8, <1>9, <1>10, <1>11 DEF Next

\* With the import of request undefined, or the root of a header in its stored
\* order, no check that needs a header ever comes out true, on any chain and
\* whatever is sent.
THEOREM NothingIsEverConfirmed == Spec => []NothingIsConfirmed
<1>1. Init => NothingIsConfirmed
    BY DEF Init, NothingIsConfirmed
<1> QED
    BY <1>1, NothingStep, SpvInvariant, PTL DEF Spec
=============================================================================
