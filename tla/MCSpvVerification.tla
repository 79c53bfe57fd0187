------------------------- MODULE MCSpvVerification -------------------------
\* A small chain and the sessions TLC tries on it.
EXTENDS SpvVerification

\* A block of five transactions, whose last is paired with itself on two
\* levels, a block of one, whose branch is empty, and blocks of two, three, four,
\* six and seven; the one at height 0 has one transaction.
Id(n) == <<n>>
Ids(first, last) == [n \in 1..(last - first + 1) |-> Id(first + n - 1)]
MCTxId == {Id(n) : n \in 0..60}
MCChain ==
    (0 :> Ids(60, 60)) @@
    <<Ids(1, 5), Ids(6, 6), Ids(7, 8), Ids(21, 23), Ids(31, 34), Ids(41, 46), Ids(51, 57)>>

\* Transaction 5 is locked to another key than the others.
KeyOf(txid) == IF txid = Id(5) THEN "ann" ELSE "bob"
Tx(txid, vin) ==
    [txid |-> txid, rawTxid |-> txid, parses |-> TRUE, vin |-> vin, vouts |-> <<KeyOf(txid)>>]
Padded(tx) == [tx EXCEPT !.rawTxid = Id(0)]
Broken(tx) == [tx EXCEPT !.rawTxid = <<"broken", tx.txid>>, !.parses = FALSE]

Spends(txid, vout) == [txid |-> txid, vout |-> vout, key |-> KeyOf(txid)]
Forged(txid) == [txid |-> txid, vout |-> 0, key |-> "eve"]

Input(rawTx, branch, height) == [rawTx |-> rawTx, branch |-> branch, blockheight |-> height]

Swapped(branch) ==
    [n \in DOMAIN branch |-> [branch[n] EXCEPT !.pos = IF @ = "L" THEN "R" ELSE "L"]]

\* Honest and wrong branches, for each transaction and height.
Branches ==
    {<<>>, Branch(MCChain[1], 2), Branch(MCChain[1], 5), Branch(MCChain[3], 1),
     Swapped(Branch(MCChain[1], 5)), SubSeq(Branch(MCChain[1], 2), 1, 2)}

Sent == {Tx(Id(2), <<>>), Tx(Id(5), <<>>), Tx(Id(6), <<>>), Tx(Id(7), <<>>), Tx(Id(9), <<>>),
         Padded(Tx(Id(2), <<>>)), Broken(Tx(Id(2), <<>>))}

\* One input of any kind, spent well or badly.
OneInput ==
    {[currentTx |-> Tx(Id(10), <<in>>), inputs |-> <<Input(tx, branch, height)>>] :
        in \in {Spends(Id(2), 0), Spends(Id(2), 1), Spends(Id(5), 0), Spends(Id(0), 0),
               Forged(Id(2))},
        tx \in Sent, branch \in Branches, height \in 0..3}

\* Two inputs, each spent, in the order sent or the other.
Two ==
    {Input(Tx(Id(2), <<>>), Branch(MCChain[1], 2), 1),
     Input(Tx(Id(5), <<>>), Branch(MCChain[1], 5), 1),
     Input(Tx(Id(7), <<>>), Branch(MCChain[3], 1), 3),
     Input(Tx(Id(7), <<>>), Branch(MCChain[3], 1), 1),
     Input(Padded(Tx(Id(2), <<>>)), Branch(MCChain[1], 2), 1),
     Input(Broken(Tx(Id(5), <<>>)), Branch(MCChain[1], 5), 1)}

TwoInputs ==
    {[currentTx |-> current, inputs |-> <<a, b>>] :
        current \in {Tx(Id(10), <<Spends(Id(2), 0), Spends(Id(7), 0)>>),
                     Tx(Id(10), <<Spends(Id(7), 0)>>),
                     Padded(Tx(Id(10), <<Spends(Id(7), 0)>>)),
                     Broken(Tx(Id(10), <<>>))},
        a \in Two, b \in Two}

\* Every transaction of every block, with the branch of each.
AnyBranch ==
    UNION {{[currentTx |-> Tx(Id(10), <<Spends(MCChain[h][n], 0)>>),
             inputs |-> <<Input(Tx(MCChain[h][n], <<>>), Branch(MCChain[h], k), h)>>] :
                n, k \in 1..Len(MCChain[h])} : h \in DOMAIN MCChain}

NoInput == {[currentTx |-> Tx(Id(10), <<>>), inputs |-> <<>>]}

\* The ids of up to five characters, with whole surrogate pairs.
Characters == {<<"a">>, <<"w">>, <<"hi", "lo">>}
CallIds ==
    UNION {{FlattenSeq(s) : s \in [1..n -> Characters]} : n \in 0..5}

\* One of them is the merchant's own.
MCOwnCallId == <<"a", "w">>

Good ==
    [currentTx |-> Tx(Id(10), <<Spends(Id(2), 0)>>),
     inputs |-> <<Input(Tx(Id(2), <<>>), Branch(MCChain[1], 2), 1)>>]

MCSession ==
    {[callId |-> <<"a">>, keyed |-> TRUE, data |-> d] :
        d \in OneInput \cup TwoInputs \cup AnyBranch \cup NoInput}
    \cup {[callId |-> callId, keyed |-> k, data |-> Good] : callId \in CallIds, k \in BOOLEAN}
=============================================================================
