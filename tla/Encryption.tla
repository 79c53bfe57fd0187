----------------------------- MODULE Encryption -----------------------------
(***************************************************************************)
(* How a text travels from the client to the merchant: the client splits   *)
(* it into chunks of ChunkSize UTF-16 units and encrypts the UTF-8 bytes   *)
(* of each (client/src/encryption), the merchant decrypts and joins them   *)
(* (merchant/src/encryption).                                              *)
(*                                                                         *)
(* A text is a sequence of units: "a" stands for any ASCII character, "w"  *)
(* for one of a single unit and three bytes, "hi" and "lo" for the halves  *)
(* of a surrogate pair, "?" for U+FFFD.                                    *)
(***************************************************************************)
EXTENDS Naturals, Sequences, FiniteSets, SequencesExt

CONSTANTS
    ChunkSize,      \* units per chunk: 180 in the code
    MaxBytes        \* what one encryption takes: 190 bytes for RSA 2048, OAEP, sha256

ASSUME EncryptionAssumption ==
    ChunkSize \in Nat \ {0} /\ MaxBytes \in Nat /\ ChunkSize <= MaxBytes

Unit == {"a", "w", "hi", "lo", "?"}

\* Mutant: the end of a chunk counts from one.
SplitLosingLast(text) ==
    [n \in 1..((Len(text) + ChunkSize - 1) \div ChunkSize) |->
        SubSeq(text, (n - 1) * ChunkSize + 1,
               IF n * ChunkSize <= Len(text) THEN n * ChunkSize - 1 ELSE Len(text))]

SplitStringIntoChunks(text) ==
    [n \in 1..((Len(text) + ChunkSize - 1) \div ChunkSize) |->
        SubSeq(text, (n - 1) * ChunkSize + 1,
               IF n * ChunkSize <= Len(text) THEN n * ChunkSize ELSE Len(text))]

Lone(text, n) ==
    \/ text[n] = "hi" /\ ~(n < Len(text) /\ text[n + 1] = "lo")
    \/ text[n] = "lo" /\ ~(n > 1 /\ text[n - 1] = "hi")

\* Buffer.from(text): a lone half of a pair becomes U+FFFD.
Utf8(text) == [n \in DOMAIN text |-> IF Lone(text, n) THEN "?" ELSE text[n]]

\* Every unit is a byte, and one more in half a pair, two more when it is wide.
ByteLength(text) ==
    LET units(kind) == {n \in DOMAIN text : Utf8(text)[n] \in kind}
    IN  Len(text) + Cardinality(units({"hi", "lo"})) + 2 * Cardinality(units({"w", "?"}))

\* publicEncrypt throws for a chunk that is too long.
Encrypts(text) == \A n \in DOMAIN SplitStringIntoChunks(text) :
                      ByteLength(SplitStringIntoChunks(text)[n]) <= MaxBytes

\* What the client sends; [''] without a key and iv, or for the empty text.
EncryptMyMessages(text, keyed) ==
    IF keyed /\ text # <<>>
    THEN [n \in DOMAIN SplitStringIntoChunks(text) |-> Utf8(SplitStringIntoChunks(text)[n])]
    ELSE << <<>> >>

\* What the merchant reads; '' when a part cannot be decrypted.
DecryptMyMessages(messages) ==
    IF \A n \in DOMAIN messages : messages[n] # <<>> THEN FlattenSeq(messages) ELSE <<>>
=============================================================================
