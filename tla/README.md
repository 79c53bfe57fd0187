# Zixo-Connect in TLA+

Zixo-Connect lets a customer (the *client*) pay a *merchant* with an SPV
transaction: the merchant shows a QR code, the client scans it, both talk through
a *relay server* over WebSockets, and the merchant answers whether the
transaction is valid. This directory models the three programs of the repository
in TLA+, checks them with TLC on small instances, and proves the central safety
properties with TLAPS for instances of every size.

Everything is translated from the TypeScript sources (`server/src`,
`merchant/src`, `client/src`). `PROJECT.json` maps each definition to the lines
it stands for.

## 1. The system

| component | state | operations | talks to |
|---|---|---|---|
| Relay server, `server/src/app.service.ts` | `users`: application id -> WebSocket, in memory | accept, present id, remove id, forward, purge on close, start, stop | merchant and clients, by WebSocket |
| Status endpoint, `server/src/app.controller.ts` | none | `checkUserIsOnline` reads `users` | the relay's map |
| Merchant's connection, `merchant/src/web_socket` | `webSocket`, `reconnectInterval`, timers | connect, announce, reconnect with back-off, send, shut down | relay |
| Merchant's database, `merchant/src/json-db` | one JSON file | `create`, `findOne`, `update` (and uncalled `remove`, `findAll`, `findOneBySocketAddress`) | the file system |
| QR codes and message handlers, `merchant/src/api`, `merchant/src/web_socket` | none of their own between frames | `generateQRCode`, `handlePresentData`, `handlePresentSpvData`, `sendMessageToClient` | database, verification, connection |
| Transaction verification, `merchant/src/transaction` | none | ids, scripts, inputs | block service |
| Block service, `merchant/src/block` | none | Merkle roots and paths, from an HTTP API | the API |
| Encryption, `*/src/encryption` | none | RSA-OAEP of texts cut into chunks of 180 units | handlers |
| Client application, `client/src/app.service.ts` | `merchantsModel` | `scanLink`, `sendSpvData`, replies | client's connections |
| Client's connections, `client/src/web_socket` | `webSockets`: address -> instance, timers | create, reconnect, send | relay |
| Configuration, start-up, swagger, DTOs | constant | getters | all |

### What is hard

* **No handler of the merchant is atomic.** The `message` handler is `async`;
  nothing queues its calls. Handlers and QR requests overlap at every `await`, and
  every database call is a read of the whole file, then a truncation, then a write.
* **Sockets outlive their variables.** `this.webSocket` (merchant) and the
  `webSockets` entry (client) are replaced while the old socket's handlers stay
  attached; these act on the *new* socket or entry.
* **Ids move.** An application that reconnects registers before the relay has
  handled the close of its old socket, or after.
* **Retries multiply.** `error` and `close` both schedule a reconnection.
* **Failures are swallowed.** A failed read yields an empty database, a failed
  write reports success; a rejected promise ends the client.
* **Checks outlive their verdict.** The two Merkle verifications start with the
  verdict and finish later, one API request at a time, when nobody reads them.
* **Restarts.** The relay forgets everything; the merchant keeps its file, unless
  a build deletes the directory the file lies in.

`PROJECT.json` lists these hazards at their lines with the properties on each.

### What makes each component correct

* Relay: a registration always names a living socket; nobody but the holder's
  close, a Remove frame, or the end of the process takes an id offline; frames of
  one sender are forwarded in order and at most once.
* Merchant's connection: what replies go out on is announced; a reachable relay is
  reached again; giving up only past the limit.
* Database: ids are unique in the file and ascending; a user keeps the key its id
  was created with; calls that do not overlap are atomic.
* Merchant: a peer in the database has scanned the code it is stored with; verdicts
  do not cross codes; what an acknowledged client sends is not dropped.
* Merchant and relay together: a merchant that is connected at both ends is the one
  registered under its id, and it becomes so again after failures of either side.
* Verification: a success message is given exactly to data whose inputs spend what
  was sent; a branch leads to the root of a block just for its transactions, and a
  Merkle check is true only for those.
* Encryption: what is read is what was sent.
* Client: as long as it runs it has a connection, an attempt or a timer to every
  server it was connected to.

## 2. Modules

| module | models | abstract spec | runs from | proofs |
|---|---|---|---|---|
| `SocketServer` | the relay | `Relay` | `MCSocketServer` | `SocketServerProofs` |
| `MerchantLink` | the merchant's connection | | `MCMerchantLink` | `MerchantLinkProofs` |
| `JsonDb` | the database file | `UserStore` | `MCJsonDb`, and `MCMerchantService` | `JsonDbProofs` |
| `MerchantService` | QR codes and handlers; extends `JsonDb` | `JsonDb` itself | `MCMerchantService` | `MerchantServiceProofs` |
| `MerchantAtRelay` | merchant's connection and relay, composed of instances of `MerchantLink` and `SocketServer` | both of them | `MCMerchantAtRelay` | `MerchantAtRelayProofs` |
| `MerklePath` | `computeMerkleRoot`, and the tree of a block as its reference | | `MCSpvVerification` | `VerificationLemmas` |
| `Encryption` | chunks and bytes of an encrypted text, as operators | | `MCSpvVerification` | `VerificationLemmas` |
| `SpvVerification` | one client's session: presentation, SPV data, all checks; extends the two above | | `MCSpvVerification` | `SpvVerificationProofs` |
| `ClientApp` | client application and its connections | | `MCClientApp` | `ClientAppProofs` |

Each module also holds the operators its properties are tested with: a variant of
one of its definitions with a plausible bug ("Mutant: ..."). They are not used by
the specification.

**`SocketServer`.** `users` is the map, `conn` the `readyState` of every socket,
`inbox` the frames received whose `message` event is still to be emitted, `outbox`
what `ws.send` accepted. A handler runs to its end on Node's one thread and is one
action: `HandleMessage` with its four cases, `HandleClose`. `close` comes after the
last `message`, so a socket can be `closing` while its queued frames still register
ids. `Disconnect` keeps any prefix of the queue. `Destroy` is `onModuleDestroy`,
`Crash` the end of the process. An error event changes no state and has no action.

**`MerchantLink`.** `sock` is the sequence of all sockets created, `webSocket` the
index of the newest, which is the one `this.webSocket` points to. `HandshakeFail`
runs the `error` and the `close` handler in one go, as `ws` emits both in one turn;
an established connection may have an `error` first and its `close` later.
`TimerFire` respects what Node promises of timers: equal delays fire in order of
creation, and no timer before a shorter one that was created earlier. `cut` holds the
sockets whose far end is gone; nothing says when the merchant notices, as no side sends
pings. `Restart` is a new process: new fields, `onModuleInit`, no socket or timer left.
`Destroy` is `onModuleDestroy`, which the code has although nothing in the repository
calls it: no shutdown hooks are enabled and the application is never closed.

**`MerchantAtRelay`** puts the two together. The merchant's sockets are the relay's
connections, in the order of creation. `OnOpen` of the merchant transmits the Present
frame, `Destroy` the Remove frame, on the connection's queue at the relay; `Accept` is
the relay's half of the handshake, and the merchant's `open` comes after it.
`Disconnect` is the relay's view of a broken connection, which may lose any suffix of the
queue. The far ends that are gone, an environment variable in `MerchantLink`, are defined
here (`GivenUp`) from what the relay did. Either process may end at any time, and the
relay is reachable only while its process is up. The module has no types of its own: by
the two refinement theorems it keeps those of its parts.

**`JsonDb`.** A `Task` is one request in flight; `pc` says which file operation it
awaits. `fs.writeFile` is two steps, truncation and write, and `Written` says what
is left when two writes overlap: the later text overwrites the front of a longer
one, which is then no JSON. `Size` only has to order texts by length. A read that
finds no JSON, an empty or a missing file, or fails, is `[]`. A `Restart` drops what
is in flight and may lose the file.

**`MerchantService`** adds the handlers. Each is cut where it awaits: `Receive` up
to `findOne`, then `HandlePresentData` up to `update`, then `PresentDataUpdated`;
`VerifySpvData`, `RejectSpvData` and `FetchMerklePath` end a `PresentSpvData` frame.
Encryption is perfect: a frame can be read exactly with the key of the code it was
encrypted for. `Data` holds what each check would find, and `Verified` which checks
count: the Merkle checks return promises that nobody awaits. `FetchMerklePath`
always ends the handler: `getMerklePath` looks for `branches` on what `request.get`
returns, which is not the API's answer, and throws.

**`SpvVerification`** has what `MerchantService` leaves to `Data`, for one session and
without the database: its `Verified`, `CheckDataHasBranchesAndBlockheight` and
`VerifyTxIdsThrows` are what the fields `scripts`, `path` and `txids` there stand for.
A transaction is what the bsv library makes of its text (`IsTransaction`): its id, the
hash of the bytes that were sent, whether it parses, the output and key of each input,
the keys of its outputs. `VerifySpvData` is everything after the decryption that runs
in one turn, including the verdict; the two promises of the Merkle checks go on in
`HeaderArrives`, `HeaderFails` and `AnswerIsNoJson`, an answer each, in any order.
`Validate` is `validateSourceOfTransaction` from one input up to the next request.
Hashes are the pairs they are hashes of, so equal hashes are of equal things; an id is
the hash of one text, which `ChainAssumption` keeps apart from the hash of two nodes.
`library` stands for what happens outside the sources to a call of the block API. With
the compiler settings of `merchant/tsconfig.json`, which lack `esModuleInterop`, the
default import of `request` is undefined and every call throws (`unimported`): of the
three answers only `HeaderFails` is left. If the import worked, bsv 1.5.6, which
`package-lock.json` pins, would give the root of a header in its stored order (`stored`).
The third value, `display`, is the order the comparison would need; it makes
the model larger than the program, so that `TrueMeansIncluded` says what a true check
would be worth, and `NothingIsConfirmed` is about the other two. `callId`s are sequences of UTF-16 units, well-formed
because the client takes its id from its environment;
`Encryption` cuts them where the code does, counts their UTF-8 bytes, and turns the halves
of a pair that was cut into U+FFFD.

**`ClientApp`.** A scan is known by the number of the socket it opens, and so are
the key pair and iv made for it. `Opens` is `onopen` together with the code after
the `await` in `scanLink`, which presents id and keys on that socket. The handlers
call `HandleReconnect` with the server's address, so they act on whichever instance
is in `webSockets`. `Fails` ends the process: nobody handles the rejection.

## 3. Runs

Checked: every run below finishes; "violation" runs show where the code does
something else than the repository's README or comments say.

| run | bounds | shows |
|---|---|---|
| `SocketServer` | 2 sockets, 2 ids, 2 frames each | `NoDanglingRegistration`, `ForwardedInOrder`, `OnlyHolderCloseEvicts`, every step is one of `Relay`, and `StaleRegistrationPurged` |
| `MerchantLink` | 5 sockets, 2 network changes, limit 6 times the initial interval | `CurrentIsAnnounced`, `NeverSilentlyDisconnected`, `ReconnectsWhenReachable` |
| `MerchantAtRelay` | 3 sockets, 3 network changes, limit 4 | `CurrentIsRegistered`, `ReachableAgain` |
| `JsonDb_overlap` | 2 requests, 3 keys, 1 fault | `IdsIncreasing`, `StoredAsCreated` |
| `MerchantService_overlap` | 2 handlers, 2 keys, 3 frames, 1 fault, data with and without a path, one client with the shop's own id | `PeersScannedTheCode`, `RepliesWithinTheCode` |
| `MerchantService_lost` | 2 handlers, 2 clients | violates `AcknowledgedIsFound`: an acknowledged presentation is overwritten |
| `MerchantService_serial` | 1 handler at a time, 2 keys, 2 clients, 4 frames, no fault | `SerialCallsAreAtomic` (the database refines `UserStore`), `IssuedIdsUnique`, `AcknowledgedIsFound`: it takes an overlap or a failure to lose presentations or repeat an id |
| `SpvVerification` | chunks of 3 units and 4 bytes; callIds of up to 5 characters of 1 to 4 bytes, one of them the merchant's own; blocks of 1 to 7 transactions, one at height 0; up to 2 inputs, honest or with wrong branch, height, bytes, output or key; all settings; every `library` | `PresentedAsSent`, `TrueMeansIncluded`, `BranchProvesInclusion`, `NothingIsConfirmed`, `SuccessSpendsWhatWasSent`, `HonestDataSucceeds` |
| `SpvVerification_success` | the same | violates `SuccessMeansSpv`: promises count as true, so data with a branch that does not lead to the root of its block gets 'transaction is valid' |
| `ClientApp` | 4 sockets, 3 breaks, 1 SPV data | `NeverStranded`, `ServedOrConnecting`, `ReconnectsOrEnds` |
| `ClientApp_presented` | 3 sockets, 1 break | violates `ConnectedIsPresented`: a reconnection presents nothing |
| `ClientApp_replies` | 1 SPV data | violates `RepliesAreRead`: the two sides use different OAEP labels |

**Why the bounds are enough.** Two sockets and two ids suffice at the relay for what
goes wrong between two parties: an application and its reconnection, or a sender and its
receiver, with two frames each so that order can go wrong; that a third party adds
nothing is what the theorems show. The merchant's back-off passes its limit after three
doublings (1, 2, 4, 8 > 6), that is with the third timer's socket, and one failed attempt
uses two timers; the ratio of 30 in the code takes five doublings and changes nothing else.
Three sockets in the composition are a connection, its successor, and the successor's.
A chunk of 3 units and 4 bytes has the proportions that matter of 180 and 190: a chunk
of ASCII always fits, one of wider characters may not, and a pair may lie across the cut;
`{"callId":"` puts the callId at every offset by its own length. Blocks of one to seven
transactions have every shape of an odd level, and two inputs are needed for one input to
be checked in place of another. For the client the ratio is
1, so that one doubling passes the limit and four sockets suffice for the case where
the entry is deleted. Two requests are what it takes to interleave a read between
another's read and write, and three keys give an update a neighbour to lose. The
theorems below have no bounds.

Every run switches deadlock checking off because its histories are bounded (frames,
sockets, keys, faults), and because a process that has ended, or a client with
nothing to do, really stops.

**Symmetry** (tasks, keys) is used in runs of invariants and of step properties only,
never with liveness.

**Fairness.** Weak fairness of what Node's event loop does on its own: emit a queued
`message` and then `close`, end a connection attempt one way or the other, fire a
timer that is due. Nothing is assumed of
peers, the network, the block API, the user or the operator, nor that an established
connection whose far end is gone is ever noticed. In `MerchantLink`, `MerchantAtRelay` and
`ClientApp` the liveness properties carry their conditions in the formula: that the relay
stays reachable, that the limit is not passed, and that the bound on sockets is not
reached, for at the bound the model would stop where the code goes on.

**The proviso of the composition.** `overtaken` records that the merchant created a socket
while frames of an older one were still unhandled at the relay. `CurrentIsRegistered` and
`ReachableAgain` are stated without that case, because there they are false: see section 5.

## 4. Proofs

| theorem | module | what | needs |
|---|---|---|---|
| `TypeCorrect`, `RegistrationsLive`, `ServerInvariant` | `SocketServerProofs` | `[]ServerInv` | `ServerAssumption` |
| `SenderOrderKept` | | `[]ForwardedInOrder` | `ServerInvariant` |
| `OnlyHolderCloseEvictsHolds` | | the step property | `RegistrationsLive` |
| `RefinesRelay` | | `Spec => AbstractRelay!RelaySpec` | `ServerInvariant` |
| `LinkInvariant`, `LinkTyped`, `CurrentAlwaysAnnounced`, `NeverSilent` | `MerchantLinkProofs` | `[]LinkInv` | `LinkAssumption` |
| `CompositionInvariant`, `CurrentAlwaysRegistered` | `MerchantAtRelayProofs` | `[]CInv` | `CompositionAssumption` |
| `CompositionImplementsLink`, `CompositionImplementsServer` | | `Spec => Link!Spec`, `Spec => Server!Spec` | `CompositionInvariant` |
| `DbInvariant`, `DbTyped`, `IdsAlwaysIncreasing`, `UsersStoredAsCreated` | `JsonDbProofs` | `[]DbInv` | `DbAssumption` |
| `SerialCallsAlwaysAtomic` | | `Serial => (Spec => AtomicStore!StoreSpec)` | `DbInvariant`; at most one task and no faults |
| `SerialIdsUnique` | | `Serial => (Spec => []IssuedIdsUnique)` | `DbInvariant`, `SerialStep` |
| `MerchantUsesDb` | `MerchantServiceProofs` | `MSpec => Spec` of `JsonDb` | |
| `MerchantInvariant`, `MerchantTyped`, `PeersHaveScanned`, `VerdictsWithinTheCode` | | `[]MerchantInv` | `DbInvariant`'s step, `MerchantAssumption` |
| `SerialAcknowledgedIsFound` | | `Serial => (MSpec => []AcknowledgedIsFound)` | `MerchantInvariant`, `SerialStep` |
| `ClientInvariant`, `ClientTyped`, `AlwaysServedOrConnecting`, `ClientNeverStranded` | `ClientAppProofs` | `[]ClientInv` | `ClientAssumption` |
| `SuccessAlwaysSpendsSent` | `SpvVerificationProofs` | `[]SuccessSpendsWhatWasSent` | `SpvAssumption` |
| `SpvInvariant`, `SpvTyped`, `PresentedAlwaysAsSent`, `TrueAlwaysMeansIncluded`, `HonestDataAlwaysSucceeds` | | `[]SpvInv` | also `ChainAssumption`, `EncryptionAssumption`, `VerificationLemmas` |
| `BranchAlwaysProvesInclusion` | | `[]BranchProvesInclusion` | `SpvInvariant`, `BranchLeadsToRoot`, `OnlyFromTheBlock` |
| `NothingIsEverConfirmed` | | `[]NothingIsConfirmed` | `SpvInvariant`, `RootIsNoTriple` |

Each is for every number of sockets, ids, frames, requests, faults, restarts and servers,
every back-off limit, all data, chunks of any size, texts and branches of any length, and
any chain of blocks.

*Server.* `NoDanglingRegistration` is inductive with the types: an id is only given to
a socket that is attached, and the close handler purges it in the same step. The order
of forwarding is not: a frame that is forwarded is newer than all the earlier ones only
because queues are numbered in order (`QueuesNumbered`) and nothing was forwarded that
was not sent (`ForwardedWasSent`). With these, forwarding a frame is `Relay!Pass`, whose
guard `Fresh` is the order; the close handler is `Leave`, the end of the process `Reset`,
and what happens in the queues is a stutter.

*Merchant's connection.* `NeverSilentlyDisconnected` holds because the last socket to
close schedules a timer unless the limit is passed, and a timer that is used up leaves a
connecting socket. `CurrentIsAnnounced` holds although another socket's open handler may
announce: the current socket's own open handler has, and only `Destroy` withdraws it,
closing it in the same step.

*Merchant at the relay.* `CurrentIsRegistered` is about a queue that is empty; before
that, the registration is under way (`RegistrationUnderway`). It cannot be disturbed by
older connections because none of them has frames left (`QueuedOnCurrent`), and their
`close` only purges entries of their own; a Remove frame is sent only by `Destroy`, which
closes the current socket in the same step. Both refinements follow action by action: a
step of one half is a stutter of the other. For `Link!Spec` the mapped variable `cut` is
`GivenUp`, so one must show that the relay's steps are `Cut`s and that an attempt whose
far end is gone stays gone; for `Server!Spec`, that no connection reaches `MaxSent`, as
each socket announces at most once per opening.

*Database.* What a task is about to write comes from an array read before, so the
invariant is about every array in flight as well as the file. An update carries a whole
user; that it brings nothing new into the file needs `HeldAsCreated`: the user a handler
holds has the id and key that `create` issued together.

`SerialCallsAlwaysAtomic` is about the instance with one task. There `SerialInv` says how
the file and the task's array are related at each of its awaits: what `findOne` returned
is still in the file, what is to be written is one step of the store from it, and a
truncated file has size 0, so that the write leaves nothing of an older text. The step of
the store is `TruncateFile`; all others are stutters. That the new id is `Len + 1`, which
the store asks for, is `Numbered`: without overlaps ids count the users. `SerialIdsUnique` speaks of all ids
ever handed out: none is beyond the length of `Latest`, the array in the file or, from
the read on, the one about to be written (`IssuedInv`), so the next one is new.

*Merchant.* Every step of the merchant is a database step or leaves it alone, so `DbInv`
is carried over. A peer is stored only by a sender whose code has the user's id *and*
key; `HandlersHold` keeps the frame, the user and the id together across the awaits.

`SerialAcknowledgedIsFound` is the other side of `MerchantService_lost`: the hypothesis
`Serial`, one task and no faults, is what the code would have to enforce to keep what it
acknowledges. A presentation is recorded in `Latest` before it is acknowledged, stays
there (`RecordedKept`), and is what `findOne` finds, since ids are unique (`Numbered`).

*Verification.* The transaction an input spends is found by the hash of its bytes, and
the property speaks of parsed ids: `VerifiedSpendsSent` joins the two by what
`VerifyTxIds` compared. `SuccessInv` adds that no verdict precedes the data, so that
the handler's replies are the only ones. `SpvInv` adds three things. `SentInv` says what
the frame on its way is, and that only a client with a key is known: the SPV data of a
known client is therefore never dropped (`SentIsReadable`), which honest data needs.
`CheckedInv` says which inputs a pending check has been through, and makes
`TrueMeansIncluded` inductive; `NothingIsConfirmed` is inductive given the types, since
no branch leads to the reverse of a root (`RootIsNoTriple`: hashes are pairs). `PresentedAsSent` and `HonestDataSucceeds` are inductive
with these.

The rest are facts about the operators, in `VerificationLemmas`:

* `OnlyFromTheBlock`: whoever reaches a node of a tree, on any level, after any number of
  steps of any branch, started from an id of the block. The last step made a pair, so the
  node is not a leaf and what was hashed is one of its two children; go down by one.
* `BranchLeadsToRoot`: after *h* steps of the branch of a transaction one is at its
  position on level *h* + 1, also where an odd level repeats its last node.
* `ReadAsSent`: the chunks lie end to end (`ChunkEnds`), each is its own UTF-8 text if no
  cut goes through a pair (`ChunkUnchanged`), and joining the first *k* gives the text up
  to the end of the *k*-th. `AsciiEncrypts`: a chunk of ASCII has as many bytes as units.

These are inductions: over the levels of a tree, the steps of a branch, the chunks of a
text. The induction theorems of the proof library take an operator as a parameter, which
the provers cannot instantiate; `Induction` states the principle for a set of numbers
instead, which they can, and derives it from the cardinality of finite sets: if a set
closed under successors missed a number *m*, adding one would map those of its elements
that are at most *m*, finitely many, one to one to those among them that are not 0.
It also gives that the recursive functions exist
(`HashingExists`, `TreeExists`, `PathExists`, `JoiningExists`), which for a function over
an interval has to be proved before its recursion can be used.

*Client.* `ServedOrConnecting` says why the client is never stranded: the instance in the
map is alive or has a timer and is within the limit, unless another attempt is connecting.
It needs `ConnectingUntouched` -- a socket in its handshake has no timer and the first
interval -- so that a socket that opens and takes over the map entry is within the limit.

**Assumptions.** Each constant's assumptions are checked by TLC on the instances. Those of
`SpvVerification` say that a session's data is what the handler rebuilds it to, that equal
hashes of bytes belong to equal transactions, that the client's id is well-formed UTF-16,
that every block has a transaction and the one at height 0 no other, and that an id is no
hash of two nodes.

**Only model-checked:** liveness (`StaleRegistrationPurged`, `ReconnectsWhenReachable`,
`ReachableAgain`, `ReconnectsOrEnds`), which needs `ENABLED`. Every other property of a
passing run is a theorem.

## 5. Where the code and its documentation differ

The violation runs, with the quoted lines, are the `findings` of `PROJECT.json`: lost
presentations, Merkle checks that do not count, a
client that reconnects without presenting itself, and replies that cannot be decrypted.

The modules state more expectations that the models refute. No run is kept for
them; put one in the place of the properties of the configuration named here to see it:

| statement | configuration | what happens |
|---|---|---|
| `BackoffGrows` (comment "Exponential backoff", `web_socket.service.ts`) | `MerchantLink` with `Spec` | `error` and `close` of one failed attempt schedule two reconnections after the same delay |
| `ConnectedIsAnnounced` (README, "announced to the socket server during setup") | `MerchantLink` with `Spec` | an old attempt opens after the newest one failed past the limit, and announces on a closed socket |
| `IssuedIdsUnique` (README, "knows me through it") | `JsonDb_overlap` | two QR codes requested at once get one id; one after the other they do not (`SerialIdsUnique`) |
| `AnswerGoesToSender` (README, "back to the client") | `MerchantService_lost`, one task | two customers of one code: the verdict goes to whoever presented last |
| `RequiredPathIsRequired` (README, setting `REQUIRED_MERKLE_PATH_FROM_CLIENT`) | `SpvVerification` | after 'transaction is invalid' the handler does not return, and 'transaction is valid' may follow |
| `HonestBranchesPass` (an honest branch is not refused when the header arrives) | `SpvVerification` | with `library = "stored"`, as bsv 1.5.6 has it, the root of the header is the reverse of what `computeMerkleRoot` returns, and every honest branch is refused |
| `CurrentIsRegistered` without `~overtaken` | `MerchantAtRelay` | the merchant restarts while its old connection's Present frame is queued at the relay; handled after the new one, it gives the id to the old socket |
| `SpvAfterPresentation` (README, "At this stage") | `ClientApp` | data sent during a second scan goes out ahead of the new key |

Seen while modelling, outside what a property of one of the modules says:

* The README and `.env` name the setting `REQUIRED_MERKLE_PATH_FROM_CLIENT`; the code
  reads `REQUIRE_MERKLE_PATH_FROM_CLIENT`, so the documented name has no effect.
* The README's `Input` has no `blockheight`; data in that form counts as data without
  a path, whose handler ends in `FetchMerklePath` or answers 'invalid'.
* A transaction alone in its block has an empty branch, which counts as missing: the
  exception in `HonestDataSucceeds`.
* `FETCH_MERKLE_ROOT_IF_NOT_EXISTS` set to 1 makes a Merkle check true for any branch:
  the computed root is only asked to be non-empty. `TrueMeansIncluded` excludes the
  setting, and `ACCEPT_UNCONFIRMED_UTXOS`, for this reason.
* No Merkle check that needs a header can come out true, for two reasons, either of which
  suffices. `import request from 'request'` (`block.service.ts`, line 4) compiles to
  `request_1.default`, which is undefined without `esModuleInterop`: `request.get` throws,
  in `getBlockByHeader` inside the promise, which is thereby rejected, and in the fetch of
  a path inside the `try`. And `computeMerkleRoot` returns the bytes of a root reversed,
  for display, while the header's root is taken as it is stored. That clients get their
  'transaction is valid' nevertheless is because nobody waits for the checks. Both follow
  from the versions and settings the repository names, not from its sources alone.
* `handlePresentSpvData` does not compare the sums of inputs and outputs, nor whether two
  inputs name one output.

## 6. Not modelled, and why

* `README.md` step 6, sending the transaction to the BSV network: no code does it.
* `remove`, `findAll`, `findOneBySocketAddress` of the database: no caller.
* `onModuleDestroy` of the client: the application enables no shutdown hooks and never
  closes its context. A new client process is a new `Init`.
* `onModuleDestroy` of the relay and of the merchant is modelled in `SocketServer` and
  `MerchantLink` although nothing calls it; the composition leaves the relay's out.
* `getBlockProofByTxId` and `getBlockByHeight`, which nothing reaches, and the appending of
  fetched branches to those of the client, which the fetch before it never lets happen.
* Requests of the block API that are never answered: the check stays pending.
* The build that would make `request` work: `HeaderArrives` and `AnswerIsNoJson`
  are there for it, and are taken with the two other values of `library` only.
* Several SPV frames at once in `SpvVerification`: handlers share the user, which is in
  `MerchantService`, and the process, which `AnswerIsNoJson` ends for all of them.
* RSA, SHA-256, the script interpreter, transaction parsing, QR images, compression,
  ngrok, swagger: libraries and I/O.
* Frames of other protocols or forged ones: peers follow the client's and merchant's
  code, except for malformed frames at the relay.

## 7. Plan

Order of work, with what is done marked:

1. [done] `SocketServer` with `Relay`, proofs with refinement.
2. [done] `MerchantLink`, proofs.
3. [done] `JsonDb` with `UserStore`, proofs with refinement.
4. [done] `MerchantService` on `JsonDb`, proofs.
5. [done] `ClientApp`, proofs.
6. [done] `Encryption`, `MerklePath` and `SpvVerification`, proofs, with induction over
   chunks, branches and trees.
7. [done] `MerchantAtRelay`: merchant and relay over the sockets they share, with
   restarts of both, and the proof that it implements both parts.
8. Client, relay and merchant together: the client's registration and the way of a
   verdict back to it, over reconnections of the client.
9. [done] The database with one request at a time implements `UserStore`, as a theorem.
10. Theorems about the parts of liveness that are safety: that the step each fairness
    condition is about is possible when the property needs it.
