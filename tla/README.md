# True Mark: a verification project

True Mark lets a manufacturer register products on the Aptos blockchain and
print signed QR labels for them, and lets a customer check a product by its
label or by its number. The repository also carries a partial copy of the Aptos
node. This directory holds TLA+ models of True Mark's own code and of the parts
of that node named below, the TLC configurations that check them on small
instances, and proofs, checked by TLAPS, that hold for every value of the
constants. Paths below are relative to `src/`.

## The system

| Part | Source | State | Operations |
|---|---|---|---|
| Product registry contract | `blockchain/contracts/sources/product_registry.move` | one `ProductRegistry` resource per account, a vector of products | `init_registry`, `register_product`, the view `verify_product` |
| Deployment script | `blockchain/scripts/deploy.ts` | the key file, the account on the chain | `main`, step by step |
| Customer app: connection monitor | `frontend/user-app/src/App.tsx:62-97` | `retryCount`, requests in flight, retry timers, the interval | `checkBlockchainConnection` and two effects |
| Customer app: verification | `App.tsx:57-61, 99-225` | `productId`, `result`, `error`, `showScanner`, calls under way, scanner instances | `handleVerify`, `handleScanQR`, the scanner's effect and callback |
| QR labels | `App.tsx:227-265`, `frontend/dashboard/src/pages/ProductRegistry.tsx:200-226` | the labels in circulation, two secrets, two clocks | `generateQRCode` (signing), `verifyQRCode` |
| Dashboard: registry page | `ProductRegistry.tsx` | `products`, `open`, `newProduct`, `loading`, `error`, `selectedProduct`, `qrCodeUrl`, calls under way | `handleOpen`, `handleClose`, `handleAddProduct`, `generateQRCode`, the dialogs |
| Aptos: validator transaction pool | `aptos-core/crates/validator-transaction-pool/src/lib.rs` | queue, topic map, live guards | `put`, `pull`, dropping a guard |
| Aptos: DKG transcripts | `aptos-core/crates/reliable-broadcast/src/lib.rs`, `aptos-core/dkg/src/transcript_aggregation/mod.rs` | requests, tasks, results, the aggregate | `multicast`, `add` |
| Aptos: DKG managers | `aptos-core/dkg/src/` (`epoch_manager.rs`, `dkg_manager/mod.rs`, `agg_trx_producer.rs`) | epoch, session, channels, producer, pool topic | notifications, epoch change, restart |
| Aptos: channel | `aptos-core/crates/channel/src/` | a bounded queue per key, the line of keys, waker, handles | `push`, `poll_next`, clone and drop |
| Aptos: mempool | `aptos-core/mempool/src/core_mempool/`, handlers of `shared_mempool/tasks.rs` | the transaction store and its indexes | insert, commit, reject, both garbage collections, `get_batch`, `read_timeline` |
| Configuration | `frontend/user-app/src/config.ts` | none | three validators |
| Other dashboard pages, shell, `services/api.ts` | `frontend/dashboard/src/` | none that matters | layout, sample data, an unused client |
| The rest of `aptos-core/` | third-party | | not modelled |

How the parts meet. `deploy.ts` publishes the contract under a key it keeps on
disk. The dashboard signs a label for a row of its table; the app's scanner
reads it, `verifyQRCode` checks it offline, and the callback then calls
`handleVerify`, which asks `checkBlockchainConnection` whether the node answers
and then calls a view on the chain. The app and the dashboard name views
`product::get_product` and `product::get_product_count`, which the contract in
the repository does not have (it is `registry::verify_product`), so the models
take those two views as external and the contract is checked on its own.

In the node, the epoch manager starts a DKG manager in every epoch; for a
session that manager deals, collects its peers' transcripts by a reliable
broadcast, and puts the aggregate into the validator transaction pool, from
which consensus pulls. The tasks talk through the per-key channel. The mempool
holds users' transactions for consensus and for the broadcast to peers.

What is hard about it: closures that keep the state of an earlier render;
retries that nothing cancels; several calls of one asynchronous function under
way at once, sharing flags and fields; a scanner that can call back after it
was closed; two machines with clocks and secrets of their own; a script that
may stop between any two steps and is run again; notification channels between
which nothing keeps the order; guards dropped by any thread; a receiver that
sleeps until it is woken; and a store with six indexes that each operation
must keep in step. `PROJECT.json` lists these hazards at the lines where they
bite.

## Modules

Contract and deployment:

- `Products`: the Move struct `Product` and `Verdict(v, id)`, the reference
  for what `verify_product` answers on a vector.
- `Registry` (extends `Products`): the contract. `published` is the set of
  accounts that hold the resource, `products[a]` the vector under `a`, `now`
  the chain's clock, `receipt` the last transaction's sender, identifier and
  outcome. Each entry function is an action and each way it aborts
  (`move_to` on an existing resource, `borrow_global_mut` on a missing one) is
  another. `vector::` is used in the source without an import; it is read as
  `std::vector`. `E_PRODUCT_EXISTS` (line 9) is declared and never raised, so
  an identifier can be registered twice, in the code and in the model.
- `AuthenticityLedger`: what the contract promises, a set of vouched-for
  identifiers per manufacturer that grows one at a time and never shrinks.
  `Registry` implements it with `authentic` mapped to the identifiers that
  `verify_product` confirms.
- `VerifyProduct` (extends `Products`): the loop of `verify_product`, one step
  per iteration, on an arbitrary vector, marked and unmarked products included.
- `Deployment` (extends `Registry`): `deploy.ts` run again and again beside the
  contract and its users. `key` is the key file, which a crash between open and
  write leaves empty; `pc` is where the run is; a crash may end it anywhere and
  any request may fail. `FaucetClient` (line 36) is used without being
  imported: `FaucetDefined` says which of both cases are explored, and the run
  explores both.

Front ends:

- `ConnectionMonitor`: `checkBlockchainConnection` with what each copy of it
  captured. Requests, retry timers and an open scanner are counted under the
  `retryCount` of the render they come from. `retryCount` is the state with
  queued updates applied and `rendered` the value of the last render, so a
  render may lag behind. `Render` models both effects together: a new check,
  and a fresh interval in place of the old one. Time advances only when no
  timer is due and no render is queued. Mounting starts one check, or two under
  the `StrictMode` of a development build.
- `ProductVerification`: `handleVerify` cut at its awaits. Code between two
  awaits runs undisturbed and React applies its updates together, so it is one
  step. `pending` holds the calls under way with the serial each captured;
  `scanners` the instances that may still call back, with the `productId` that
  their callback holds. Messages are kept by what they are about. Three facts
  about text (what `trim` empties, what cleaning leaves, which results are
  digits) are parameters.
- `QRCodeExchange`: labels, signed by the dashboard with its secret and clock
  and checked by the app with its own. HMAC-SHA256 is external and taken as
  injective in data and secret. `complete` stands for the required-fields test.
  A label in circulation may change its data, lose a field or get it back.
- `RegistryPage`: the dashboard page. A row is its id and what was typed;
  a form is incomplete (the button is disabled), invalid (`validateProduct`
  refuses it) or a valid draft. `handleAddProduct` reads `config` and `client`,
  which the file neither declares nor imports. The variable `globals`, fixed by
  `Init`, has the page both ways: as shipped, where an addition ends on the
  undeclared identifier before it calls the chain, and inside a host page that
  defines the two.

Aptos node:

- `VTxnPool`: the pool. Every operation holds the pool's lock and is one step.
  `seq_nums_by_topic` and `txn_queue` are the two maps, `guards[i]` counts the
  live guards of transaction `i` (`TxnGuard` derives `Clone`), `pulled`
  remembers the pull that has just run and what the queue was.
- `TranscriptBroadcast`: `multicast` with the DKG aggregator as its status. A
  request is answered well, badly in one of several ways, or not at all;
  answers become tasks of a bounded executor, which run `add` in any order;
  failures are retried. A transcript is its sender, the dealers it names and
  whether it verifies. `add` compares the author that the message states with
  the sender (`transcript_aggregation/mod.rs:84-87`), and `verify_transcript`
  requires the dealers to be validators; that the sender is one of them is
  required by neither, and the tests of the aggregator add one transcript under
  several authors. So `Answer` has verified transcripts of any dealers, the
  aggregate is a set of parts, each with its sender and its dealers, and what is
  said about a quorum of dealers has "each transcript names its sender" as its
  hypothesis. There is at least one validator, the sender of the requests.
- `DKGNode`: epoch manager, DKG manager, producer and pool topic, with the
  chain outside. Events and reconfigurations arrive through two channels with
  no order between them; the node may crash and restart. Two consequences of
  the code show in the model. A start event taken before the reconfiguration of
  its epoch goes to the old manager, which ignores it, and the session is missed
  unless the node restarts. Without a consensus key no manager is spawned
  though its close channel was made, and the `unwrap` at `epoch_manager.rs:269`
  panics at the next epoch (`"panicked"`).
- `AptosChannel`: `PerKeyQueue` in its three styles inside the channel's
  handles. A message is the number of its push; `status` says what became of
  it. Two variables are history: `passed[k]` are the keys served since `k` lined
  up, and `due[m]` the number of pops within which message `m` is to leave, set
  when it is pushed and counted down by each pop. A dropped receiver
  leaves queued messages and their status channels in place until the last
  sender goes; `"dropped"` is a message that a full queue gave up, `"destroyed"`
  one that went with the channel.
- `Mempool`: the store is a record and each function of the source that changes
  it an operator from stores to stores; the handlers are the actions. A
  committed hash is taken as injective, the ranking score is the gas price, and
  there is one sender bucket. Of the parking lot the store has the set of its
  entries. The estimated, the raw and the signed size of a transaction are one
  number, `Bytes[body]`. Where the source calls `index_remove` in a loop, the operator takes
  the set of all the transactions the loop removes. The loop that evicts parked
  transactions is a recursive function of the number of its rounds, and a round
  (`Evict`) may pop any account's last entry.
- `MempoolQueries` (extends `Mempool`): `get_batch` and `read_timeline`, which
  change nothing, as operators on a store. The iterator of the priority queue
  puts each key at its rank (`Rank`, the number of keys that `Outranks` it).
  Each loop of the source is a recursive function whose step is one turn:
  `Visit` for the walk of `get_batch` over the queue, with the inner loop that
  takes up what was skipped as one run of numbers (`Unblocked`), and `ReadBucket`
  for the reading of a fee bucket. A loop that stops at a limit is the prefix
  that fits (`get_batch`, `Fitting`).
- `ParkingLot`: `ParkingLotIndex` as the source has it, a vector of accounts
  with their entries, a map from accounts to places in the vector and a size.
  `contents` is history, what was inserted and not removed since. That vector
  and map always hold exactly it is what allows `Mempool` to see a set.

Facts of the mempool code that the model has and that a reader may not expect:
a commit for an account without transactions leaves an entry in
`sequence_numbers` that nothing removes (`transaction_store.rs:55` speaks of
"accounts with transactions"); a rejection leaves the successors in the
priority queue over a gap, where the comment at `transaction_store.rs:479-483`
would have them parked (lines 531-532 park only what is not ready), and
`get_batch` still draws in sequence; a stale
sequence number from storage can lower the one the store has; a gas upgrade
removes the old version before the capacity checks, and may lose both; a
`NonQualified` transaction can be in the priority queue and in the parking lot
at once after a rejection. The `unreachable!` of `check_txn_ready` is not
reached.

`MC...` are the instances for TLC, `...Proofs` the theorems. `MCDKG` puts the
pool, the broadcast and the node into one run: in a behaviour one of them runs,
and the other two rest in a state in which they have stopped. The properties of
each are the ones its own module states. `MCMempool` does the same with the
mempool and the parking lot. `Sums` is about sums over finite sets, for the
proofs.

Operators whose names extend that of a definition with a suffix (such as
`ChainVerdict_current_field`) are not part of any specification. Each is a
plausible mistake in that piece of code, kept to show that a property notices
it; `PROJECT.json` pairs them.

## Runs

State counts are distinct states.

| Run | States | What it shows |
|---|---|---|
| `contract` | 91,068 | with the developer deploying again and again, through crashes and failing requests, while accounts publish, register and misuse the contract: only the owner's registration changes a verdict, the contract implements the ledger, every account the script has touched is in the key file, no rerun takes a product away |
| `verify_loop` | 1,984 | the loop ends and returns `Verdict` |
| `connection` | 61,455 | the node is checked at least once a period however often the interval is replaced; after an outage the count returns to 0 and the stale retries die out |
| `verification` | 128,800 | a chain verdict names its own product, the page is never left without verdict or message, at most one scanner is open and only while it is shown, every verification ends |
| `qr_exchange` | 211,632 | the app accepts exactly what was issued, inside the window; verdicts on a label move one way |
| `registry_page` | 247,359 | as shipped and with `config` and `client` defined: the QR dialog shows its own product's code, the loading flag never sticks, no row is lost |
| `dkg` | 104,553 | pool: the two maps agree whatever thread drops which guard, a transaction leaves by its own guard or by a later put, a pull fills its quota. Broadcast: what it returns has one transcript per sender, from senders with a quorum, and misses nobody that was told it was counted; nobody is forgotten or asked twice at once, it returns. Node: the pool holds no result of another epoch, producers have an owner, sessions move forward, the node reaches the chain's epoch and resumes a session after a restart |
| `channel` | 149,606 | the line of keys is exactly the keys with messages, no wake-up is lost, keys are served in turn, no message is lost or duplicated, each style keeps its order, with FIFO and KLAST a message leaves within the pops promised when it was pushed |
| `mempool` | 33,427 | all indexes describe the same transactions, what follows its account's number is queued and not parked, the parking lot keeps the invariants `index.rs:416` states, consensus draws in sequence and by priority and leaves nothing that could follow, a broadcasting peer is sent exactly what its cursor passes |

Three runs end in a counterexample, each to a statement made in the repository:

| Run | Statement | What the code does |
|---|---|---|
| `connection_retries` | `maxRetries = 3` (`App.tsx:63`) | stale copies compare the count they captured, so `retryCount` reaches 4 in one outage |
| `scan_verifies` | "Then verify on blockchain for complete check" (`App.tsx:131`) | the callback verifies the `productId` from before the scan |
| `scan_offline` | "Show immediate offline verification result" (`App.tsx:122`) | erased in the same update when the old field held a number |

### Bounds, and why they are enough

- `contract`: the developer's account and another's, two identifiers (equal and
  different), three products per registry (a repeat and another between), a
  clock of two instants, `FaucetClient` defined or not. Runs of the script are
  unbounded in number.
- `verify_loop`: every vector of up to four products over two identifiers and
  both flags: empty, hit first, hit last, repeated, absent.
- `connection`: `maxRetries` 2, delay 1, period 3, `MaxRetryCount` 3 (one past
  the limit, where stale copies lead), three requests and timers at once.
  `MaxRetryCount` and `MaxOutstanding` hold back failures, checks by the user
  and the interval; they are the model's, not the code's.
  `connection_retries` uses the app's own proportions, 3 retries, 5 s and 30 s.
- `verification`: two verifications, enough to overlap in every order, and two
  scanner instances, one of which is closing. The field holds nothing, a word,
  a number, one with a leading zero, or one in braces; the chain has an
  authentic, a counterfeit and an absent product.
- `qr_exchange`: two products, two secrets, skews 0 and 1 on either side, age
  limit 2 and time to 5, so that labels are early, valid at both ends, and
  expired.
- `registry_page`: two calls of each kind, four rows, one draft.
- `dkg`: two topics, transactions of one and two bytes, three puts (a
  replacement and another topic), two guards of one transaction, pulls of up to
  two items and three bytes. Validators with powers 1, 3 and 1, of which the two
  with a quorum answer in the end, two permits, so that tasks wait, and two
  failures each; a transcript names the node itself, the validator with power 3,
  or all of them. Three epochs and one restart.
- `channel`: three keys, which are interchangeable (symmetry), queues of two,
  five messages, so that a queue overflows and is refilled while two other keys
  are in line, two senders, collection at every second pop.
- `mempool`: two accounts, six possible arrivals (a gas upgrade, a gap, a
  peer's transaction, one that expires), room for three transactions, four
  bytes (so that a gas upgrade can lose both versions) and two per account, two fee buckets, sequence numbers and clock to 1,
  two identifiers per timeline. In each state every set of queued versions may
  be in progress in consensus, a pull is cut short by one transaction, by two
  bytes or not at all, and a peer has any cursor. The parking lot has three
  accounts and six entries, so that the last account of the vector is moved into
  a gap, is itself the one that leaves, and has several entries; one sequence
  number comes in two versions.

Deadlock is checked in all runs but three: the loop of `verify_loop` really
ends, the parts of `dkg` come to rest when their bounds are used up or the
broadcast has returned, and a `channel` whose handles are gone is gone.

### Fairness

- `VerifyProduct`: the loop runs on.
- `ConnectionMonitor`: every request is answered or fails, React renders a
  queued update, the interval, timers and clock run. Nothing is assumed of the
  user or of the network; `RecoversFromOutage` has "the node stays reachable"
  as its hypothesis.
- `ProductVerification`: every awaited call returns or throws. The code sets no
  timeout of its own, so this rests on the HTTP client's and the browser's.
- `TranscriptBroadcast`: a request is answered or fails (each has a timeout),
  strongly fair because it also waits for a permit, which the executor gives out
  in turn; spawned tasks run and the loop takes each result. `Returns` has as
  its hypothesis that validators with a quorum answer well in the end.
- `DKGNode`: each arm of the two `select!` loops that stays ready is taken,
  since `select!` picks among ready arms at random; a producer ends, by
  `Returns`. The chain owes nothing.
- The other specifications state safety only.

## Proofs

All theorems hold for arbitrary constants under the named assumptions of the
module that declares them: bounds and limits are naturals, those that the code
requires to be positive are not 0, vectors are sequences of products, the keys
of a channel, the validators and the entries that may be parked are finitely
many, voting power is a natural, transactions arrive at the mempool from clients
or from peers, addresses are ordered (as naturals), and the first fee bucket
starts at 0.

- `RegistryProofs`. `TypeOK` is inductive; so are `OwnProducts` and
  `Chronological` relative to it (lemma `NewOrOld`: an entry after a
  registration is an old one or the new one at the end). The verdict theorems
  need `OwnProducts`: since every stored product is marked, the first match
  answers true, and "verifies" is the same as "is stored" (`VerdictIsStored`,
  by way of the least index with the identifier). `StepStores` says what a step
  stores; from it follow `OwnerDecidesTheorem`, `ImplementsLedger` (initial
  states map to initial states, each step to a `Vouch` or a stutter) and
  `RegisteredVerifiesInvariant`, whose inductive form says that the last
  successful registration is stored.
  For the script, `KeyIsKept` is not inductive: a request might be made for an
  account that is not in the file. `RunIsKeyed` closes the gap: before the key
  is saved there is no key file, and afterwards the run works with the account
  of the file. `DeploymentImplementsRegistry` shows that every step of
  deployment and users together is a step or a stutter of `Registry`, so that
  all theorems about the contract hold beside the script, and
  `RedeployKeepsProductsTheorem` that no step shortens or rewrites a vector.
  For the loop, `PartialCorrectness` is not inductive by itself: a loop in the
  middle of the vector could have passed over a match. `LoopInvariant` (no match
  before the index) closes the gap, and the bound in `ScanTypeOK` makes the
  exhausted loop answer for the whole vector.
  Of the page that asks the contract, `VerdictNamesItsProduct` and
  `OneOpenScanner` are inductive relative to the types, `AlwaysAnswered` by
  itself: each synchronous piece of `handleVerify` that clears the result leaves
  a message or a call under way.
- `FrontendProofs`. Of the monitor, `CheckedEveryPeriod` is not inductive: a tick
  raises `sinceCheck`. `PeriodBudget` bounds it together with the time left on
  the interval, and every action that refills the interval also starts a check.
  Of the labels, `SignaturesAreIssued` is inductive because an alteration keeps
  the signature; with what `"valid"` means (`ValidMeans`) it
  gives `AcceptedWasIssued` and, in the other direction, `IssuedIsAccepted`.
  `VerdictMovesForward` is an action property: a label that stays in circulation
  keeps its data while the clock moves on.
  Of the dashboard's registry page, the types need that finitely many calls are
  under way (`FiniteCalls`), because a new call takes a ticket that is not in
  use; lemma `TicketLeft` finds one by the pigeonhole principle. With the types,
  `DialogShowsItsOwnCode` and `LoadingMeansBusy` are inductive and
  `TableOnlyGrows` is an action property.
- `DKGProofs`. Of the pool, `MapsAgree` needs that a sequence number is given
  out once (`Issued`). `PoolInvariant` adds it to both directions of the
  agreement and to `GuardedOnly`. Lemma `ReplacedByTopic` says that a put removes
  exactly the transaction of its topic; dropping a guard removes at most its own,
  which is `LeavesByOwnGuardTheorem`.
  `PullFillsTheQuota` says that what a pull took is within both quotas and that
  nothing else that passes the filter would have fitted, unless the deadline cut
  it short. The source counts the quotas down; the property adds up what was
  taken. `QuotaExists` shows that the countdown is
  defined for queues of any length, `QuotaAddsUp` that before each sequence
  number what is left and what was taken add up to the quota, by the smallest
  number at which they would not.
  Of the broadcast, `ReturnedAggregateIsWhole` and `NobodyForgotten` need each
  other's state. `BroadcastInvariant` says that the aggregate has one part per
  sender and its senders are the contributors, whatever dealers the parts name;
  that an aggregate on its way to the loop has a quorum of senders, and a
  contributor missing from it has a result that the loop has not taken; that
  once the contributors have a quorum such an aggregate is on its way; and that
  every validator is in one place at most (asked, or waiting as a task or as a
  result) and counted if it is in none. `PowerGrows` carries the quorum from the
  senders to the dealers when these include them. `BroadcastTypeCorrect` includes
  that there are never more tasks than permits.
  Of the node, `PoolIsCurrent` and `ProducerHasOwner` are inductive only
  with what makes closing a manager safe. `Handshake`: the epoch manager holds a
  live close sender exactly while a manager runs that has not been told to
  close. `AggInProgress`: a transcript waits in a manager's channel only while
  the manager is in progress. With the shape of the state these make
  `NodeInvariant`; it holds for any number of epochs and restarts.
  `SessionMovesForwardTheorem` is an action property, proved from it.
- `AptosChannelProofs`. Types and `LineIsExact` are proved together: popping
  reads the queue of the first key in line, which has a message because the
  line is exact. `NoLostWakeup` and `ServedInTurn` rest on it: a key that is
  served goes behind all that are in line. `WaitIsBounded` needs besides that the
  line has no key twice and so is no longer than the number of keys
  (`LineFits`). A pop brings every other key one place forward, or, for the key
  it serves, every message one place (`PopKeepsWait`, with `LineAfterPop` and
  `PopsUntilGrows` for the arithmetic); a push changes no message's place for the
  worse (`PushKeepsWait`). With LIFO the bound fails, since newer messages of a
  key are served before older ones (`message_queues.rs:102`), and nothing is
  claimed. `Books` says that messages are numbered in order of their
  pushes, that queues hold exactly the messages whose status says so, in rising
  order, and that each style keeps its promise; `EveryMessageAccounted` and
  `StyleKeepsOrder` follow.
- `Sums`. The library's induction theorems take an operator as a parameter and
  cannot be used, so induction is done by hand: a finite set with a
  counterexample has a smallest one (`SmallestCounterexample`, `SmallestNumber`).
  `SumIsUnits` identifies the sum of weights over a finite set with the number
  of its units, pairs of an element and a number up to its weight; that a sum
  splits, grows and is found again along a bijection then follow from
  cardinalities. Voting power, the bytes of the mempool and of what is read from
  it, and the size of the parking lot are such sums.
- `MempoolProofs`. For the parking lot, `LotInvariant`: each account in the
  vector is at the place the map gives and has entries, the vector holds exactly
  `contents`, and the size is their number. The step to watch is the removal of
  an account's last entry, where `swap_remove` moves another account
  (`SwapRemoved`, `ParkRemoveKeeps`).
  For the store, `IndexesAgree` and `InSequenceIsReady` hold between handlers
  and not inside them. `Sound(st, X)` is the first and what the second says of a
  transaction by its state, with the transactions of `X` allowed to be missing
  from the expiration indexes, as they are while a collection removes them;
  `ReadyToRun(st, a, n)` allows the transactions of account `a` to be
  neither queued nor parked, as they are when `process_ready_transactions` is
  called. There is one lemma for each function of the source, from what its
  callers guarantee to what it leaves (`RemoveKeeps`, `ParkKeeps`, `RunKeeps`,
  `CommitKeeps`, `ExpirationKeeps`, `AdmitKeeps` and others).
  What the second says of a run is `InOrder`: no transaction is below its
  account's number, and one that follows it without a gap is queued and not
  parked. It is inductive because the number of an account changes only in a
  commit and in an insertion, which both clean up to the new number and promote
  from it (`RunOrder`); a removal can only shorten a run (`RemoveOrder`); and
  what a collection parks follows a transaction that it removes, which was not
  below the number, and so is past a gap (`CollectOrder`).
  That eviction ends in a sound store however many rounds it takes is again by
  the smallest counterexample (`RoundsExist`, `RoundsKeep`). The action step of
  `MempoolInvariantTheorem` puts the lemmas together, one case per handler.
- `MempoolReadProofs`. The two queries on any store that is `Readable`: finitely
  many transactions with bytes that add up, finitely many timeline entries, each
  in a fee bucket, and at most one priority key for a sender and a number.
  Nothing here depends on how the store came about.
  For a read, `Reading` holds after each bucket: what was sent is exactly what
  the cursor has passed, within both limits; the step is
  `BucketRead`, which needs that what fits is a prefix (`FittingIsPrefix`).
  For a pull, the queue is the keys in order (`QueueIsOrdered`, because
  `Outranks` orders them), and `Walked` holds after each turn: what is drawn is
  in sequence and not drawn twice (`Draws`, `Follows`); while there is room,
  what was visited is drawn, or skipped and still not in sequence
  (`LeavesNothing`); and what could have been drawn at once is outranked by all
  that was drawn before it (`ByPriority`). `TakeKeeps` and `SkipKeeps` are the two
  branches of a turn. `BatchIsPrefix` carries all of it over to the prefix that
  fits in the bytes. That the loops are defined for a store of any size
  (`ReadsExist`, `WalkExists`) and keep their invariants is again by the smallest
  number at which they would not.
- `MempoolQueriesProofs`. `Sound` does not say that timeline identifiers differ.
  `Numbered` does: the identifiers of ready transactions are below the next one
  of their bucket and distinct within it. It is inductive beside
  `MempoolInvariant`; every function of the store either only removes
  (`Shrinks`) or hands out new identifiers (`Continues`), and both compose.
  `TimelineAppends` is the action property behind it. A sound store is readable
  (`SoundIsReadable`), so the lemmas give `BroadcastSkipsNothing` (with
  `Numbered` for its identifiers) and `PullInSequence`, and both for every
  cursor, delay, limit and set of transactions in progress
  (`EveryReadSkipsNothing`, `EveryBatchInSequence`), not only for the ones that
  the run tries.

The type invariants, and `OwnProducts`, `Chronological`, `RegisteredVerifies`,
`LoopInvariant`, `PeriodBudget`, `SignaturesAreIssued` and `GuardedOnly`, are
proved and listed in no run.

Model-checked only: all liveness (`Termination`, `RecoversFromOutage`,
`EveryVerificationEnds`, `Returns`, `ReachesEpoch`, `ResumesAfterRestart`),
which is outside this prover's reach. Every invariant and every
action property of a passing run, and the refinement of `AuthenticityLedger`, is
also a theorem.

## Not modelled

- Most of `aptos-core/`. It is a partial copy of a third-party workspace that
  nothing of True Mark builds against, and by far the larger part of the lines
  in the repository: the mapped lines are a small share of it. Modelled are
  parts small enough to follow line by line whose difficulty is in their
  concurrency or their bookkeeping. The Move virtual machine, storage,
  consensus, state sync, the indexers and the tooling are each a project of
  their own.
- Of the shared mempool: the broadcast to peers with its acknowledgements and
  retries, and the validator of transactions. Of the DKG: the cryptography, and
  the forwarding of peers' requests, which changes no state. Of the broadcast: an
  error while the request is serialised for a protocol
  (`reliable-broadcast/src/lib.rs:130-135`), which ends `multicast` before it has
  sent anything.
- `config.ts`: three pure validators of build-time strings, run once at start.
- `Dashboard.tsx` and `CounterfeitReports.tsx` show literal sample data;
  `Layout.tsx`, the routes and the themes are layout; `services/api.ts` is
  imported by no file and its server is not in the repository.
- Within the modelled parts: wording, layout, dates on display, the download
  link; gas and transaction fees; metrics and logs; strings beyond equality;
  rounding in `parseInt` beyond 2^53, which the parameter `ParseInt` allows for.
  That two added rows of the dashboard can carry one id (the count the chain
  answers, `ProductRegistry.tsx:163`) is in the model, and no property speaks of
  it.

## What could follow

1. `ConnectionMonitor` and `ProductVerification` composed, the answer of one as
   the input of the other.
2. The peers' side of the mempool: two nodes, cursors, acknowledgements and
   retries over `Mempool`.
3. `DKGNode` composed with `VTxnPool` and `TranscriptBroadcast` instead of with
   their abstractions.
