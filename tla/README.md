# chit402 in TLA+

A verification project for the chit402 gateway (`src/services/gateway/src`) and
the bond contract that stands behind its receipts
(`src/contracts/escrow/EquivocationEscrowV0.sol`). The gateway sells model calls
for x402 payments: it checks a budget, takes a payment, serves the call, signs a
receipt, puts the receipt into a transparency log and publishes signed heads of
that log. Whoever proves that two heads disagree is paid from the bond. The
modules follow that path: money is not spent past a cap, a payment is answered
once, a receipt stays in the log, the log has one history, its heads are
anchored on Base, and the bond can pay. A second customer of payments and
receipts is the bid board, where one agent pays another for a job.

## The system

| part | state it keeps | operations | hard because |
|---|---|---|---|
| spend holds, `spend-hold.js` | holds by request id, in memory and in a file | reserve, consume, release, expiry, reload | a save may throw, a crash reloads, a hold expires under a call |
| spend-hold service, `spend-hold-api.js` | placements and receipts in memory and in a second file | place, settle, release | two files, a signature awaited between them |
| paid chat door, `openai-gateway.js` | none of its own: holds and book rows | gate, payment handshake, book row, arm, finish | a paid call is in no book total until its row is written |
| settlement, `x402-settle.js` | the challenge store | claim, verify, `/settle`, confirm on chain, spent marks | lost answers, replays under another nonce, a throw after the money moved |
| late issue, `late-issue.js` | late rows in the challenge store | open, resolve, sign, publish, close | a resolver races requests, retries and other resolvers; leases |
| challenge store, `x402-adapter.js`, `x402-durable-store.js` | challenges, spent sets, reservations, late rows, hold handles; one JSON file under a lock file | read-change-write under the lock | several processes, dead lock holders |
| receipt log, `receipt-merkle.js`, `receipt-log-store.js`, `receipt-log-lock.js` | leaves and heads, journal, checkpoint, flock | append, publish, boot | appends run inside the awaits of a publish; torn writes; a deleted lock file |
| Base anchors, `receipt-merkle.js`, `receipt-log-anchor.js`, `receipt-anchor-clock.js` | anchor intent rows in the journal, the tracker of anchored roots | publish, resolve the outstanding transaction, reserve a nonce, sign, replace, send, confirm, boot reconcile | lost answers, lagging nodes, dropped and foreign transactions, a crash between any two marks |
| bid board, `board-jobs.js`, `board-job-routes.js` | jobs with bids, legs and payout, in memory and in a file | post, bid, award, deliver, pay, reveal, challenge | what a handler read before its await is stale after it; a save may throw after the money moved |
| bond, `EquivocationEscrowV0.sol` | bond, commits, incidents, bounties, refunds | fund, activate, notice, withdraw, commit, reveal, finalize, register, settle, claim | copied reveals, rounding, caps over several incidents, the owner leaving |

The door calls the spend holds and the settlement; both it and the resolver hand
receipts to the log; the settlement and the resolver share the challenge store,
possibly from several processes; the contract judges heads the log has signed.
A publish of the log anchors its root; the board takes its two payments through
the settlement and signs its own receipt. `PROJECT.json` lists the hazards of
the code line by line with the properties that cover them, also those that
nothing covers.

## Modules

```
                SpendLedger
                     ^
Sums ------------- SpendHold ---+--- SpendService        AppendOnlyLog
                                +--- MeteredCall               ^
                                                          ReceiptLog
       PaymentSettle   ChallengeStoreLock   AnchorIntents   BoardJob   EquivocationEscrow
```

An arrow goes from a specification to the abstract one it implements.
An `MC` module declares the model values of a run and is named after its module.
A `_proofs` module holds the theorems of the module it is named after;
`Spend_proofs` holds those of SpendHold, SpendService and MeteredCall, and
`Sums_proofs` the facts on sums that SpendHold and the contract share.

**SpendHold.** `mem` is `_byRequest`, `disk` the file, `up` whether the process
runs. A leg is one ceiling of a hold: a session or funder leg counts holds only,
an agent leg also counts the rows of the book (`BookLegs`). Each method is one
action: it runs under the store's lock, and the sweep of expired holds at its
start, the save, and the rollback when the save throws are part of it. A failed
save leaves the file as it was (POSIX rename; the Windows fallback of
`replaceFile` is left out). A boot loads the file (`Restart`), or it meets an
error, logs it and starts empty while the file stays as it is until the next
save (`RestartUnread`). The history variable `unread` records that this has
happened. The caps and `NoLateSettle` hold whether or not it has; everything that
says what a restart keeps is promised only until then, because the code keeps it
only until then (see Findings). The cap of a leg does not change.
`SpendLedger` is what whoever set a lifetime cap (a session or funder leg) is
promised: settled spend only grows, one request id at a time, and never past the
cap, as long as the ledger could be read (`intact`). The store implements it
(`IsSpendLedger`).

**SpendService** extends SpendHold by the service's own file. A settle is three
steps, because the store's lock is released between the snapshot, the consume
and the signature. `PersistMayFail` lets any write throw. A receipt whose write
threw stays in the map and is served from there; a crash then loses it, and the
next settle signs another one, although the header of `spend-hold-api.js` says
that a second call returns the same JWS. `SavedReceiptIsFinal` is therefore
about receipts that reached the file. The service's file is read like the
store's: a boot that meets an error starts without placements and receipts
(`LoadMetaUnread`, recorded in `metaUnread`), each file on its own.

**MeteredCall** extends SpendHold by the chat door, with a place per call. A
handshake may settle, fail or stay unknown. A payment settles at the amount on
chain, which is at least the quote and may be more than the door reserved: the
book gets the whole amount, `consume` counts the reservation and keeps the rest
as a shortfall. Nothing kept room for that rest, so `AgentBudgetHeld` counts a
row up to the hold of its call (`Kept`): only what payers send beyond a hold can
take the book past the budget. An unknown payment may be booked late, after its
hold is gone (`LateRow`, not part of `src/`'s door), and `AgentBudgetHeld` leaves
those rows out too. `BookFails` is the row that cannot be
written: its payment settled and is in no total. `CallLimit < TTL` is the
comment at `spend-hold.js:36`. A paid replay answers without releasing the hold,
which its TTL ends.

**PaymentSettle.** One worker is a request (`settleBoundPayment`) or a run of
the resolver (`resolveLateRecord`, from the minute tick or from a retry). `pc`
is the await or store write a worker is at, `job` its payment. The store's
parts are variables of their own; `served` and `published` are history. `chain`
and the actions `Mine`, `Finalize` and `Lapse` are the world outside. A fault is
a crash, a store error or a failed read, at most `MaxFaults` in a behaviour.
EVM networks only: the chain takes an authorization once, so a transfer is
identified with it. A nonce has one hold handle, which belongs to the payment it
was opened for; `handleless` are the payments that were refused one, and
`PaidIsTraced` excepts exactly those. `OthersFill` lets rows of other payments
take up the cap on late rows. Left out: challenge TTL, the 24 h prune of closed rows,
shadow mode, callers that wait in memory for the winner of their nonce, alerts.
A live owner's lease does not run out (180 s and 60 s against calls that time
out after 8 to 20 s), owners have different names, and `Finalize` waits until no
request is between the verification of the payment and its end: true where
finality takes minutes, as on Base. The hazards name what this leaves out.

**ChallengeStoreLock.** `withFileLock` and `reclaimDeadLock`, one system call a
step, with the one store operation that must happen once, `claim`. A pid is a
process and its incarnation. A lock file without a pid is stale only when its
creator is gone: its age must pass 10 s. A pid that an unrelated process uses
after its holder died, which would keep a dead lock alive, is left out.

**ReceiptLog** and **AppendOnlyLog.** Each system call of a journal write is a
step, for another process may boot in between when the lock file was deleted.
The root of a tree is the sequence of its leaves (an ideal hash). One open
epoch; anchors, bundles, epoch records, pins and the acknowledgement of a
quarantine are abstracted, and a head signed again on a later day is the same
head. `AppendOnlyLog` is what a holder of heads is promised: one growing
sequence, heads that are prefixes of it.

A run's faults are chosen in its initial state (`FaultPlans`, `faults`): the
lock file is deleted, or writes fail. `receipted` are the inclusions handed out
by processes that loaded the log under their lock (`underLock`), also after they
lost it. One can come up otherwise: `bootReceiptLog` locks the
directory and then reads the journal without looking at the lock again. Two
deletions of the lock file at the right moments, with three processes, make it
read the stray line of an earlier writer, come up, and answer a known task with
an index the next holder does not have. It appends nothing after that, and its
heads agree with all others; `ReceiptsKept` leaves its answers out.

**AnchorIntents.** `status` is the last journal row of each signed transaction,
`unsigned` the rows without one, `tracked` is `anchorState.base`, `heads` and
`tip` what the heads say. A mark is fsynced before it is in memory, so both are
one: an append that throws leaves neither, although the code may then have its
line in the file and not in memory (`JournalFails`). A mark without a reason that
repeats a row's status is no row and keeps its time (`AgeAfter`). A transaction
is its root, nonce and number of fee bumps (signing is deterministic). `pub` is the publish in progress and the await it is at;
publishes are serial, and everything else interleaves: mining, drops, foreign
transactions, new heads, crashes, a boot that reconciles row by row or defers.
A lookup is one step; a lookup that straddles a block is one that lags, and a
lagging node may miss the hash, count the nonces too low, or both. A
transaction that is past the stuck age counts as a fault, because Base has a
block every two seconds. `Clock` may find the block time more than 300 s off,
which a publish on a later day or after an outage does. A root stands for a
root and its UTC day; `Recheck`'s own confirmation row has no day and no later
step reads it. Base does not reorganise. In `Reconcile` an RPC error has two
outcomes for an anchored row, because the lookup may throw (a timeout) or answer
with an error. `_nextFreeNonce` counts over all integers and `NextFree` up to
`MaxNonce`; a publish that finds no nonce below that bound takes no step.

**BoardJob.** `job` is the job in memory, `disk` the file, `bidding` the bids
that wait for their stamp and `paying` what a payment read before its await.
`charged`, `lost`, `overlaps` and `signed` are history. A leg has two steps: its
money moves (`MoneyMoves`), and later the board hears of it and records it, or is
answered with a hold and records nothing (`LegHeld`, which also stands for a leg
settled for another price or payer), or dies in between. `lost` counts the
charges of which no record was kept: a hold, or a crash that found no leg in the
file. The signature or a book row may throw and ends the request (`SignFails`).
The save of any other job writes this one too (`OtherSave`). A restart that
cannot read the file starts without the job, whose status is then "gone"
(`CrashUnread`). The model shows five things that no property of a run
states. A revision whose stamp lands after the award changes the price the
receipt is signed for: if the winner leg settled before it, the receipt names
an amount that was not paid (13 states). A failed save of the fee leg and a
crash charge the fee again, and with two failed saves the winner leg or the
hash of a signed receipt can be lost. Two bids of one agent whose stamps overlap
both land, although `x402-discovery.js:2240` says one bid per agent. A payment
that overlaps a finished one turns a closed job back to paid. A crash takes a
delivered job whose award was never saved back to its bids.

**EquivocationEscrow.** Every function of the contract that changes state, with
the clock as a variable. Which evidence verifies, for which epoch and leaves, is
a constant; `Coverable` is what the quarantine list may cover. `disclosed` is the
number of the last commit made before the first reveal of an epoch was public.

## Runs

| run | shows | distinct states |
|---|---|---|
| `spend_service` | the cap holds and nothing is settled late; until a boot cannot read a file, a restart forgets nothing, settled spend is final, a receipt is backed by consumed spend in the store's file, a saved one is final, and the file implements `SpendLedger`; under failed saves, crashes and expiry | 1,874,833 |
| `metered_call` | three calls of one agent, settled at any amount: rows up to their holds stay within the budget; a call in flight keeps its hold | 7,667,465 |
| `payment_settle` | a payment is answered at most once and leaves a trace of its own in every exit but one; its late row does not stay open | 890,541 |
| `payment_settle_crash` | violation: a row closed as issued that nobody was served and nothing was signed for | |
| `store_lock` | an orphaned lock is reclaimed; without a crash a claim is granted once | 128,213 |
| `store_lock_reclaim` | violation: a live holder's lock file is renamed away | |
| `receipt_log` | two processes on one directory: heads agree, only true heads are served, inclusions handed out stay, at most one stray line, with a deleted lock file or with failed and torn writes | 3,325,750 |
| `receipt_log_crash` | the files replay at every instant, the log implements `AppendOnlyLog`, the tail is published | 17,739 |
| `anchor_intents` | the journal claims no anchor the chain does not have, leaves no nonce gap, sends only the newest raw of a nonce; the newest root is anchored in the end | 412,046 |
| `anchor_reconcile` | violation: an RPC error at boot leaves two unresolved signed transactions | |
| `board_job` | a payout receipt is backed by settled legs and, up to one failed save, by the file; a leg is charged again only beside another request at it or after a charge whose record was lost; a delivered job whose award is on file is paid, unless a restart cannot read the file | 818,437 |
| `escrow` | solvency, refunds, caps, counters, grace and reserve; the bounty goes to the earliest commit that lands and to none made after the first reveal; no commit that can be revealed is evicted; every registered refund is paid | 1,202,902 |

Each property of a passing run has a mutant: a version of one definition with a
plausible bug, under which TLC finds that property violated.

**Bounds.** Two calls contend for a cap of two or three units, so that exactly
filling, passing and refilling it happen, and time 2 over a TTL of 1 lets a hold
expire and its id be used again. The door has three calls, for one in flight,
one booked and one at the gate; `MaxBook` 4 is two payments of twice what a cap
of two can hold, so that overpaid rows pass the budget. A payment needs two workers (the races are
between two) and two shapes: one authorization under two nonces, and two
authorizations under one nonce. `LateCap` is 1 (the code has 2 a payer, 64 in
all), so that the first open row caps the second payment. With `OthersFill`, where
other payers may take up the cap at any admission, the three invariants passed too
(1,863,081 states); the run leaves it off for its time, and the theorems hold
either way. One fault: the violation found by a fault needs one. The log has two tasks beside its genesis
leaf, for a head before, between and after them; `MaxInode` 2 lets one takeover
through a deleted lock file happen. The contract has windows of one or two
ticks within six, so that each can be open, at its edge and over; two epochs,
for the second incident over a spent cap; one commit slot, for eviction; four
possible commits, two of them for one key, of which a behaviour makes two. With
four commits of two keys on one epoch `BountyIsEarliest` and `CommitsKept` passed
too (1,886,336 states). The anchors have two heads, for a root behind an outstanding one, one bump below
the fee cap, nonces up to 5 (each head needs one, and each fault may cost one
more), and any three faults: the deepest cases (a crash inside a
replacement that a permanent rejection caused) need two, and a third may
disturb the recovery. The board has two bids (of one agent, landing as one bid
and its revision or as two bids), two hashes, two payment requests, one crash,
two failed saves (one for each leg), one hold (`MaxHeld`) and one overlap at each
leg, so that each race has both its sides. With two prices and two crashes the two
invariants passed as well (3,931,583 states up to the symmetry of requests and
hashes, under which liveness cannot be checked).
`CHECK_DEADLOCK FALSE` stands where a behaviour ends: tasks, payments or time
run out.

**Fairness.** `PaymentSettle`: a worker goes on, the minute tick takes up open
rows (`startLateIssueResolver`), leases run out, the chain reaches finality, and
clients do not retry for ever (requests would take all the model's workers; the
code has no such limit). The tick goes through all open rows and so does not
leave one out for ever, although the model's workers may all be busy in between:
`Resolve` is strongly fair. `ChallengeStoreLock`: processes restart and use the
store; steps of a live process happen. `ReceiptLog`: boots and writes go on and
the minute timer calls publish (`startTailAnchorTimer`). `EquivocationEscrow`:
time passes, and somebody calls `settle` and `claimRefund`, which anyone may.
`AnchorIntents`: the ticker publishes again (`tickAnchors`), each await of a
publish ends (`_boundedLookup` and the RPC timeouts), a supervisor restarts the
process, the chain takes what the pool holds. `Look` is strongly fair, because a
backoff postpones it again and again and is finite. Faults are bounded, so they
stop. `HeadIsAnchored` excepts `HeldAtFeeCap`: a transaction that is gone from
the pool, past six times the stuck age and at the fee cap is neither bumped nor
sent again, until an operator raises the cap. `BoardJob`: the winner delivers
and the poster asks until there is a receipt; its payments do not fail for ever
and are not answered with a hold for ever (strong fairness of the money's move,
the signature and the close, weak fairness of the records; crashes and holds are
bounded).

## Findings

Three runs end in a violation.

`payment_settle_crash`: `confirmAndSettle` writes its spent marks one by one and
closes the late row last. If the process dies, or the store throws, after
`markTxSpent`, the resolver cannot reserve the transfer, takes it for one that
has its receipt and closes the row as issued. The payer was not served and gets
no receipt.

`store_lock_reclaim`: a waiter renames the lock file it judged dead by its path,
which may by then be the file of a new live holder; two processes are then
inside the lock.

`anchor_reconcile`: `reconcileAnchorIntents` keeps an anchored row when the
lookup throws, but the lookup answers an RPC error instead of throwing it, and
the row is journalled `blocked`. Comments and documents say that it stays
`anchored` and that a sender has one unresolved transaction. The next publish
looks the row up and commits it again.

Four more disagreements between text and code are stated by the properties'
own conditions.

* `_load` of the spend-hold store catches every error of the read and the parse
  (`spend-hold.js:226`); all but a missing file are logged, the store starts empty
  and its next save overwrites the file. The comment on the class (line 186) says
  that a restart keeps consumed spend and open holds. The service's file
  (`spend-hold-api.js:219`) and the board's (`board-jobs.js:136`) are read the same
  way. Without its `~unread` TLC refutes `RestartForgetsNothing` with a placement,
  a crash and an unreadable boot.
* The exits that give a nonce back "still return a resolvable handle"
  (`x402-settle.js:681`), but `ensureHoldHandle` has one handle for a nonce and
  gives the second payment none (`x402-adapter.js:613`). If the facilitator refuses
  that payment and its transfer is mined all the same, no row, handle or challenge
  speaks of it. Without its `handleless` TLC refutes `PaidIsTraced` so.
* The contract's notice promises the bounty to the earliest commit
  (`EquivocationEscrowV0.sol:19`). `_record` refuses a key it has seen (line 735)
  before the contest compares commits, so of two commits of one key the first to
  be revealed wins, also against an earlier one that is revealed inside the contest
  window. The contract's README is exact: the earliest among the reveals that land,
  which is what `BountyIsEarliest` says.
* The receipt log's document (`docs/product/receipt-log.md:58`) says that a
  process without its lock writes nothing. The code's promise is weaker, as the
  comment at `receipt-merkle.js:1089` says: one line may be written after the lock
  was lost, and `AtMostOneStray` checks that.

## Proofs

TLAPS proves the following for every value of the constants that satisfies the
named assumptions of the modules: any number of calls, processes, workers,
accounts, amounts and bounds, with boots that cannot read their file.

| module | theorems | inductive invariant |
|---|---|---|
| `Spend_proofs` | types, `CeilingHeld`, `RestartForgetsNothing`, `SettledSpendIsFinal`, `NoLateSettle`; under `ServiceSpec` the same five, `ReceiptIsCounted`, `SavedReceiptIsFinal`; under `DoorSpec` `CeilingHeld`, `InFlightIsHeld`, `AgentBudgetHeld`; under all three the refinement of `SpendLedger` | `IInv`, `SInv`, `DInv` |
| `PaymentSettle_proofs` | types, `OneAnswer`, `PaidIsTraced` | `AInv`, `TInv` |
| `ChallengeStoreLock_proofs` | types, `ClaimedOnceWithoutCrash`; `HolderKeepsLock` while no process has died | `LInv` |
| `ReceiptLog_proofs` | types, `HeadsAgree`, `ServedHeadsTrue`, `ReceiptsKept`, `AtMostOneStray` for every fault plan; for the empty plan `JournalReplays` and the refinement of `AppendOnlyLog` | `RInv`, `TendedInv` |
| `EquivocationEscrow_proofs` | types, `Solvent`, `RefundsCovered`, `CountersAgree`, `CapsHeld`, `BountyIsEarliest`, `CommitsKept`, `GraceCoversCommits`, `ReserveKept` | `EInv` |
| `AnchorIntents_proofs` | types, `JournalMatchesChain`, `NoNonceGap`, `NewestRawOnly` | `AInv` |
| `BoardJob_proofs` | types, `ReceiptIsBacked`, `ChargedOnce` | `BInv` |

**Spend holds.** `CeilingHeld` alone is not inductive: a restart puts the file in
memory, so the file must be under the cap too; a consume or release saves the
whole map, so the file afterwards is under the cap only because memory is; and a
failed save keeps the caps only because its rollback leaves a map that is below
the one it had. That holds that count agree in memory and file is the part of
`IInv` that holds only until a boot cannot read the file; the caps do not rest on
it. `SweepStep`,
`SavedStep`, `UnsavedStep` and `RolledBackStep` carry these arguments;
`AdmittedUnderCap` is the arithmetic of the gate. A sum of money is the number
of its units (`Sums`), so that facts on the cardinality of finite sets replace
induction (`Sums_proofs`). `SInv` adds that a route that goes on to sign has its
spend in the store's file, and that a settle runs only for a request id without
a receipt; `DInv` that a call in flight is under a hold whose expiry is later
than any time the call may take, which is where `CallLimit < TTL` enters; a boot
that could not read the file does not disturb it, because no call survives its
process.

The refinement maps a consumed hold in the file to a settled entry and every
other hold to an open one. A step of the store settles at most one id: a save
writes the whole map, so this needs from `IInv` that every other consumed hold
of the map is in the file already (`SettledInFile`, `StoreSettles`). That the new
entry stays within the caps follows from the cap on the file, because settled
spend is part of what counts (`SpentIsHeld`). A step of the service or the door
is a step of the store or leaves its file alone, so both inherit the result. A
boot that cannot read the file is the ledger's step `Lose`, after which nothing is
promised.

**Payments.** `OneAnswer` rests on three divisions of labour. Finality parts
requests from resolvers: a request past its verification works on a transfer
that is not final, a resolver past its read on one that is. A transfer is
reserved for one worker and is unspent until that worker marks it. A row being
issued belongs to one resolver and has no receipt. `PaidIsTraced` needs besides
that a challenge in use belongs to one request, that a row is not dropped once
the payment was sent, and that a challenge given back leaves a handle or a row,
of this payment or, when the handle is another's, an entry in `handleless`.

**Challenge store.** Without a crash the creator of the lock file is the one
process inside, so what it has read is still what the file says. `LInv` says
nothing of the time after a crash: the run `store_lock_reclaim` shows why.

**Receipt log.** The views (the roots of heads that are signed or being
published, and the trees of processes that loaded under their lock, hold it now
or have a write to finish) form a chain of prefixes, and the tree of whoever holds the lock is
above them all; so is a journal whose lines are in order,
which is what makes a boot safe. A writer that lost its lock may still put one
line into the journal. That line leaves the journal out of order or extends it
beyond every view, and in both cases the chain stays one. With an empty fault
plan `TendedInv` adds that the tree is what the journal replays to, so that each
step is a step of `AppendOnlyLog` or a stutter. Leaves are counted, not filtered:
`LeafCount` and `LeafLine` replace a recursive replay.

**Anchors.** None of the three properties is inductive. `AInv` adds what each
closed row still stands for: an anchored one is mined, a replaced one has its
nonce spent, a superseded one has its nonce spent or a later raw open at it
(`ClosedFits`). With that, the open rows inherit `NoNonceGap` from the signed
ones, where it is stable: signed nonces have no gap above the chain (`NoGap`),
and a fresh nonce is the first free one above a count that the chain or signed
rows cover, even if the node that gave the count lagged (`NoGapBelow`, which a
publish carries across its awaits). `NewestRawOnly` needs that the row a publish
or a reconcile is about to send is the newest of its nonce, and that a publish
has sorted out the open rows before it takes one (`PubInv`, `BootInv`); between
the mark of a replacement and the mark of the row it replaces there is exactly
one exception, which a crash leaves for the next boot or publish. `OnePerFee`
keeps two publishes from signing different bytes at one nonce and fee. A lookup
that lags answers "unused" or "error" and never "mined", which is why a lagging
node delays an anchor and cannot forge one.

**Contract.** Rounding makes `RefundsCovered` the hard part: shares are rounded
down one by one. `RefundBook` bounds the unpaid amounts by a product, unpaid
times pool at most requested times owed, which each claim keeps whatever its
remainder. `BountyIsEarliest` needs that the best commit of an epoch was made
before the first reveal was public: it holds for that reveal, and a later best is
an earlier commit.

**Board.** A leg counts as allowed for while a request may still charge it:
`charged + waiting <= 1 + overlaps + lost`, one less while nobody is at the leg
and neither memory nor file has it (`Allowed`). A crash that finds the leg in the
file keeps that count; one that does not adds to `lost` what it takes away.
`ReceiptIsBacked` needs that the fee comes after the winner's leg, that the hash
does not change after the delivery, that one failed save hides at most one leg
from the file (`FileFollows`), and that memory and file keep what a signed
receipt names as long as they have the job (`Backed`).

**Assumptions** beyond types and finiteness: `TTL # 0` and `CallLimit < TTL`
(`spend-hold.js:36`); a model value that stands for nothing is none of the
values (`None`, and `"dead"` for the owner of a lease that died);
`NOTICE_PERIOD # 0`, as deployed; a first boot of the log finds a journal that
replays, with its genesis leaf (`FirstBootAssumption`); the log has at least one
root (`MaxRoots # 0`).

**Only model-checked:** liveness, which is beyond the prover: `RefundsArePaid`,
`TailIsPublished`, `OrphanIsReclaimed`, `PaidRowIsClosed`, `HeadIsAnchored` and
`PaidInTheEnd`. Every invariant and every action property of a passing run is
also a theorem.

## Not modelled

* Paid response replay, the hash chain of the agent book, session delegation,
  book escrow and disputes, rolling settlement, webhooks, provider health:
  stores of the gateway that could be modelled; `PROJECT.json` has a note and,
  where there is one, the hazard of each. Rolling settlement serves two first
  calls of one payer that overlap and drops the smaller charge
  (`rolling-settlement.js:196`), while its ADR bounds the loss at one call.
* Of modelled parts: Solana settlement and memos, bundles, epoch records and
  pins, Merkle proofs, inbound completions and takedowns of the board, the
  garbage collection of the challenge store.
* Encodings, signatures, verifiers, key custody, provers, pages, catalogue,
  telemetry, clients, demonstration contracts: computation or presentation
  without protocol state. They are most of the repository's 170,000 lines; the
  part with protocol state, which these modules can cover, is a small share.

## Plan

1. Abstract specifications: a payment (offered, paid, answered once) that
   PaymentSettle implements.
2. More of the system: paid response replay and its memory bound; rolling
   settlement; the book's sequence.
