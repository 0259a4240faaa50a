-------------------------- MODULE EquivocationEscrow --------------------------
(***************************************************************************)
(* The bond of the receipt log: contracts/escrow/EquivocationEscrowV0.sol. *)
(*                                                                         *)
(* The log issuer posts a bond.  Whoever holds two signed tree heads that  *)
(* disagree commits to the evidence and reveals it later.  A reveal opens  *)
(* the incident of its epoch (or joins it), which freezes withdrawal, puts *)
(* one bounty per epoch up for the earliest commit, and lets the payers of *)
(* the affected receipts register refunds until the claim window closes.   *)
(*                                                                         *)
(* A call is one step: every external function is nonReentrant and reverts *)
(* as a whole, so a call whose checks fail is not a step.  Signatures,     *)
(* inclusion proofs and commitment openings are external: the constants    *)
(* list the evidence that verifies.                                        *)
(***************************************************************************)
EXTENDS Integers, Sums

CONSTANTS
    Accounts,          \* submitters, payees and payers (never address(0))
    Payers,            \* the accounts refunds are registered for
    Epochs,            \* epochs of the log; an incident is named by its epoch
    Evidence,          \* verified evidence keys, of type A and of type B
    EpochOf,           \* the epoch both heads of the evidence share
    Leaves,            \* receipt leaf hashes
    LeavesOf,          \* lo and hi of a type B key, nothing for type A
    Coverable,         \* evidence with a head at or below the high-water mark
    Hashes,            \* commit hashes: [by, payTo, evidence]
    Amounts,           \* amounts a binding may carry or the owner may fund
    None,

    MIN_DELAY, REVEAL_WINDOW, CONTEST_WINDOW, MAX_OPEN_COMMITS,
    BOND_PERIOD, NOTICE_PERIOD, CLAIM_WINDOW, FREEZE_CAP,
    MIN_BOND, BOUNTY, BOUNTY_CAP, REFUND_CAP,

    MaxTime, MaxCommits, MaxFunded    \* bounds of the model

ASSUME EscrowAssumption ==
    /\ IsFiniteSet(Accounts) /\ Payers \subseteq Accounts
    /\ IsFiniteSet(Epochs) /\ IsFiniteSet(Leaves)
    /\ EpochOf \in [Evidence -> Epochs]
    /\ LeavesOf \in [Evidence -> SUBSET Leaves]
    /\ Coverable \subseteq Evidence
    /\ Hashes \subseteq [by : Accounts, payTo : Accounts, evidence : Evidence]
    /\ Amounts \subseteq Nat
    /\ None \notin Epochs \cup Accounts \cup Hashes
    /\ {MIN_DELAY, REVEAL_WINDOW, CONTEST_WINDOW, MAX_OPEN_COMMITS} \subseteq Nat
    /\ {BOND_PERIOD, NOTICE_PERIOD, CLAIM_WINDOW, FREEZE_CAP} \subseteq Nat
    /\ {MIN_BOND, BOUNTY, BOUNTY_CAP, REFUND_CAP} \subseteq Nat
    /\ NOTICE_PERIOD # 0
    /\ {MaxTime, MaxCommits, MaxFunded} \subseteq Nat

VARIABLES
    now,               \* block.timestamp, never 0
    activatedAt, noticeAt, closed,
    listPinned,
    quarantined,       \* evidence with a head on the pinned list
    bondAccounted,
    balance,           \* TOKEN.balanceOf(this)
    funded,            \* history: everything the owner ever put in
    credits,
    bountiesPaid, pendingBounties,
    freezeUntil, frozenUsed,
    frozenTime,        \* history: time spent frozen so far
    commitSeq, commits, slots,
    incidents, openIncidents, openRequested,
    paidOut,           \* history: paid to refunds, per epoch
    evidenceSeen,      \* keys with evidenceIncident[key] # 0
    bounties, refunds,
    contest,           \* history: commits revealed inside the contest window
    disclosed          \* history: commitSeq when an epoch's first reveal landed

ownerVars == <<activatedAt, noticeAt, closed, listPinned, quarantined>>
bondVars == <<bondAccounted, balance, funded>>
bountyVars == <<credits, bountiesPaid, pendingBounties, bounties, contest, disclosed>>
freezeVars == <<freezeUntil, frozenUsed>>
commitVars == <<commitSeq, commits, slots>>
incidentVars == <<incidents, openIncidents, openRequested, evidenceSeen>>
refundVars == <<refunds, paidOut>>
clockVars == <<now, frozenTime>>

vars == <<clockVars, ownerVars, bondVars, bountyVars, freezeVars, commitVars,
          incidentVars, refundVars>>

Min2(a, b) == IF a < b THEN a ELSE b

-----------------------------------------------------------------------------
NoCommit == [committer |-> None, at |-> 0, seq |-> 0]
NoIncident == [status |-> "none", closeAt |-> 0, requested |-> 0, pool |-> 0]
NoBounty == [first |-> 0, seq |-> 0, payTo |-> None, finalized |-> FALSE]
NoRefund == [status |-> "none", payer |-> None, amount |-> 0, epoch |-> None]

Commits == [committer : Accounts \cup {None}, at : Nat, seq : Nat]
Incidents == [status : {"none", "open", "settled"}, closeAt : Nat,
              requested : Nat, pool : Nat]
Bounties == [first : Nat, seq : Nat, payTo : Accounts \cup {None}, finalized : BOOLEAN]
Refunds == [status : {"none", "registered", "paid"}, payer : Accounts \cup {None},
            amount : Nat, epoch : Epochs \cup {None}]

\* The storage layout of the contract, with an incident named by its epoch.
TypeOK ==
    /\ now \in Nat \ {0}
    /\ activatedAt \in Nat /\ noticeAt \in Nat
    /\ closed \in BOOLEAN /\ listPinned \in BOOLEAN
    /\ quarantined \in SUBSET Evidence
    /\ bondAccounted \in Nat /\ balance \in Nat /\ funded \in Nat
    /\ credits \in [Accounts -> Nat]
    /\ bountiesPaid \in Nat /\ pendingBounties \in Nat
    /\ freezeUntil \in Nat /\ frozenUsed \in Nat /\ frozenTime \in Nat
    /\ commitSeq \in Nat
    /\ commits \in [Hashes -> Commits]
    /\ slots \in [Accounts -> [1 .. MAX_OPEN_COMMITS -> Hashes \cup {None}]]
    /\ incidents \in [Epochs -> Incidents]
    /\ openIncidents \in Nat /\ openRequested \in Nat
    /\ paidOut \in [Epochs -> Nat]
    /\ evidenceSeen \in SUBSET Evidence
    /\ bounties \in [Epochs -> Bounties]
    /\ refunds \in [Leaves -> Refunds]
    /\ contest \in [Epochs -> SUBSET (Nat \X Accounts)]
    /\ disclosed \in [Epochs -> Nat]

Init ==
    /\ now = 1
    /\ activatedAt = 0 /\ noticeAt = 0
    /\ closed = FALSE /\ listPinned = FALSE
    /\ quarantined = {}
    /\ bondAccounted = 0 /\ balance = 0 /\ funded = 0
    /\ credits = [a \in Accounts |-> 0]
    /\ bountiesPaid = 0 /\ pendingBounties = 0
    /\ freezeUntil = 0 /\ frozenUsed = 0 /\ frozenTime = 0
    /\ commitSeq = 0
    /\ commits = [h \in Hashes |-> NoCommit]
    /\ slots = [a \in Accounts |-> [i \in 1 .. MAX_OPEN_COMMITS |-> None]]
    /\ incidents = [e \in Epochs |-> NoIncident]
    /\ openIncidents = 0 /\ openRequested = 0
    /\ paidOut = [e \in Epochs |-> 0]
    /\ evidenceSeen = {}
    /\ bounties = [e \in Epochs |-> NoBounty]
    /\ refunds = [l \in Leaves |-> NoRefund]
    /\ contest = [e \in Epochs |-> {}]
    /\ disclosed = [e \in Epochs |-> 0]

-----------------------------------------------------------------------------
\* Owner

PinQuarantineList(list) ==
    /\ activatedAt = 0
    /\ ~listPinned
    /\ list \subseteq Coverable
    /\ listPinned' = TRUE
    /\ quarantined' = list
    /\ UNCHANGED <<activatedAt, noticeAt, closed, clockVars, bondVars, bountyVars,
                   freezeVars, commitVars, incidentVars, refundVars>>

Fund(amount) ==
    /\ ~closed
    /\ amount # 0
    /\ funded + amount <= MaxFunded
    /\ bondAccounted' = bondAccounted + amount
    /\ balance' = balance + amount
    /\ funded' = funded + amount
    /\ UNCHANGED <<clockVars, ownerVars, bountyVars, freezeVars, commitVars,
                   incidentVars, refundVars>>

Activate ==
    /\ activatedAt = 0
    /\ ~closed
    /\ listPinned
    /\ bondAccounted >= MIN_BOND
    /\ activatedAt' = now
    /\ UNCHANGED <<noticeAt, closed, listPinned, quarantined, clockVars, bondVars,
                   bountyVars, freezeVars, commitVars, incidentVars, refundVars>>

GiveNotice ==
    /\ activatedAt # 0
    /\ ~closed
    /\ noticeAt = 0
    /\ now >= activatedAt + BOND_PERIOD
    /\ noticeAt' = now
    /\ UNCHANGED <<activatedAt, closed, listPinned, quarantined, clockVars, bondVars,
                   bountyVars, freezeVars, commitVars, incidentVars, refundVars>>

CancelNotice ==
    /\ ~closed
    /\ noticeAt # 0
    /\ noticeAt' = 0
    /\ UNCHANGED <<activatedAt, closed, listPinned, quarantined, clockVars, bondVars,
                   bountyVars, freezeVars, commitVars, incidentVars, refundVars>>

\* Mutant: no grace for the commits of the last covered moment.
RevealGraceMissing == noticeAt + NOTICE_PERIOD

RevealGraceEnd == noticeAt + NOTICE_PERIOD + MIN_DELAY + REVEAL_WINDOW

Frozen == now < freezeUntil

\* Registered refunds of unsettled incidents and pending bounties within the
\* cap stay in the contract.
Reserve == openRequested + Min2(pendingBounties * BOUNTY, BOUNTY_CAP - bountiesPaid)

\* Mutant: the owner takes everything, the reserve included.
WithdrawAll ==
    /\ ~closed
    /\ activatedAt # 0 => noticeAt # 0 /\ now >= RevealGraceEnd /\ ~Frozen
    /\ balance' = balance - bondAccounted
    /\ bondAccounted' = 0
    /\ closed' = TRUE
    /\ UNCHANGED <<activatedAt, noticeAt, listPinned, quarantined, funded, clockVars,
                   bountyVars, freezeVars, commitVars, incidentVars, refundVars>>

Withdraw ==
    /\ ~closed
    /\ activatedAt # 0 => noticeAt # 0 /\ now >= RevealGraceEnd /\ ~Frozen
    /\ LET kept == Min2(bondAccounted, IF activatedAt = 0 THEN 0 ELSE Reserve) IN
       /\ balance' = balance - (bondAccounted - kept)
       /\ bondAccounted' = kept
    /\ closed' = TRUE
    /\ UNCHANGED <<activatedAt, noticeAt, listPinned, quarantined, funded, clockVars,
                   bountyVars, freezeVars, commitVars, incidentVars, refundVars>>

-----------------------------------------------------------------------------
\* Commit and reveal

Expired(c) == now > c.at + MIN_DELAY + REVEAL_WINDOW

Gone(c) == c.committer = None \/ Expired(c)

\* The slots of a sender are filled in order and never cleared.  The search
\* takes the slot of the same hash, else the first whose commit is gone,
\* else the first empty one.
SlotsHolding(a, h) == {i \in 1 .. MAX_OPEN_COMMITS : slots[a][i] = h}
SlotsGone(a) ==
    {i \in 1 .. MAX_OPEN_COMMITS : slots[a][i] # None /\ Gone(commits[slots[a][i]])}

First(S) == CHOOSE i \in S : \A j \in S : i <= j

\* Mutant: the first slot is always reused.
SlotAlwaysFirst(a, h) == 1

SlotFor(a, h) ==
    IF SlotsHolding(a, h) # {} THEN First(SlotsHolding(a, h))
    ELSE IF SlotsGone(a) # {} THEN First(SlotsGone(a))
    ELSE IF SlotsHolding(a, None) # {} THEN First(SlotsHolding(a, None))
    ELSE 0

\* Anyone may send any hash, also one that someone else computed.
Commit(a, h) ==
    /\ commitSeq < MaxCommits
    /\ ~closed
    /\ noticeAt # 0 => now < noticeAt + NOTICE_PERIOD
    /\ Gone(commits[h])
    /\ LET slot == SlotFor(a, h)
           prev == slots[a][slot]
           kept == IF prev \in {None, h} THEN commits
                   ELSE [commits EXCEPT ![prev] = NoCommit]
       IN
       /\ slot # 0
       /\ slots' = [slots EXCEPT ![a][slot] = h]
       /\ commits' = [kept EXCEPT ![h] =
                         [committer |-> a, at |-> now, seq |-> commitSeq + 1]]
    /\ commitSeq' = commitSeq + 1
    /\ UNCHANGED <<clockVars, ownerVars, bondVars, bountyVars, freezeVars,
                   incidentVars, refundVars>>

\* _consumeCommit: the hash binds the sender, so only h.by can reveal h.
Revealable(h) ==
    /\ activatedAt # 0
    /\ ~closed
    /\ commits[h].committer = h.by
    /\ now >= commits[h].at + MIN_DELAY
    /\ now <= commits[h].at + MIN_DELAY + REVEAL_WINDOW

\* Mutant: every incident freezes for the whole claim window.
OpenIncidentUncapped(e) ==
    /\ now + CLAIM_WINDOW < MaxTime
    /\ incidents[e].status = "none"
    /\ openIncidents = 0
    /\ openIncidents' = 1
    /\ incidents' = [incidents EXCEPT ![e] =
                        [status |-> "open", closeAt |-> now + CLAIM_WINDOW,
                         requested |-> 0, pool |-> 0]]
    /\ freezeUntil' = now + CLAIM_WINDOW
    /\ frozenUsed' = frozenUsed + CLAIM_WINDOW

\* _record, the incident: the first key of an epoch opens it, and only while
\* no other is open; a later key joins it until its claim window closes.
OpenIncident(e) ==
    LET d == Min2(FREEZE_CAP - frozenUsed, CLAIM_WINDOW) IN
    /\ now + CLAIM_WINDOW < MaxTime        \* the window closes within the model
    /\ incidents[e].status = "none"
    /\ openIncidents = 0
    /\ openIncidents' = 1
    /\ incidents' = [incidents EXCEPT ![e] =
                        [status |-> "open", closeAt |-> now + CLAIM_WINDOW,
                         requested |-> 0, pool |-> 0]]
    /\ freezeUntil' = IF d = 0 THEN freezeUntil ELSE now + d
    /\ frozenUsed' = frozenUsed + d

JoinIncident(e) ==
    /\ incidents[e].status = "open"
    /\ now <= incidents[e].closeAt
    /\ UNCHANGED <<incidents, openIncidents, freezeVars>>

\* Mutant: the first reveal wins, whoever committed first.
BestIsFirstReveal(b, seq, payTo) ==
    IF b.finalized \/ b.first # 0 THEN b
    ELSE [b EXCEPT !.first = now, !.seq = seq, !.payTo = payTo]

\* _record, the bounty: the earliest commit among the reveals that land in
\* the contest window.
BestOf(b, seq, payTo) ==
    IF b.finalized THEN b
    ELSE IF b.first = 0 THEN [b EXCEPT !.first = now, !.seq = seq, !.payTo = payTo]
    ELSE IF now < b.first + CONTEST_WINDOW /\ seq < b.seq
    THEN [b EXCEPT !.seq = seq, !.payTo = payTo]
    ELSE b

Reveal(h) ==
    LET k == h.evidence
        e == EpochOf[k]
    IN
    /\ Revealable(h)
    /\ k \notin quarantined
    /\ k \notin evidenceSeen
    /\ OpenIncident(e) \/ JoinIncident(e)
    /\ evidenceSeen' = evidenceSeen \cup {k}
    /\ bounties' = [bounties EXCEPT ![e] = BestOf(@, commits[h].seq, h.payTo)]
    /\ pendingBounties' =
          IF bounties[e].first = 0 /\ ~bounties[e].finalized
          THEN pendingBounties + 1 ELSE pendingBounties
    /\ contest' =
          IF bounties[e].first = 0 \/ now < bounties[e].first + CONTEST_WINDOW
          THEN [contest EXCEPT ![e] = @ \cup {<<commits[h].seq, h.payTo>>}]
          ELSE contest
    /\ disclosed' = IF bounties[e].first = 0 THEN [disclosed EXCEPT ![e] = commitSeq] ELSE disclosed
    /\ commits' = [commits EXCEPT ![h] = NoCommit]
    /\ UNCHANGED <<openRequested, credits, bountiesPaid, commitSeq, slots, clockVars,
                   ownerVars, bondVars, refundVars>>

\* Mutant: the bounty is credited without looking at the bond.
FinalizeBountyUnchecked(e) ==
    LET b == bounties[e] IN
    /\ b.first # 0
    /\ ~b.finalized
    /\ now >= b.first + CONTEST_WINDOW
    /\ bounties' = [bounties EXCEPT ![e].finalized = TRUE]
    /\ pendingBounties' = pendingBounties - 1
    /\ bountiesPaid' = bountiesPaid + BOUNTY
    /\ bondAccounted' = bondAccounted - BOUNTY
    /\ credits' = [credits EXCEPT ![b.payTo] = @ + BOUNTY]
    /\ UNCHANGED <<contest, disclosed, balance, funded, clockVars, ownerVars, freezeVars,
                   commitVars, incidentVars, refundVars>>

FinalizeBounty(e) ==
    LET b == bounties[e]
        amount == IF /\ bountiesPaid + BOUNTY <= BOUNTY_CAP
                     /\ bondAccounted >= openRequested + BOUNTY
                  THEN BOUNTY ELSE 0
    IN
    /\ b.first # 0
    /\ ~b.finalized
    /\ now >= b.first + CONTEST_WINDOW
    /\ bounties' = [bounties EXCEPT ![e].finalized = TRUE]
    /\ pendingBounties' = pendingBounties - 1
    /\ bountiesPaid' = bountiesPaid + amount
    /\ bondAccounted' = bondAccounted - amount
    /\ credits' = [credits EXCEPT ![b.payTo] = @ + amount]
    /\ UNCHANGED <<contest, disclosed, balance, funded, clockVars, ownerVars, freezeVars,
                   commitVars, incidentVars, refundVars>>

-----------------------------------------------------------------------------
\* Refunds

\* The key k is a recorded type B key with this leaf on one side.
RegisterRefund(k, leaf, payer, claimed) ==
    LET e == EpochOf[k]
        amount == Min2(claimed, REFUND_CAP)
    IN
    /\ k \in evidenceSeen
    /\ leaf \in LeavesOf[k]
    /\ ~closed
    /\ incidents[e].status = "open"
    /\ now <= incidents[e].closeAt
    /\ refunds[leaf].status = "none"
    /\ refunds' = [refunds EXCEPT ![leaf] =
                      [status |-> "registered", payer |-> payer, amount |-> amount,
                       epoch |-> e]]
    /\ incidents' = [incidents EXCEPT ![e].requested = @ + amount]
    /\ openRequested' = openRequested + amount
    /\ UNCHANGED <<openIncidents, evidenceSeen, paidOut, clockVars, ownerVars, bondVars,
                   bountyVars, freezeVars, commitVars>>

\* Mutant: a closed contract settles nothing any more.
SettleWhileOpen(e) ==
    LET pool == Min2(incidents[e].requested, bondAccounted) IN
    /\ ~closed
    /\ incidents[e].status = "open"
    /\ now > incidents[e].closeAt
    /\ incidents' = [incidents EXCEPT ![e].status = "settled", ![e].pool = pool]
    /\ bondAccounted' = bondAccounted - pool
    /\ openIncidents' = openIncidents - 1
    /\ openRequested' = openRequested - incidents[e].requested
    /\ UNCHANGED <<balance, funded, evidenceSeen, clockVars, ownerVars, bountyVars,
                   freezeVars, commitVars, refundVars>>

\* Mutant: only what was paid leaves openRequested.
SettleLeavesRest(e) ==
    LET pool == Min2(incidents[e].requested, bondAccounted) IN
    /\ incidents[e].status = "open"
    /\ now > incidents[e].closeAt
    /\ incidents' = [incidents EXCEPT ![e].status = "settled", ![e].pool = pool]
    /\ bondAccounted' = bondAccounted - pool
    /\ openIncidents' = openIncidents - 1
    /\ openRequested' = openRequested - pool
    /\ UNCHANGED <<balance, funded, evidenceSeen, clockVars, ownerVars, bountyVars,
                   freezeVars, commitVars, refundVars>>

\* _settle: the bond pays what was requested, or all it has.
SettleIncident(e) ==
    LET pool == Min2(incidents[e].requested, bondAccounted) IN
    /\ incidents' = [incidents EXCEPT ![e].status = "settled", ![e].pool = pool]
    /\ bondAccounted' = bondAccounted - pool
    /\ openIncidents' = openIncidents - 1
    /\ openRequested' = openRequested - incidents[e].requested

Settle(e) ==
    /\ incidents[e].status = "open"
    /\ now > incidents[e].closeAt
    /\ SettleIncident(e)
    /\ UNCHANGED <<balance, funded, evidenceSeen, clockVars, ownerVars, bountyVars,
                   freezeVars, commitVars, refundVars>>

\* Mutant: the share is rounded up.
ShareRoundedUp(r) ==
    LET inc == incidents[r.epoch] IN
    IF inc.requested = 0 THEN 0
    ELSE (r.amount * inc.pool + inc.requested - 1) \div inc.requested

\* The share of the pool a refund is paid, rounded down.
Share(r) ==
    LET inc == incidents[r.epoch] IN
    IF inc.requested = 0 THEN 0 ELSE (r.amount * inc.pool) \div inc.requested

\* Mutant: a paid refund stays registered.
ClaimRefundAgain(leaf) ==
    LET r == refunds[leaf] IN
    /\ r.status = "registered"
    /\ incidents[r.epoch].status = "settled"
    /\ paidOut' = [paidOut EXCEPT ![r.epoch] = @ + Share(r)]
    /\ Share(r) <= balance
    /\ balance' = balance - Share(r)
    /\ UNCHANGED <<refunds, bondAccounted, funded, clockVars, ownerVars, bountyVars,
                   freezeVars, commitVars, incidentVars>>

ClaimRefund(leaf) ==
    LET r == refunds[leaf] IN
    /\ r.status = "registered"
    /\ incidents[r.epoch].status = "settled"
    /\ refunds' = [refunds EXCEPT ![leaf].status = "paid"]
    /\ paidOut' = [paidOut EXCEPT ![r.epoch] = @ + Share(r)]
    /\ Share(r) <= balance
    /\ balance' = balance - Share(r)
    /\ UNCHANGED <<bondAccounted, funded, clockVars, ownerVars, bountyVars, freezeVars,
                   commitVars, incidentVars>>

Claim(a) ==
    /\ credits[a] # 0
    /\ credits[a] <= balance
    /\ balance' = balance - credits[a]
    /\ credits' = [credits EXCEPT ![a] = 0]
    /\ UNCHANGED <<bountiesPaid, pendingBounties, bounties, contest, disclosed, bondAccounted,
                   funded, clockVars, ownerVars, freezeVars, commitVars, incidentVars, refundVars>>

-----------------------------------------------------------------------------
Tick ==
    /\ now < MaxTime
    /\ now' = now + 1
    /\ frozenTime' = IF Frozen THEN frozenTime + 1 ELSE frozenTime
    /\ UNCHANGED <<ownerVars, bondVars, bountyVars, freezeVars, commitVars,
                   incidentVars, refundVars>>

Next ==
    \/ \E list \in SUBSET Coverable : PinQuarantineList(list)
    \/ \E amount \in Amounts : Fund(amount)
    \/ Activate
    \/ GiveNotice
    \/ CancelNotice
    \/ Withdraw
    \/ \E a \in Accounts, h \in Hashes : Commit(a, h)
    \/ \E h \in Hashes : Reveal(h)
    \/ \E e \in Epochs : FinalizeBounty(e)
    \/ \E k \in Evidence, leaf \in Leaves, payer \in Payers, claimed \in Amounts :
          RegisterRefund(k, leaf, payer, claimed)
    \/ \E e \in Epochs : Settle(e)
    \/ \E leaf \in Leaves : ClaimRefund(leaf)
    \/ \E a \in Accounts : Claim(a)
    \/ Tick

Spec == Init /\ [][Next]_vars

-----------------------------------------------------------------------------
\* What the contract still owes to the refunds of a settled incident.
Owed(e) == incidents[e].pool - paidOut[e]

\* Solvency: the token balance is exactly the bond, the bounty credits and
\* what is left of the refund pools, so no payout can fail and none is paid
\* from another's money.  Rounding never pays out more than the pool.
Solvent ==
    /\ \A e \in Epochs : paidOut[e] <= incidents[e].pool
    /\ balance = bondAccounted + Sum(credits, Accounts)
                    + Sum([e \in Epochs |-> Owed(e)], Epochs)

\* Every registered refund of a settled incident can be paid its share out of
\* that incident's own pool, whoever claims first.
RefundsCovered ==
    \A leaf \in Leaves :
        refunds[leaf].status = "registered" /\ incidents[refunds[leaf].epoch].status = "settled"
            => Share(refunds[leaf]) <= Owed(refunds[leaf].epoch)

\* The counters agree with what they count: one open incident at most, its
\* requests are openRequested, and pendingBounties are the bounties with a
\* reveal and no decision.  None of the contract's subtractions underflows.
CountersAgree ==
    LET Open == {e \in Epochs : incidents[e].status = "open"} IN
    /\ openIncidents = Cardinality(Open)
    /\ openIncidents <= 1
    /\ openRequested = Sum([e \in Epochs |-> incidents[e].requested], Open)
    /\ pendingBounties =
          Cardinality({e \in Epochs : bounties[e].first # 0 /\ ~bounties[e].finalized})

\* The bounties paid stay under BOUNTY_CAP, and the time withdrawal was ever
\* frozen stays under FREEZE_CAP, however many incidents open.
CapsHeld ==
    /\ bountiesPaid <= BOUNTY_CAP
    /\ frozenTime <= FREEZE_CAP

\* The bounty of an epoch names the earliest commit among the reveals that
\* landed in the contest window, and one that was made before the first of them
\* landed: what a reveal makes public cannot win it any more, committed again
\* under the same key or under another key of the fork.  (Of two commits of one
\* key that were both made before it, only the first to be revealed lands.)
BountyIsEarliest ==
    \A e \in Epochs :
        bounties[e].first # 0
            => /\ <<bounties[e].seq, bounties[e].payTo>> \in contest[e]
               /\ \A p \in contest[e] : bounties[e].seq <= p[1]
               /\ bounties[e].seq <= disclosed[e]

\* A commit that can still be revealed is neither overwritten nor evicted
\* from its slot by any other commit, of the same sender or of a copier.
CommitsKept ==
    [][\A h \in Hashes :
          ~Gone(commits[h]) => commits'[h] = commits[h] \/ Reveal(h)]_vars

\* The reveal grace: when the owner withdraws an active bond, every commit
\* taken before coverage ended has had its whole reveal window.
GraceCoversCommits ==
    [][activatedAt # 0 /\ ~closed /\ closed' => \A h \in Hashes : Gone(commits[h])]_vars

\* Withdrawal keeps the reserve: once the bond covers the registered refunds
\* and the pending bounties, closing and everything after it keeps it so, and
\* an incident settled after the withdrawal pays its refunds in full.
ReserveKept ==
    [][activatedAt # 0 /\ closed' /\ bondAccounted >= Reserve
          => /\ bondAccounted' >= Reserve'
             /\ \A e \in Epochs :
                   incidents[e].status = "open" /\ incidents'[e].status = "settled"
                      => incidents'[e].pool = incidents[e].requested]_vars

-----------------------------------------------------------------------------
\* Anyone may settle and claim, and the chain's time goes on.
FairSpec ==
    /\ Spec
    /\ WF_vars(Tick)
    /\ \A e \in Epochs : WF_vars(Settle(e))
    /\ \A leaf \in Leaves : WF_vars(ClaimRefund(leaf))

\* Every registered refund is paid out in the end, also when the owner closes
\* the contract before its incident settles.
RefundsArePaid ==
    \A leaf \in Leaves : refunds[leaf].status = "registered" ~> refunds[leaf].status = "paid"
=============================================================================
