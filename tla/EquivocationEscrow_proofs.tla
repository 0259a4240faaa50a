----------------------- MODULE EquivocationEscrow_proofs -----------------------
(***************************************************************************)
(* The bond of the receipt log, for any accounts, epochs, evidence, leaves *)
(* and amounts: it is solvent, rounding included; its counters count; its  *)
(* caps hold; the earliest committer gets the bounty; commits, the reveal  *)
(* grace and the reserve are kept.                                         *)
(***************************************************************************)
EXTENDS EquivocationEscrow, Sums_proofs, WellFoundedInduction

\* What each leaf still claims from the incident of an epoch.
UnpaidOf(e) ==
    [l \in Leaves |-> IF refunds[l].status = "registered" /\ refunds[l].epoch = e
                      THEN refunds[l].amount ELSE 0]

\* The books of the refunds.  Before an incident settles its requests are the
\* amounts registered; afterwards the amounts still unpaid are to the requests
\* at most as what is owed is to the pool.  This bound is linear in the
\* amounts, so it survives the rounding of every share.
RefundBook ==
    /\ \A e \in Epochs :
          /\ incidents[e].status # "settled"
                => /\ incidents[e].pool = 0
                   /\ paidOut[e] = 0
                   /\ Sum(UnpaidOf(e), Leaves) = incidents[e].requested
          /\ incidents[e].status = "none" => incidents[e].requested = 0
          /\ incidents[e].status = "settled"
                => /\ paidOut[e] <= incidents[e].pool
                   /\ Sum(UnpaidOf(e), Leaves) * incidents[e].pool
                         <= incidents[e].requested * Owed(e)
    /\ \A l \in Leaves : refunds[l].status = "registered" => refunds[l].epoch \in Epochs

\* The freeze that is running was paid for out of the freeze budget, and an
\* incident that is still open outlasts it.
FreezeBook ==
    /\ bountiesPaid <= BOUNTY_CAP
    /\ frozenUsed <= FREEZE_CAP
    /\ frozenTime <= frozenUsed
    /\ now < freezeUntil =>
          /\ frozenTime + (freezeUntil - now) <= frozenUsed
          /\ \E e \in Epochs : incidents[e].status = "open" /\ freezeUntil <= incidents[e].closeAt

\* A bounty is decided only after its contest window, and without a reveal
\* there is no contest.
BountyBook ==
    \A e \in Epochs :
        /\ bounties[e].first = 0 => contest[e] = {} /\ ~bounties[e].finalized
        /\ bounties[e].finalized => now >= bounties[e].first + CONTEST_WINDOW

\* A commit was taken in the past, and while notice runs before coverage ended.
CommitBook ==
    \A h \in Hashes :
        /\ commits[h].at <= now
        /\ commits[h].seq <= commitSeq
        /\ noticeAt # 0 /\ commits[h].committer # None
              => commits[h].at < noticeAt + NOTICE_PERIOD

EInv ==
    /\ TypeOK
    /\ Solvent
    /\ RefundBook
    /\ CountersAgree
    /\ FreezeBook
    /\ BountyBook
    /\ BountyIsEarliest
    /\ CommitBook

-----------------------------------------------------------------------------
(* Arithmetic *)

\* The bounds and the windows are natural numbers.
LEMMA ConstantTypes ==
    /\ MIN_DELAY \in Nat /\ REVEAL_WINDOW \in Nat /\ CONTEST_WINDOW \in Nat
    /\ MAX_OPEN_COMMITS \in Nat /\ BOND_PERIOD \in Nat /\ NOTICE_PERIOD \in Nat
    /\ NOTICE_PERIOD # 0 /\ CLAIM_WINDOW \in Nat /\ FREEZE_CAP \in Nat
    /\ MIN_BOND \in Nat /\ BOUNTY \in Nat /\ BOUNTY_CAP \in Nat /\ REFUND_CAP \in Nat
BY EscrowAssumption

\* A share, rounded down, takes from what is owed no more than its part.
LEMMA ShareBound ==
    ASSUME NEW unpaid \in Nat, NEW amount \in Nat, NEW pool \in Nat,
           NEW requested \in Nat, NEW owed \in Nat,
           amount <= unpaid, unpaid * pool <= requested * owed
    PROVE  LET share == IF requested = 0 THEN 0 ELSE (amount * pool) \div requested IN
           /\ share \in Nat
           /\ share <= owed
           /\ (unpaid - amount) * pool <= requested * (owed - share)
<1> DEFINE share == IF requested = 0 THEN 0 ELSE (amount * pool) \div requested
<1>1. amount * pool \in Nat /\ amount * pool <= unpaid * pool
    BY SMT
<1>2. share \in Nat /\ share * requested <= amount * pool
    <2>1. CASE requested = 0
        BY <1>1, <2>1
    <2>2. CASE requested # 0
        <3> DEFINE x == amount * pool
        <3>1. x \in Nat
            BY <1>1
        <3> HIDE DEF x
        <3>2. (x \div requested) \in Nat /\ (x \div requested) * requested <= x
            BY <2>2, <3>1, SMT
        <3> QED BY <2>2, <3>2 DEF x
    <2> QED BY <2>1, <2>2
<1>3. requested = 0 => share = 0
    OBVIOUS
<1> HIDE DEF share
<1>4. share * requested <= requested * owed
    BY <1>1, <1>2, SMT
<1>5. share <= owed
    <2>1. CASE requested = 0
        BY <1>3, <2>1
    <2>2. CASE requested > 0
        BY <1>2, <1>4, <2>2, SMT
    <2> QED BY <2>1, <2>2
<1>6. (unpaid - amount) * pool = unpaid * pool - amount * pool
    BY SMT
<1>7. requested * (owed - share) = requested * owed - share * requested
    BY <1>2, SMT
<1>8. (unpaid - amount) * pool <= requested * (owed - share)
    <2>1. unpaid * pool \in Nat /\ requested * owed \in Nat /\ share * requested \in Nat
        BY <1>2, SMT
    <2> QED BY <1>1, <1>2, <1>6, <1>7, <2>1
<1> QED BY <1>2, <1>5, <1>8 DEF share

\* The first of a nonempty set of slots is one of them.
LEMMA FirstIsMember ==
    ASSUME NEW S \in SUBSET Nat, S # {}
    PROVE  First(S) \in S
<1> DEFINE R == {ij \in Nat \X Nat : ij[1] < ij[2]}
<1>1. IsWellFoundedOn(R, Nat)
    BY NatLessThanWellFounded DEF OpToRel
<1>2. \A i, j \in Nat : j < i => <<j, i>> \in R
    OBVIOUS
<1> HIDE DEF R
<1>3. PICK i \in S : \A j \in S : ~ (<<j, i>> \in R)
    BY <1>1, WFMin
<1>4. ASSUME NEW j \in S PROVE i <= j
    <2>1. i \in Nat /\ j \in Nat /\ ~ (j < i)
        BY <1>2, <1>3
    <2> QED BY <2>1
<1> QED BY <1>4 DEF First

-----------------------------------------------------------------------------
(* Sums of the books *)

\* What is owed per epoch.
OwedBy == [e \in Epochs |-> Owed(e)]

\* The three sums of the bond are natural numbers, and what is owed is too.
LEMMA SumTypes ==
    ASSUME TypeOK, Solvent
    PROVE  /\ \A e \in Epochs : Owed(e) \in Nat
           /\ Sum(credits, Accounts) \in Nat
           /\ Sum(OwedBy, Epochs) \in Nat
           /\ \A a \in Accounts : credits[a] <= Sum(credits, Accounts)
           /\ \A e \in Epochs : Owed(e) <= Sum(OwedBy, Epochs)
           /\ balance = bondAccounted + Sum(credits, Accounts) + Sum(OwedBy, Epochs)
<1>1. \A e \in Epochs : incidents[e].pool \in Nat /\ paidOut[e] \in Nat
    BY DEF TypeOK, Incidents
<1>2. \A e \in Epochs : Owed(e) \in Nat
    BY <1>1 DEF Solvent, Owed
<1>3. \A e \in Epochs : OwedBy[e] = Owed(e)
    BY DEF OwedBy
<1>4. Sum(credits, Accounts) \in Nat /\ \A a \in Accounts : credits[a] <= Sum(credits, Accounts)
    BY EscrowAssumption, SumType, SumAtLeast DEF TypeOK
<1>5. Sum(OwedBy, Epochs) \in Nat /\ \A e \in Epochs : OwedBy[e] <= Sum(OwedBy, Epochs)
    BY <1>2, <1>3, EscrowAssumption, SumType, SumAtLeast
<1> QED BY <1>2, <1>3, <1>4, <1>5 DEF Solvent, OwedBy

\* When one incident owes more or less, the sum moves with it.
LEMMA OwedUpdate ==
    ASSUME NEW e \in Epochs,
           \A x \in Epochs : Owed(x) \in Nat /\ Owed(x)' \in Nat,
           \A x \in Epochs \ {e} : Owed(x)' = Owed(x)
    PROVE  /\ Sum(OwedBy', Epochs) \in Nat
           /\ Sum(OwedBy', Epochs) + Owed(e) = Sum(OwedBy, Epochs) + Owed(e)'
<1> DEFINE f == OwedBy
           g == OwedBy'
<1>1. /\ \A x \in Epochs : f[x] = Owed(x)
      /\ \A x \in Epochs : g[x] = Owed(x)'
    BY DEF OwedBy
<1>2. \A x \in Epochs : f[x] \in Nat /\ g[x] \in Nat
    BY <1>1
<1>3. \A x \in Epochs \ {e} : g[x] = f[x]
    BY <1>1
<1>4. f[e] = Owed(e) /\ g[e] = Owed(e)'
    BY <1>1
<1>5. IsFiniteSet(Epochs)
    BY EscrowAssumption
<1> HIDE DEF f, g
<1>6. Sum(g, Epochs) + f[e] = Sum(f, Epochs) + g[e]
    BY <1>2, <1>3, <1>5, SumUpdate
<1>7. Sum(g, Epochs) \in Nat
    BY <1>2, <1>5, SumType
<1> QED BY <1>4, <1>6, <1>7 DEF f, g

\* What a leaf claims of an epoch is a natural number.
LEMMA UnpaidTypes ==
    ASSUME TypeOK, NEW e
    PROVE  /\ \A l \in Leaves : UnpaidOf(e)[l] \in Nat
           /\ Sum(UnpaidOf(e), Leaves) \in Nat
           /\ \A l \in Leaves : UnpaidOf(e)[l] <= Sum(UnpaidOf(e), Leaves)
<1>1. \A l \in Leaves : UnpaidOf(e)[l] \in Nat
    BY DEF TypeOK, Refunds, UnpaidOf
<1> QED BY <1>1, EscrowAssumption, SumType, SumAtLeast

\* Every registered refund is covered by what its own incident owes.
LEMMA CoveredByBook ==
    ASSUME TypeOK, RefundBook, NEW l \in Leaves, refunds[l].status = "registered",
           incidents[refunds[l].epoch].status = "settled"
    PROVE  LET e == refunds[l].epoch
               rest == Sum(UnpaidOf(e), Leaves) - refunds[l].amount
           IN  /\ e \in Epochs
               /\ Owed(e) \in Nat
               /\ rest \in Nat
               /\ Share(refunds[l]) \in Nat
               /\ Share(refunds[l]) <= Owed(e)
               /\ rest * incidents[e].pool
                     <= incidents[e].requested * (Owed(e) - Share(refunds[l]))
<1> DEFINE e == refunds[l].epoch
           a == refunds[l].amount
           u == Sum(UnpaidOf(e), Leaves)
<1>1. e \in Epochs
    BY DEF RefundBook
<1>2. /\ a \in Nat /\ incidents[e].pool \in Nat /\ incidents[e].requested \in Nat
      /\ paidOut[e] \in Nat
    BY <1>1 DEF TypeOK, Refunds, Incidents
<1>3. Owed(e) \in Nat /\ u * incidents[e].pool <= incidents[e].requested * Owed(e)
    <2>1. \A x \in Epochs : incidents[x].status = "settled"
            => /\ paidOut[x] <= incidents[x].pool
               /\ Sum(UnpaidOf(x), Leaves) * incidents[x].pool
                     <= incidents[x].requested * Owed(x)
        BY DEF RefundBook
    <2>2. /\ paidOut[e] <= incidents[e].pool
          /\ u * incidents[e].pool <= incidents[e].requested * Owed(e)
        BY <1>1, <2>1
    <2>3. Owed(e) \in Nat
        BY <1>2, <2>2 DEF Owed
    <2> QED BY <2>2, <2>3
<1>4. UnpaidOf(e)[l] = a
    BY DEF UnpaidOf
<1>5. u \in Nat /\ a <= u
    <2>1. u \in Nat /\ UnpaidOf(e)[l] <= u
        BY UnpaidTypes
    <2> QED BY <1>4, <2>1
<1>6. Share(refunds[l]) = IF incidents[e].requested = 0 THEN 0
                          ELSE (a * incidents[e].pool) \div incidents[e].requested
    BY DEF Share
<1> DEFINE p == incidents[e].pool
           q == incidents[e].requested
           o == Owed(e)
           s == Share(refunds[l])
<1>7. s \in Nat /\ s <= o /\ (u - a) * p <= q * (o - s)
    <2>1. /\ a \in Nat /\ p \in Nat /\ q \in Nat /\ o \in Nat /\ u \in Nat
          /\ a <= u /\ u * p <= q * o
          /\ s = IF q = 0 THEN 0 ELSE (a * p) \div q
        BY <1>2, <1>3, <1>5, <1>6
    <2> HIDE DEF a, p, q, o, u, s
    <2> QED BY <2>1, ShareBound
<1>8. u - a \in Nat
    BY <1>2, <1>5
<1> QED BY <1>1, <1>3, <1>7, <1>8

\* The counters of an open incident.
LEMMA OpenFacts ==
    ASSUME TypeOK, CountersAgree
    PROVE  LET Open == {e \in Epochs : incidents[e].status = "open"} IN
           /\ IsFiniteSet(Open)
           /\ openIncidents = 0 => Open = {}
           /\ \A e \in Open : Open = {e} /\ openIncidents = 1
                              /\ openRequested = incidents[e].requested
<1> DEFINE Open == {e \in Epochs : incidents[e].status = "open"}
           f == [e \in Epochs |-> incidents[e].requested]
<1>1. IsFiniteSet(Open)
    BY EscrowAssumption, FS_Subset
<1>2. openIncidents = Cardinality(Open) /\ openIncidents <= 1 /\ openRequested = Sum(f, Open)
    BY DEF CountersAgree
<1>3. openIncidents = 0 => Open = {}
    BY <1>1, <1>2, FS_EmptySet
<1>4. ASSUME NEW e \in Open
      PROVE  Open = {e} /\ openIncidents = 1 /\ openRequested = incidents[e].requested
    <2>1. openIncidents = 1
        BY <1>2, <1>3, <1>4 DEF TypeOK
    <2>2. Open = {e}
        <3> HIDE DEF Open
        <3>1. PICK x : Open = {x}
            BY <1>1, <1>2, <2>1, FS_Singleton
        <3> QED BY <1>4, <3>1
    <2>3. f[e] = incidents[e].requested /\ f[e] \in Nat
        BY <1>4 DEF TypeOK, Incidents
    <2> HIDE DEF f, Open
    <2>4. Sum(f, {e}) = f[e]
        <3>1. Sum(f, {e}) = Sum(f, {e} \ {e}) + f[e]
            BY <2>3, FS_Singleton, SumSplit
        <3>2. Sum(f, {e} \ {e}) = 0
            BY SumZero
        <3> QED BY <2>3, <3>1, <3>2
    <2> QED BY <1>2, <2>1, <2>2, <2>3, <2>4
<1> QED BY <1>1, <1>3, <1>4

-----------------------------------------------------------------------------
(* What a step leaves alone *)

\* Solvency looks at the bond, the credits and the pools.
LEMMA FrameSolvent ==
    ASSUME Solvent, UNCHANGED <<incidents, paidOut, balance, bondAccounted, credits>>
    PROVE  Solvent'
BY DEF Solvent, Owed

\* The refund books look at the refunds and at the incidents.
LEMMA FrameRefunds ==
    ASSUME RefundBook, UNCHANGED <<incidents, paidOut, refunds>>
    PROVE  RefundBook'
BY DEF RefundBook, Owed, UnpaidOf

\* The counters look at the incidents and at the bounties.
LEMMA FrameCounters ==
    ASSUME CountersAgree,
           UNCHANGED <<incidents, openIncidents, openRequested, pendingBounties, bounties>>
    PROVE  CountersAgree'
BY DEF CountersAgree

\* The freeze looks at the clock and at the incidents.
LEMMA FrameFreeze ==
    ASSUME FreezeBook, UNCHANGED <<bountiesPaid, freezeVars, clockVars, incidents>>
    PROVE  FreezeBook'
BY DEF FreezeBook, freezeVars, clockVars

\* The bounties look at the contests.
LEMMA FrameBounties ==
    ASSUME BountyBook, BountyIsEarliest, UNCHANGED <<bounties, contest, disclosed, now>>
    PROVE  BountyBook' /\ BountyIsEarliest'
BY DEF BountyBook, BountyIsEarliest

\* The commits look at the notice.
LEMMA FrameCommits ==
    ASSUME CommitBook, UNCHANGED <<commits, commitSeq, noticeAt, now>>
    PROVE  CommitBook'
BY DEF CommitBook

-----------------------------------------------------------------------------
(* The owner *)

\* The list is pinned and the bond activated without touching any book.
LEMMA OwnerSteps ==
    ASSUME EInv, (\E list \in SUBSET Coverable : PinQuarantineList(list)) \/ Activate
    PROVE  EInv'
<1>1. UNCHANGED <<noticeAt, closed, clockVars, bondVars, bountyVars, freezeVars, commitVars,
                  incidentVars, refundVars>>
    BY DEF PinQuarantineList, Activate
<1> USE <1>1 DEF clockVars, bondVars, bountyVars, freezeVars, commitVars, incidentVars, refundVars
<1>2. TypeOK'
    <2>1. /\ activatedAt' \in Nat /\ listPinned' \in BOOLEAN
          /\ quarantined' \in SUBSET Evidence
        BY EscrowAssumption DEF EInv, TypeOK, PinQuarantineList, Activate
    <2> QED BY <2>1 DEF EInv, TypeOK
<1>3. Solvent' /\ RefundBook'
    BY FrameSolvent, FrameRefunds DEF EInv
<1>4. CountersAgree' /\ FreezeBook'
    BY FrameCounters, FrameFreeze DEF EInv
<1>5. BountyBook' /\ BountyIsEarliest' /\ CommitBook'
    BY FrameBounties, FrameCommits DEF EInv
<1> QED BY <1>2, <1>3, <1>4, <1>5 DEF EInv

\* Money that comes in is bond.
LEMMA FundStep ==
    ASSUME EInv, NEW amount \in Amounts, Fund(amount)
    PROVE  EInv'
<1>1. amount \in Nat
    BY EscrowAssumption
<1>2. UNCHANGED <<clockVars, ownerVars, bountyVars, freezeVars, commitVars, incidentVars,
                  refundVars>>
    BY DEF Fund
<1> USE <1>2 DEF clockVars, ownerVars, bountyVars, freezeVars, commitVars, incidentVars,
                 refundVars
<1>3. TypeOK'
    BY <1>1 DEF EInv, TypeOK, Fund
<1>4. Solvent'
    <2>1. /\ Sum(credits, Accounts) \in Nat /\ Sum(OwedBy, Epochs) \in Nat
          /\ balance = bondAccounted + Sum(credits, Accounts) + Sum(OwedBy, Epochs)
        BY SumTypes DEF EInv
    <2>2. balance' = bondAccounted' + Sum(credits, Accounts) + Sum(OwedBy, Epochs)
        BY <1>1, <2>1 DEF EInv, TypeOK, Fund
    <2> QED BY <2>2 DEF EInv, Solvent, OwedBy, Owed
<1>5. RefundBook' /\ CountersAgree' /\ FreezeBook'
    BY FrameRefunds, FrameCounters, FrameFreeze DEF EInv
<1>6. BountyBook' /\ BountyIsEarliest' /\ CommitBook'
    BY FrameBounties, FrameCommits DEF EInv
<1> QED BY <1>3, <1>4, <1>5, <1>6 DEF EInv

\* Notice starts after every commit there is, and its end clears the mark.
LEMMA NoticeSteps ==
    ASSUME EInv, GiveNotice \/ CancelNotice
    PROVE  EInv'
<1>1. UNCHANGED <<activatedAt, closed, listPinned, quarantined, clockVars, bondVars,
                  bountyVars, freezeVars, commitVars, incidentVars, refundVars>>
    BY DEF GiveNotice, CancelNotice
<1> USE <1>1 DEF clockVars, bondVars, bountyVars, freezeVars, commitVars, incidentVars, refundVars
<1>2. TypeOK'
    <2>1. noticeAt' \in Nat
        BY DEF EInv, TypeOK, GiveNotice, CancelNotice
    <2> QED BY <2>1 DEF EInv, TypeOK
<1>3. CommitBook'
    <2>1. \A h \in Hashes : commits[h].at \in Nat /\ commits[h].at <= now
        BY DEF EInv, TypeOK, Commits, CommitBook
    <2>2. noticeAt' = now \/ noticeAt' = 0
        BY DEF GiveNotice, CancelNotice
    <2>3. now \in Nat
        BY DEF EInv, TypeOK
    <2>4. ASSUME NEW h \in Hashes, noticeAt' # 0
          PROVE  commits[h].at < noticeAt' + NOTICE_PERIOD
        BY <2>1, <2>2, <2>3, <2>4, ConstantTypes
    <2> QED BY <2>1, <2>4 DEF EInv, CommitBook
<1>4. Solvent' /\ RefundBook'
    BY FrameSolvent, FrameRefunds DEF EInv
<1>5. CountersAgree' /\ FreezeBook'
    BY FrameCounters, FrameFreeze DEF EInv
<1>6. BountyBook' /\ BountyIsEarliest'
    BY FrameBounties DEF EInv
<1> QED BY <1>2, <1>3, <1>4, <1>5, <1>6 DEF EInv

\* The reserve is a natural number.
LEMMA ReserveType ==
    ASSUME TypeOK, FreezeBook
    PROVE  Reserve \in Nat
<1>1. pendingBounties * BOUNTY \in Nat
    BY ConstantTypes, SMT DEF TypeOK
<1>2. BOUNTY_CAP - bountiesPaid \in Nat
    BY ConstantTypes DEF TypeOK, FreezeBook
<1> QED BY <1>1, <1>2 DEF Reserve, Min2, TypeOK

\* What the owner takes is bond.
LEMMA WithdrawStep ==
    ASSUME EInv, Withdraw
    PROVE  EInv'
<1>1. UNCHANGED <<activatedAt, noticeAt, listPinned, quarantined, funded, clockVars,
                  bountyVars, freezeVars, commitVars, incidentVars, refundVars>>
    BY DEF Withdraw
<1> USE <1>1 DEF clockVars, bountyVars, freezeVars, commitVars, incidentVars, refundVars
<1>2. PICK kept \in Nat : /\ kept <= bondAccounted
                          /\ balance' = balance - (bondAccounted - kept)
                          /\ bondAccounted' = kept
                          /\ closed' = TRUE
    <2> DEFINE r == IF activatedAt = 0 THEN 0 ELSE Reserve
    <2>1. r \in Nat
        BY ReserveType DEF EInv
    <2>2. /\ balance' = balance - (bondAccounted - Min2(bondAccounted, r))
          /\ bondAccounted' = Min2(bondAccounted, r)
          /\ closed' = TRUE
        BY DEF Withdraw
    <2> HIDE DEF r
    <2>3. Min2(bondAccounted, r) \in Nat /\ Min2(bondAccounted, r) <= bondAccounted
        BY <2>1 DEF Min2, EInv, TypeOK
    <2> QED BY <2>2, <2>3
<1>3. /\ Sum(credits, Accounts) \in Nat /\ Sum(OwedBy, Epochs) \in Nat
      /\ balance = bondAccounted + Sum(credits, Accounts) + Sum(OwedBy, Epochs)
    BY SumTypes DEF EInv
<1>4. /\ balance' \in Nat
      /\ balance' = bondAccounted' + Sum(credits, Accounts) + Sum(OwedBy, Epochs)
    BY <1>2, <1>3 DEF EInv, TypeOK
<1>5. TypeOK'
    BY <1>2, <1>4 DEF EInv, TypeOK
<1>6. Solvent'
    BY <1>4 DEF EInv, Solvent, OwedBy, Owed
<1>7. RefundBook' /\ CountersAgree' /\ FreezeBook'
    BY FrameRefunds, FrameCounters, FrameFreeze DEF EInv
<1>8. BountyBook' /\ BountyIsEarliest' /\ CommitBook'
    BY FrameBounties, FrameCommits DEF EInv
<1> QED BY <1>5, <1>6, <1>7, <1>8 DEF EInv

\* Time passes: a running freeze uses up what was set aside for it.
LEMMA TickStep ==
    ASSUME EInv, Tick
    PROVE  EInv'
<1>1. /\ now' = now + 1
      /\ frozenTime' = IF now < freezeUntil THEN frozenTime + 1 ELSE frozenTime
      /\ UNCHANGED <<ownerVars, bondVars, bountyVars, freezeVars, commitVars, incidentVars,
                     refundVars>>
    BY DEF Tick, Frozen
<1> USE <1>1 DEF ownerVars, bondVars, bountyVars, freezeVars, commitVars, incidentVars, refundVars
<1>2. TypeOK'
    BY DEF EInv, TypeOK
<1>3. FreezeBook'
    <2>1. /\ now \in Nat /\ freezeUntil \in Nat /\ frozenUsed \in Nat /\ frozenTime \in Nat
        BY DEF EInv, TypeOK
    <2>2. FreezeBook
        BY DEF EInv
    <2>3. frozenTime' <= frozenUsed
        BY <2>1, <2>2 DEF FreezeBook
    <2>4. now' < freezeUntil => frozenTime' + (freezeUntil - now') <= frozenUsed
        BY <2>1, <2>2 DEF FreezeBook
    <2>5. now' < freezeUntil => now < freezeUntil
        BY <2>1
    <2> QED BY <2>2, <2>3, <2>4, <2>5 DEF FreezeBook
<1>4. BountyBook' /\ BountyIsEarliest'
    <2>1. now \in Nat /\ \A e \in Epochs : bounties[e].first \in Nat
        BY DEF EInv, TypeOK, Bounties
    <2> QED BY <2>1, ConstantTypes DEF EInv, BountyBook, BountyIsEarliest
<1>5. CommitBook'
    <2>1. now \in Nat /\ \A h \in Hashes : commits[h].at \in Nat
        BY DEF EInv, TypeOK, Commits
    <2> QED BY <2>1 DEF EInv, CommitBook
<1>6. Solvent' /\ RefundBook' /\ CountersAgree'
    BY FrameSolvent, FrameRefunds, FrameCounters DEF EInv
<1> QED BY <1>2, <1>3, <1>4, <1>5, <1>6 DEF EInv

-----------------------------------------------------------------------------
(* Commits *)

\* The slot the search returns holds this hash, a commit that is gone, or
\* nothing.
LEMMA SlotIsFree ==
    ASSUME TypeOK, NEW a \in Accounts, NEW h \in Hashes, SlotFor(a, h) # 0
    PROVE  LET slot == SlotFor(a, h)
               prev == slots[a][slot]
           IN  /\ slot \in 1 .. MAX_OPEN_COMMITS
               /\ prev \in Hashes \cup {None}
               /\ prev \in {None, h} \/ Gone(commits[prev])
<1> DEFINE slot == SlotFor(a, h)
<1>1. MAX_OPEN_COMMITS \in Nat
    BY ConstantTypes
<1>2. slots[a] \in [1 .. MAX_OPEN_COMMITS -> Hashes \cup {None}]
    BY DEF TypeOK
<1>3. CASE SlotsHolding(a, h) # {}
    <2>1. slot = First(SlotsHolding(a, h))
        BY <1>3 DEF SlotFor
    <2>2. SlotsHolding(a, h) \in SUBSET Nat
        BY <1>1 DEF SlotsHolding
    <2>3. slot \in SlotsHolding(a, h)
        BY <1>3, <2>1, <2>2, FirstIsMember
    <2> QED BY <1>2, <2>3 DEF SlotsHolding
<1>4. CASE SlotsHolding(a, h) = {} /\ SlotsGone(a) # {}
    <2>1. slot = First(SlotsGone(a))
        BY <1>4 DEF SlotFor
    <2>2. SlotsGone(a) \in SUBSET Nat
        BY <1>1 DEF SlotsGone
    <2>3. slot \in SlotsGone(a)
        BY <1>4, <2>1, <2>2, FirstIsMember
    <2> QED BY <1>2, <2>3 DEF SlotsGone
<1>5. CASE SlotsHolding(a, h) = {} /\ SlotsGone(a) = {}
    <2>1. SlotsHolding(a, None) # {} /\ slot = First(SlotsHolding(a, None))
        BY <1>5 DEF SlotFor
    <2>2. SlotsHolding(a, None) \in SUBSET Nat
        BY <1>1 DEF SlotsHolding
    <2>3. slot \in SlotsHolding(a, None)
        BY <2>1, <2>2, FirstIsMember
    <2> QED BY <1>2, <2>3 DEF SlotsHolding
<1> QED BY <1>3, <1>4, <1>5

\* A commit records its sender and the time, and clears at most one other
\* commit, which was gone already.
LEMMA CommitEffect ==
    ASSUME TypeOK, NEW a \in Accounts, NEW h \in Hashes, Commit(a, h)
    PROVE  /\ commits' \in [Hashes -> Commits]
           /\ slots' \in [Accounts -> [1 .. MAX_OPEN_COMMITS -> Hashes \cup {None}]]
           /\ commits'[h] = [committer |-> a, at |-> now, seq |-> commitSeq + 1]
           /\ \A x \in Hashes \ {h} :
                 commits'[x] = commits[x] \/ (commits'[x] = NoCommit /\ Gone(commits[x]))
<1> DEFINE slot == SlotFor(a, h)
           prev == slots[a][slot]
           kept == IF prev \in {None, h} THEN commits
                   ELSE [commits EXCEPT ![prev] = NoCommit]
           new == [committer |-> a, at |-> now, seq |-> commitSeq + 1]
<1>1. /\ slot # 0
      /\ slots' = [slots EXCEPT ![a][slot] = h]
      /\ commits' = [kept EXCEPT ![h] = new]
    BY DEF Commit
<1>2. /\ slot \in 1 .. MAX_OPEN_COMMITS
      /\ prev \in Hashes \cup {None}
      /\ prev \in {None, h} \/ Gone(commits[prev])
    BY <1>1, SlotIsFree
<1>3. commits \in [Hashes -> Commits] /\ NoCommit \in Commits /\ new \in Commits
    BY DEF TypeOK, Commits, NoCommit
<1> HIDE DEF slot, new
<1>4. kept \in [Hashes -> Commits]
    BY <1>2, <1>3
<1>5. \A x \in Hashes : kept[x] = commits[x] \/ (kept[x] = NoCommit /\ Gone(commits[x]))
    BY <1>2, <1>3
<1> HIDE DEF kept, prev
<1>6. commits' \in [Hashes -> Commits] /\ commits'[h] = new
    BY <1>1, <1>3, <1>4
<1>7. \A x \in Hashes \ {h} : commits'[x] = kept[x]
    BY <1>1, <1>4
<1>8. slots' \in [Accounts -> [1 .. MAX_OPEN_COMMITS -> Hashes \cup {None}]]
    BY <1>1, <1>2 DEF TypeOK
<1> QED BY <1>5, <1>6, <1>7, <1>8 DEF new

\* A commit is taken before coverage ends.
LEMMA CommitStep ==
    ASSUME EInv, NEW a \in Accounts, NEW h \in Hashes, Commit(a, h)
    PROVE  EInv'
<1>1. /\ commitSeq' = commitSeq + 1
      /\ noticeAt # 0 => now < noticeAt + NOTICE_PERIOD
      /\ UNCHANGED <<clockVars, ownerVars, bondVars, bountyVars, freezeVars, incidentVars,
                     refundVars>>
    BY DEF Commit
<1>2. /\ commits' \in [Hashes -> Commits]
      /\ slots' \in [Accounts -> [1 .. MAX_OPEN_COMMITS -> Hashes \cup {None}]]
      /\ commits'[h] = [committer |-> a, at |-> now, seq |-> commitSeq + 1]
      /\ \A x \in Hashes \ {h} : commits'[x] = commits[x] \/ commits'[x] = NoCommit
    BY CommitEffect DEF EInv
<1> USE <1>1 DEF clockVars, ownerVars, bondVars, bountyVars, freezeVars, incidentVars, refundVars
<1>3. TypeOK'
    BY <1>2 DEF EInv, TypeOK
<1>4. CommitBook'
    <2>1. now \in Nat /\ CommitBook /\ commitSeq \in Nat /\ commitSeq' = commitSeq + 1
          /\ \A x \in Hashes : commits[x].seq \in Nat
        BY <1>1 DEF EInv, TypeOK, Commits
    <2>2. ASSUME NEW x \in Hashes
          PROVE  /\ commits'[x].at <= now
                 /\ commits'[x].seq <= commitSeq'
                 /\ noticeAt # 0 /\ commits'[x].committer # None
                       => commits'[x].at < noticeAt + NOTICE_PERIOD
        <3>1. CASE x = h
            BY <1>2, <2>1, <3>1
        <3>2. CASE x # h /\ commits'[x] = commits[x]
            BY <2>1, <3>2 DEF CommitBook
        <3>3. CASE x # h /\ commits'[x] = NoCommit
            BY <2>1, <3>3 DEF NoCommit
        <3> QED BY <1>2, <3>1, <3>2, <3>3
    <2> QED BY <2>2 DEF CommitBook
<1>5. Solvent' /\ RefundBook'
    BY FrameSolvent, FrameRefunds DEF EInv
<1>6. CountersAgree' /\ FreezeBook'
    BY FrameCounters, FrameFreeze DEF EInv
<1>7. BountyBook' /\ BountyIsEarliest'
    BY FrameBounties DEF EInv
<1> QED BY <1>3, <1>4, <1>5, <1>6, <1>7 DEF EInv

-----------------------------------------------------------------------------
(* Payouts *)

\* A credit is paid out of the balance.
LEMMA ClaimStep ==
    ASSUME EInv, NEW a \in Accounts, Claim(a)
    PROVE  EInv'
<1>1. /\ credits[a] <= balance
      /\ balance' = balance - credits[a]
      /\ credits' = [credits EXCEPT ![a] = 0]
      /\ UNCHANGED <<bountiesPaid, pendingBounties, bounties, contest, disclosed, bondAccounted,
                     funded, clockVars, ownerVars, freezeVars, commitVars, incidentVars, refundVars>>
    BY DEF Claim
<1> USE DEF clockVars, ownerVars, freezeVars, commitVars, incidentVars, refundVars
<1>2. credits \in [Accounts -> Nat] /\ credits' \in [Accounts -> Nat] /\ balance' \in Nat
    BY <1>1 DEF EInv, TypeOK
<1>3. TypeOK'
    BY <1>1, <1>2 DEF EInv, TypeOK
<1>4. Solvent'
    <2>1. /\ Sum(credits, Accounts) \in Nat /\ Sum(OwedBy, Epochs) \in Nat
          /\ balance = bondAccounted + Sum(credits, Accounts) + Sum(OwedBy, Epochs)
        BY SumTypes DEF EInv
    <2>2. credits'[a] = 0 /\ \A x \in Accounts \ {a} : credits'[x] = credits[x]
        BY <1>1, <1>2
    <2>3. Sum(credits', Accounts) + credits[a] = Sum(credits, Accounts) + credits'[a]
        BY <1>2, <2>2, EscrowAssumption, SumUpdate
    <2>4. Sum(credits', Accounts) \in Nat
        BY <1>2, EscrowAssumption, SumType
    <2>5. credits[a] \in Nat
        BY <1>2
    <2>6. bondAccounted \in Nat
        BY DEF EInv, TypeOK
    <2>7. balance' = bondAccounted + Sum(credits', Accounts) + Sum(OwedBy, Epochs)
        BY <1>1, <2>1, <2>2, <2>3, <2>4, <2>5, <2>6
    <2> QED BY <1>1, <2>7 DEF EInv, Solvent, OwedBy, Owed
<1>5. RefundBook' /\ CountersAgree' /\ FreezeBook'
    BY <1>1, FrameRefunds, FrameCounters, FrameFreeze DEF EInv
<1>6. BountyBook' /\ BountyIsEarliest' /\ CommitBook'
    BY <1>1, FrameBounties, FrameCommits DEF EInv
<1> QED BY <1>3, <1>4, <1>5, <1>6 DEF EInv

\* A refund is paid its share: the books of its own incident go down by the
\* share and by the amount, and the bound between them survives the rounding.
LEMMA ClaimRefundStep ==
    ASSUME EInv, NEW leaf \in Leaves, ClaimRefund(leaf)
    PROVE  EInv'
<1> DEFINE r == refunds[leaf]
<1>0. r.status = "registered" /\ incidents[r.epoch].status = "settled"
    BY DEF ClaimRefund
<1>1. PICK e \in Epochs, s \in Nat, amt \in Nat :
         /\ e = r.epoch /\ s = Share(r) /\ amt = r.amount
         /\ Owed(e) \in Nat /\ s <= Owed(e)
         /\ Sum(UnpaidOf(e), Leaves) - amt \in Nat
         /\ (Sum(UnpaidOf(e), Leaves) - amt) * incidents[e].pool
               <= incidents[e].requested * (Owed(e) - s)
    <2>1. r.amount \in Nat
        BY DEF EInv, TypeOK, Refunds
    <2> QED BY <1>0, <2>1, CoveredByBook DEF EInv
<1>2. /\ r.status = "registered" /\ incidents[e].status = "settled"
      /\ refunds' = [refunds EXCEPT ![leaf].status = "paid"]
      /\ paidOut' = [paidOut EXCEPT ![e] = @ + s]
      /\ s <= balance
      /\ balance' = balance - s
      /\ UNCHANGED <<bondAccounted, funded, clockVars, ownerVars, bountyVars, freezeVars,
                     commitVars, incidentVars>>
    BY <1>1 DEF ClaimRefund
<1> USE DEF clockVars, ownerVars, bountyVars, freezeVars, commitVars, incidentVars
<1>3. /\ refunds \in [Leaves -> Refunds] /\ refunds' \in [Leaves -> Refunds]
      /\ paidOut \in [Epochs -> Nat] /\ paidOut' \in [Epochs -> Nat]
      /\ balance' \in Nat
    <2>1. refunds \in [Leaves -> Refunds] /\ paidOut \in [Epochs -> Nat] /\ balance \in Nat
        BY DEF EInv, TypeOK
    <2>2. [r EXCEPT !.status = "paid"] \in Refunds
        BY <2>1 DEF Refunds
    <2>3. refunds' \in [Leaves -> Refunds]
        BY <1>2, <2>1, <2>2
    <2> QED BY <1>2, <2>1, <2>3
<1>4. TypeOK'
    BY <1>2, <1>3 DEF EInv, TypeOK
<1>5. /\ \A x \in Epochs \ {e} : paidOut'[x] = paidOut[x]
      /\ paidOut'[e] = paidOut[e] + s
    BY <1>2, <1>3
<1>6. /\ \A x \in Epochs : Owed(x)' = incidents[x].pool - paidOut'[x]
      /\ \A x \in Epochs \ {e} : Owed(x)' = Owed(x)
      /\ \A x \in Epochs : incidents[x].pool \in Nat
    BY <1>2, <1>5 DEF Owed, EInv, TypeOK, Incidents
<1>7. Owed(e)' = Owed(e) - s /\ Owed(e)' \in Nat
    <2>1. paidOut[e] \in Nat
        BY <1>3
    <2> QED BY <1>1, <1>5, <1>6, <2>1 DEF Owed
<1>8. Solvent'
    <2>1. /\ Sum(credits, Accounts) \in Nat /\ Sum(OwedBy, Epochs) \in Nat
          /\ balance = bondAccounted + Sum(credits, Accounts) + Sum(OwedBy, Epochs)
          /\ \A x \in Epochs : Owed(x) \in Nat
        BY SumTypes DEF EInv
    <2>2. /\ Sum(OwedBy', Epochs) \in Nat
          /\ Sum(OwedBy', Epochs) + Owed(e) = Sum(OwedBy, Epochs) + Owed(e)'
        BY <1>6, <1>7, <2>1, OwedUpdate
    <2>3. bondAccounted \in Nat
        BY DEF EInv, TypeOK
    <2>6. balance' = bondAccounted + Sum(credits, Accounts) + Sum(OwedBy', Epochs)
        BY <1>1, <1>2, <1>7, <2>1, <2>2, <2>3
    <2>7. ASSUME NEW x \in Epochs PROVE paidOut'[x] <= incidents[x].pool
        <3>1. CASE x = e
            <4>1. paidOut'[e] \in Nat
                BY <1>3
            <4> QED BY <1>6, <1>7, <3>1, <4>1
        <3>2. CASE x # e
            BY <1>5, <3>2 DEF EInv, Solvent
        <3> QED BY <3>1, <3>2
    <2> QED BY <1>2, <2>6, <2>7 DEF Solvent, OwedBy
<1>9. RefundBook'
    <2>1. \A x \in Epochs \ {e} : \A l \in Leaves : UnpaidOf(x)'[l] = UnpaidOf(x)[l]
        BY <1>1, <1>2, <1>3 DEF UnpaidOf
    <2>2. \A x \in Epochs \ {e} : Sum(UnpaidOf(x)', Leaves) = Sum(UnpaidOf(x), Leaves)
        BY <2>1, SumSame
    <2>3. Sum(UnpaidOf(e)', Leaves) = Sum(UnpaidOf(e), Leaves) - amt
        <3>1. \A l \in Leaves \ {leaf} : UnpaidOf(e)'[l] = UnpaidOf(e)[l]
            BY <1>1, <1>2, <1>3 DEF UnpaidOf
        <3>2. UnpaidOf(e)[leaf] = amt /\ UnpaidOf(e)'[leaf] = 0
            BY <1>1, <1>2, <1>3 DEF UnpaidOf
        <3>3. \A l \in Leaves : UnpaidOf(e)[l] \in Nat /\ UnpaidOf(e)'[l] \in Nat
            BY <1>3 DEF UnpaidOf, Refunds
        <3>4. Sum(UnpaidOf(e)', Leaves) + UnpaidOf(e)[leaf] = Sum(UnpaidOf(e), Leaves) + UnpaidOf(e)'[leaf]
            BY <3>1, <3>3, EscrowAssumption, SumUpdate
        <3>5. Sum(UnpaidOf(e)', Leaves) \in Nat /\ Sum(UnpaidOf(e), Leaves) \in Nat
            BY <3>3, EscrowAssumption, SumType
        <3> QED BY <3>2, <3>4, <3>5
    <2>4. ASSUME NEW x \in Epochs
          PROVE  /\ incidents'[x].status # "settled"
                       => /\ incidents'[x].pool = 0
                          /\ paidOut'[x] = 0
                          /\ Sum(UnpaidOf(x)', Leaves) = incidents'[x].requested
                 /\ incidents'[x].status = "none" => incidents'[x].requested = 0
                 /\ incidents'[x].status = "settled"
                       => /\ paidOut'[x] <= incidents'[x].pool
                          /\ Sum(UnpaidOf(x)', Leaves) * incidents'[x].pool
                                <= incidents'[x].requested * Owed(x)'
        <3>1. CASE x = e
            BY <1>1, <1>2, <1>7, <1>8, <2>3, <3>1 DEF Solvent
        <3>2. CASE x # e
            BY <1>2, <1>5, <1>6, <2>2, <3>2 DEF EInv, RefundBook
        <3> QED BY <3>1, <3>2
    <2>5. \A l \in Leaves : refunds'[l].status = "registered" => refunds'[l].epoch \in Epochs
        BY <1>2, <1>3 DEF EInv, RefundBook
    <2> QED BY <2>4, <2>5 DEF RefundBook
<1>10. CountersAgree' /\ FreezeBook'
    BY <1>2, FrameCounters, FrameFreeze DEF EInv
<1>11. BountyBook' /\ BountyIsEarliest' /\ CommitBook'
    BY <1>2, FrameBounties, FrameCommits DEF EInv
<1> QED BY <1>4, <1>8, <1>9, <1>10, <1>11 DEF EInv

-----------------------------------------------------------------------------
(* The counters *)

\* The part of CountersAgree about the incidents.
OpenBook ==
    LET Open == {e \in Epochs : incidents[e].status = "open"} IN
    /\ openIncidents = Cardinality(Open)
    /\ openIncidents <= 1
    /\ openRequested = Sum([e \in Epochs |-> incidents[e].requested], Open)

\* The bounties with a reveal and no decision, and their counter.
Pending == {e \in Epochs : bounties[e].first # 0 /\ ~bounties[e].finalized}

PendingBook == pendingBounties = Cardinality(Pending)

\* The counters are these two books.
LEMMA CountersAreBooks ==
    /\ CountersAgree <=> OpenBook /\ PendingBook
    /\ CountersAgree' <=> OpenBook' /\ PendingBook'
<1>1. CountersAgree <=> OpenBook /\ PendingBook
    BY DEF CountersAgree, OpenBook, PendingBook, Pending
<1>2. CountersAgree' <=> OpenBook' /\ PendingBook'
    BY DEF CountersAgree, OpenBook, PendingBook, Pending
<1> QED BY <1>1, <1>2

\* The books of a state without an open incident are empty.
LEMMA NoneOpenAfter ==
    ASSUME \A x \in Epochs : incidents'[x].status # "open", openIncidents' = 0, openRequested' = 0
    PROVE  OpenBook'
<1> DEFINE O == {x \in Epochs : incidents'[x].status = "open"}
           f == [x \in Epochs |-> incidents'[x].requested]
<1>1. O = {}
    OBVIOUS
<1>2. Cardinality(O) = 0
    BY <1>1, FS_EmptySet
<1>3. Sum(f, O) = 0
    <2> HIDE DEF f, O
    <2> QED BY <1>1, SumZero
<1> QED BY <1>2, <1>3 DEF OpenBook

\* The books of a state with one open incident are that incident's.
LEMMA OneOpenAfter ==
    ASSUME NEW e \in Epochs,
           \A x \in Epochs : incidents'[x].status = "open" <=> x = e,
           openIncidents' = 1, openRequested' = incidents'[e].requested,
           incidents'[e].requested \in Nat
    PROVE  OpenBook'
<1> DEFINE O == {x \in Epochs : incidents'[x].status = "open"}
           f == [x \in Epochs |-> incidents'[x].requested]
<1>1. O = {e}
    OBVIOUS
<1>2. Cardinality(O) = 1
    BY <1>1, FS_Singleton
<1>3. f[e] = incidents'[e].requested
    OBVIOUS
<1>4. Sum(f, O) = f[e]
    <2>1. f[e] \in Nat
        BY <1>3
    <2> HIDE DEF f, O
    <2>2. Sum(f, {e}) = Sum(f, {e} \ {e}) + f[e]
        BY <2>1, FS_Singleton, SumSplit
    <2>3. Sum(f, {e} \ {e}) = 0
        BY SumZero
    <2> QED BY <1>1, <2>1, <2>2, <2>3
<1> QED BY <1>2, <1>3, <1>4 DEF OpenBook

\* The pending bounties are finitely many.
LEMMA PendingFinite ==
    ASSUME TypeOK, CountersAgree
    PROVE  IsFiniteSet(Pending) /\ Cardinality(Pending) \in Nat /\ pendingBounties = Cardinality(Pending)
<1>1. IsFiniteSet(Pending)
    BY EscrowAssumption, FS_Subset DEF Pending
<1> QED BY <1>1, FS_CardinalityType, CountersAreBooks DEF PendingBook

\* An incident settles after its freeze: the pool leaves the bond, and what
\* is owed is all of it.
LEMMA SettleStep ==
    ASSUME EInv, NEW e \in Epochs, Settle(e)
    PROVE  EInv'
<1>1. PICK pool \in Nat : /\ pool <= incidents[e].requested /\ pool <= bondAccounted
                          /\ incidents' = [incidents EXCEPT ![e].status = "settled", ![e].pool = pool]
                          /\ bondAccounted' = bondAccounted - pool
    <2>1. Min2(incidents[e].requested, bondAccounted) \in Nat
          /\ Min2(incidents[e].requested, bondAccounted) <= incidents[e].requested
          /\ Min2(incidents[e].requested, bondAccounted) <= bondAccounted
        BY DEF EInv, TypeOK, Incidents, Min2
    <2> QED BY <2>1 DEF Settle, SettleIncident
<1>2. /\ incidents[e].status = "open" /\ now > incidents[e].closeAt
      /\ openIncidents' = openIncidents - 1
      /\ openRequested' = openRequested - incidents[e].requested
      /\ UNCHANGED <<balance, funded, evidenceSeen, clockVars, ownerVars, bountyVars,
                     freezeVars, commitVars, refundVars>>
    BY DEF Settle, SettleIncident
<1> USE DEF clockVars, ownerVars, bountyVars, freezeVars, commitVars, refundVars
<1>3. /\ openIncidents = 1 /\ openRequested = incidents[e].requested
      /\ \A x \in Epochs : incidents[x].status = "open" => x = e
    BY <1>2, OpenFacts DEF EInv
<1>4. /\ incidents \in [Epochs -> Incidents] /\ incidents' \in [Epochs -> Incidents]
      /\ incidents'[e].status = "settled" /\ incidents'[e].pool = pool
      /\ incidents'[e].requested = incidents[e].requested
      /\ \A x \in Epochs \ {e} : incidents'[x] = incidents[x]
      /\ incidents[e].requested \in Nat
    <2>1. incidents \in [Epochs -> Incidents]
        BY DEF EInv, TypeOK
    <2>2. [incidents[e] EXCEPT !.status = "settled", !.pool = pool] \in Incidents
        BY <2>1 DEF Incidents
    <2> QED BY <1>1, <2>1, <2>2 DEF Incidents
<1>5. openIncidents' = 0 /\ openRequested' = 0 /\ bondAccounted' \in Nat
    BY <1>1, <1>2, <1>3, <1>4 DEF EInv, TypeOK
<1>6. TypeOK'
    BY <1>2, <1>4, <1>5 DEF EInv, TypeOK
<1>7. incidents[e].pool = 0 /\ paidOut[e] = 0 /\ Sum(UnpaidOf(e), Leaves) = incidents[e].requested
    BY <1>2 DEF EInv, RefundBook
<1>8. /\ Owed(e) = 0 /\ Owed(e)' = pool
      /\ \A x \in Epochs \ {e} : Owed(x)' = Owed(x)
    BY <1>2, <1>4, <1>7 DEF Owed
<1>9. Solvent'
    <2>1. /\ Sum(credits, Accounts) \in Nat /\ Sum(OwedBy, Epochs) \in Nat
          /\ balance = bondAccounted + Sum(credits, Accounts) + Sum(OwedBy, Epochs)
          /\ \A x \in Epochs : Owed(x) \in Nat
        BY SumTypes DEF EInv
    <2>2. /\ Sum(OwedBy', Epochs) \in Nat
          /\ Sum(OwedBy', Epochs) + Owed(e) = Sum(OwedBy, Epochs) + Owed(e)'
        BY <1>8, <2>1, OwedUpdate
    <2>3. bondAccounted \in Nat
        BY DEF EInv, TypeOK
    <2>4. balance = bondAccounted' + Sum(credits, Accounts) + Sum(OwedBy', Epochs)
        BY <1>1, <1>8, <2>1, <2>2, <2>3
    <2>5. \A x \in Epochs : paidOut[x] <= incidents'[x].pool
        BY <1>4, <1>7 DEF EInv, Solvent
    <2> QED BY <1>2, <2>4, <2>5 DEF Solvent, OwedBy
<1>10. RefundBook'
    <2>1. \A x \in Epochs : UnpaidOf(x)' = UnpaidOf(x)
        BY <1>2 DEF UnpaidOf
    <2>2. ASSUME NEW x \in Epochs
          PROVE  /\ incidents'[x].status # "settled"
                       => /\ incidents'[x].pool = 0
                          /\ paidOut'[x] = 0
                          /\ Sum(UnpaidOf(x)', Leaves) = incidents'[x].requested
                 /\ incidents'[x].status = "none" => incidents'[x].requested = 0
                 /\ incidents'[x].status = "settled"
                       => /\ paidOut'[x] <= incidents'[x].pool
                          /\ Sum(UnpaidOf(x)', Leaves) * incidents'[x].pool
                                <= incidents'[x].requested * Owed(x)'
        <3>1. CASE x = e
            <4>1. incidents[e].requested * pool \in Int
                BY <1>4, SMT
            <4>2. incidents[e].requested * pool <= incidents[e].requested * pool
                BY <4>1
            <4> QED BY <1>2, <1>4, <1>7, <1>8, <2>1, <3>1, <4>2
        <3>2. CASE x # e
            BY <1>2, <1>4, <1>8, <2>1, <3>2 DEF EInv, RefundBook
        <3> QED BY <3>1, <3>2
    <2> QED BY <1>2, <2>2 DEF EInv, RefundBook
<1>11. CountersAgree'
    <2>1. \A x \in Epochs : incidents'[x].status # "open"
        BY <1>3, <1>4
    <2>2. OpenBook'
        BY <1>5, <2>1, NoneOpenAfter
    <2>3. PendingBook'
        BY <1>2, CountersAreBooks DEF EInv, PendingBook, Pending
    <2> QED BY <2>2, <2>3, CountersAreBooks
<1>12. FreezeBook'
    <2>1. ~(now < freezeUntil)
        <3>1. now \in Nat /\ freezeUntil \in Nat /\ incidents[e].closeAt \in Nat
            BY <1>4 DEF EInv, TypeOK, Incidents
        <3>2. now < freezeUntil => freezeUntil <= incidents[e].closeAt
            BY <1>3 DEF EInv, FreezeBook
        <3> QED BY <1>2, <3>1, <3>2
    <2> QED BY <1>2, <2>1 DEF EInv, FreezeBook
<1>13. BountyBook' /\ BountyIsEarliest' /\ CommitBook'
    BY <1>2, FrameBounties, FrameCommits DEF EInv
<1> QED BY <1>6, <1>9, <1>10, <1>11, <1>12, <1>13 DEF EInv

\* A refund is registered with the open incident, which owes nothing yet.
LEMMA RegisterRefundStep ==
    ASSUME EInv, NEW k \in Evidence, NEW leaf \in Leaves, NEW payer \in Payers,
           NEW claimed \in Amounts, RegisterRefund(k, leaf, payer, claimed)
    PROVE  EInv'
<1>1. PICK e \in Epochs, amount \in Nat :
         /\ incidents[e].status = "open"
         /\ refunds[leaf].status = "none"
         /\ refunds' = [refunds EXCEPT ![leaf] =
                           [status |-> "registered", payer |-> payer, amount |-> amount,
                            epoch |-> e]]
         /\ incidents' = [incidents EXCEPT ![e].requested = @ + amount]
         /\ openRequested' = openRequested + amount
    <2>1. EpochOf[k] \in Epochs /\ claimed \in Nat
        BY EscrowAssumption
    <2>2. Min2(claimed, REFUND_CAP) \in Nat
        BY <2>1, ConstantTypes DEF Min2
    <2> QED BY <2>1, <2>2 DEF RegisterRefund
<1>2. UNCHANGED <<openIncidents, evidenceSeen, paidOut, clockVars, ownerVars, bondVars,
                  bountyVars, freezeVars, commitVars>>
    BY DEF RegisterRefund
<1> USE DEF clockVars, ownerVars, bondVars, bountyVars, freezeVars, commitVars
<1>3. /\ openIncidents = 1 /\ openRequested = incidents[e].requested
      /\ \A x \in Epochs : incidents[x].status = "open" => x = e
    BY <1>1, OpenFacts DEF EInv
<1>4. /\ incidents \in [Epochs -> Incidents] /\ incidents' \in [Epochs -> Incidents]
      /\ incidents'[e].status = incidents[e].status /\ incidents'[e].pool = incidents[e].pool
      /\ incidents'[e].closeAt = incidents[e].closeAt
      /\ incidents'[e].requested = incidents[e].requested + amount
      /\ \A x \in Epochs \ {e} : incidents'[x] = incidents[x]
      /\ incidents[e].requested \in Nat
    <2>1. incidents \in [Epochs -> Incidents]
        BY DEF EInv, TypeOK
    <2>2. [incidents[e] EXCEPT !.requested = @ + amount] \in Incidents
        BY <2>1 DEF Incidents
    <2> QED BY <1>1, <2>1, <2>2 DEF Incidents
<1>5. /\ refunds \in [Leaves -> Refunds] /\ refunds' \in [Leaves -> Refunds]
      /\ refunds'[leaf] = [status |-> "registered", payer |-> payer, amount |-> amount, epoch |-> e]
      /\ \A l \in Leaves \ {leaf} : refunds'[l] = refunds[l]
    <2>1. refunds \in [Leaves -> Refunds]
        BY DEF EInv, TypeOK
    <2>2. [status |-> "registered", payer |-> payer, amount |-> amount, epoch |-> e] \in Refunds
        BY EscrowAssumption DEF Refunds
    <2> QED BY <1>1, <2>1, <2>2
<1>6. openRequested' \in Nat
    BY <1>1 DEF EInv, TypeOK
<1>7. TypeOK'
    BY <1>2, <1>4, <1>5, <1>6 DEF EInv, TypeOK
<1>8. \A x \in Epochs : Owed(x)' = Owed(x) /\ incidents'[x].pool = incidents[x].pool
    BY <1>2, <1>4 DEF Owed
<1>9. Solvent'
    <2>1. OwedBy' = OwedBy
        BY <1>8 DEF OwedBy
    <2> QED BY <1>2, <1>8, <2>1 DEF EInv, Solvent, OwedBy
<1>10. RefundBook'
    <2>1. \A x \in Epochs \ {e} : \A l \in Leaves : UnpaidOf(x)'[l] = UnpaidOf(x)[l]
        BY <1>1, <1>5 DEF UnpaidOf
    <2>2. \A x \in Epochs \ {e} : Sum(UnpaidOf(x)', Leaves) = Sum(UnpaidOf(x), Leaves)
        BY <2>1, SumSame
    <2>3. Sum(UnpaidOf(e)', Leaves) = Sum(UnpaidOf(e), Leaves) + amount
        <3>1. \A l \in Leaves \ {leaf} : UnpaidOf(e)'[l] = UnpaidOf(e)[l]
            BY <1>5 DEF UnpaidOf
        <3>2. UnpaidOf(e)[leaf] = 0 /\ UnpaidOf(e)'[leaf] = amount
            BY <1>1, <1>5 DEF UnpaidOf
        <3>3. \A l \in Leaves : UnpaidOf(e)[l] \in Nat /\ UnpaidOf(e)'[l] \in Nat
            BY <1>5 DEF UnpaidOf, Refunds
        <3>4. Sum(UnpaidOf(e)', Leaves) + UnpaidOf(e)[leaf]
                 = Sum(UnpaidOf(e), Leaves) + UnpaidOf(e)'[leaf]
            BY <3>1, <3>3, EscrowAssumption, SumUpdate
        <3>5. Sum(UnpaidOf(e)', Leaves) \in Nat /\ Sum(UnpaidOf(e), Leaves) \in Nat
            BY <3>3, EscrowAssumption, SumType
        <3> QED BY <3>2, <3>4, <3>5
    <2>4. ASSUME NEW x \in Epochs
          PROVE  /\ incidents'[x].status # "settled"
                       => /\ incidents'[x].pool = 0
                          /\ paidOut'[x] = 0
                          /\ Sum(UnpaidOf(x)', Leaves) = incidents'[x].requested
                 /\ incidents'[x].status = "none" => incidents'[x].requested = 0
                 /\ incidents'[x].status = "settled"
                       => /\ paidOut'[x] <= incidents'[x].pool
                          /\ Sum(UnpaidOf(x)', Leaves) * incidents'[x].pool
                                <= incidents'[x].requested * Owed(x)'
        <3>1. CASE x = e
            BY <1>1, <1>2, <1>4, <2>3, <3>1 DEF EInv, RefundBook
        <3>2. CASE x # e
            BY <1>2, <1>4, <1>8, <2>2, <3>2 DEF EInv, RefundBook
        <3> QED BY <3>1, <3>2
    <2>5. \A l \in Leaves : refunds'[l].status = "registered" => refunds'[l].epoch \in Epochs
        BY <1>5 DEF EInv, RefundBook
    <2> QED BY <2>4, <2>5 DEF RefundBook
<1>11. CountersAgree'
    <2>1. \A x \in Epochs : incidents'[x].status = "open" <=> x = e
        BY <1>1, <1>3, <1>4
    <2>2. OpenBook'
        BY <1>1, <1>2, <1>3, <1>4, <2>1, OneOpenAfter
    <2>3. PendingBook'
        BY <1>2, CountersAreBooks DEF EInv, PendingBook, Pending
    <2> QED BY <2>2, <2>3, CountersAreBooks
<1>12. FreezeBook'
    <2>1. \A x \in Epochs : /\ incidents'[x].status = incidents[x].status
                            /\ incidents'[x].closeAt = incidents[x].closeAt
        BY <1>4
    <2> QED BY <1>2, <2>1 DEF EInv, FreezeBook
<1>13. BountyBook' /\ BountyIsEarliest' /\ CommitBook'
    BY <1>2, FrameBounties, FrameCommits DEF EInv
<1> QED BY <1>7, <1>9, <1>10, <1>11, <1>12, <1>13 DEF EInv

-----------------------------------------------------------------------------
(* Bounties *)

\* A bounty is paid out of the bond, within the cap, to an account.
LEMMA FinalizeEffect ==
    ASSUME EInv, NEW e \in Epochs, FinalizeBounty(e)
    PROVE  \E amount \in Nat, payTo \in Accounts :
              /\ amount = BOUNTY \/ amount = 0
              /\ amount <= bondAccounted
              /\ bountiesPaid + amount <= BOUNTY_CAP
              /\ bountiesPaid' = bountiesPaid + amount
              /\ bondAccounted' = bondAccounted - amount
              /\ credits' = [credits EXCEPT ![payTo] = @ + amount]
<1> DEFINE amount == IF /\ bountiesPaid + BOUNTY <= BOUNTY_CAP
                        /\ bondAccounted >= openRequested + BOUNTY
                     THEN BOUNTY ELSE 0
<1>1. /\ bounties[e].first # 0
      /\ bountiesPaid' = bountiesPaid + amount
      /\ bondAccounted' = bondAccounted - amount
      /\ credits' = [credits EXCEPT ![bounties[e].payTo] = @ + amount]
    BY DEF FinalizeBounty
<1>2. bounties[e].payTo \in Accounts
    <2>1. <<bounties[e].seq, bounties[e].payTo>> \in contest[e]
        BY <1>1 DEF EInv, BountyIsEarliest
    <2>2. contest[e] \subseteq Nat \X Accounts
        BY DEF EInv, TypeOK
    <2> QED BY <2>1, <2>2
<1>3. /\ amount \in Nat /\ amount <= bondAccounted /\ bountiesPaid + amount <= BOUNTY_CAP
      /\ amount = BOUNTY \/ amount = 0
    BY ConstantTypes DEF EInv, TypeOK, FreezeBook
<1> HIDE DEF amount
<1> QED BY <1>1, <1>2, <1>3

\* The bounty that is decided leaves the pending ones, and its credit the bond.
LEMMA FinalizeStep ==
    ASSUME EInv, NEW e \in Epochs, FinalizeBounty(e)
    PROVE  EInv'
<1>1. PICK amount \in Nat, payTo \in Accounts :
              /\ amount <= bondAccounted
              /\ bountiesPaid + amount <= BOUNTY_CAP
              /\ bountiesPaid' = bountiesPaid + amount
              /\ bondAccounted' = bondAccounted - amount
              /\ credits' = [credits EXCEPT ![payTo] = @ + amount]
    BY FinalizeEffect
<1>2. /\ bounties[e].first # 0 /\ ~bounties[e].finalized
      /\ now >= bounties[e].first + CONTEST_WINDOW
      /\ bounties' = [bounties EXCEPT ![e].finalized = TRUE]
      /\ pendingBounties' = pendingBounties - 1
      /\ UNCHANGED <<contest, disclosed, balance, funded, clockVars, ownerVars, freezeVars,
                     commitVars, incidentVars, refundVars>>
    BY DEF FinalizeBounty
<1> USE DEF clockVars, ownerVars, freezeVars, commitVars, incidentVars, refundVars
<1>3. /\ bounties \in [Epochs -> Bounties] /\ bounties' \in [Epochs -> Bounties]
      /\ bounties'[e] = [bounties[e] EXCEPT !.finalized = TRUE]
      /\ \A x \in Epochs \ {e} : bounties'[x] = bounties[x]
    <2>1. bounties \in [Epochs -> Bounties]
        BY DEF EInv, TypeOK
    <2>2. [bounties[e] EXCEPT !.finalized = TRUE] \in Bounties
        BY <2>1 DEF Bounties
    <2> QED BY <1>2, <2>1, <2>2
<1>4. /\ bounties'[e].first = bounties[e].first /\ bounties'[e].seq = bounties[e].seq
      /\ bounties'[e].payTo = bounties[e].payTo /\ bounties'[e].finalized = TRUE
    BY <1>3 DEF Bounties
<1>5. pendingBounties' \in Nat /\ PendingBook'
    <2>1. IsFiniteSet(Pending) /\ Cardinality(Pending) \in Nat /\ pendingBounties = Cardinality(Pending)
        BY PendingFinite DEF EInv
    <2>2. e \in Pending /\ Pending' = Pending \ {e}
        BY <1>2, <1>3, <1>4 DEF Pending
    <2>3. IsFiniteSet(Pending \ {e}) /\ Cardinality(Pending \ {e}) = Cardinality(Pending) - 1
        BY <2>1, <2>2, FS_RemoveElement
    <2>4. Cardinality(Pending \ {e}) \in Nat
        BY <2>3, FS_CardinalityType
    <2> QED BY <1>2, <2>1, <2>2, <2>3, <2>4 DEF PendingBook
<1>6. /\ credits \in [Accounts -> Nat] /\ credits' \in [Accounts -> Nat]
      /\ bountiesPaid' \in Nat /\ bondAccounted' \in Nat /\ bondAccounted \in Nat
    BY <1>1 DEF EInv, TypeOK
<1>7. TypeOK'
    BY <1>2, <1>3, <1>5, <1>6 DEF EInv, TypeOK
<1>8. Solvent'
    <2>1. /\ Sum(credits, Accounts) \in Nat /\ Sum(OwedBy, Epochs) \in Nat
          /\ balance = bondAccounted + Sum(credits, Accounts) + Sum(OwedBy, Epochs)
        BY SumTypes DEF EInv
    <2>2. credits'[payTo] = credits[payTo] + amount
          /\ \A x \in Accounts \ {payTo} : credits'[x] = credits[x]
        BY <1>1, <1>6
    <2>3. Sum(credits', Accounts) + credits[payTo] = Sum(credits, Accounts) + credits'[payTo]
        BY <1>6, <2>2, EscrowAssumption, SumUpdate
    <2>4. Sum(credits', Accounts) \in Nat
        BY <1>6, EscrowAssumption, SumType
    <2>5. credits[payTo] \in Nat
        BY <1>6
    <2>6. balance = bondAccounted' + Sum(credits', Accounts) + Sum(OwedBy, Epochs)
        BY <1>1, <1>6, <2>1, <2>2, <2>3, <2>4, <2>5
    <2> QED BY <1>2, <2>6 DEF EInv, Solvent, OwedBy, Owed
<1>9. CountersAgree'
    <2>1. OpenBook'
        BY <1>2, CountersAreBooks DEF EInv, OpenBook
    <2> QED BY <1>5, <2>1, CountersAreBooks
<1>10. FreezeBook'
    BY <1>1, <1>2 DEF EInv, FreezeBook
<1>11. BountyBook' /\ BountyIsEarliest'
    <2>1. \A x \in Epochs : /\ bounties'[x].first = bounties[x].first
                            /\ bounties'[x].seq = bounties[x].seq
                            /\ bounties'[x].payTo = bounties[x].payTo
                            /\ x # e => bounties'[x].finalized = bounties[x].finalized
        BY <1>3, <1>4
    <2>2. BountyBook'
        BY <1>2, <2>1 DEF EInv, BountyBook
    <2>3. BountyIsEarliest'
        BY <1>2, <2>1 DEF EInv, BountyIsEarliest
    <2> QED BY <2>2, <2>3
<1>12. RefundBook' /\ CommitBook'
    BY <1>2, FrameRefunds, FrameCommits DEF EInv
<1> QED BY <1>7, <1>8, <1>9, <1>10, <1>11, <1>12 DEF EInv

-----------------------------------------------------------------------------
(* Reveals *)

\* What both kinds of reveal do to the incident: the parts of the invariant
\* about incidents and the freeze.
LEMMA RevealIncident ==
    ASSUME EInv, NEW e \in Epochs, OpenIncident(e) \/ JoinIncident(e),
           UNCHANGED <<openRequested, credits, bountiesPaid, clockVars, bondVars, refundVars>>
    PROVE  /\ incidents' \in [Epochs -> Incidents]
           /\ openIncidents' \in Nat /\ freezeUntil' \in Nat /\ frozenUsed' \in Nat
           /\ Solvent'
           /\ RefundBook'
           /\ OpenBook'
           /\ FreezeBook'
<1> USE DEF clockVars, bondVars, refundVars, freezeVars
<1>1. CASE JoinIncident(e)
    <2>1. UNCHANGED <<incidents, openIncidents, freezeVars>>
        BY <1>1 DEF JoinIncident
    <2>2. Solvent' /\ RefundBook' /\ FreezeBook'
        BY <2>1, FrameSolvent, FrameRefunds, FrameFreeze DEF EInv
    <2>3. OpenBook'
        BY <2>1, CountersAreBooks DEF EInv, OpenBook
    <2> QED BY <2>1, <2>2, <2>3 DEF EInv, TypeOK
<1>2. CASE OpenIncident(e)
    <2>1. PICK d \in Nat : /\ d <= CLAIM_WINDOW /\ frozenUsed + d <= FREEZE_CAP
                           /\ freezeUntil' = IF d = 0 THEN freezeUntil ELSE now + d
                           /\ frozenUsed' = frozenUsed + d
        <3>1. /\ Min2(FREEZE_CAP - frozenUsed, CLAIM_WINDOW) \in Nat
              /\ Min2(FREEZE_CAP - frozenUsed, CLAIM_WINDOW) <= CLAIM_WINDOW
              /\ frozenUsed + Min2(FREEZE_CAP - frozenUsed, CLAIM_WINDOW) <= FREEZE_CAP
            BY ConstantTypes DEF Min2, EInv, TypeOK, FreezeBook
        <3> QED BY <1>2, <3>1 DEF OpenIncident
    <2> DEFINE new == [status |-> "open", closeAt |-> now + CLAIM_WINDOW,
                       requested |-> 0, pool |-> 0]
    <2>2. /\ incidents[e].status = "none" /\ openIncidents = 0 /\ openIncidents' = 1
          /\ incidents' = [incidents EXCEPT ![e] = new]
        BY <1>2 DEF OpenIncident
    <2>3. now \in Nat /\ freezeUntil \in Nat /\ frozenUsed \in Nat /\ frozenTime \in Nat
        BY DEF EInv, TypeOK
    <2>4. /\ incidents \in [Epochs -> Incidents] /\ incidents' \in [Epochs -> Incidents]
          /\ incidents'[e] = new /\ \A x \in Epochs \ {e} : incidents'[x] = incidents[x]
        <3>1. incidents \in [Epochs -> Incidents] /\ new \in Incidents
            BY <2>3, ConstantTypes DEF EInv, TypeOK, Incidents
        <3> QED BY <2>2, <3>1
    <2>5. /\ incidents[e].pool = 0 /\ paidOut[e] = 0 /\ incidents[e].requested = 0
          /\ Sum(UnpaidOf(e), Leaves) = 0
        BY <2>2 DEF EInv, RefundBook
    <2>6. \A x \in Epochs : Owed(x)' = Owed(x) /\ incidents'[x].pool = incidents[x].pool
        BY <2>4, <2>5 DEF Owed
    <2>7. Solvent'
        <3>1. OwedBy' = OwedBy
            BY <2>6 DEF OwedBy
        <3> QED BY <2>6, <3>1 DEF EInv, Solvent, OwedBy
    <2>8. RefundBook'
        <3>1. \A x \in Epochs : UnpaidOf(x)' = UnpaidOf(x)
            BY DEF UnpaidOf
        <3>2. ASSUME NEW x \in Epochs
              PROVE  /\ incidents'[x].status # "settled"
                           => /\ incidents'[x].pool = 0
                              /\ paidOut'[x] = 0
                              /\ Sum(UnpaidOf(x)', Leaves) = incidents'[x].requested
                     /\ incidents'[x].status = "none" => incidents'[x].requested = 0
                     /\ incidents'[x].status = "settled"
                           => /\ paidOut'[x] <= incidents'[x].pool
                              /\ Sum(UnpaidOf(x)', Leaves) * incidents'[x].pool
                                    <= incidents'[x].requested * Owed(x)'
            <4>1. CASE x = e
                BY <2>4, <2>5, <3>1, <4>1
            <4>2. CASE x # e
                BY <2>4, <2>6, <3>1, <4>2 DEF EInv, RefundBook
            <4> QED BY <4>1, <4>2
        <3> QED BY <3>2 DEF EInv, RefundBook
    <2>9. \A x \in Epochs : incidents[x].status # "open"
        BY <2>2, OpenFacts DEF EInv
    <2>10. OpenBook'
        <3>1. openRequested = 0
            <4>1. {x \in Epochs : incidents[x].status = "open"} = {}
                BY <2>9
            <4>2. openRequested = Sum([x \in Epochs |-> incidents[x].requested], {})
                BY <4>1 DEF EInv, CountersAgree
            <4> QED BY <4>2, SumZero
        <3>2. \A x \in Epochs : incidents'[x].status = "open" <=> x = e
            BY <2>4, <2>9
        <3>3. incidents'[e].requested = 0
            BY <2>4
        <3> QED BY <2>2, <3>1, <3>2, <3>3, OneOpenAfter
    <2>11. FreezeBook'
        <3>1. ~(now < freezeUntil)
            BY <2>9 DEF EInv, FreezeBook
        <3>2. frozenUsed' <= FREEZE_CAP /\ frozenTime <= frozenUsed'
            BY <2>1, <2>3 DEF EInv, FreezeBook
        <3>3. ASSUME now < freezeUntil'
              PROVE  /\ frozenTime + (freezeUntil' - now) <= frozenUsed'
                     /\ incidents'[e].status = "open" /\ freezeUntil' <= incidents'[e].closeAt
            <4>1. freezeUntil' = now + d
                BY <2>1, <3>1, <3>3
            <4>2. frozenTime <= frozenUsed
                BY DEF EInv, FreezeBook
            <4> QED BY <2>1, <2>3, <2>4, <4>1, <4>2, ConstantTypes
        <3> QED BY <3>2, <3>3 DEF EInv, FreezeBook
    <2>12. freezeUntil' \in Nat /\ frozenUsed' \in Nat /\ openIncidents' \in Nat
        BY <2>1, <2>2, <2>3
    <2> QED BY <2>4, <2>7, <2>8, <2>10, <2>11, <2>12
<1> QED BY <1>1, <1>2

\* What a reveal does to the bounty of its epoch.
LEMMA RevealBounty ==
    ASSUME EInv, NEW e \in Epochs, NEW seq \in Nat, NEW payTo \in Accounts,
           bounties' = [bounties EXCEPT ![e] = BestOf(@, seq, payTo)],
           pendingBounties' =
              IF bounties[e].first = 0 /\ ~bounties[e].finalized
              THEN pendingBounties + 1 ELSE pendingBounties,
           contest' =
              IF bounties[e].first = 0 \/ now < bounties[e].first + CONTEST_WINDOW
              THEN [contest EXCEPT ![e] = @ \cup {<<seq, payTo>>}]
              ELSE contest,
           disclosed' = IF bounties[e].first = 0
                        THEN [disclosed EXCEPT ![e] = commitSeq] ELSE disclosed,
           seq <= commitSeq, commitSeq \in Nat, now' = now
    PROVE  /\ bounties' \in [Epochs -> Bounties]
           /\ contest' \in [Epochs -> SUBSET (Nat \X Accounts)]
           /\ disclosed' \in [Epochs -> Nat]
           /\ pendingBounties' \in Nat
           /\ PendingBook'
           /\ BountyBook'
           /\ BountyIsEarliest'
<1> DEFINE b == bounties[e]
           c == BestOf(b, seq, payTo)
<1>1. /\ bounties \in [Epochs -> Bounties] /\ now \in Nat \ {0}
      /\ contest \in [Epochs -> SUBSET (Nat \X Accounts)]
      /\ disclosed \in [Epochs -> Nat]
      /\ b \in Bounties
    BY DEF EInv, TypeOK
<1>2. b.first \in Nat /\ b.seq \in Nat /\ b.payTo \in Accounts \cup {None} /\ b.finalized \in BOOLEAN
    BY <1>1 DEF Bounties
<1>3. /\ b.first = 0 => contest[e] = {} /\ ~b.finalized
      /\ b.finalized => now >= b.first + CONTEST_WINDOW
      /\ b.first # 0 => /\ <<b.seq, b.payTo>> \in contest[e]
                        /\ \A p \in contest[e] : b.seq <= p[1]
                        /\ b.seq <= disclosed[e]
    BY DEF EInv, BountyBook, BountyIsEarliest
<1>4. c \in Bounties /\ c.finalized = b.finalized /\ c.first = IF b.first = 0 THEN now ELSE b.first
    BY <1>1, <1>2, <1>3 DEF BestOf, Bounties
<1>5. /\ bounties' \in [Epochs -> Bounties] /\ bounties'[e] = c
      /\ \A x \in Epochs \ {e} : bounties'[x] = bounties[x]
    <2> HIDE DEF c
    <2> QED BY <1>1, <1>4 DEF c
<1>6. /\ contest' \in [Epochs -> SUBSET (Nat \X Accounts)]
      /\ \A x \in Epochs \ {e} : contest'[x] = contest[x]
      /\ contest'[e] = IF b.first = 0 \/ now < b.first + CONTEST_WINDOW
                       THEN contest[e] \cup {<<seq, payTo>>} ELSE contest[e]
    BY <1>1
<1>7. pendingBounties' \in Nat /\ PendingBook'
    <2>1. IsFiniteSet(Pending) /\ Cardinality(Pending) \in Nat /\ pendingBounties = Cardinality(Pending)
        BY PendingFinite DEF EInv
    <2>2. CASE b.first = 0
        <3>1. e \notin Pending /\ Pending' = Pending \cup {e}
            BY <1>1, <1>3, <1>4, <1>5, <2>2 DEF Pending
        <3>2. Cardinality(Pending \cup {e}) = Cardinality(Pending) + 1
            BY <2>1, <3>1, FS_AddElement
        <3> QED BY <1>3, <2>1, <2>2, <3>1, <3>2 DEF PendingBook
    <2>3. CASE b.first # 0
        <3>1. Pending' = Pending
            BY <1>4, <1>5, <2>3 DEF Pending
        <3> QED BY <2>1, <2>3, <3>1 DEF PendingBook
    <2> QED BY <2>2, <2>3
<1>8. BountyBook'
    <2>1. c.first # 0
        BY <1>1, <1>4
    <2>2. c.finalized => now >= c.first + CONTEST_WINDOW
        BY <1>3, <1>4
    <2> HIDE DEF b, c
    <2> QED BY <1>5, <1>6, <2>1, <2>2 DEF EInv, BountyBook
<1>9. <<c.seq, c.payTo>> \in contest'[e] /\ \A p \in contest'[e] : c.seq <= p[1]
    <2>1. CASE b.finalized
        <3>1. c = b /\ b.first # 0 /\ contest'[e] = contest[e]
            <4>1. c = b /\ b.first # 0
                BY <1>3, <2>1 DEF BestOf
            <4>2. ~(now < b.first + CONTEST_WINDOW)
                BY <1>1, <1>2, <1>3, <2>1, ConstantTypes
            <4> QED BY <1>6, <4>1, <4>2
        <3> QED BY <1>3, <3>1
    <2>2. CASE b.first = 0
        <3>1. c.seq = seq /\ c.payTo = payTo /\ contest'[e] = {<<seq, payTo>>}
            <4>1. c = [b EXCEPT !.first = now, !.seq = seq, !.payTo = payTo]
                BY <1>3, <2>2 DEF BestOf
            <4>2. c.seq = seq /\ c.payTo = payTo
                BY <1>1, <4>1 DEF Bounties
            <4> QED BY <1>3, <1>6, <2>2, <4>2
        <3> QED BY <3>1
    <2>3. CASE ~b.finalized /\ b.first # 0 /\ now < b.first + CONTEST_WINDOW /\ seq < b.seq
        <3>1. c.seq = seq /\ c.payTo = payTo /\ contest'[e] = contest[e] \cup {<<seq, payTo>>}
            <4>1. c = [b EXCEPT !.seq = seq, !.payTo = payTo]
                BY <2>3 DEF BestOf
            <4>2. c.seq = seq /\ c.payTo = payTo
                BY <1>1, <4>1 DEF Bounties
            <4> QED BY <1>6, <2>3, <4>2
        <3>2. \A p \in contest[e] : seq <= p[1]
            <4>1. contest[e] \subseteq Nat \X Accounts
                BY <1>1
            <4>2. ASSUME NEW p \in contest[e] PROVE seq <= p[1]
                <5>1. b.seq <= p[1] /\ p[1] \in Nat
                    BY <1>3, <2>3, <4>1
                <5> QED BY <1>2, <2>3, <5>1
            <4> QED BY <4>2
        <3> QED BY <3>1, <3>2
    <2>4. CASE ~b.finalized /\ b.first # 0 /\ ~(now < b.first + CONTEST_WINDOW /\ seq < b.seq)
        <3>1. c = b /\ (now < b.first + CONTEST_WINDOW => b.seq <= seq)
            BY <1>2, <2>4 DEF BestOf
        <3>2. \A p \in contest'[e] : p \in contest[e] \/ (p = <<seq, payTo>> /\ b.seq <= seq)
            BY <1>6, <2>4, <3>1
        <3>3. contest[e] \subseteq contest'[e]
            BY <1>6
        <3> QED BY <1>3, <2>4, <3>1, <3>2, <3>3
    <2> QED BY <2>1, <2>2, <2>3, <2>4
<1>10. /\ disclosed' \in [Epochs -> Nat]
       /\ \A x \in Epochs \ {e} : disclosed'[x] = disclosed[x]
       /\ disclosed'[e] = IF b.first = 0 THEN commitSeq ELSE disclosed[e]
    BY <1>1
<1>11. c.seq <= disclosed'[e]
    <2>1. c.seq = IF b.first = 0 THEN seq ELSE IF c = b THEN b.seq ELSE seq
        BY <1>1, <1>3 DEF BestOf, Bounties
    <2>2. b.first # 0 /\ c # b => seq < b.seq
        BY DEF BestOf
    <2>3. disclosed[e] \in Nat
        BY <1>1
    <2> HIDE DEF b, c
    <2> QED BY <1>2, <1>3, <1>10, <2>1, <2>2, <2>3
<1>12. BountyIsEarliest'
    <2> HIDE DEF b, c
    <2> QED BY <1>5, <1>6, <1>9, <1>10, <1>11 DEF EInv, BountyIsEarliest
<1> QED BY <1>5, <1>6, <1>7, <1>8, <1>10, <1>12

\* A reveal consumes its commit.
LEMMA RevealStep ==
    ASSUME EInv, NEW h \in Hashes, Reveal(h)
    PROVE  EInv'
<1>1. h.evidence \in Evidence /\ h.payTo \in Accounts
    BY EscrowAssumption
<1>2. PICK e \in Epochs : e = EpochOf[h.evidence]
    BY <1>1, EscrowAssumption
<1>3. PICK seq \in Nat : seq = commits[h].seq
    BY DEF EInv, TypeOK, Commits
<1>4. /\ OpenIncident(e) \/ JoinIncident(e)
      /\ evidenceSeen' = evidenceSeen \cup {h.evidence}
      /\ bounties' = [bounties EXCEPT ![e] = BestOf(@, seq, h.payTo)]
      /\ pendingBounties' =
            IF bounties[e].first = 0 /\ ~bounties[e].finalized
            THEN pendingBounties + 1 ELSE pendingBounties
      /\ contest' =
            IF bounties[e].first = 0 \/ now < bounties[e].first + CONTEST_WINDOW
            THEN [contest EXCEPT ![e] = @ \cup {<<seq, h.payTo>>}]
            ELSE contest
      /\ disclosed' = IF bounties[e].first = 0
                      THEN [disclosed EXCEPT ![e] = commitSeq] ELSE disclosed
      /\ commits' = [commits EXCEPT ![h] = NoCommit]
      /\ UNCHANGED <<openRequested, credits, bountiesPaid, commitSeq, slots, clockVars,
                     ownerVars, bondVars, refundVars>>
    BY <1>2, <1>3 DEF Reveal
<1>5. now' = now
    BY <1>4 DEF clockVars
<1>6. /\ incidents' \in [Epochs -> Incidents]
      /\ openIncidents' \in Nat /\ freezeUntil' \in Nat /\ frozenUsed' \in Nat
      /\ Solvent' /\ RefundBook' /\ OpenBook' /\ FreezeBook'
    BY <1>4, RevealIncident
<1>7. /\ bounties' \in [Epochs -> Bounties]
      /\ contest' \in [Epochs -> SUBSET (Nat \X Accounts)]
      /\ disclosed' \in [Epochs -> Nat]
      /\ pendingBounties' \in Nat
      /\ PendingBook' /\ BountyBook' /\ BountyIsEarliest'
    <2>1. seq <= commitSeq /\ commitSeq \in Nat
        BY <1>3 DEF EInv, TypeOK, CommitBook
    <2> QED BY <1>1, <1>4, <1>5, <2>1, RevealBounty
<1>8. /\ commits \in [Hashes -> Commits] /\ commits' \in [Hashes -> Commits]
      /\ commits'[h] = NoCommit /\ \A x \in Hashes \ {h} : commits'[x] = commits[x]
    <2>1. commits \in [Hashes -> Commits] /\ NoCommit \in Commits
        BY DEF EInv, TypeOK, Commits, NoCommit
    <2> QED BY <1>4, <2>1
<1>9. TypeOK'
    <2>1. evidenceSeen' \in SUBSET Evidence
        BY <1>1, <1>4 DEF EInv, TypeOK
    <2> QED BY <1>4, <1>6, <1>7, <1>8, <2>1
            DEF EInv, TypeOK, clockVars, ownerVars, bondVars, refundVars
<1>10. CommitBook'
    <2>1. noticeAt' = noticeAt /\ now \in Nat /\ commitSeq' = commitSeq /\ commitSeq \in Nat
        BY <1>4 DEF ownerVars, EInv, TypeOK
    <2>2. commits'[h].at = 0 /\ commits'[h].committer = None /\ commits'[h].seq = 0
        BY <1>8 DEF NoCommit
    <2> QED BY <1>5, <1>8, <2>1, <2>2 DEF EInv, CommitBook
<1>11. CountersAgree'
    BY <1>6, <1>7, CountersAreBooks
<1> QED BY <1>6, <1>7, <1>9, <1>10, <1>11 DEF EInv

-----------------------------------------------------------------------------
(* The invariant *)

\* The books of a fresh contract are empty.
LEMMA InitEInv ==
    ASSUME Init
    PROVE  EInv
<1>1. TypeOK
    <2>1. NoCommit \in Commits /\ NoIncident \in Incidents
        BY DEF Commits, NoCommit, Incidents, NoIncident
    <2>2. NoBounty \in Bounties /\ NoRefund \in Refunds
        BY DEF Bounties, NoBounty, Refunds, NoRefund
    <2>3. /\ commits \in [Hashes -> Commits] /\ incidents \in [Epochs -> Incidents]
          /\ bounties \in [Epochs -> Bounties] /\ refunds \in [Leaves -> Refunds]
        BY <2>1, <2>2 DEF Init
    <2>4. slots \in [Accounts -> [1 .. MAX_OPEN_COMMITS -> Hashes \cup {None}]]
        BY DEF Init
    <2>5. /\ credits \in [Accounts -> Nat] /\ paidOut \in [Epochs -> Nat]
          /\ contest \in [Epochs -> SUBSET (Nat \X Accounts)] /\ disclosed \in [Epochs -> Nat]
        BY DEF Init
    <2>6. /\ now \in Nat \ {0} /\ activatedAt \in Nat /\ noticeAt \in Nat
          /\ bondAccounted \in Nat /\ balance \in Nat /\ funded \in Nat
          /\ bountiesPaid \in Nat /\ pendingBounties \in Nat /\ commitSeq \in Nat
          /\ freezeUntil \in Nat /\ frozenUsed \in Nat /\ frozenTime \in Nat
          /\ openIncidents \in Nat /\ openRequested \in Nat
        BY DEF Init
    <2>7. /\ closed \in BOOLEAN /\ listPinned \in BOOLEAN
          /\ quarantined \in SUBSET Evidence /\ evidenceSeen \in SUBSET Evidence
        BY DEF Init
    <2> QED BY <2>3, <2>4, <2>5, <2>6, <2>7 DEF TypeOK
<1>2. Solvent
    <2>1. \A e \in Epochs : incidents[e].pool = 0 /\ paidOut[e] = 0
        BY DEF Init, NoIncident
    <2>2. \A e \in Epochs : OwedBy[e] = 0
        BY <2>1 DEF OwedBy, Owed
    <2>3. Sum(OwedBy, Epochs) = 0
        BY <2>2, SumZero
    <2>4. Sum(credits, Accounts) = 0
        BY SumZero DEF Init
    <2>5. balance = 0 /\ bondAccounted = 0
        BY DEF Init
    <2> QED BY <2>1, <2>3, <2>4, <2>5 DEF Solvent, OwedBy
<1>3. RefundBook
    <2>1. \A e \in Epochs : incidents[e] = NoIncident /\ paidOut[e] = 0
        BY DEF Init
    <2>2. \A e \in Epochs : \A l \in Leaves : UnpaidOf(e)[l] = 0
        BY DEF Init, UnpaidOf, NoRefund
    <2>3. \A e \in Epochs : Sum(UnpaidOf(e), Leaves) = 0
        BY <2>2, SumZero
    <2>4. \A l \in Leaves : refunds[l].status = "none"
        BY DEF Init, NoRefund
    <2> QED BY <2>1, <2>3, <2>4 DEF RefundBook, NoIncident
<1>4. CountersAgree
    <2> DEFINE O == {e \in Epochs : incidents[e].status = "open"}
               f == [e \in Epochs |-> incidents[e].requested]
    <2>1. O = {} /\ Pending = {}
        BY DEF Init, NoIncident, NoBounty, Pending
    <2>2. Cardinality(O) = 0 /\ Cardinality(Pending) = 0
        BY <2>1, FS_EmptySet
    <2>3. Sum(f, O) = 0
        <3> HIDE DEF f, O
        <3> QED BY <2>1, SumZero
    <2>4. openIncidents = 0 /\ openRequested = 0 /\ pendingBounties = 0
        BY DEF Init
    <2>5. OpenBook /\ PendingBook
        BY <2>2, <2>3, <2>4 DEF OpenBook, PendingBook
    <2> QED BY <2>5, CountersAreBooks
<1>5. FreezeBook
    BY ConstantTypes DEF Init, FreezeBook
<1>6. BountyBook /\ BountyIsEarliest
    BY DEF Init, BountyBook, BountyIsEarliest, NoBounty
<1>7. CommitBook
    BY DEF Init, CommitBook, NoCommit
<1> QED BY <1>1, <1>2, <1>3, <1>4, <1>5, <1>6, <1>7 DEF EInv

\* A step that changes nothing keeps the books.
LEMMA EscrowStutter ==
    ASSUME EInv, UNCHANGED vars
    PROVE  EInv'
<1> USE DEF vars, clockVars, ownerVars, bondVars, bountyVars, freezeVars, commitVars,
            incidentVars, refundVars
<1>1. TypeOK'
    BY DEF EInv, TypeOK
<1>2. Solvent' /\ RefundBook'
    BY FrameSolvent, FrameRefunds DEF EInv
<1>3. CountersAgree' /\ FreezeBook'
    BY FrameCounters, FrameFreeze DEF EInv
<1>4. BountyBook' /\ BountyIsEarliest' /\ CommitBook'
    BY FrameBounties, FrameCommits DEF EInv
<1> QED BY <1>1, <1>2, <1>3, <1>4 DEF EInv

\* Every call keeps the books.
LEMMA NextEInv ==
    ASSUME EInv, [Next]_vars
    PROVE  EInv'
<1>1. CASE UNCHANGED vars
    BY <1>1, EscrowStutter
<1>2. CASE (\E list \in SUBSET Coverable : PinQuarantineList(list)) \/ Activate
    BY <1>2, OwnerSteps
<1>3. CASE \E amount \in Amounts : Fund(amount)
    BY <1>3, FundStep
<1>4. CASE GiveNotice \/ CancelNotice
    BY <1>4, NoticeSteps
<1>5. CASE Withdraw
    BY <1>5, WithdrawStep
<1>6. CASE \E a \in Accounts, h \in Hashes : Commit(a, h)
    BY <1>6, CommitStep
<1>7. CASE \E h \in Hashes : Reveal(h)
    BY <1>7, RevealStep
<1>8. CASE \E e \in Epochs : FinalizeBounty(e)
    BY <1>8, FinalizeStep
<1>9. CASE \E k \in Evidence, leaf \in Leaves, payer \in Payers, claimed \in Amounts :
              RegisterRefund(k, leaf, payer, claimed)
    BY <1>9, RegisterRefundStep
<1>10. CASE \E e \in Epochs : Settle(e)
    BY <1>10, SettleStep
<1>11. CASE \E leaf \in Leaves : ClaimRefund(leaf)
    BY <1>11, ClaimRefundStep
<1>12. CASE \E a \in Accounts : Claim(a)
    BY <1>12, ClaimStep
<1>13. CASE Tick
    BY <1>13, TickStep
<1> QED BY <1>1, <1>2, <1>3, <1>4, <1>5, <1>6, <1>7, <1>8, <1>9, <1>10, <1>11, <1>12, <1>13
        DEF Next

\* The books hold in every state of the contract.
THEOREM EscrowInvariant == Spec => []EInv
<1>1. Init => EInv
    BY InitEInv
<1>2. EInv /\ [Next]_vars => EInv'
    BY NextEInv
<1> QED BY <1>1, <1>2, PTL DEF Spec

\* Every variable keeps its storage type: no subtraction of the contract
\* underflows.
THEOREM EscrowTypeCorrect == Spec => []TypeOK
<1>1. EInv => TypeOK
    BY DEF EInv
<1> QED BY <1>1, EscrowInvariant, PTL

\* The balance is exactly the bond, the credits and what the pools still owe,
\* for any amounts and any order of claims.
THEOREM EscrowSolvent == Spec => []Solvent
<1>1. EInv => Solvent
    BY DEF EInv
<1> QED BY <1>1, EscrowInvariant, PTL

\* Rounding down never leaves a registered refund uncovered, whoever claims
\* first.
THEOREM EscrowRefundsCovered == Spec => []RefundsCovered
<1>1. EInv => RefundsCovered
    <2> SUFFICES ASSUME EInv, NEW leaf \in Leaves, refunds[leaf].status = "registered",
                        incidents[refunds[leaf].epoch].status = "settled"
                 PROVE  Share(refunds[leaf]) <= Owed(refunds[leaf].epoch)
        BY DEF RefundsCovered
    <2> QED BY CoveredByBook DEF EInv
<1> QED BY <1>1, EscrowInvariant, PTL

\* The counters the owner's reserve is computed from count what they stand for.
THEOREM EscrowCounters == Spec => []CountersAgree
<1>1. EInv => CountersAgree
    BY DEF EInv
<1> QED BY <1>1, EscrowInvariant, PTL

\* The bounties paid and the time frozen stay under their caps, however many
\* incidents open.
THEOREM EscrowCaps == Spec => []CapsHeld
<1>1. EInv => CapsHeld
    BY ConstantTypes DEF EInv, TypeOK, FreezeBook, CapsHeld
<1> QED BY <1>1, EscrowInvariant, PTL

\* The bounty names the earliest commit that was revealed inside the contest
\* window, and one made before the first reveal of the epoch was public.
THEOREM EscrowBounty == Spec => []BountyIsEarliest
<1>1. EInv => BountyIsEarliest
    BY DEF EInv
<1> QED BY <1>1, EscrowInvariant, PTL

-----------------------------------------------------------------------------
(* What a step may never do *)

\* Only commits and reveals change a commit, and a commit only one that is gone.
LEMMA CommitsKeptStep ==
    ASSUME TypeOK, Next, NEW h \in Hashes, ~Gone(commits[h])
    PROVE  commits'[h] = commits[h] \/ Reveal(h)
<1> USE DEF commitVars
<1>1. CASE \E a \in Accounts, x \in Hashes : Commit(a, x)
    <2>1. PICK a \in Accounts, x \in Hashes : Commit(a, x)
        BY <1>1
    <2>2. Gone(commits[x])
        BY <2>1 DEF Commit
    <2> QED BY <2>1, <2>2, CommitEffect
<1>2. CASE \E x \in Hashes : Reveal(x)
    <2>1. PICK x \in Hashes : Reveal(x)
        BY <1>2
    <2>2. commits \in [Hashes -> Commits] /\ commits' = [commits EXCEPT ![x] = NoCommit]
        BY <2>1 DEF Reveal, TypeOK
    <2> QED BY <2>1, <2>2
<1>3. CASE (\E list \in SUBSET Coverable : PinQuarantineList(list)) \/ Activate \/ GiveNotice
             \/ CancelNotice \/ Withdraw \/ Tick \/ \E amount \in Amounts : Fund(amount)
    BY <1>3 DEF PinQuarantineList, Activate, GiveNotice, CancelNotice, Withdraw, Tick, Fund
<1>4. CASE \/ \E e \in Epochs : FinalizeBounty(e)
           \/ \E k \in Evidence, leaf \in Leaves, payer \in Payers, claimed \in Amounts :
                 RegisterRefund(k, leaf, payer, claimed)
           \/ \E e \in Epochs : Settle(e)
           \/ \E leaf \in Leaves : ClaimRefund(leaf)
           \/ \E a \in Accounts : Claim(a)
    BY <1>4 DEF FinalizeBounty, RegisterRefund, Settle, SettleIncident, ClaimRefund, Claim
<1> QED BY <1>1, <1>2, <1>3, <1>4 DEF Next

\* A commit that can still be revealed is never overwritten or evicted.
THEOREM EscrowCommitsKept == Spec => CommitsKept
<1> DEFINE A == \A h \in Hashes : ~Gone(commits[h]) => commits'[h] = commits[h] \/ Reveal(h)
<1>1. TypeOK /\ Next => A
    BY CommitsKeptStep
<1> HIDE DEF A
<1>2. TypeOK /\ [Next]_vars => [A]_vars
    BY <1>1
<1>3. Spec => [][A]_vars
    BY <1>2, EscrowTypeCorrect, PTL DEF Spec
<1> QED BY <1>3 DEF A, CommitsKept

\* Only a withdrawal closes the contract.
LEMMA ClosedByWithdraw ==
    ASSUME Next, ~closed, closed'
    PROVE  Withdraw
<1> USE DEF ownerVars
<1>1. CASE (\E list \in SUBSET Coverable : PinQuarantineList(list)) \/ Activate \/ GiveNotice
             \/ CancelNotice \/ Tick \/ \E amount \in Amounts : Fund(amount)
    BY <1>1 DEF PinQuarantineList, Activate, GiveNotice, CancelNotice, Tick, Fund
<1>2. CASE (\E a \in Accounts, h \in Hashes : Commit(a, h)) \/ \E h \in Hashes : Reveal(h)
    BY <1>2 DEF Commit, Reveal
<1>3. CASE \/ \E e \in Epochs : FinalizeBounty(e)
           \/ \E k \in Evidence, leaf \in Leaves, payer \in Payers, claimed \in Amounts :
                 RegisterRefund(k, leaf, payer, claimed)
           \/ \E e \in Epochs : Settle(e)
           \/ \E leaf \in Leaves : ClaimRefund(leaf)
           \/ \E a \in Accounts : Claim(a)
    BY <1>3 DEF FinalizeBounty, RegisterRefund, Settle, SettleIncident, ClaimRefund, Claim
<1> QED BY <1>1, <1>2, <1>3 DEF Next

\* When an active bond is withdrawn every commit has had its reveal window.
THEOREM EscrowGrace == Spec => GraceCoversCommits
<1> DEFINE A == activatedAt # 0 /\ ~closed /\ closed' => \A h \in Hashes : Gone(commits[h])
<1>1. ASSUME EInv, Next, activatedAt # 0, ~closed, closed', NEW h \in Hashes
      PROVE  Gone(commits[h])
    <2>1. Withdraw
        BY <1>1, ClosedByWithdraw
    <2>2. noticeAt # 0 /\ now >= noticeAt + NOTICE_PERIOD + MIN_DELAY + REVEAL_WINDOW
        BY <1>1, <2>1 DEF Withdraw, RevealGraceEnd
    <2>3. commits[h].committer # None => commits[h].at < noticeAt + NOTICE_PERIOD
        BY <1>1, <2>2 DEF EInv, CommitBook
    <2>4. commits[h].at \in Nat /\ noticeAt \in Nat /\ now \in Nat
        BY <1>1 DEF EInv, TypeOK, Commits
    <2> QED BY <2>2, <2>3, <2>4, ConstantTypes DEF Gone, Expired
<1>2. EInv /\ Next => A
    BY <1>1
<1> HIDE DEF A
<1>3. EInv /\ [Next]_vars => [A]_vars
    BY <1>2
<1>4. Spec => [][A]_vars
    BY <1>3, EscrowInvariant, PTL DEF Spec
<1> QED BY <1>4 DEF A, GraceCoversCommits

\* The reserve after a step, from what the step leaves of its parts.
LEMMA ReserveSame ==
    ASSUME UNCHANGED <<openRequested, pendingBounties, bountiesPaid>>
    PROVE  Reserve' = Reserve
BY DEF Reserve, Min2

\* Deciding a bounty takes from the reserve at least what it pays.
LEMMA FinalizeReserve ==
    ASSUME EInv, NEW e \in Epochs, FinalizeBounty(e), bondAccounted >= Reserve
    PROVE  bondAccounted' >= Reserve'
<1>1. PICK amount \in Nat :
              /\ amount = BOUNTY \/ amount = 0
              /\ bountiesPaid + amount <= BOUNTY_CAP
              /\ bountiesPaid' = bountiesPaid + amount
              /\ bondAccounted' = bondAccounted - amount
    BY FinalizeEffect
<1>2. /\ pendingBounties' = pendingBounties - 1 /\ openRequested' = openRequested
      /\ bounties[e].first # 0 /\ ~bounties[e].finalized
    BY DEF FinalizeBounty, incidentVars
<1>3. /\ bondAccounted \in Nat /\ openRequested \in Nat /\ bountiesPaid \in Nat
      /\ pendingBounties \in Nat
    BY DEF EInv, TypeOK
<1> DEFINE pb == pendingBounties * BOUNTY
           left == BOUNTY_CAP - bountiesPaid
<1>4. pb \in Nat /\ left \in Nat
    <2>1. pb \in Nat
        BY <1>3, ConstantTypes, SMT
    <2>2. left \in Nat
        BY <1>3, ConstantTypes DEF EInv, FreezeBook
    <2> QED BY <2>1, <2>2
<1>5. pendingBounties' * BOUNTY = pb - BOUNTY
    BY <1>2, <1>3, ConstantTypes, SMT
<1>6. Reserve = openRequested + Min2(pb, left)
    BY DEF Reserve
<1>7. Reserve' = openRequested + Min2(pb - BOUNTY, left - amount)
    <2>1. BOUNTY_CAP - bountiesPaid' = left - amount
        BY <1>1, <1>3, ConstantTypes
    <2>2. Reserve' = openRequested' + Min2(pendingBounties' * BOUNTY, BOUNTY_CAP - bountiesPaid')
        BY DEF Reserve, Min2
    <2> QED BY <1>2, <1>5, <2>1, <2>2
<1> HIDE DEF pb, left
<1>8. openRequested + Min2(pb, left) - amount >= openRequested + Min2(pb - BOUNTY, left - amount)
    BY <1>1, <1>3, <1>4, ConstantTypes DEF Min2
<1>9. Min2(pb, left) \in Nat /\ Min2(pb - BOUNTY, left - amount) \in Int
    BY <1>1, <1>4, ConstantTypes DEF Min2
<1> QED BY <1>1, <1>3, <1>6, <1>7, <1>8, <1>9

\* A settlement out of a bond that covers the reserve pays its refunds in full.
LEMMA SettleReserve ==
    ASSUME EInv, NEW e \in Epochs, Settle(e), bondAccounted >= Reserve
    PROVE  /\ bondAccounted' >= Reserve'
           /\ \A x \in Epochs :
                 incidents[x].status = "open" /\ incidents'[x].status = "settled"
                    => incidents'[x].pool = incidents[x].requested
<1> DEFINE req == incidents[e].requested
           m == Min2(pendingBounties * BOUNTY, BOUNTY_CAP - bountiesPaid)
<1>1. /\ incidents[e].status = "open"
      /\ incidents' = [incidents EXCEPT ![e].status = "settled",
                                        ![e].pool = Min2(req, bondAccounted)]
      /\ bondAccounted' = bondAccounted - Min2(req, bondAccounted)
      /\ openRequested' = openRequested - req
      /\ UNCHANGED <<pendingBounties, bountiesPaid>>
    BY DEF Settle, SettleIncident, bountyVars
<1>2. openRequested = req /\ \A x \in Epochs : incidents[x].status = "open" => x = e
    BY <1>1, OpenFacts DEF EInv
<1>3. bondAccounted \in Nat /\ req \in Nat /\ incidents \in [Epochs -> Incidents]
    BY DEF EInv, TypeOK, Incidents
<1>4. m \in Nat
    <2>1. pendingBounties * BOUNTY \in Nat
        BY ConstantTypes, SMT DEF EInv, TypeOK
    <2>2. BOUNTY_CAP - bountiesPaid \in Nat
        BY ConstantTypes DEF EInv, TypeOK, FreezeBook
    <2> QED BY <2>1, <2>2 DEF Min2
<1>5. Reserve = openRequested + m /\ Reserve' = openRequested' + m
    BY <1>1 DEF Reserve, Min2
<1> HIDE DEF m, req
<1>6. req <= bondAccounted /\ Min2(req, bondAccounted) = req
    BY <1>2, <1>3, <1>4, <1>5 DEF Min2
<1>7. bondAccounted' >= Reserve'
    BY <1>1, <1>2, <1>3, <1>4, <1>5, <1>6
<1>8. incidents'[e].pool = incidents[e].requested
    BY <1>1, <1>3, <1>6 DEF Incidents, req
<1> QED BY <1>2, <1>7, <1>8

\* Closing the contract and everything after it keeps the reserve covered.
LEMMA ReserveStep ==
    ASSUME EInv, Next, activatedAt # 0, closed', bondAccounted >= Reserve
    PROVE  /\ bondAccounted' >= Reserve'
           /\ \A e \in Epochs :
                 incidents[e].status = "open" /\ incidents'[e].status = "settled"
                    => incidents'[e].pool = incidents[e].requested
<1>1. bondAccounted \in Nat /\ Reserve \in Nat
    BY ReserveType DEF EInv, TypeOK
<1>2. CASE Withdraw
    <2>1. bondAccounted' = Min2(bondAccounted, Reserve)
        BY <1>2 DEF Withdraw
    <2>2. Min2(bondAccounted, Reserve) = Reserve
        BY <1>1 DEF Min2
    <2>3. Reserve' = Reserve /\ incidents' = incidents
        BY <1>2, ReserveSame DEF Withdraw, incidentVars, bountyVars
    <2> QED BY <1>1, <2>1, <2>2, <2>3
<1>3. CASE \E e \in Epochs : FinalizeBounty(e)
    <2>1. incidents' = incidents
        BY <1>3 DEF FinalizeBounty, incidentVars
    <2> QED BY <1>3, <2>1, FinalizeReserve
<1>4. CASE \E e \in Epochs : Settle(e)
    BY <1>4, SettleReserve
<1>5. CASE (\E leaf \in Leaves : ClaimRefund(leaf)) \/ (\E a \in Accounts : Claim(a)) \/ Tick
    <2>1. UNCHANGED <<bondAccounted, incidents, openRequested, pendingBounties, bountiesPaid>>
        BY <1>5 DEF ClaimRefund, Claim, Tick, incidentVars, bountyVars, bondVars
    <2> QED BY <1>1, <2>1, ReserveSame
<1>6. CASE closed /\ ~Withdraw
    <2>1. ~(\E list \in SUBSET Coverable : PinQuarantineList(list)) /\ ~Activate
          /\ ~GiveNotice /\ ~CancelNotice /\ ~(\E amount \in Amounts : Fund(amount))
        BY <1>6 DEF PinQuarantineList, Activate, GiveNotice, CancelNotice, Fund
    <2>2. ~(\E a \in Accounts, h \in Hashes : Commit(a, h)) /\ ~(\E h \in Hashes : Reveal(h))
        BY <1>6 DEF Commit, Reveal, Revealable
    <2>3. ~(\E k \in Evidence, leaf \in Leaves, payer \in Payers, claimed \in Amounts :
                 RegisterRefund(k, leaf, payer, claimed))
        BY <1>6 DEF RegisterRefund
    <2> QED BY <1>3, <1>4, <1>5, <1>6, <2>1, <2>2, <2>3 DEF Next
<1>7. CASE ~closed
    BY <1>2, <1>7, ClosedByWithdraw
<1> QED BY <1>2, <1>6, <1>7

\* Once the bond covers the reserve, withdrawal and what follows keep it so,
\* and refunds settled after the withdrawal are paid in full.
THEOREM EscrowReserve == Spec => ReserveKept
<1> DEFINE A == activatedAt # 0 /\ closed' /\ bondAccounted >= Reserve
                   => /\ bondAccounted' >= Reserve'
                      /\ \A e \in Epochs :
                            incidents[e].status = "open" /\ incidents'[e].status = "settled"
                               => incidents'[e].pool = incidents[e].requested
<1>1. EInv /\ Next => A
    BY ReserveStep
<1> HIDE DEF A
<1>2. EInv /\ [Next]_vars => [A]_vars
    BY <1>1
<1>3. Spec => [][A]_vars
    BY <1>2, EscrowInvariant, PTL DEF Spec
<1> QED BY <1>3 DEF A, ReserveKept
=============================================================================
