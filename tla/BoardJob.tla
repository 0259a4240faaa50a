------------------------------- MODULE BoardJob -------------------------------
(***************************************************************************)
(* One job of the verified bid board: services/gateway/src/board-jobs.js   *)
(* with the payment legs of board-job-routes.js.                           *)
(*                                                                         *)
(* The handlers of one process interleave at their awaits: a bid waits for *)
(* its stamp, a payment for each settlement and for the signature of the   *)
(* receipt.  What a handler read before an await it does not read again.   *)
(* The store is saved whole after a change; when the save throws, the      *)
(* change stays in memory.  A restart loads the last save, or nothing when *)
(* the file cannot be read.                                                *)
(*                                                                         *)
(* The x402 handshake is external here: the money of a leg moves, or it    *)
(* does not; the board hears of it later, or never.  The number of a leg's *)
(* charge stands for its payment ref.  The fee is a function of the price, *)
(* so a price stands for both.                                             *)
(***************************************************************************)
EXTENDS Naturals, Sequences, FiniteSets

CONSTANTS
    Agents,          \* the bidders
    Prices,          \* bid prices within the budget
    Hashes,          \* output_sha256
    Payments,        \* payment requests of the poster
    None,
    MaxBids,         \* bound: bids on the job
    MaxCrashes,      \* bound: crashes
    MaxFailedSaves,  \* bound: saves that throw
    MaxOverlaps,     \* bound: per leg, requests started beside one that is at it
    MaxHeld,         \* bound: charges that are lost when another one ends in a hold
    LoadMayFail      \* whether a restart may find the file unreadable

ASSUME BoardJobAssumption ==
    /\ Prices \subseteq Nat
    /\ IsFiniteSet(Payments)
    /\ None \notin Hashes \cup Prices
    /\ {MaxBids, MaxCrashes, MaxFailedSaves, MaxOverlaps, MaxHeld} \subseteq Nat
    /\ LoadMayFail \in BOOLEAN

VARIABLES
    job,      \* the job in memory
    disk,     \* the job in board-jobs.json
    bidding,  \* bids that wait for their stamp
    paying,   \* per payment request, what it read and where it waits
    charged,  \* history: per leg, how often its money moved
    lost,     \* history: per leg, how often a charge was made of which no record was kept
    overlaps, \* history: per leg, the requests that came to it beside another one
    signed,   \* history: the payout receipts signed
    crashes, failedSaves

vars == <<job, disk, bidding, paying, charged, lost, overlaps, signed, crashes, failedSaves>>

Idle == [at |-> "idle"]
Legs == {"winner", "fee"}
\* "gone": a restart did not find the job.
Statuses == {"absent", "open", "awarded", "delivered", "paid", "challenged", "closed", "gone"}

Bids == [agent : Agents, price : Prices, revision : 0..1,
         status : {"live", "awarded", "expired"}]
Jobs == [status : Statuses, bids : Seq(Bids), awarded : Nat, hash : Hashes \cup {None},
         winner : Nat, quoted : Prices \cup {None}, fee : Nat, payout : BOOLEAN, revealed : BOOLEAN]
Receipts == [winner : Nat, fee : Nat, amount : Prices, hash : Hashes]

\* What a payment request carries through its awaits: at a leg, the ref of its charge
\* once the money has moved.
Requests ==
    {Idle} \cup [at : Legs, price : Prices, ref : Nat]
           \cup [at : {"sign", "close"}, price : Prices, receipt : Receipts]

TypeOK ==
    /\ job \in Jobs /\ disk \in Jobs
    /\ bidding \subseteq [agent : Agents, price : Prices, existing : 0..Len(job.bids)]
    /\ paying \in [Payments -> Requests]
    /\ charged \in [Legs -> Nat] /\ lost \in [Legs -> Nat] /\ overlaps \in [Legs -> Nat]
    /\ signed \subseteq Receipts
    /\ crashes \in Nat /\ failedSaves \in Nat

NewJob == [status |-> "absent", bids |-> <<>>, awarded |-> 0, hash |-> None, winner |-> 0,
           quoted |-> None, fee |-> 0, payout |-> FALSE, revealed |-> FALSE]

Init ==
    /\ job = NewJob
    /\ disk = NewJob
    /\ bidding = {}
    /\ paying = [r \in Payments |-> Idle]
    /\ charged = [l \in Legs |-> 0]
    /\ lost = [l \in Legs |-> 0]
    /\ overlaps = [l \in Legs |-> 0]
    /\ signed = {}
    /\ crashes = 0 /\ failedSaves = 0

-----------------------------------------------------------------------------
\* BoardJobStore.update: memory first, then the file; a throw leaves them apart.
Saved(j) == job' = j /\ disk' = j /\ UNCHANGED failedSaves
SaveFailed(j) ==
    /\ failedSaves < MaxFailedSaves
    /\ failedSaves' = failedSaves + 1
    /\ job' = j
    /\ UNCHANGED disk
Update(j) == Saved(j) \/ SaveFailed(j)

moneyVars == <<charged, signed>>
requestVars == <<bidding, paying>>
faultVars == <<crashes, lost, overlaps>>

\* createBoardJob, after its stamp
Post ==
    /\ job.status = "absent"
    /\ Update([job EXCEPT !.status = "open"])
    /\ UNCHANGED <<requestVars, moneyVars, faultVars>>

BidOf(a) == {i \in 1..Len(job.bids) : job.bids[i].agent = a}

\* placeBoardBid up to its await: every check is made here.
StartBid(a, p) ==
    LET own == BidOf(a)
        existing == IF own = {} THEN 0 ELSE CHOOSE i \in own : \A k \in own : i <= k
    IN  /\ job.status = "open"
        /\ existing # 0 => job.bids[existing].revision = 0
        /\ Len(job.bids) + Cardinality(bidding) < MaxBids
        /\ bidding' = bidding \cup {[agent |-> a, price |-> p, existing |-> existing]}
        /\ UNCHANGED <<job, disk, paying, moneyVars, faultVars, failedSaves>>

\* The stamp was collected: the bid lands whatever became of the job meanwhile.
FinishBid(b) ==
    /\ b \in bidding
    /\ bidding' = bidding \ {b}
    /\ Update(IF b.existing = 0
              THEN [job EXCEPT !.bids = Append(@, [agent |-> b.agent, price |-> b.price,
                                                   revision |-> 0, status |-> "live"])]
              ELSE [job EXCEPT !.bids[b.existing] = [@ EXCEPT !.price = b.price, !.revision = 1]])
    /\ UNCHANGED <<paying, moneyVars, faultVars>>

RefuseBid(b) ==
    /\ b \in bidding
    /\ bidding' = bidding \ {b}
    /\ UNCHANGED <<job, disk, paying, moneyVars, faultVars, failedSaves>>

\* awardBoardBid
Award(i) ==
    /\ job.status = "open"
    /\ job.bids[i].status = "live"
    /\ Update([job EXCEPT !.status = "awarded", !.awarded = i,
                 !.bids = [k \in DOMAIN @ |-> [@[k] EXCEPT !.status =
                              IF k = i THEN "awarded" ELSE "expired"]]])
    /\ UNCHANGED <<requestVars, moneyVars, faultVars>>

\* deliverBoardJob
Deliver(h) ==
    /\ job.status = "awarded"
    /\ Update([job EXCEPT !.status = "delivered", !.hash = h])
    /\ UNCHANGED <<requestVars, moneyVars, faultVars>>

-----------------------------------------------------------------------------
(* payBoardJob *)

\* The receipt names what the job holds when its construction starts.
Signing(j, price) ==
    [at |-> "sign", price |-> price,
     receipt |-> [winner |-> j.winner, fee |-> j.fee, amount |-> price, hash |-> j.hash]]

AtLeg(leg, price) == [at |-> leg, price |-> price, ref |-> 0]

\* Mutant: a job whose winner leg is paid goes on without the fee leg.
NextLegSkipsFee(j, price) ==
    IF j.winner = 0 THEN AtLeg("winner", price) ELSE Signing(j, price)

\* The leg that is still open, or the receipt.
NextLeg(j, price) ==
    IF j.winner = 0 THEN AtLeg("winner", price)
    ELSE IF j.fee = 0 THEN AtLeg("fee", price)
    ELSE Signing(j, price)

\* Mutant: a job with both legs is taken for paid, and its receipt is not asked for again.
PayableUntilFee(j) == ~j.payout /\ j.status = "delivered" /\ j.fee = 0

\* A job with a receipt is answered from it, one without a delivery is refused.
Payable(j) == ~j.payout /\ j.status = "delivered"

\* Nothing keeps a second request from the leg another one is at.
StartPay(r) ==
    LET next == NextLeg(job, job.bids[job.awarded].price)
        beside == next.at \in Legs /\ \E q \in Payments : paying[q].at = next.at
    IN  /\ paying[r] = Idle
        /\ Payable(job)
        /\ beside => overlaps[next.at] < MaxOverlaps
        /\ overlaps' = IF beside THEN [overlaps EXCEPT ![next.at] = @ + 1] ELSE overlaps
        /\ paying' = [paying EXCEPT ![r] = next]
        /\ UNCHANGED <<job, disk, bidding, moneyVars, crashes, lost, failedSaves>>

\* The handshake moves the money of the leg; the request still waits for its answer.
MoneyMoves(r) ==
    LET leg == paying[r].at
    IN  /\ leg \in Legs
        /\ paying[r].ref = 0
        /\ charged' = [charged EXCEPT ![leg] = @ + 1]
        /\ paying' = [paying EXCEPT ![r].ref = charged'[leg]]
        /\ UNCHANGED <<job, disk, bidding, signed, faultVars, failedSaves>>

Settles(r, leg) == paying[r].at = leg /\ paying[r].ref # 0

\* Mutant: the fee challenge is answered and the settled leg is not kept.
WinnerLegForgotten(j, ref, price) == j

\* The settled leg goes into the job, beside whatever another request put there.
WithWinnerLeg(j, ref, price) == [j EXCEPT !.winner = ref, !.quoted = price]

\* The winner leg settled: it is stored and the request is told to pay the fee.
WinnerSettled(r) ==
    /\ Settles(r, "winner")
    /\ Update(WithWinnerLeg(job, paying[r].ref, paying[r].price))
    /\ paying' = [paying EXCEPT ![r] = Idle]
    /\ UNCHANGED <<bidding, moneyVars, faultVars>>

\* The fee leg settled: the receipt follows, unless the save throws.
FeeSettled(r) ==
    LET j == [job EXCEPT !.fee = paying[r].ref]
    IN  /\ Settles(r, "fee")
        /\ \/ Saved(j) /\ paying' = [paying EXCEPT ![r] = Signing(j, paying[r].price)]
           \/ SaveFailed(j) /\ paying' = [paying EXCEPT ![r] = Idle]
        /\ UNCHANGED <<bidding, moneyVars, faultVars>>

\* The leg is refused and its money does not move.
LegRefused(r) ==
    /\ paying[r].at \in Legs
    /\ paying[r].ref = 0
    /\ paying' = [paying EXCEPT ![r] = Idle]
    /\ UNCHANGED <<job, disk, bidding, moneyVars, faultVars, failedSaves>>

\* The money moved and the answer is a hold, an unknown result, or a settlement for
\* another price or payer: the request ends and the job keeps nothing of it.
LegHeld(r) ==
    /\ \E l \in Legs : Settles(r, l)
    /\ lost["winner"] + lost["fee"] < MaxHeld
    /\ lost' = [lost EXCEPT ![paying[r].at] = @ + 1]
    /\ paying' = [paying EXCEPT ![r] = Idle]
    /\ UNCHANGED <<job, disk, bidding, moneyVars, crashes, overlaps, failedSaves>>

\* buildJobPayoutReceipt: the receipt is signed and its task kept.
SignReceipt(r) ==
    /\ paying[r].at = "sign"
    /\ signed' = signed \cup {paying[r].receipt}
    /\ paying' = [paying EXCEPT ![r].at = "close"]
    /\ UNCHANGED <<job, disk, bidding, charged, faultVars, failedSaves>>

\* The signature or a book row throws: the request ends with both legs on the job.
SignFails(r) ==
    /\ paying[r].at \in {"sign", "close"}
    /\ paying' = [paying EXCEPT ![r] = Idle]
    /\ UNCHANGED <<job, disk, bidding, moneyVars, faultVars, failedSaves>>

PaidJob(j) == [j EXCEPT !.payout = TRUE, !.status = "paid"]

\* Both book rows were written: the job is paid, whatever its status is by now.
ClosePayment(r) ==
    /\ paying[r].at = "close"
    /\ Update(PaidJob(job))
    /\ paying' = [paying EXCEPT ![r] = Idle]
    /\ UNCHANGED <<bidding, moneyVars, faultVars>>

-----------------------------------------------------------------------------
\* revealBoardJob, with the output that was committed
Reveal ==
    /\ job.payout
    /\ job.status \in {"paid", "challenged"}
    /\ Update([job EXCEPT !.revealed = TRUE, !.status = "closed"])
    /\ UNCHANGED <<requestVars, moneyVars, faultVars>>

\* challengeBoardJob
Challenge ==
    /\ job.status = "paid"
    /\ ~job.revealed
    /\ Update([job EXCEPT !.status = "challenged"])
    /\ UNCHANGED <<requestVars, moneyVars, faultVars>>

\* The board has no memory of a charge and the file does not know it.
Forgotten(l) ==
    /\ disk[l] = 0
    /\ job[l] # 0 \/ \E r \in Payments : Settles(r, l)

Die ==
    /\ crashes < MaxCrashes
    /\ crashes' = crashes + 1
    /\ lost' = [l \in Legs |-> IF Forgotten(l) THEN lost[l] + 1 ELSE lost[l]]
    /\ bidding' = {}
    /\ paying' = [r \in Payments |-> Idle]
    /\ UNCHANGED <<disk, moneyVars, failedSaves, overlaps>>

\* The process dies and the next one loads the file.
Crash == Die /\ job' = disk

\* _load throws anything but ENOENT: it is logged and the store starts empty.
CrashUnread == LoadMayFail /\ Die /\ job' = [NewJob EXCEPT !.status = "gone"]

\* Another job is saved, and with it the whole store as memory has it.
OtherSave ==
    /\ disk # job
    /\ disk' = job
    /\ UNCHANGED <<job, requestVars, moneyVars, faultVars, failedSaves>>

Next ==
    \/ Post
    \/ \E a \in Agents, p \in Prices : StartBid(a, p)
    \/ \E b \in bidding : FinishBid(b) \/ RefuseBid(b)
    \/ \E i \in 1..Len(job.bids) : Award(i)
    \/ \E h \in Hashes : Deliver(h)
    \/ \E r \in Payments : \/ StartPay(r) \/ MoneyMoves(r) \/ WinnerSettled(r) \/ FeeSettled(r)
                           \/ LegRefused(r) \/ LegHeld(r)
                           \/ SignReceipt(r) \/ SignFails(r) \/ ClosePayment(r)
    \/ Reveal
    \/ Challenge
    \/ Crash
    \/ CrashUnread
    \/ OtherSave

\* The winner delivers, the poster asks again until a receipt is there, a settlement that
\* the handshake answers is recorded, and neither the payments of the poster nor the
\* signature and the book fail for ever.
Fairness ==
    /\ WF_vars(\E h \in Hashes : Deliver(h))
    /\ WF_vars(\E r \in Payments : StartPay(r))
    /\ SF_vars(\E r \in Payments : MoneyMoves(r))
    /\ WF_vars(\E r \in Payments : WinnerSettled(r))
    /\ WF_vars(\E r \in Payments : FeeSettled(r))
    /\ SF_vars(\E r \in Payments : SignReceipt(r))
    /\ SF_vars(\E r \in Payments : ClosePayment(r))

Spec == Init /\ [][Next]_vars /\ Fairness

-----------------------------------------------------------------------------
(* Properties. *)

\* The receipt is issued only after both legs settle: whatever requests overlap and
\* wherever the process dies, each signed receipt names a settled winner leg and a
\* settled fee leg, and the file records a payment of the winner and commits to the
\* output hash of the receipt, a failed save notwithstanding.  (When the saves of both
\* legs throw, memory holds them, the next request signs, and the file knows neither;
\* and a save after a load that failed takes the whole job out of the file.)
ReceiptIsBacked ==
    \A rc \in signed :
       /\ rc.winner \in 1..charged["winner"] /\ rc.fee \in 1..charged["fee"]
       /\ failedSaves <= 1 /\ disk.status # "gone" => disk.winner # 0 /\ disk.hash = rc.hash

\* A poster that retries is not charged for a leg again: not after a refusal, after a
\* failed save or signature, nor after a crash that found the leg on file.  Each further
\* charge is one of a request that came to the leg while another one was at it (payBoardJob
\* has no lock), or follows a charge the board has no record of: it was answered as a hold,
\* or the process died before the record was in the file.
ChargedOnce == \A l \in Legs : charged[l] <= 1 + overlaps[l] + lost[l]

\* A delivered job whose award is on file gets its payout receipt when the poster keeps
\* asking, unless a restart cannot read the file.  (A crash takes a job whose award was
\* never saved back to its bids.)
PaidInTheEnd ==
    (job.status = "delivered" /\ disk.status \notin {"absent", "open"})
       ~> (job.payout \/ job.status = "gone")
=============================================================================
