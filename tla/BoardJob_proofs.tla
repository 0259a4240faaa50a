---------------------------- MODULE BoardJob_proofs ----------------------------
(***************************************************************************)
(* The payment of a board job: what a signed payout receipt rests on, and  *)
(* how often a poster can be charged for a leg.                            *)
(***************************************************************************)
EXTENDS BoardJob, FiniteSetTheorems, NaturalsInduction, WellFoundedInduction, TLAPS

\* The delivery is in: the hash of a job in these states no longer changes.
Past(j) == j.status \in {"delivered", "paid", "challenged", "closed"}

\* A job in memory or in the file agrees with the award, the delivery and the
\* settlements: a leg is stored only once it was charged, the fee after the winner.
Sound(j) ==
    /\ j.awarded \in 0..Len(j.bids)
    /\ j.status \notin {"absent", "open", "gone"} => j.awarded # 0
    /\ Past(j) => j.hash \in Hashes
    /\ j.winner # 0 => Past(j)
    /\ j.fee # 0 => j.winner # 0
    /\ j.winner <= charged["winner"]
    /\ j.fee <= charged["fee"]

\* A receipt names settled legs.
Settled(rc) == rc.winner \in 1..charged["winner"] /\ rc.fee \in 1..charged["fee"]

\* A request that waits pays for a delivered job, in the order of the legs, and its
\* receipt carries the hash the job still has.
InOrder ==
    \A r \in Payments : paying[r] # Idle =>
       /\ Past(job)
       /\ paying[r].at # "winner" => job.winner # 0
       /\ paying[r].at \in {"sign", "close"} =>
             /\ job.fee # 0
             /\ Settled(paying[r].receipt)
             /\ paying[r].receipt.hash = job.hash

\* The ref of a request is that of a charge.
RefsCharged ==
    \A r \in Payments : \A l \in Legs : paying[r].at = l => paying[r].ref <= charged[l]

\* The file never has more legs than memory, unless the load failed, and one failed save
\* hides at most one leg from it.
FileFollows ==
    /\ job.status # "gone" =>
          disk.status # "gone" /\ \A l \in Legs : job[l] = 0 => disk[l] = 0
    /\ job.status # "gone" /\ failedSaves = 0 => disk = job
    /\ failedSaves <= 1 /\ job.winner # 0 /\ job.fee # 0 =>
          disk.winner # 0 /\ disk.hash = job.hash

\* A signed receipt names settled legs, and memory and file both keep the winner's
\* leg and the hash, as long as they have the job.
Backed ==
    \A rc \in signed :
       /\ Settled(rc)
       /\ failedSaves <= 1 =>
             /\ job.status # "gone" => job.winner # 0 /\ job.hash = rc.hash
             /\ disk.status # "gone" => disk.winner # 0 /\ disk.hash = rc.hash

\* The requests that may still charge a leg.
Waiting(l) == {r \in Payments : paying[r].at = l /\ paying[r].ref = 0}

\* No request is at the leg, and neither memory nor a file that has the job knows it.
Nobody(l) == \A r \in Payments : paying[r].at # l
Bare(l) == disk.status # "gone" /\ job[l] = 0 /\ disk[l] = 0

\* The charges of a leg and the requests that may still charge it are allowed for, and
\* when the leg may be started anew, one charge less was made.
Allowed ==
    \A l \in Legs :
       /\ charged[l] + Cardinality(Waiting(l)) <= 1 + overlaps[l] + lost[l]
       /\ Bare(l) /\ Nobody(l) => charged[l] <= overlaps[l] + lost[l]

BInv ==
    /\ TypeOK
    /\ Sound(job)
    /\ Sound(disk)
    /\ InOrder
    /\ RefsCharged
    /\ FileFollows
    /\ Backed
    /\ Allowed
    /\ job.status = "gone" => bidding = {}

\* A step that ends requests, and none whose money has moved.
Ends ==
    \A r \in Payments :
       \/ paying'[r] = paying[r]
       \/ paying'[r] = Idle /\ ~\E l \in Legs : Settles(r, l)
-----------------------------------------------------------------------------
\* The requests that wait for a leg can be counted.
LEMMA WaitingCounted ==
    \A l \in Legs : IsFiniteSet(Waiting(l)) /\ Cardinality(Waiting(l)) \in Nat
BY BoardJobAssumption, FS_Subset, FS_CardinalityType DEF Waiting

\* A request that waits for a leg carries its price, one at the receipt the receipt.
LEMMA RequestShape ==
    ASSUME TypeOK, NEW r \in Payments
    PROVE  /\ paying[r] \in Requests
           /\ paying[r] = Idle \/ paying[r].at \in {"winner", "fee", "sign", "close"}
           /\ paying[r].at \in Legs =>
                 paying[r] # Idle /\ paying[r].price \in Prices /\ paying[r].ref \in Nat
           /\ paying[r].at \in {"sign", "close"} =>
                 /\ paying[r] # Idle
                 /\ paying[r] \in [at : {"sign", "close"}, price : Prices, receipt : Receipts]
           /\ Idle.at \notin Legs \cup {"sign", "close"}
BY DEF TypeOK, Requests, Idle, Legs

\* The counters of a leg are numbers.
LEMMA LegCounts ==
    ASSUME TypeOK, NEW l \in Legs
    PROVE  /\ charged[l] \in Nat /\ overlaps[l] \in Nat /\ lost[l] \in Nat
           /\ IsFiniteSet(Waiting(l)) /\ Cardinality(Waiting(l)) \in Nat
           /\ Waiting(l) # {} => Cardinality(Waiting(l)) >= 1
<1>1. IsFiniteSet(Waiting(l)) /\ Cardinality(Waiting(l)) \in Nat BY WaitingCounted
<1>2. Waiting(l) # {} => Cardinality(Waiting(l)) # 0 BY <1>1, FS_EmptySet
<1>3. QED BY <1>1, <1>2 DEF TypeOK

\* A leg that somebody is at, with no money moved, has somebody who may charge it.
LEMMA UnpaidWait ==
    ASSUME TypeOK, NEW l \in Legs, ~Nobody(l), \A r \in Payments : ~Settles(r, l)
    PROVE  Waiting(l) # {}
BY DEF Nobody, Settles, Waiting

\* Requests that end unpaid leave the legs allowed for, where the job is bare afterwards
\* only if it was before.
LEMMA EndingKeeps ==
    ASSUME BInv, Ends, UNCHANGED <<charged, lost, overlaps>>,
           \A l \in Legs : Bare(l)' => Bare(l)
    PROVE  Allowed'
<1> SUFFICES ASSUME NEW l \in Legs
             PROVE  /\ charged[l] + Cardinality(Waiting(l)') <= 1 + overlaps[l] + lost[l]
                    /\ Bare(l)' /\ Nobody(l)' => charged[l] <= overlaps[l] + lost[l]
    BY DEF Allowed
<1>1. /\ charged[l] + Cardinality(Waiting(l)) <= 1 + overlaps[l] + lost[l]
      /\ Bare(l) /\ Nobody(l) => charged[l] <= overlaps[l] + lost[l]
    BY DEF BInv, Allowed
<1>2. /\ charged[l] \in Nat /\ overlaps[l] \in Nat /\ lost[l] \in Nat
      /\ IsFiniteSet(Waiting(l)) /\ Cardinality(Waiting(l)) \in Nat
      /\ Waiting(l) # {} => Cardinality(Waiting(l)) >= 1
    BY LegCounts DEF BInv
<1>3. Waiting(l)' \subseteq Waiting(l)
    BY DEF Waiting, Ends, Idle, Legs
<1>4. Cardinality(Waiting(l)') \in Nat /\ Cardinality(Waiting(l)') <= Cardinality(Waiting(l))
    BY <1>2, <1>3, FS_Subset, FS_CardinalityType
<1>5. CASE Nobody(l) BY <1>1, <1>2, <1>4, <1>5
<1>6. CASE ~Nobody(l) /\ Nobody(l)'
    <2>1. Waiting(l) # {}
        <3>1. PICK r \in Payments : paying[r].at = l BY <1>6 DEF Nobody
        <3>2. paying'[r] # paying[r] BY <1>6, <3>1 DEF Nobody
        <3>3. ~Settles(r, l) BY <3>2 DEF Ends
        <3>4. QED BY <3>1, <3>3 DEF Settles, Waiting
    <2>2. QED BY <1>1, <1>2, <1>4, <2>1
<1>7. CASE ~Nobody(l)' BY <1>1, <1>2, <1>4, <1>7
<1>8. QED BY <1>5, <1>6, <1>7

\* A change of the job that keeps its legs, and its delivery once it has one, keeps the
\* invariant, whether the save throws or not, and whichever requests end with it.
LEMMA EditKeeps ==
    ASSUME BInv, NEW j \in Jobs, Update(j), Sound(j),
           job.status # "gone", j.status # "gone", j.winner = job.winner, j.fee = job.fee,
           Past(job) => Past(j) /\ j.hash = job.hash,
           bidding' \subseteq [agent : Agents, price : Prices, existing : 0..Len(j.bids)],
           paying' \in [Payments -> Requests],
           Ends,
           UNCHANGED <<charged, signed, crashes, lost, overlaps>>
    PROVE  BInv'
<1> USE DEF BInv
<1>1. /\ job' = j
      /\ \/ disk' = j /\ failedSaves' = failedSaves
         \/ disk' = disk /\ failedSaves' = failedSaves + 1
    BY DEF Update, Saved, SaveFailed
<1>2. failedSaves \in Nat /\ failedSaves' \in Nat
    BY <1>1 DEF TypeOK
<1>3. TypeOK'
    BY <1>1, <1>2 DEF TypeOK
<1>4. Sound(job)' /\ Sound(disk)'
    BY <1>1 DEF Sound, Past
<1>5. InOrder'
    <2> SUFFICES ASSUME NEW r \in Payments, paying'[r] # Idle
                 PROVE  /\ Past(job)'
                        /\ paying'[r].at # "winner" => job'.winner # 0
                        /\ paying'[r].at \in {"sign", "close"} =>
                              /\ job'.fee # 0
                              /\ Settled(paying[r].receipt)'
                              /\ paying'[r].receipt.hash = job'.hash
        BY DEF InOrder
    <2>1. paying'[r] = paying[r]
        BY DEF Ends
    <2>2. QED BY <1>1, <2>1 DEF InOrder, Settled, Past
<1>6. RefsCharged'
    BY DEF RefsCharged, Ends, Idle, Legs
<1>7. FileFollows'
    <2>1. /\ disk.status # "gone"
          /\ \A l \in Legs : job'[l] = job[l] /\ (job[l] = 0 => disk[l] = 0)
        BY <1>1 DEF FileFollows, Legs
    <2>2. CASE disk' = j
        BY <1>1, <2>1, <2>2 DEF FileFollows
    <2>3. CASE disk' = disk /\ failedSaves' = failedSaves + 1
        <3>1. failedSaves' # 0 /\ (failedSaves' <= 1 => failedSaves = 0)
            BY <1>2, <2>3
        <3>2. failedSaves' <= 1 => disk' = job
            BY <2>3, <3>1 DEF FileFollows
        <3>3. job.winner # 0 => j.hash = job.hash
            BY DEF Sound
        <3>4. QED BY <1>1, <2>1, <2>3, <3>1, <3>2, <3>3 DEF FileFollows
    <2>4. QED BY <1>1, <2>2, <2>3
<1>8. Backed'
    <2> SUFFICES ASSUME NEW rc \in signed
                 PROVE  /\ Settled(rc)'
                        /\ failedSaves' <= 1 =>
                              /\ job'.winner # 0 /\ job'.hash = rc.hash
                              /\ disk'.winner # 0 /\ disk'.hash = rc.hash
        BY DEF Backed
    <2>1. Settled(rc)' BY DEF Backed, Settled
    <2>2. failedSaves' <= 1 => failedSaves <= 1 BY <1>1, <1>2
    <2>3. job.winner # 0 => j.hash = job.hash
        BY DEF Sound
    <2>4. disk.status # "gone" BY DEF FileFollows
    <2>5. QED BY <1>1, <2>1, <2>2, <2>3, <2>4 DEF Backed
<1>9. Allowed'
    <2>1. \A l \in Legs : Bare(l)' => Bare(l)
        BY <1>1 DEF Bare, FileFollows, Legs
    <2>2. QED BY <2>1, EndingKeeps
<1>10. QED BY <1>1, <1>3, <1>4, <1>5, <1>6, <1>7, <1>8, <1>9

-----------------------------------------------------------------------------
(* Bids, award, delivery, reveal and challenge. *)

\* The job's own fields, spelt out for the steps that follow.
LEMMA JobShape ==
    ASSUME NEW j \in Jobs
    PROVE  /\ j.status \in Statuses /\ j.bids \in Seq(Bids) /\ j.awarded \in Nat
           /\ j.hash \in Hashes \cup {None} /\ j.winner \in Nat /\ j.fee \in Nat
           /\ j.quoted \in Prices \cup {None} /\ j.payout \in BOOLEAN /\ j.revealed \in BOOLEAN
           /\ Len(j.bids) \in Nat
           /\ DOMAIN j.bids = 1..Len(j.bids)
           /\ \A i \in 1..Len(j.bids) : j.bids[i] \in Bids
BY DEF Jobs

\* A job keeps its type with other bids, and a bid with another price.
LEMMA JobWithBids ==
    ASSUME NEW j \in Jobs, NEW bs \in Seq(Bids)
    PROVE  [j EXCEPT !.bids = bs] \in Jobs /\ [j EXCEPT !.bids = bs].bids = bs
BY DEF Jobs

\* A bid with another price and its revision counted is a bid.
LEMMA RevisedBid ==
    ASSUME NEW x \in Bids, NEW p \in Prices
    PROVE  [x EXCEPT !.price = p, !.revision = 1] \in Bids
<1>1. [x EXCEPT !.price = p, !.revision = 1] = [[x EXCEPT !.price = p] EXCEPT !.revision = 1]
    OBVIOUS
<1>2. [x EXCEPT !.price = p] \in Bids BY DEF Bids
<1>3. \A y \in Bids : [y EXCEPT !.revision = 1] \in Bids BY DEF Bids
<1>4. QED BY <1>1, <1>2, <1>3

\* The post opens a job that has nothing yet.
LEMMA PostStep == ASSUME BInv, Post PROVE BInv'
<1> DEFINE j == [job EXCEPT !.status = "open"]
<1>1. job \in Jobs BY DEF BInv, TypeOK
<1>2. j \in Jobs /\ j.bids = job.bids BY <1>1 DEF Jobs, Statuses
<1>3. Update(j) /\ job.status = "absent" BY DEF Post
<1>4. Sound(j)
    BY <1>1, <1>3 DEF BInv, Sound, Past, Jobs
<1>5. /\ j.winner = job.winner /\ j.fee = job.fee
      /\ Past(job) => Past(j) /\ j.hash = job.hash
    BY <1>1, <1>3 DEF Jobs, Past
<1>6. /\ bidding' \subseteq [agent : Agents, price : Prices, existing : 0..Len(j.bids)]
      /\ paying' \in [Payments -> Requests]
      /\ Ends
      /\ UNCHANGED <<charged, signed, crashes, lost, overlaps>>
    BY <1>2 DEF Post, BInv, TypeOK, Ends, requestVars, moneyVars, faultVars
<1> HIDE DEF j
<1>7. j.status # "gone" /\ job.status # "gone" BY <1>1, <1>3 DEF j, Jobs
<1>8. QED BY <1>2, <1>3, <1>4, <1>5, <1>6, <1>7, EditKeeps

\* A bid that lands, new or revised, leaves all but the bids as they are.
LEMMA FinishBidStep == ASSUME BInv, NEW b \in bidding, FinishBid(b) PROVE BInv'
<1> DEFINE new == [agent |-> b.agent, price |-> b.price, revision |-> 0, status |-> "live"]
           j == IF b.existing = 0 THEN [job EXCEPT !.bids = Append(@, new)]
                ELSE [job EXCEPT !.bids[b.existing] = [@ EXCEPT !.price = b.price, !.revision = 1]]
<1>1. job \in Jobs /\ b \in [agent : Agents, price : Prices, existing : 0..Len(job.bids)]
    BY DEF BInv, TypeOK
<1>2. Update(j) BY DEF FinishBid
<1>3. /\ j \in Jobs /\ Len(job.bids) <= Len(j.bids)
      /\ Len(job.bids) \in Nat /\ Len(j.bids) \in Nat
    <2>1. CASE b.existing = 0
        <3>1. new \in Bids BY <1>1 DEF Bids
        <3>2. /\ Append(job.bids, new) \in Seq(Bids)
              /\ Len(Append(job.bids, new)) = Len(job.bids) + 1
              /\ Len(job.bids) \in Nat
            BY <1>1, <3>1, JobShape
        <3> HIDE DEF new
        <3>3. j = [job EXCEPT !.bids = Append(job.bids, new)] BY <1>1, <2>1 DEF Jobs
        <3> HIDE DEF j
        <3>4. j \in Jobs /\ j.bids = Append(job.bids, new)
            BY <1>1, <3>2, <3>3, JobWithBids
        <3>5. QED BY <3>2, <3>4
    <2>2. CASE b.existing # 0
        <3> DEFINE i == b.existing
                   one == [job.bids[i] EXCEPT !.price = b.price, !.revision = 1]
                   bs == [job.bids EXCEPT ![i] = one]
        <3>1. i \in 1..Len(job.bids) /\ job.bids[i] \in Bids BY <1>1, <2>2, JobShape
        <3>2. one \in Bids BY <1>1, <3>1, RevisedBid
        <3>3. job.bids \in Seq(Bids) BY <1>1 DEF Jobs
        <3> HIDE DEF one
        <3>4. bs \in Seq(Bids) /\ Len(bs) = Len(job.bids) /\ Len(bs) \in Nat
            BY <3>1, <3>2, <3>3
        <3>5. j = [job EXCEPT !.bids = bs]
            BY <2>2 DEF one
        <3> HIDE DEF bs, j
        <3>6. QED BY <1>1, <3>4, <3>5, JobWithBids
    <2>3. QED BY <2>1, <2>2
<1>4. /\ j.status = job.status /\ j.awarded = job.awarded /\ j.hash = job.hash
      /\ j.winner = job.winner /\ j.fee = job.fee
    BY <1>1 DEF Jobs
<1> HIDE DEF j
<1>5. Sound(j)
    <2>1. j.awarded \in 0..Len(j.bids)
        <3>1. job.awarded \in 0..Len(job.bids) BY DEF BInv, Sound
        <3>2. QED BY <1>3, <1>4, <3>1
    <2>2. QED BY <1>4, <2>1 DEF BInv, Sound, Past
<1>6. Past(job) => Past(j) /\ j.hash = job.hash
    BY <1>4 DEF Past
<1>7. /\ paying' \in [Payments -> Requests]
      /\ Ends
      /\ UNCHANGED <<charged, signed, crashes, lost, overlaps>>
    BY DEF FinishBid, BInv, TypeOK, Ends, moneyVars, faultVars
<1>8. bidding' \subseteq [agent : Agents, price : Prices, existing : 0..Len(j.bids)]
    <2>1. bidding' \subseteq [agent : Agents, price : Prices, existing : 0..Len(job.bids)]
        BY DEF FinishBid, BInv, TypeOK
    <2>2. 0..Len(job.bids) \subseteq 0..Len(j.bids) BY <1>3
    <2>3. QED BY <2>1, <2>2
<1>9. job.status # "gone" BY DEF BInv
<1>10. QED BY <1>2, <1>3, <1>4, <1>5, <1>6, <1>7, <1>8, <1>9, EditKeeps

\* The award touches the status, the winner's index and the bids' own states.
LEMMA AwardStep == ASSUME BInv, NEW i \in 1..Len(job.bids), Award(i) PROVE BInv'
<1> DEFINE bs == [k \in DOMAIN job.bids |-> [job.bids[k] EXCEPT !.status =
                              IF k = i THEN "awarded" ELSE "expired"]]
           j == [job EXCEPT !.status = "awarded", !.awarded = i, !.bids = bs]
<1>1. job \in Jobs /\ job.status = "open" BY DEF BInv, TypeOK, Award
<1>2. job.bids \in Seq(Bids) /\ DOMAIN job.bids = 1..Len(job.bids) /\ Len(job.bids) \in Nat
    BY <1>1, JobShape
<1>3. Update(j)
    <2>1. [job EXCEPT !.status = "awarded", !.awarded = i,
                 !.bids = [k \in DOMAIN @ |-> [@[k] EXCEPT !.status =
                              IF k = i THEN "awarded" ELSE "expired"]]] = j
        BY <1>1 DEF Jobs
    <2>2. QED BY <2>1 DEF Award
<1>4. bs \in Seq(Bids) /\ Len(bs) = Len(job.bids)
    <2>1. \A k \in 1..Len(job.bids) : bs[k] \in Bids
        BY <1>1, <1>2, JobShape DEF Bids
    <2>2. bs = [k \in 1..Len(job.bids) |-> bs[k]] BY <1>2
    <2> HIDE DEF bs
    <2>3. bs \in [1..Len(job.bids) -> Bids] BY <2>1, <2>2
    <2>4. QED BY <1>2, <2>3
<1> HIDE DEF bs
<1>5. j \in Jobs /\ j.bids = bs /\ j.awarded = i /\ j.status = "awarded"
    <2> DEFINE ja == [job EXCEPT !.status = "awarded"]
               jb == [ja EXCEPT !.awarded = i]
    <2>1. ja \in Jobs /\ ja.status = "awarded" BY <1>1 DEF Jobs, Statuses
    <2>2. j = [jb EXCEPT !.bids = bs] OBVIOUS
    <2> HIDE DEF ja
    <2>3. i \in Nat BY <1>2
    <2>4. jb \in Jobs /\ jb.awarded = i /\ jb.status = "awarded" BY <2>1, <2>3 DEF Jobs
    <2> HIDE DEF jb, j
    <2>5. j \in Jobs /\ j.bids = bs BY <1>4, <2>2, <2>4, JobWithBids
    <2>6. j.awarded = i /\ j.status = "awarded" BY <2>2, <2>4 DEF Jobs
    <2>7. QED BY <2>5, <2>6
<1>6. j.winner = job.winner /\ j.fee = job.fee /\ ~Past(job)
    BY <1>1 DEF Jobs, Past
<1> HIDE DEF j
<1>7. Sound(j)
    BY <1>2, <1>4, <1>5, <1>6 DEF BInv, Sound, Past
<1>8. /\ bidding' \subseteq [agent : Agents, price : Prices, existing : 0..Len(j.bids)]
      /\ paying' \in [Payments -> Requests]
      /\ Ends
      /\ UNCHANGED <<charged, signed, crashes, lost, overlaps>>
    BY <1>4, <1>5 DEF Award, BInv, TypeOK, Ends, requestVars, moneyVars, faultVars
<1>9. QED BY <1>1, <1>3, <1>5, <1>6, <1>7, <1>8, EditKeeps

\* The delivery sets the hash of a job that has none paid.
LEMMA DeliverStep == ASSUME BInv, NEW h \in Hashes, Deliver(h) PROVE BInv'
<1> DEFINE ja == [job EXCEPT !.status = "delivered"]
           j == [job EXCEPT !.status = "delivered", !.hash = h]
<1>1. job \in Jobs /\ job.status = "awarded" BY DEF BInv, TypeOK, Deliver
<1>2. Update(j) BY DEF Deliver
<1>3. j = [ja EXCEPT !.hash = h] OBVIOUS
<1>4. /\ ja \in Jobs /\ ja.status = "delivered" /\ ja.bids = job.bids /\ ja.awarded = job.awarded
      /\ ja.winner = job.winner /\ ja.fee = job.fee
    BY <1>1 DEF Jobs, Statuses
<1> HIDE DEF ja, j
<1>5. /\ j \in Jobs /\ j.status = "delivered" /\ j.bids = job.bids /\ j.awarded = job.awarded
      /\ j.winner = job.winner /\ j.fee = job.fee /\ j.hash = h
    BY <1>3, <1>4 DEF Jobs
<1>6. ~Past(job) BY <1>1 DEF Past
<1>7. Sound(j)
    BY <1>1, <1>5, <1>6 DEF BInv, Sound, Past
<1>8. /\ bidding' \subseteq [agent : Agents, price : Prices, existing : 0..Len(j.bids)]
      /\ paying' \in [Payments -> Requests]
      /\ Ends
      /\ UNCHANGED <<charged, signed, crashes, lost, overlaps>>
    BY <1>5 DEF Deliver, BInv, TypeOK, Ends, requestVars, moneyVars, faultVars
<1>9. QED BY <1>1, <1>2, <1>5, <1>6, <1>7, <1>8, EditKeeps

\* A later status of a delivered job changes nothing the invariant speaks of.
LEMMA StatusKeeps ==
    ASSUME BInv, NEW j \in Jobs, Update(j), Past(job), Past(j),
           j.bids = job.bids, j.awarded = job.awarded, j.hash = job.hash,
           j.winner = job.winner, j.fee = job.fee,
           bidding' = bidding, paying' \in [Payments -> Requests],
           Ends,
           UNCHANGED <<charged, signed, crashes, lost, overlaps>>
    PROVE  BInv'
<1>1. Sound(j)
    <2>1. j.awarded # 0 BY DEF BInv, Sound, Past
    <2>2. QED BY <2>1 DEF BInv, Sound, Past
<1>2. bidding' \subseteq [agent : Agents, price : Prices, existing : 0..Len(j.bids)]
    BY DEF BInv, TypeOK
<1>3. QED BY <1>1, <1>2, EditKeeps DEF Past

\* The reveal closes a paid job and keeps what it was paid for.
LEMMA RevealStep == ASSUME BInv, Reveal PROVE BInv'
<1> DEFINE ja == [job EXCEPT !.revealed = TRUE]
           j == [job EXCEPT !.revealed = TRUE, !.status = "closed"]
<1>1. job \in Jobs /\ Past(job) BY DEF BInv, TypeOK, Reveal, Past
<1>2. Update(j) BY DEF Reveal
<1>3. j = [ja EXCEPT !.status = "closed"] OBVIOUS
<1>4. /\ ja \in Jobs /\ ja.bids = job.bids /\ ja.awarded = job.awarded /\ ja.hash = job.hash
      /\ ja.winner = job.winner /\ ja.fee = job.fee
    BY <1>1 DEF Jobs
<1> HIDE DEF ja, j
<1>5. /\ j \in Jobs /\ j.status = "closed" /\ j.bids = job.bids /\ j.awarded = job.awarded
      /\ j.winner = job.winner /\ j.fee = job.fee /\ j.hash = job.hash
    BY <1>3, <1>4 DEF Jobs, Statuses
<1>6. /\ bidding' = bidding /\ paying' \in [Payments -> Requests]
      /\ Ends
      /\ UNCHANGED <<charged, signed, crashes, lost, overlaps>>
    BY DEF Reveal, BInv, TypeOK, Ends, requestVars, moneyVars, faultVars
<1>7. Past(j) BY <1>5 DEF Past
<1>8. QED BY <1>1, <1>2, <1>5, <1>6, <1>7, StatusKeeps

\* A challenge keeps what the job was paid for.
LEMMA ChallengeStep == ASSUME BInv, Challenge PROVE BInv'
<1> DEFINE j == [job EXCEPT !.status = "challenged"]
<1>1. job \in Jobs /\ Past(job) BY DEF BInv, TypeOK, Challenge, Past
<1>2. Update(j) BY DEF Challenge
<1>3. /\ j \in Jobs /\ j.status = "challenged" /\ j.bids = job.bids /\ j.awarded = job.awarded
      /\ j.winner = job.winner /\ j.fee = job.fee /\ j.hash = job.hash
    BY <1>1 DEF Jobs, Statuses
<1> HIDE DEF j
<1>4. /\ bidding' = bidding /\ paying' \in [Payments -> Requests]
      /\ Ends
      /\ UNCHANGED <<charged, signed, crashes, lost, overlaps>>
    BY DEF Challenge, BInv, TypeOK, Ends, requestVars, moneyVars, faultVars
<1>5. Past(j) BY <1>3 DEF Past
<1>6. QED BY <1>1, <1>2, <1>3, <1>4, <1>5, StatusKeeps

\* The request that closes the payment still pays for the job it signed for.
LEMMA ClosePaymentStep == ASSUME BInv, NEW r \in Payments, ClosePayment(r) PROVE BInv'
<1> DEFINE ja == [job EXCEPT !.payout = TRUE]
           j == [job EXCEPT !.payout = TRUE, !.status = "paid"]
<1>1. job \in Jobs /\ TypeOK BY DEF BInv, TypeOK
<1>2. Past(job)
    <2>1. paying[r] # Idle BY <1>1, RequestShape DEF ClosePayment
    <2>2. QED BY <2>1 DEF BInv, InOrder
<1>3. Update(j) BY DEF ClosePayment, PaidJob
<1>4. j = [ja EXCEPT !.status = "paid"] OBVIOUS
<1>5. /\ ja \in Jobs /\ ja.bids = job.bids /\ ja.awarded = job.awarded /\ ja.hash = job.hash
      /\ ja.winner = job.winner /\ ja.fee = job.fee
    BY <1>1 DEF Jobs
<1> HIDE DEF ja, j
<1>6. /\ j \in Jobs /\ j.status = "paid" /\ j.bids = job.bids /\ j.awarded = job.awarded
      /\ j.winner = job.winner /\ j.fee = job.fee /\ j.hash = job.hash
    BY <1>4, <1>5 DEF Jobs, Statuses
<1>7. /\ paying' \in [Payments -> Requests]
      /\ Ends
    BY <1>1 DEF ClosePayment, TypeOK, Requests, Ends, Settles, Legs
<1>8. bidding' = bidding /\ UNCHANGED <<charged, signed, crashes, lost, overlaps>>
    BY DEF ClosePayment, moneyVars, faultVars
<1>9. Past(j) BY <1>6 DEF Past
<1>10. QED BY <1>2, <1>3, <1>6, <1>7, <1>8, <1>9, StatusKeeps

-----------------------------------------------------------------------------
(* Steps that leave the job alone. *)

\* A bid that starts or is refused and a leg that is refused touch no job.
LEMMA QuietKeeps ==
    ASSUME BInv, UNCHANGED <<job, disk, charged, signed, crashes, failedSaves, lost, overlaps>>,
           bidding' \subseteq [agent : Agents, price : Prices, existing : 0..Len(job.bids)],
           job.status = "gone" => bidding' = {},
           paying' \in [Payments -> Requests],
           Ends
    PROVE  BInv'
<1> USE DEF BInv
<1>1. TypeOK' BY DEF TypeOK
<1>2. Sound(job)' /\ Sound(disk)' BY DEF Sound, Past
<1>3. InOrder'
    <2> SUFFICES ASSUME NEW r \in Payments, paying'[r] # Idle
                 PROVE  /\ Past(job)'
                        /\ paying'[r].at # "winner" => job'.winner # 0
                        /\ paying'[r].at \in {"sign", "close"} =>
                              /\ job'.fee # 0
                              /\ Settled(paying[r].receipt)'
                              /\ paying'[r].receipt.hash = job'.hash
        BY DEF InOrder
    <2>1. paying'[r] = paying[r]
        BY DEF Ends
    <2>2. QED BY <2>1 DEF InOrder, Settled, Past
<1>4. RefsCharged' BY DEF RefsCharged, Ends, Idle, Legs
<1>5. FileFollows' BY DEF FileFollows
<1>6. Backed' BY DEF Backed, Settled
<1>7. Allowed'
    <2>1. \A l \in Legs : Bare(l)' => Bare(l) BY DEF Bare
    <2>2. QED BY <2>1, EndingKeeps
<1>8. QED BY <1>1, <1>2, <1>3, <1>4, <1>5, <1>6, <1>7

\* A nonempty set of places has a first one.
LEMMA LeastExists ==
    ASSUME NEW S \in SUBSET Nat, S # {}
    PROVE  \E i \in S : \A k \in S : i <= k
<1> DEFINE R == {ij \in Nat \X Nat : ij[1] < ij[2]}
<1>1. IsWellFoundedOn(R, Nat)
    BY NatLessThanWellFounded DEF OpToRel
<1>2. \A i, k \in Nat : k < i => <<k, i>> \in R
    OBVIOUS
<1> HIDE DEF R
<1>3. PICK i \in S : \A k \in S : ~(<<k, i>> \in R)
    BY <1>1, WFMin
<1>4. ASSUME NEW k \in S PROVE i <= k
    <2>1. i \in Nat /\ k \in Nat /\ ~(k < i) BY <1>2, <1>3
    <2>2. QED BY <2>1
<1>5. QED BY <1>4

\* A bid that starts remembers the place of the agent's own bid, if it has one.
LEMMA StartBidStep ==
    ASSUME BInv, NEW a \in Agents, NEW p \in Prices, StartBid(a, p) PROVE BInv'
<1> DEFINE own == BidOf(a)
           existing == IF own = {} THEN 0 ELSE CHOOSE i \in own : \A k \in own : i <= k
<1>1. /\ UNCHANGED <<job, disk, charged, signed, crashes, failedSaves, lost, overlaps, paying>>
      /\ bidding' = bidding \cup {[agent |-> a, price |-> p, existing |-> existing]}
    BY DEF StartBid, moneyVars, faultVars
<1>2. own \subseteq 1..Len(job.bids) BY DEF BidOf
<1>3. Len(job.bids) \in Nat BY JobShape DEF BInv, TypeOK
<1>4. existing \in 0..Len(job.bids)
    <2>1. CASE own = {} BY <1>3, <2>1
    <2>2. CASE own # {}
        <3>1. own \in SUBSET Nat BY <1>2, <1>3
        <3> HIDE DEF own
        <3>2. \E i \in own : \A k \in own : i <= k
            BY <2>2, <3>1, LeastExists
        <3>3. existing \in own BY <2>2, <3>2
        <3>4. QED BY ONLY <1>2, <1>3, <3>3, 1..Len(job.bids) \subseteq 0..Len(job.bids)
    <2>3. QED BY <2>1, <2>2
<1> HIDE DEF existing
<1>5. bidding' \subseteq [agent : Agents, price : Prices, existing : 0..Len(job.bids)]
    BY <1>1, <1>4 DEF BInv, TypeOK
<1>6. /\ paying' \in [Payments -> Requests]
      /\ Ends
    BY <1>1 DEF BInv, TypeOK, Ends
<1>7. job.status # "gone" BY DEF StartBid
<1>8. QED BY <1>1, <1>5, <1>6, <1>7, QuietKeeps

\* A bid whose stamp is refused is only forgotten.
LEMMA RefuseBidStep == ASSUME BInv, NEW b \in bidding, RefuseBid(b) PROVE BInv'
<1>1. /\ UNCHANGED <<job, disk, charged, signed, crashes, failedSaves, lost, overlaps>>
      /\ bidding' \subseteq [agent : Agents, price : Prices, existing : 0..Len(job.bids)]
      /\ paying' \in [Payments -> Requests]
      /\ Ends
    BY DEF RefuseBid, moneyVars, faultVars, BInv, TypeOK, Ends
<1>2. job.status = "gone" => bidding' = {} BY DEF BInv, RefuseBid
<1>3. QED BY <1>1, <1>2, QuietKeeps

\* A leg that is refused ends its request and charges nothing.
LEMMA LegRefusedStep == ASSUME BInv, NEW r \in Payments, LegRefused(r) PROVE BInv'
<1>1. /\ UNCHANGED <<job, disk, charged, signed, crashes, failedSaves, lost, overlaps>>
      /\ bidding' \subseteq [agent : Agents, price : Prices, existing : 0..Len(job.bids)]
      /\ paying' \in [Payments -> Requests]
      /\ job.status = "gone" => bidding' = {}
    BY DEF LegRefused, moneyVars, faultVars, BInv, TypeOK, Requests
<1>2. Ends BY DEF LegRefused, Ends, Settles, BInv, TypeOK
<1>3. QED BY <1>1, <1>2, QuietKeeps

\* A signature or book row that throws ends its request; the job keeps both legs.
LEMMA SignFailsStep == ASSUME BInv, NEW r \in Payments, SignFails(r) PROVE BInv'
<1>1. /\ UNCHANGED <<job, disk, charged, signed, crashes, failedSaves, lost, overlaps>>
      /\ bidding' \subseteq [agent : Agents, price : Prices, existing : 0..Len(job.bids)]
      /\ paying' \in [Payments -> Requests]
      /\ job.status = "gone" => bidding' = {}
    BY DEF SignFails, moneyVars, faultVars, BInv, TypeOK, Requests
<1>2. Ends BY DEF SignFails, Ends, Settles, Legs, BInv, TypeOK
<1>3. QED BY <1>1, <1>2, QuietKeeps

\* The process that comes back has what the file has or nothing, and no request.  A leg
\* it may be charged for again was not charged, or the crash lost the record of it.
LEMMA DieStep ==
    ASSUME BInv, Die, job' \in {disk, [NewJob EXCEPT !.status = "gone"]} PROVE BInv'
<1> USE DEF BInv
<1> DEFINE gone == [NewJob EXCEPT !.status = "gone"]
<1>1. /\ disk' = disk /\ bidding' = {} /\ paying' = [r \in Payments |-> Idle]
      /\ crashes' = crashes + 1
      /\ lost' = [l \in Legs |-> IF Forgotten(l) THEN lost[l] + 1 ELSE lost[l]]
      /\ UNCHANGED <<charged, signed, failedSaves, overlaps>>
    BY DEF Die, moneyVars
<1>2. /\ gone \in Jobs /\ gone.status = "gone" /\ gone.winner = 0 /\ gone.fee = 0
      /\ gone.awarded = 0 /\ gone.bids = <<>>
    <2>1. NewJob \in Jobs /\ NewJob.winner = 0 /\ NewJob.fee = 0 /\ NewJob.awarded = 0
        BY DEF NewJob, Jobs, Statuses
    <2>2. NewJob.bids = <<>> BY DEF NewJob
    <2> HIDE DEF NewJob
    <2>3. \A y \in Jobs : /\ [y EXCEPT !.status = "gone"] \in Jobs
                          /\ [y EXCEPT !.status = "gone"].status = "gone"
                          /\ [y EXCEPT !.status = "gone"].winner = y.winner
                          /\ [y EXCEPT !.status = "gone"].fee = y.fee
                          /\ [y EXCEPT !.status = "gone"].awarded = y.awarded
                          /\ [y EXCEPT !.status = "gone"].bids = y.bids
        BY DEF Jobs, Statuses
    <2>4. QED BY <2>1, <2>2, <2>3
<1>3. job' = disk \/ job' = gone OBVIOUS
<1> HIDE DEF gone
<1>4. TypeOK'
    <2>1. lost' \in [Legs -> Nat] BY <1>1 DEF TypeOK
    <2>2. job' \in Jobs BY <1>2, <1>3 DEF TypeOK
    <2>3. QED BY <1>1, <2>1, <2>2 DEF TypeOK, Requests
<1>5. Sound(job)' /\ Sound(disk)'
    <2>1. Sound(disk)' BY <1>1 DEF Sound, Past
    <2>2. CASE job' = disk BY <1>1, <2>2 DEF Sound, Past
    <2>3. CASE job' = gone
        <3>1. charged["winner"] \in Nat /\ charged["fee"] \in Nat BY DEF TypeOK, Legs
        <3>2. QED BY <1>1, <1>2, <2>3, <3>1 DEF Sound, Past
    <2>4. QED BY <1>3, <2>1, <2>2, <2>3
<1>6. InOrder' BY <1>1 DEF InOrder
<1>7. RefsCharged' BY <1>1 DEF RefsCharged, Idle, Legs
<1>8. FileFollows' BY <1>1, <1>2, <1>3 DEF FileFollows
<1>9. Backed' BY <1>1, <1>2, <1>3 DEF Backed, Settled
<1>10. Allowed'
    <2> SUFFICES ASSUME NEW l \in Legs
                 PROVE  /\ charged[l] + Cardinality(Waiting(l)') <= 1 + overlaps[l] + lost'[l]
                        /\ Bare(l)' => charged[l] <= overlaps[l] + lost'[l]
        BY <1>1 DEF Allowed
    <2>1. /\ charged[l] + Cardinality(Waiting(l)) <= 1 + overlaps[l] + lost[l]
          /\ Bare(l) /\ Nobody(l) => charged[l] <= overlaps[l] + lost[l]
        BY DEF Allowed
    <2>2. /\ charged[l] \in Nat /\ overlaps[l] \in Nat /\ lost[l] \in Nat
          /\ Cardinality(Waiting(l)) \in Nat
          /\ Waiting(l) # {} => Cardinality(Waiting(l)) >= 1
        BY LegCounts
    <2>3. Waiting(l)' = {} BY <1>1 DEF Waiting, Idle, Legs
    <2>4. Cardinality(Waiting(l)') = 0 BY <2>3, FS_EmptySet
    <2>5. lost'[l] = IF Forgotten(l) THEN lost[l] + 1 ELSE lost[l] BY <1>1
    <2>6. CASE Forgotten(l) BY <2>1, <2>2, <2>4, <2>5, <2>6
    <2>7. CASE ~Forgotten(l)
        <3>1. Bare(l)' => Bare(l) /\ \A r \in Payments : ~Settles(r, l)
            BY <1>1, <2>7 DEF Bare, Forgotten
        <3>2. CASE Nobody(l) BY <2>1, <2>2, <2>4, <2>5, <2>7, <3>1, <3>2
        <3>3. CASE ~Nobody(l)
            <4>1. Bare(l)' => Cardinality(Waiting(l)) >= 1 BY <2>2, <3>1, <3>3, UnpaidWait
            <4>2. QED BY <2>1, <2>2, <2>4, <2>5, <2>7, <4>1
        <3>4. QED BY <3>2, <3>3
    <2>8. QED BY <2>6, <2>7
<1>11. QED BY <1>1, <1>4, <1>5, <1>6, <1>7, <1>8, <1>9, <1>10

\* Another job's save brings the file up to memory.
LEMMA OtherSaveStep == ASSUME BInv, OtherSave PROVE BInv'
<1> USE DEF BInv
<1>1. /\ disk' = job
      /\ UNCHANGED <<job, bidding, paying, charged, signed, crashes, lost, overlaps, failedSaves>>
    BY DEF OtherSave, requestVars, moneyVars, faultVars
<1>2. TypeOK' BY <1>1 DEF TypeOK
<1>3. Sound(job)' /\ Sound(disk)' BY <1>1 DEF Sound, Past
<1>4. InOrder' BY <1>1 DEF InOrder, Settled, Past
<1>5. RefsCharged' BY <1>1 DEF RefsCharged
<1>6. FileFollows' BY <1>1 DEF FileFollows
<1>7. Backed' BY <1>1 DEF Backed, Settled
<1>8. Allowed'
    <2>1. \A l \in Legs : Bare(l)' => Bare(l) BY <1>1 DEF Bare, FileFollows
    <2>2. QED BY <1>1, <2>1, EndingKeeps DEF Ends
<1>9. QED BY <1>1, <1>2, <1>3, <1>4, <1>5, <1>6, <1>7, <1>8

\* The receipt is signed while memory has both its legs, and so the file has the winner's.
LEMMA SignReceiptStep == ASSUME BInv, NEW r \in Payments, SignReceipt(r) PROVE BInv'
<1> USE DEF BInv
<1> DEFINE rc == paying[r].receipt
<1>1. /\ UNCHANGED <<job, disk, bidding, charged, crashes, failedSaves, lost, overlaps>>
      /\ signed' = signed \cup {rc}
      /\ paying' = [paying EXCEPT ![r].at = "close"]
      /\ paying[r].at = "sign"
    BY DEF SignReceipt, faultVars
<1>2. /\ paying[r] \in [at : {"sign", "close"}, price : Prices, receipt : Receipts]
      /\ paying[r] # Idle
    BY <1>1, RequestShape
<1>3. /\ job.winner # 0 /\ job.fee # 0 /\ Settled(rc) /\ rc.hash = job.hash
      /\ Past(job)
    BY <1>1, <1>2 DEF InOrder
<1>4. /\ paying' \in [Payments -> Requests]
      /\ \A q \in Payments : q # r => paying'[q] = paying[q]
      /\ paying'[r].at = "close" /\ paying'[r].receipt = rc
    <2>1. paying \in [Payments -> Requests] BY DEF TypeOK
    <2>2. [paying[r] EXCEPT !.at = "close"] \in [at : {"sign", "close"}, price : Prices, receipt : Receipts]
        BY <1>2
    <2>3. [paying[r] EXCEPT !.at = "close"].receipt = rc /\ [paying[r] EXCEPT !.at = "close"].at = "close"
        BY <1>2
    <2>4. [paying[r] EXCEPT !.at = "close"] \in Requests BY <2>2 DEF Requests
    <2>5. QED BY <1>1, <2>1, <2>3, <2>4
<1>5. TypeOK'
    BY <1>1, <1>2, <1>4 DEF TypeOK
<1>6. Sound(job)' /\ Sound(disk)' BY <1>1 DEF Sound, Past
<1>7. InOrder'
    <2> SUFFICES ASSUME NEW q \in Payments, paying'[q] # Idle
                 PROVE  /\ Past(job)'
                        /\ paying'[q].at # "winner" => job'.winner # 0
                        /\ paying'[q].at \in {"sign", "close"} =>
                              /\ job'.fee # 0
                              /\ Settled(paying[q].receipt)'
                              /\ paying'[q].receipt.hash = job'.hash
        BY DEF InOrder
    <2>1. CASE q = r BY <1>1, <1>3, <1>4, <2>1 DEF Settled, Past
    <2>2. CASE q # r BY <1>1, <1>4, <2>2 DEF InOrder, Settled, Past
    <2>3. QED BY <2>1, <2>2
<1>8. RefsCharged'
    BY <1>1, <1>4 DEF RefsCharged, Legs
<1>9. FileFollows' BY <1>1 DEF FileFollows
<1>10. Backed'
    BY <1>1, <1>3 DEF Backed, Settled, FileFollows
<1>11. Allowed'
    <2>1. \A l \in Legs : Waiting(l)' = Waiting(l) /\ (Nobody(l)' <=> Nobody(l)) /\ (Bare(l)' <=> Bare(l))
        BY <1>1, <1>4 DEF Waiting, Nobody, Bare, Legs
    <2>2. QED BY <1>1, <2>1 DEF Allowed
<1>12. QED BY <1>1, <1>5, <1>6, <1>7, <1>8, <1>9, <1>10, <1>11

-----------------------------------------------------------------------------
(* The legs of a payment. *)

\* A request put at a leg is one more that may charge it.
LEMMA OneMoreWaits ==
    ASSUME TypeOK, NEW r \in Payments, NEW x, x \in Requests, paying[r] = Idle,
           x.at \in Legs => x.ref = 0,
           paying' = [paying EXCEPT ![r] = x], NEW l \in Legs
    PROVE  /\ Cardinality(Waiting(l)') \in Nat
           /\ x.at = l => Cardinality(Waiting(l)') = Cardinality(Waiting(l)) + 1
           /\ x.at # l => Cardinality(Waiting(l)') = Cardinality(Waiting(l))
<1>1. paying \in [Payments -> Requests] BY DEF TypeOK
<1>2. r \notin Waiting(l) BY DEF Waiting, Idle, Legs
<1>3. x.at = l => Waiting(l)' = Waiting(l) \cup {r} BY <1>1 DEF Waiting
<1>4. x.at # l => Waiting(l)' = Waiting(l) BY <1>1, <1>2 DEF Waiting
<1>5. IsFiniteSet(Waiting(l)) /\ Cardinality(Waiting(l)) \in Nat BY WaitingCounted
<1>6. Cardinality(Waiting(l) \cup {r}) = Cardinality(Waiting(l)) + 1
    BY <1>2, <1>5, FS_AddElement
<1>7. CASE x.at = l
    <2>1. Cardinality(Waiting(l)') = Cardinality(Waiting(l)) + 1 BY <1>3, <1>6, <1>7
    <2>2. QED BY <1>5, <1>7, <2>1
<1>8. CASE x.at # l
    BY <1>4, <1>5, <1>8
<1>9. QED BY <1>7, <1>8

\* A request that starts goes to the leg the job lacks.  Alone, it is the first to wait
\* for it; beside another one, the overlap allows for it.
LEMMA StartPayStep == ASSUME BInv, NEW r \in Payments, StartPay(r) PROVE BInv'
<1> USE DEF BInv
<1> DEFINE price == job.bids[job.awarded].price
           x == NextLeg(job, price)
           beside == x.at \in Legs /\ \E q \in Payments : paying[q].at = x.at
<1>1. /\ UNCHANGED <<job, disk, bidding, charged, signed, crashes, failedSaves, lost>>
      /\ paying[r] = Idle /\ job.status = "delivered"
      /\ paying' = [paying EXCEPT ![r] = x]
      /\ overlaps' = IF beside THEN [overlaps EXCEPT ![x.at] = @ + 1] ELSE overlaps
    BY DEF StartPay, Payable, moneyVars
<1>2. job \in Jobs /\ Past(job) BY <1>1 DEF TypeOK, Past
<1>3. price \in Prices
    <2>1. job.awarded \in 1..Len(job.bids)
        BY <1>1, <1>2, JobShape DEF Sound
    <2>2. QED BY <1>2, <2>1, JobShape DEF Bids
<1> HIDE DEF price
<1>4. /\ x \in Requests
      /\ x.at = "winner" => job.winner = 0
      /\ x.at = "fee" => job.fee = 0 /\ job.winner # 0
      /\ x.at \in {"sign", "close"} =>
            /\ job.winner # 0 /\ job.fee # 0 /\ x.receipt.hash = job.hash
            /\ x.receipt.winner = job.winner /\ x.receipt.fee = job.fee
      /\ x.at \in Legs \cup {"sign"}
      /\ x.at \in Legs => x.ref = 0
    <2>1. CASE job.winner = 0
        <3>1. x = [at |-> "winner", price |-> price, ref |-> 0] BY <2>1 DEF NextLeg, AtLeg
        <3> HIDE DEF x
        <3>2. QED BY <1>3, <2>1, <3>1 DEF Requests, Legs
    <2>2. CASE job.winner # 0 /\ job.fee = 0
        <3>1. x = [at |-> "fee", price |-> price, ref |-> 0] BY <2>2 DEF NextLeg, AtLeg
        <3> HIDE DEF x
        <3>2. QED BY <1>3, <2>2, <3>1 DEF Requests, Legs
    <2>3. CASE job.winner # 0 /\ job.fee # 0
        <3> DEFINE rc == [winner |-> job.winner, fee |-> job.fee, amount |-> price, hash |-> job.hash]
        <3>1. x = [at |-> "sign", price |-> price, receipt |-> rc] BY <2>3 DEF NextLeg, Signing
        <3>2. job.hash \in Hashes BY <1>2 DEF Sound
        <3>3. rc \in Receipts BY <1>2, <1>3, <3>2 DEF Receipts, Jobs
        <3>4. rc.winner = job.winner /\ rc.fee = job.fee /\ rc.hash = job.hash OBVIOUS
        <3> HIDE DEF x, rc
        <3>5. QED BY <1>3, <2>3, <3>1, <3>3, <3>4 DEF Requests, Legs
    <2>4. QED BY <2>1, <2>2, <2>3
<1> HIDE DEF x
<1>5. paying' \in [Payments -> Requests] /\ paying'[r] = x /\ \A q \in Payments : q # r => paying'[q] = paying[q]
    BY <1>1, <1>4 DEF TypeOK
<1>6. TypeOK'
    <2>1. overlaps' \in [Legs -> Nat] BY <1>1 DEF TypeOK
    <2>2. QED BY <1>1, <1>5, <2>1 DEF TypeOK
<1>7. Sound(job)' /\ Sound(disk)' BY <1>1 DEF Sound, Past
<1>8. InOrder'
    <2> SUFFICES ASSUME NEW q \in Payments, paying'[q] # Idle
                 PROVE  /\ Past(job)'
                        /\ paying'[q].at # "winner" => job'.winner # 0
                        /\ paying'[q].at \in {"sign", "close"} =>
                              /\ job'.fee # 0
                              /\ Settled(paying[q].receipt)'
                              /\ paying'[q].receipt.hash = job'.hash
        BY DEF InOrder
    <2>1. CASE q = r
        <3>1. Past(job)' /\ (x.at # "winner" => job.winner # 0)
            BY <1>1, <1>2, <1>4 DEF Past, Legs
        <3>2. ASSUME x.at \in {"sign", "close"} PROVE Settled(paying[q].receipt)'
            <4>1. /\ job.winner \in Nat /\ job.fee \in Nat
                  /\ charged["winner"] \in Nat /\ charged["fee"] \in Nat
                BY <1>2, JobShape DEF TypeOK, Legs
            <4>2. job.winner \in 1..charged["winner"] /\ job.fee \in 1..charged["fee"]
                BY <1>4, <3>2, <4>1 DEF Sound
            <4>3. QED BY <1>1, <1>4, <1>5, <2>1, <3>2, <4>2 DEF Settled
        <3>3. QED BY <1>1, <1>4, <1>5, <2>1, <3>1, <3>2
    <2>2. CASE q # r BY <1>1, <1>5, <2>2 DEF InOrder, Settled, Past
    <2>3. QED BY <2>1, <2>2
<1>9. RefsCharged'
    <2> SUFFICES ASSUME NEW q \in Payments, NEW l \in Legs, paying'[q].at = l
                 PROVE  paying'[q].ref <= charged[l]
        BY <1>1 DEF RefsCharged
    <2>1. CASE q = r
        <3>1. paying'[q].ref = 0 BY <1>4, <1>5, <2>1
        <3>2. QED BY <3>1, LegCounts
    <2>2. CASE q # r BY <1>5, <2>2 DEF RefsCharged
    <2>3. QED BY <2>1, <2>2
<1>10. FileFollows' BY <1>1 DEF FileFollows
<1>11. Backed' BY <1>1 DEF Backed, Settled
<1>12. Allowed'
    <2> SUFFICES ASSUME NEW l \in Legs
                 PROVE  /\ charged[l] + Cardinality(Waiting(l)') <= 1 + overlaps'[l] + lost[l]
                        /\ Bare(l)' /\ Nobody(l)' => charged[l] <= overlaps'[l] + lost[l]
        BY <1>1 DEF Allowed
    <2>1. /\ charged[l] + Cardinality(Waiting(l)) <= 1 + overlaps[l] + lost[l]
          /\ Bare(l) /\ Nobody(l) => charged[l] <= overlaps[l] + lost[l]
        BY DEF Allowed
    <2>2. /\ charged[l] \in Nat /\ overlaps[l] \in Nat /\ lost[l] \in Nat
          /\ Cardinality(Waiting(l)) \in Nat
        BY LegCounts
    <2>3. /\ Cardinality(Waiting(l)') \in Nat
          /\ x.at = l => Cardinality(Waiting(l)') = Cardinality(Waiting(l)) + 1
          /\ x.at # l => Cardinality(Waiting(l)') = Cardinality(Waiting(l))
        BY <1>1, <1>4, OneMoreWaits
    <2>4. Bare(l)' <=> Bare(l) BY <1>1 DEF Bare
    <2>5. CASE x.at # l
        <3>1. overlaps'[l] = overlaps[l] BY <1>1, <2>5 DEF TypeOK
        <3>2. Nobody(l)' => Nobody(l) BY <1>1, <1>5 DEF Nobody, Idle, Legs
        <3>3. QED BY <2>1, <2>2, <2>3, <2>4, <2>5, <3>1, <3>2
    <2>6. CASE x.at = l /\ beside
        <3>1. overlaps'[l] = overlaps[l] + 1 BY <1>1, <2>6 DEF TypeOK
        <3>2. ~Nobody(l)' BY <1>5, <2>6 DEF Nobody
        <3>3. QED BY <2>1, <2>2, <2>3, <2>6, <3>1, <3>2
    <2>7. CASE x.at = l /\ ~beside
        <3>1. overlaps'[l] = overlaps[l] BY <1>1, <2>7
        <3>2. ~Nobody(l)' BY <1>5, <2>7 DEF Nobody
        <3>3. Nobody(l) BY <2>7 DEF Nobody
        <3>4. Bare(l)
            <4>1. job[l] = 0 BY <1>4, <2>7 DEF Legs
            <4>2. QED BY <1>1, <4>1 DEF Bare, FileFollows
        <3>5. Waiting(l) = {} BY <3>3 DEF Nobody, Waiting
        <3>6. Cardinality(Waiting(l)) = 0 BY <3>5, FS_EmptySet
        <3>7. QED BY <2>1, <2>2, <2>3, <2>7, <3>1, <3>2, <3>3, <3>4, <3>6
    <2>8. QED BY <2>5, <2>6, <2>7
<1>13. QED BY <1>1, <1>6, <1>7, <1>8, <1>9, <1>10, <1>11, <1>12

\* The money of a leg moves: the request that waited for it has its ref, and what was
\* allowed for it is spent.
LEMMA MoneyMovesStep == ASSUME BInv, NEW r \in Payments, MoneyMoves(r) PROVE BInv'
<1> USE DEF BInv
<1> DEFINE m == paying[r].at
           x == [paying[r] EXCEPT !.ref = charged'[m]]
<1>1. /\ m \in Legs /\ paying[r].ref = 0
      /\ charged' = [charged EXCEPT ![m] = @ + 1]
      /\ paying' = [paying EXCEPT ![r] = x]
      /\ UNCHANGED <<job, disk, bidding, signed, crashes, failedSaves, lost, overlaps>>
    BY DEF MoneyMoves, faultVars
<1>2. /\ charged \in [Legs -> Nat] /\ charged' \in [Legs -> Nat]
      /\ charged'[m] = charged[m] + 1 /\ \A l \in Legs : l # m => charged'[l] = charged[l]
    BY <1>1 DEF TypeOK
<1>3. \A l \in Legs : charged[l] \in Nat /\ charged'[l] \in Nat /\ charged[l] <= charged'[l]
    BY <1>1, <1>2
<1>4. /\ charged["winner"] \in Nat /\ charged["fee"] \in Nat
      /\ charged'["winner"] \in Nat /\ charged'["fee"] \in Nat
      /\ charged["winner"] <= charged'["winner"] /\ charged["fee"] <= charged'["fee"]
    BY <1>3 DEF Legs
<1>5. /\ x \in Requests /\ x.at = m /\ x.ref = charged'[m] /\ x.ref # 0
      /\ paying[r] # Idle /\ x.at \notin {"sign", "close"}
    <2>1. paying[r] \in [at : Legs, price : Prices, ref : Nat] /\ paying[r] # Idle
        <3>1. paying[r] \in Requests BY DEF TypeOK
        <3>2. QED BY <1>1, <3>1 DEF Requests, Idle, Legs
    <2>2. charged'[m] \in Nat /\ charged'[m] # 0 BY <1>1, <1>2, <1>3
    <2> HIDE DEF m
    <2>3. /\ x \in [at : Legs, price : Prices, ref : Nat]
          /\ x.at = paying[r].at /\ x.ref = charged'[m]
        BY <2>1, <2>2
    <2> HIDE DEF x
    <2>4. QED BY <1>1, <2>1, <2>2, <2>3 DEF Requests, Legs, m
<1> HIDE DEF x
<1>6. /\ paying' \in [Payments -> Requests] /\ paying'[r] = x
      /\ \A q \in Payments : q # r => paying'[q] = paying[q]
    BY <1>1, <1>5 DEF TypeOK
<1>7. \A q \in Payments : paying'[q].at = paying[q].at BY <1>5, <1>6
<1>8. TypeOK' BY <1>1, <1>2, <1>6 DEF TypeOK
<1>9. \A rc \in Receipts : Settled(rc) => Settled(rc)'
    BY <1>4 DEF Settled, Receipts
<1>10. Sound(job)' /\ Sound(disk)'
    <2>1. /\ job.winner \in Nat /\ job.fee \in Nat /\ disk.winner \in Nat /\ disk.fee \in Nat
        BY JobShape DEF TypeOK
    <2>2. /\ job.winner <= charged'["winner"] /\ job.fee <= charged'["fee"]
          /\ disk.winner <= charged'["winner"] /\ disk.fee <= charged'["fee"]
        BY <1>4, <2>1 DEF Sound
    <2>3. QED BY <1>1, <2>2 DEF Sound, Past
<1>11. InOrder'
    <2> SUFFICES ASSUME NEW q \in Payments, paying'[q] # Idle
                 PROVE  /\ Past(job)'
                        /\ paying'[q].at # "winner" => job'.winner # 0
                        /\ paying'[q].at \in {"sign", "close"} =>
                              /\ job'.fee # 0
                              /\ Settled(paying[q].receipt)'
                              /\ paying'[q].receipt.hash = job'.hash
        BY DEF InOrder
    <2>1. CASE q = r BY <1>1, <1>5, <1>6, <2>1 DEF InOrder, Past
    <2>2. CASE q # r
        <3>1. paying'[q] = paying[q] BY <1>6, <2>2
        <3>2. ASSUME paying[q].at \in {"sign", "close"} PROVE Settled(paying[q].receipt)'
            <4>1. Settled(paying[q].receipt) BY <3>1, <3>2 DEF InOrder
            <4>2. paying[q].receipt \in Receipts BY <3>2, RequestShape
            <4>3. QED BY <3>1, <4>1, <4>2, <1>9 DEF Settled
        <3>3. QED BY <1>1, <3>1, <3>2 DEF InOrder, Past
    <2>3. QED BY <2>1, <2>2
<1>12. RefsCharged'
    <2> SUFFICES ASSUME NEW q \in Payments, NEW l \in Legs, paying'[q].at = l
                 PROVE  paying'[q].ref <= charged'[l]
        BY DEF RefsCharged
    <2>1. CASE q = r BY <1>3, <1>5, <1>6, <2>1
    <2>2. CASE q # r
        <3>1. paying'[q] = paying[q] /\ paying[q].ref <= charged[l]
            BY <1>6, <2>2 DEF RefsCharged
        <3>2. paying[q].ref \in Nat BY <3>1, RequestShape
        <3>3. QED BY <1>3, <3>1, <3>2
    <2>3. QED BY <2>1, <2>2
<1>13. FileFollows' BY <1>1 DEF FileFollows
<1>14. Backed' BY <1>1, <1>9 DEF Backed, TypeOK
<1>15. Allowed'
    <2> SUFFICES ASSUME NEW l \in Legs
                 PROVE  /\ charged'[l] + Cardinality(Waiting(l)') <= 1 + overlaps[l] + lost[l]
                        /\ Bare(l)' /\ Nobody(l)' => charged'[l] <= overlaps[l] + lost[l]
        BY <1>1 DEF Allowed
    <2>1. /\ charged[l] + Cardinality(Waiting(l)) <= 1 + overlaps[l] + lost[l]
          /\ Bare(l) /\ Nobody(l) => charged[l] <= overlaps[l] + lost[l]
        BY DEF Allowed
    <2>2. /\ charged[l] \in Nat /\ overlaps[l] \in Nat /\ lost[l] \in Nat
          /\ IsFiniteSet(Waiting(l)) /\ Cardinality(Waiting(l)) \in Nat
        BY LegCounts
    <2>3. (Nobody(l)' <=> Nobody(l)) /\ (Bare(l)' <=> Bare(l))
        BY <1>1, <1>7 DEF Nobody, Bare
    <2>4. CASE l = m
        <3>1. r \in Waiting(l) /\ ~Nobody(l) BY <1>1, <2>4 DEF Waiting, Nobody
        <3>2. Waiting(l)' = Waiting(l) \ {r} BY <1>5, <1>6 DEF Waiting
        <3>3. Cardinality(Waiting(l)') = Cardinality(Waiting(l)) - 1
            BY <2>2, <3>1, <3>2, FS_RemoveElement
        <3>4. charged'[l] = charged[l] + 1 BY <1>2, <2>4
        <3>5. QED BY <2>1, <2>2, <2>3, <3>1, <3>3, <3>4
    <2>5. CASE l # m
        <3>1. Waiting(l)' = Waiting(l) BY <1>5, <1>6, <2>5 DEF Waiting
        <3>2. QED BY <1>2, <2>1, <2>2, <2>3, <2>5, <3>1
    <2>6. QED BY <2>4, <2>5
<1>16. QED BY <1>1, <1>8, <1>10, <1>11, <1>12, <1>13, <1>14, <1>15

\* A settled leg answered as a hold is one more charge without a record.
LEMMA LegHeldStep == ASSUME BInv, NEW r \in Payments, LegHeld(r) PROVE BInv'
<1> USE DEF BInv
<1>1. PICK m \in Legs : paying[r].at = m /\ paying[r].ref # 0
    BY DEF LegHeld, Settles
<1>2. /\ UNCHANGED <<job, disk, bidding, charged, signed, crashes, failedSaves, overlaps>>
      /\ lost' = [lost EXCEPT ![m] = @ + 1]
      /\ paying' = [paying EXCEPT ![r] = Idle]
    BY <1>1 DEF LegHeld, moneyVars
<1>3. /\ paying' \in [Payments -> Requests] /\ paying'[r] = Idle
      /\ \A q \in Payments : q # r => paying'[q] = paying[q]
    BY <1>2 DEF TypeOK, Requests
<1>4. TypeOK'
    <2>1. lost' \in [Legs -> Nat] BY <1>2 DEF TypeOK
    <2>2. QED BY <1>2, <1>3, <2>1 DEF TypeOK
<1>5. Sound(job)' /\ Sound(disk)' BY <1>2 DEF Sound, Past
<1>6. InOrder' BY <1>2, <1>3 DEF InOrder, Settled, Past
<1>7. RefsCharged' BY <1>2, <1>3 DEF RefsCharged, Idle, Legs
<1>8. FileFollows' BY <1>2 DEF FileFollows
<1>9. Backed' BY <1>2 DEF Backed, Settled
<1>10. Allowed'
    <2> SUFFICES ASSUME NEW l \in Legs
                 PROVE  /\ charged[l] + Cardinality(Waiting(l)') <= 1 + overlaps[l] + lost'[l]
                        /\ Bare(l)' /\ Nobody(l)' => charged[l] <= overlaps[l] + lost'[l]
        BY <1>2 DEF Allowed
    <2>1. /\ charged[l] + Cardinality(Waiting(l)) <= 1 + overlaps[l] + lost[l]
          /\ Bare(l) /\ Nobody(l) => charged[l] <= overlaps[l] + lost[l]
        BY DEF Allowed
    <2>2. /\ charged[l] \in Nat /\ overlaps[l] \in Nat /\ lost[l] \in Nat
          /\ Cardinality(Waiting(l)) \in Nat
        BY LegCounts
    <2>3. Waiting(l)' = Waiting(l) BY <1>1, <1>3 DEF Waiting, Idle, Legs
    <2>4. Bare(l)' <=> Bare(l) BY <1>2 DEF Bare
    <2>5. CASE l = m
        <3>1. lost'[l] = lost[l] + 1 BY <1>2, <2>5 DEF TypeOK
        <3>2. QED BY <2>1, <2>2, <2>3, <3>1
    <2>6. CASE l # m
        <3>1. lost'[l] = lost[l] BY <1>2, <2>6 DEF TypeOK
        <3>2. Nobody(l)' => Nobody(l) BY <1>1, <1>3, <2>6 DEF Nobody
        <3>3. QED BY <2>1, <2>2, <2>3, <2>4, <3>1, <3>2
    <2>7. QED BY <2>5, <2>6
<1>11. QED BY <1>2, <1>4, <1>5, <1>6, <1>7, <1>8, <1>9, <1>10

\* A leg that settled is put into the job in memory, saved or not; its request ends, or
\* goes on to sign what the job has by then.
LEMMA LegSettles ==
    ASSUME BInv, NEW r \in Payments, NEW m \in Legs, Settles(r, m),
           NEW j \in Jobs, Update(j),
           j.status = job.status, j.bids = job.bids, j.awarded = job.awarded, j.hash = job.hash,
           m = "winner" => j.winner = paying[r].ref /\ j.fee = job.fee,
           m = "fee" => j.fee = paying[r].ref /\ j.winner = job.winner,
           NEW x \in Requests, paying' = [paying EXCEPT ![r] = x],
           \/ x = Idle
           \/ /\ m = "fee" /\ x.at = "sign"
              /\ x.receipt.winner = j.winner /\ x.receipt.fee = j.fee /\ x.receipt.hash = j.hash,
           UNCHANGED <<bidding, charged, signed, crashes, lost, overlaps>>
    PROVE  BInv'
<1> USE DEF BInv
<1>1. /\ job' = j
      /\ \/ disk' = j /\ failedSaves' = failedSaves
         \/ disk' = disk /\ failedSaves' = failedSaves + 1
    BY DEF Update, Saved, SaveFailed
<1>2. failedSaves \in Nat /\ failedSaves' \in Nat
    BY <1>1 DEF TypeOK
<1>3. /\ Past(job) /\ Past(j)
      /\ m = "fee" => job.winner # 0
      /\ paying[r].at = m
    <2>1. paying[r].at = m /\ paying[r] # Idle BY RequestShape DEF Settles
    <2>2. QED BY <2>1 DEF InOrder, Past
<1>4. job.status # "gone" /\ j.status # "gone" /\ disk.status # "gone"
    BY <1>3 DEF Past, FileFollows
<1>5. paying[r].ref # 0 /\ paying[r].ref <= charged[m] /\ paying[r].ref \in Nat
    BY <1>3, RequestShape DEF Settles, RefsCharged
<1>6. charged["winner"] \in Nat /\ charged["fee"] \in Nat
    BY DEF TypeOK, Legs
<1>7. /\ job \in Jobs /\ disk \in Jobs
      /\ job.winner \in Nat /\ job.fee \in Nat /\ disk.winner \in Nat /\ disk.fee \in Nat
      /\ j.winner \in Nat /\ j.fee \in Nat
    BY JobShape DEF TypeOK
<1>8. /\ j.winner # 0
      /\ j.winner <= charged["winner"] /\ j.fee <= charged["fee"]
      /\ job.winner # 0 /\ job.fee # 0 => j.fee # 0
      /\ j.fee # 0 => job.winner # 0
    <2>1. CASE m = "winner" BY <1>5, <1>7, <2>1 DEF Sound
    <2>2. CASE m = "fee" BY <1>3, <1>5, <1>7, <2>2 DEF Sound
    <2>3. QED BY <2>1, <2>2 DEF Legs
<1>9. TypeOK'
    BY <1>1, <1>2 DEF TypeOK
<1>10. Sound(job)' /\ Sound(disk)'
    <2>1. j.awarded \in 0..Len(j.bids) /\ j.awarded # 0 /\ j.hash \in Hashes
        BY <1>3 DEF Sound, Past
    <2>2. Sound(job)' BY <1>1, <1>3, <1>8, <2>1 DEF Sound, Past
    <2>3. CASE disk' = j BY <1>1, <2>2, <2>3 DEF Sound, Past
    <2>4. CASE disk' = disk BY <2>2, <2>4 DEF Sound, Past
    <2>5. QED BY <1>1, <2>2, <2>3, <2>4
<1>11. paying'[r] = x /\ \A q \in Payments : q # r => paying'[q] = paying[q]
    BY DEF TypeOK
<1>12. InOrder'
    <2> SUFFICES ASSUME NEW q \in Payments, paying'[q] # Idle
                 PROVE  /\ Past(job)'
                        /\ paying'[q].at # "winner" => job'.winner # 0
                        /\ paying'[q].at \in {"sign", "close"} =>
                              /\ job'.fee # 0
                              /\ Settled(paying[q].receipt)'
                              /\ paying'[q].receipt.hash = job'.hash
        BY DEF InOrder
    <2>1. Past(job)' /\ job'.winner # 0 BY <1>1, <1>3, <1>8 DEF Past
    <2>2. CASE q = r
        <3>1. /\ m = "fee" /\ x.receipt.winner = j.winner /\ x.receipt.fee = j.fee
              /\ x.receipt.hash = j.hash
            BY <1>11, <2>2
        <3>2. j.fee # 0 BY <1>5, <3>1
        <3>3. j.winner \in 1..charged["winner"] /\ j.fee \in 1..charged["fee"]
            BY <1>6, <1>7, <1>8, <3>2
        <3>4. Settled(paying[q].receipt)'
            BY <1>11, <2>2, <3>1, <3>3 DEF Settled
        <3>5. QED BY <1>1, <1>11, <2>1, <2>2, <3>1, <3>2, <3>4
    <2>3. CASE q # r
        <3>1. paying'[q] = paying[q] BY <1>11, <2>3
        <3>2. QED BY <1>1, <1>8, <2>1, <3>1 DEF InOrder, Settled
    <2>4. QED BY <2>2, <2>3
<1>13. RefsCharged'
    BY <1>11 DEF RefsCharged, Idle, Legs
<1>14. FileFollows'
    <2>1. \A l \in Legs : j[l] = 0 => disk[l] = 0
        <3>1. j["fee"] = 0 => disk["fee"] = 0
            <4>1. job["fee"] = 0 => disk["fee"] = 0 BY <1>4 DEF FileFollows, Legs
            <4>2. CASE m = "winner" BY <4>1, <4>2
            <4>3. CASE m = "fee" BY <1>5, <4>3
            <4>4. QED BY <4>2, <4>3 DEF Legs
        <3>2. QED BY <1>8, <3>1 DEF Legs
    <2>2. CASE disk' = j /\ failedSaves' = failedSaves
        BY <1>1, <1>4, <1>8, <2>2 DEF FileFollows
    <2>3. CASE disk' = disk /\ failedSaves' = failedSaves + 1
        <3>1. failedSaves' # 0 /\ (failedSaves' <= 1 => failedSaves = 0) BY <1>2, <2>3
        <3>2. failedSaves' <= 1 => disk' = job BY <1>4, <2>3, <3>1 DEF FileFollows
        <3>3. QED BY <1>1, <1>4, <1>8, <2>1, <2>3, <3>1, <3>2 DEF FileFollows
    <2>4. QED BY <1>1, <2>2, <2>3
<1>15. Backed'
    <2> SUFFICES ASSUME NEW rc \in signed
                 PROVE  /\ Settled(rc)'
                        /\ failedSaves' <= 1 =>
                              /\ job'.winner # 0 /\ job'.hash = rc.hash
                              /\ disk'.winner # 0 /\ disk'.hash = rc.hash
        BY DEF Backed
    <2>1. Settled(rc)' BY DEF Backed, Settled
    <2>2. failedSaves' <= 1 => failedSaves <= 1 BY <1>1, <1>2
    <2>3. QED BY <1>1, <1>4, <1>8, <2>1, <2>2 DEF Backed
<1>16. Allowed'
    <2> SUFFICES ASSUME NEW l \in Legs
                 PROVE  /\ charged[l] + Cardinality(Waiting(l)') <= 1 + overlaps[l] + lost[l]
                        /\ Bare(l)' /\ Nobody(l)' => charged[l] <= overlaps[l] + lost[l]
        BY DEF Allowed
    <2>1. /\ charged[l] + Cardinality(Waiting(l)) <= 1 + overlaps[l] + lost[l]
          /\ Bare(l) /\ Nobody(l) => charged[l] <= overlaps[l] + lost[l]
        BY DEF Allowed
    <2>2. x.at \notin Legs BY DEF Idle, Legs
    <2>3. Waiting(l)' = Waiting(l) BY <1>5, <1>11, <2>2 DEF Waiting
    <2>4. CASE l = m
        <3>1. job'[l] # 0 BY <1>1, <1>5, <2>4 DEF Legs
        <3>2. QED BY <2>1, <2>3, <3>1 DEF Bare
    <2>5. CASE l # m
        <3>1. job'[l] = job[l] BY <1>1, <2>5 DEF Legs
        <3>2. Bare(l)' => Bare(l) BY <1>4, <3>1 DEF Bare, FileFollows
        <3>3. Nobody(l)' => Nobody(l) BY <1>3, <1>11, <2>5 DEF Nobody
        <3>4. QED BY <2>1, <2>3, <3>2, <3>3
    <2>6. QED BY <2>4, <2>5
<1>17. QED BY <1>1, <1>4, <1>9, <1>10, <1>12, <1>13, <1>14, <1>15, <1>16

\* The winner's leg settles beside whatever the job already has.
LEMMA WinnerSettledStep == ASSUME BInv, NEW r \in Payments, WinnerSettled(r) PROVE BInv'
<1> DEFINE n == paying[r].ref
           price == paying[r].price
           ja == [job EXCEPT !.winner = n]
           j == [job EXCEPT !.winner = n, !.quoted = price]
<1>1. /\ paying[r].at = "winner" /\ Settles(r, "winner") /\ Update(j)
      /\ paying' = [paying EXCEPT ![r] = Idle]
      /\ UNCHANGED <<bidding, charged, signed, crashes, lost, overlaps>>
    BY DEF WinnerSettled, WithWinnerLeg, Settles, moneyVars, faultVars
<1>2. job \in Jobs /\ TypeOK BY DEF BInv, TypeOK
<1>3. price \in Prices BY <1>1, <1>2, RequestShape DEF Legs
<1>4. n \in Nat BY <1>1, <1>2, RequestShape DEF Legs
<1>5. j = [ja EXCEPT !.quoted = price] OBVIOUS
<1> HIDE DEF n, price
<1>6. /\ ja \in Jobs /\ ja.status = job.status /\ ja.bids = job.bids /\ ja.awarded = job.awarded
      /\ ja.hash = job.hash /\ ja.winner = n /\ ja.fee = job.fee
    BY <1>2, <1>4 DEF Jobs
<1> HIDE DEF ja, j
<1>7. /\ j \in Jobs /\ j.status = job.status /\ j.bids = job.bids /\ j.awarded = job.awarded
      /\ j.hash = job.hash /\ j.winner = n /\ j.fee = job.fee
    BY <1>3, <1>5, <1>6 DEF Jobs
<1>8. Idle \in Requests /\ "winner" \in Legs BY DEF Requests, Legs
<1>9. QED BY <1>1, <1>7, <1>8, LegSettles DEF n

\* The fee leg settles, and its request signs what the job has, or ends when the save throws.
LEMMA FeeSettledStep == ASSUME BInv, NEW r \in Payments, FeeSettled(r) PROVE BInv'
<1> DEFINE n == paying[r].ref
           price == paying[r].price
           j == [job EXCEPT !.fee = n]
<1>1. /\ paying[r].at = "fee" /\ Settles(r, "fee") /\ Update(j)
      /\ \/ paying' = [paying EXCEPT ![r] = Idle]
         \/ paying' = [paying EXCEPT ![r] = Signing(j, price)]
      /\ UNCHANGED <<bidding, charged, signed, crashes, lost, overlaps>>
    BY DEF FeeSettled, Update, Settles, moneyVars, faultVars
<1>2. job \in Jobs /\ TypeOK BY DEF BInv, TypeOK
<1>3. price \in Prices /\ paying[r] # Idle BY <1>1, <1>2, RequestShape DEF Legs
<1>4. n \in Nat BY <1>1, <1>2, RequestShape DEF Legs
<1> HIDE DEF n, price
<1>5. /\ j \in Jobs /\ j.status = job.status /\ j.bids = job.bids /\ j.awarded = job.awarded
      /\ j.hash = job.hash /\ j.winner = job.winner /\ j.fee = n
    BY <1>2, <1>4 DEF Jobs
<1> HIDE DEF j
<1>6. "fee" \in Legs BY DEF Legs
<1>7. CASE paying' = [paying EXCEPT ![r] = Idle]
    <2>1. Idle \in Requests BY DEF Requests
    <2>2. QED BY <1>1, <1>5, <1>6, <1>7, <2>1, LegSettles DEF n
<1>8. CASE paying' = [paying EXCEPT ![r] = Signing(j, price)]
    <2> DEFINE rc == [winner |-> j.winner, fee |-> j.fee, amount |-> price, hash |-> j.hash]
               x == Signing(j, price)
    <2>1. j.hash \in Hashes BY <1>3, <1>5 DEF BInv, InOrder, Sound
    <2>2. rc \in Receipts BY <1>3, <1>5, <2>1 DEF Receipts, Jobs
    <2>3. rc.winner = j.winner /\ rc.fee = j.fee /\ rc.hash = j.hash OBVIOUS
    <2>4. x = [at |-> "sign", price |-> price, receipt |-> rc] BY DEF Signing
    <2> HIDE DEF rc, x
    <2>5. x \in Requests /\ x.at = "sign" /\ x.receipt = rc
        BY <1>3, <2>2, <2>4 DEF Requests
    <2>6. x.receipt.winner = j.winner /\ x.receipt.fee = j.fee /\ x.receipt.hash = j.hash
        BY <2>3, <2>5
    <2>7. paying' = [paying EXCEPT ![r] = x] BY <1>8 DEF x
    <2>8. QED BY <1>1, <1>5, <1>6, <2>5, <2>6, <2>7, LegSettles DEF n
<1>9. QED BY <1>1, <1>7, <1>8

-----------------------------------------------------------------------------
(* The invariant and what follows from it. *)

\* A board without the job satisfies the invariant.
LEMMA InitBInv == ASSUME Init PROVE BInv
<1> USE DEF Init
<1>1. NewJob \in Jobs BY DEF NewJob, Jobs, Statuses
<1>2. TypeOK BY <1>1 DEF TypeOK, Requests
<1>3. Sound(job) /\ Sound(disk)
    BY DEF Sound, Past, NewJob, Legs
<1>4. InOrder /\ RefsCharged /\ FileFollows /\ Backed
    BY DEF InOrder, RefsCharged, FileFollows, Backed, Idle, Legs, NewJob
<1>5. Allowed
    <2> SUFFICES ASSUME NEW l \in Legs
                 PROVE  charged[l] + Cardinality(Waiting(l)) <= 1 + overlaps[l] + lost[l]
        BY DEF Allowed
    <2>1. Waiting(l) = {} BY DEF Waiting, Idle, Legs
    <2>2. Cardinality(Waiting(l)) = 0 BY <2>1, FS_EmptySet
    <2>3. QED BY <2>2
<1>6. QED BY <1>2, <1>3, <1>4, <1>5 DEF BInv

\* Every step of the board keeps the invariant.
LEMMA NextBInv == ASSUME BInv, [Next]_vars PROVE BInv'
<1>1. CASE UNCHANGED vars
    <2>1. /\ UNCHANGED <<job, disk, charged, signed, crashes, failedSaves, lost, overlaps>>
          /\ bidding' \subseteq [agent : Agents, price : Prices, existing : 0..Len(job.bids)]
          /\ job.status = "gone" => bidding' = {}
          /\ paying' \in [Payments -> Requests]
          /\ Ends
        BY <1>1 DEF vars, BInv, TypeOK, Ends
    <2>2. QED BY <2>1, QuietKeeps
<1>2. CASE Post BY <1>2, PostStep
<1>3. CASE \E a \in Agents, p \in Prices : StartBid(a, p) BY <1>3, StartBidStep
<1>4. CASE \E b \in bidding : FinishBid(b) \/ RefuseBid(b) BY <1>4, FinishBidStep, RefuseBidStep
<1>5. CASE \E i \in 1..Len(job.bids) : Award(i) BY <1>5, AwardStep
<1>6. CASE \E h \in Hashes : Deliver(h) BY <1>6, DeliverStep
<1>7. CASE \E r \in Payments : StartPay(r) BY <1>7, StartPayStep
<1>8. CASE \E r \in Payments : MoneyMoves(r) BY <1>8, MoneyMovesStep
<1>9. CASE \E r \in Payments : WinnerSettled(r) \/ FeeSettled(r)
    BY <1>9, WinnerSettledStep, FeeSettledStep
<1>10. CASE \E r \in Payments : LegRefused(r) \/ LegHeld(r) BY <1>10, LegRefusedStep, LegHeldStep
<1>11. CASE \E r \in Payments : SignReceipt(r) \/ SignFails(r)
    BY <1>11, SignReceiptStep, SignFailsStep
<1>12. CASE \E r \in Payments : ClosePayment(r) BY <1>12, ClosePaymentStep
<1>13. CASE Reveal BY <1>13, RevealStep
<1>14. CASE Challenge BY <1>14, ChallengeStep
<1>15. CASE Crash \/ CrashUnread BY <1>15, DieStep DEF Crash, CrashUnread
<1>16. CASE OtherSave BY <1>16, OtherSaveStep
<1>17. QED
    BY <1>1, <1>2, <1>3, <1>4, <1>5, <1>6, <1>7, <1>8, <1>9, <1>10, <1>11, <1>12, <1>13,
       <1>14, <1>15, <1>16 DEF Next

\* The inductive invariant of the board holds in every state.
THEOREM BoardInvariant == Spec => []BInv
BY InitBInv, NextBInv, PTL DEF Spec

\* Whatever requests overlap, wherever the process dies and for every number of each, a
\* payout receipt is signed only over two settled legs, and a single failed save does not
\* part a file that has the job from it.
THEOREM ReceiptBacked == Spec => []ReceiptIsBacked
<1>1. ASSUME BInv PROVE ReceiptIsBacked
    BY <1>1 DEF BInv, Backed, Settled, ReceiptIsBacked
<1>2. QED BY <1>1, BoardInvariant, PTL

\* The poster is charged for a leg once, and once more for every request that came to the
\* leg beside another one and for every charge of which the board kept no record: retries,
\* failed saves, failed signatures and crashes that find the leg on file add nothing.
THEOREM LegChargedOnce == Spec => []ChargedOnce
<1>1. ASSUME BInv PROVE ChargedOnce
    <2> SUFFICES ASSUME NEW l \in Legs PROVE charged[l] <= 1 + overlaps[l] + lost[l]
        BY DEF ChargedOnce
    <2>1. charged[l] + Cardinality(Waiting(l)) <= 1 + overlaps[l] + lost[l]
        BY <1>1 DEF BInv, Allowed
    <2>2. /\ charged[l] \in Nat /\ overlaps[l] \in Nat /\ lost[l] \in Nat
          /\ Cardinality(Waiting(l)) \in Nat
        BY <1>1, LegCounts DEF BInv
    <2>3. QED BY <2>1, <2>2
<1>2. QED BY <1>1, BoardInvariant, PTL

\* A bid always points into the bids, a request carries what its await needs and a receipt
\* has an amount and a hash: types hold in every state.
THEOREM BoardTypeCorrect == Spec => []TypeOK
<1>1. ASSUME BInv PROVE TypeOK BY <1>1 DEF BInv
<1>2. QED BY <1>1, BoardInvariant, PTL
=============================================================================
