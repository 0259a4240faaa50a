------------------------------ MODULE Spend_proofs ------------------------------
(***************************************************************************)
(* The spend-hold store and its two clients.                               *)
(*                                                                         *)
(* The store (SpendHold): its ceilings hold for any number of requests,    *)
(* ceilings, amounts and clock values, and whether or not a boot can read  *)
(* its file.  What is said of durability holds until the first boot that   *)
(* cannot.                                                                 *)
(*                                                                         *)
(* The hold / settle API (SpendService): the ceilings hold with the        *)
(* service on top, every receipt is counted before it exists, and a saved  *)
(* receipt is the only one a request id ever gets.                         *)
(*                                                                         *)
(* The paid chat door (MeteredCall): a call between its reservation and    *)
(* its book row is covered by a hold that counts, and so the rows of calls *)
(* that settle in time never pass an agent's budget.                       *)
(***************************************************************************)
EXTENDS SpendService, MeteredCall, Sums_proofs

-----------------------------------------------------------------------------
(* The store. *)

\* A stopped process has no holds in memory.
DownIsEmpty == ~up => \A r \in Requests : mem[r] = NoHold

IInv ==
    /\ TypeOK
    /\ CeilingHeld
    /\ RestartForgetsNothing
    /\ DownIsEmpty

-----------------------------------------------------------------------------
\* What a hold counts is a natural number.
LEMMA ChargeType ==
    ASSUME NEW h \in Hold, NEW leg
    PROVE  Charge(h, leg) \in Nat
BY DEF Charge, Hold

\* No hold, nothing held.
LEMMA EmptyHoldsNothing ==
    \A leg : Held([r \in Requests |-> NoHold], leg) = 0
<1> TAKE leg
<1> DEFINE f == [r \in Requests |-> Charge([q \in Requests |-> NoHold][r], leg)]
<1>1. \A r \in Requests : f[r] = 0
    BY DEF Charge, NoHold
<1> HIDE DEF f
<1>2. Sum(f, Requests) = 0
    BY <1>1, SumZero
<1> QED BY <1>2 DEF f, Held

\* What is held against a leg is a natural number.
LEMMA HeldType ==
    ASSUME NEW holds \in [Requests -> Hold], NEW leg
    PROVE  Held(holds, leg) \in Nat
<1> DEFINE f == [r \in Requests |-> Charge(holds[r], leg)]
<1>1. \A r \in Requests : f[r] \in Nat
    BY ChargeType
<1>2. IsFiniteSet(Requests)
    BY SpendHoldAssumption
<1> HIDE DEF f
<1>3. Sum(f, Requests) \in Nat
    BY <1>1, <1>2, SumType
<1> QED BY <1>3 DEF Held, f

\* A map of holds that counts no more, hold by hold, is under the same cap.
LEMMA HeldMonotone ==
    ASSUME NEW holds \in [Requests -> Hold], NEW after \in [Requests -> Hold], NEW leg,
           \A r \in Requests : Charge(after[r], leg) <= Charge(holds[r], leg)
    PROVE  Held(after, leg) <= Held(holds, leg)
<1> DEFINE f == [r \in Requests |-> Charge(holds[r], leg)]
           g == [r \in Requests |-> Charge(after[r], leg)]
<1>1. \A r \in Requests : g[r] \in Nat /\ f[r] \in Nat /\ g[r] <= f[r]
    BY ChargeType
<1>2. IsFiniteSet(Requests)
    BY SpendHoldAssumption
<1> HIDE DEF f, g
<1>3. Sum(g, Requests) <= Sum(f, Requests)
    BY <1>1, <1>2, SumMonotone
<1> QED BY <1>3 DEF Held, f, g

\* Replacing one hold changes what is held by the difference of its charges.
LEMMA HeldUpdate ==
    ASSUME NEW holds \in [Requests -> Hold], NEW r \in Requests, NEW h \in Hold, NEW leg
    PROVE  Held([holds EXCEPT ![r] = h], leg) + Charge(holds[r], leg)
              = Held(holds, leg) + Charge(h, leg)
<1> DEFINE after == [holds EXCEPT ![r] = h]
           f == [x \in Requests |-> Charge(holds[x], leg)]
           g == [x \in Requests |-> Charge(after[x], leg)]
<1>1. after \in [Requests -> Hold]
    OBVIOUS
<1>2. \A x \in Requests : f[x] \in Nat /\ g[x] \in Nat
    BY <1>1, ChargeType
<1>3. \A x \in Requests \ {r} : g[x] = f[x]
    OBVIOUS
<1>4. g[r] = Charge(h, leg) /\ f[r] = Charge(holds[r], leg)
    OBVIOUS
<1>5. IsFiniteSet(Requests)
    BY SpendHoldAssumption
<1>6. Sum(g, Requests) + f[r] = Sum(f, Requests) + g[r]
    <2> HIDE DEF f, g
    <2> QED BY <1>2, <1>3, <1>5, SumUpdate
<1> QED BY <1>4, <1>6 DEF Held

\* A sweep keeps the type of the map, forgets no settled hold and only ever
\* lowers what is counted.
LEMMA SweptFacts ==
    ASSUME NEW holds \in [Requests -> Hold], now \in Nat
    PROVE  /\ Swept(holds) \in [Requests -> Hold]
           /\ \A r \in Requests :
                 /\ Swept(holds)[r] \in {holds[r], [holds[r] EXCEPT !.state = "expired"]}
                 /\ Live(Swept(holds)[r]) => Swept(holds)[r] = holds[r]
                 /\ Live(holds[r]) /\ ~Due(holds[r]) => Swept(holds)[r] = holds[r]
                 /\ Due(holds[r]) => Swept(holds)[r].state = "expired"
                 /\ ~Due(holds[r]) => Swept(holds)[r] = holds[r]
           /\ \A leg : Held(Swept(holds), leg) <= Held(holds, leg)
<1>1. Swept(holds) \in [Requests -> Hold]
    BY DEF Swept, Hold, States
<1>2. ASSUME NEW r \in Requests
      PROVE  /\ Swept(holds)[r] \in {holds[r], [holds[r] EXCEPT !.state = "expired"]}
             /\ Live(Swept(holds)[r]) => Swept(holds)[r] = holds[r]
             /\ Live(holds[r]) /\ ~Due(holds[r]) => Swept(holds)[r] = holds[r]
             /\ Due(holds[r]) => Swept(holds)[r].state = "expired"
             /\ ~Due(holds[r]) => Swept(holds)[r] = holds[r]
    BY DEF Swept, Live, Due, Hold
<1>3. ASSUME NEW leg, NEW r \in Requests
      PROVE  Charge(Swept(holds)[r], leg) <= Charge(holds[r], leg)
    BY <1>1, ChargeType DEF Swept, Due, Charge, Hold
<1>4. \A leg : Held(Swept(holds), leg) <= Held(holds, leg)
    BY <1>1, <1>3, HeldMonotone
<1> QED BY <1>1, <1>2, <1>4

\* The map that the last save wrote, after a sweep: as good as the memory.
LEMMA SweptDiskFacts ==
    ASSUME IInv, up
    PROVE  /\ SweptDisk \in [Requests -> Hold]
           /\ \A leg \in Legs : Held(SweptDisk, leg) <= Cap[leg]
           /\ ~unread => \A r \in Requests :
                 Live(Swept(mem)[r]) \/ Live(SweptDisk[r]) => Swept(mem)[r] = SweptDisk[r]
<1> USE SpendHoldAssumption
<1>1. mem \in [Requests -> Hold] /\ disk \in [Requests -> Hold] /\ now \in Nat
    BY DEF IInv, TypeOK
<1>2. CASE \E r \in Requests : Due(mem[r])
    <2>1. SweptDisk = Swept(mem)
        BY <1>2 DEF SweptDisk
    <2>2. \A leg \in Legs : Held(Swept(mem), leg) <= Cap[leg]
        <3> TAKE leg \in Legs
        <3>1. Held(mem, leg) <= Cap[leg]
            BY DEF IInv, CeilingHeld
        <3>2. Held(Swept(mem), leg) <= Held(mem, leg)
            BY <1>1, SweptFacts
        <3>3. Held(mem, leg) \in Nat /\ Held(Swept(mem), leg) \in Nat
            BY <1>1, SweptFacts, HeldType
        <3> QED BY <3>1, <3>2, <3>3
    <2> QED BY <1>1, <2>1, <2>2, SweptFacts
<1>3. CASE ~ \E r \in Requests : Due(mem[r])
    <2>1. SweptDisk = disk
        BY <1>3 DEF SweptDisk
    <2>2. \A r \in Requests : Swept(mem)[r] = mem[r]
        BY <1>1, <1>3, SweptFacts
    <2> QED BY <1>1, <2>1, <2>2 DEF IInv, CeilingHeld, RestartForgetsNothing
<1> QED BY <1>2, <1>3

\* A swept map is under every cap that the map was under.
LEMMA SweptUnderCap ==
    ASSUME NEW holds \in [Requests -> Hold], now \in Nat, NEW leg \in Legs,
           Held(holds, leg) <= Cap[leg]
    PROVE  Held(Swept(holds), leg) <= Cap[leg]
<1>1. Held(holds, leg) \in Nat /\ Held(Swept(holds), leg) \in Nat
    BY SweptFacts, HeldType
<1>2. Held(Swept(holds), leg) <= Held(holds, leg)
    BY SweptFacts
<1> QED BY <1>1, <1>2, SpendHoldAssumption

-----------------------------------------------------------------------------
\* Replacing one hold of a swept map by a hold that charges no more keeps the
\* map under every cap.
LEMMA ReplaceUnderCap ==
    ASSUME NEW holds \in [Requests -> Hold], NEW r \in Requests, NEW h \in Hold,
           NEW leg \in Legs, Held(holds, leg) <= Cap[leg],
           Charge(h, leg) <= Charge(holds[r], leg)
    PROVE  Held([holds EXCEPT ![r] = h], leg) <= Cap[leg]
<1> DEFINE after == [holds EXCEPT ![r] = h]
<1>1. after \in [Requests -> Hold]
    OBVIOUS
<1>2. Held(after, leg) + Charge(holds[r], leg) = Held(holds, leg) + Charge(h, leg)
    BY HeldUpdate
<1>3. Held(after, leg) \in Nat /\ Held(holds, leg) \in Nat
    BY <1>1, HeldType
<1>4. Charge(h, leg) \in Nat /\ Charge(holds[r], leg) \in Nat
    BY ChargeType
<1> HIDE DEF after
<1>5. Held(after, leg) <= Cap[leg]
    BY <1>2, <1>3, <1>4, SpendHoldAssumption
<1> QED BY <1>5 DEF after

\* An admitted reservation fits: the verdict counted everything that is live.
LEMMA AdmittedUnderCap ==
    ASSUME IInv, NEW r \in Requests, NEW amount \in Nat, NEW legs \in SUBSET Legs,
           Admitted(r, amount, legs), NEW leg \in Legs
    PROVE  Held([Swept(mem) EXCEPT ![r] = NewHold(amount, legs)], leg) <= Cap[leg]
<1> DEFINE holds == Swept(mem)
           h == NewHold(amount, legs)
           after == [holds EXCEPT ![r] = h]
<1>1. mem \in [Requests -> Hold] /\ now \in Nat /\ book \in [BookLegs -> Nat]
    BY DEF IInv, TypeOK
<1>2. holds \in [Requests -> Hold]
    BY <1>1, SweptFacts
<1>3. h \in Hold
    BY <1>1, SpendHoldAssumption DEF NewHold, Hold, States
<1>4. ~Live(holds[r])
    BY DEF Admitted
<1>5. Charge(holds[r], leg) = 0
    BY <1>4 DEF Charge, Live
<1>6. Charge(h, leg) = IF leg \in legs THEN amount ELSE 0
    BY DEF Charge, NewHold
<1>7. after \in [Requests -> Hold]
    BY <1>2, <1>3
<1>8. Held(after, leg) \in Nat /\ Held(holds, leg) \in Nat
    BY <1>2, <1>7, HeldType
<1>9. Held(after, leg) + Charge(holds[r], leg) = Held(holds, leg) + Charge(h, leg)
    BY <1>2, <1>3, HeldUpdate
<1>10. Held(holds, leg) <= Cap[leg]
    BY <1>1, SweptUnderCap DEF IInv, CeilingHeld
<1>11. CASE leg \in legs
    <2>1. Booked(leg) + Held(holds, leg) + amount <= Cap[leg]
        BY <1>11 DEF Admitted, Verdict, Committed
    <2>2. Booked(leg) \in Nat
        BY <1>1 DEF Booked
    <2> HIDE DEF holds, h, after
    <2>3. Held(after, leg) = Held(holds, leg) + amount
        BY <1>5, <1>6, <1>8, <1>9, <1>11
    <2>4. Held(after, leg) <= Cap[leg]
        BY <1>8, <2>1, <2>2, <2>3, SpendHoldAssumption
    <2> QED BY <2>4 DEF after, holds, h
<1>12. CASE leg \notin legs
    <2> HIDE DEF holds, h, after
    <2>1. Held(after, leg) = Held(holds, leg)
        BY <1>5, <1>6, <1>8, <1>9, <1>12
    <2> QED BY <1>10, <2>1 DEF after, holds, h
<1> QED BY <1>11, <1>12

-----------------------------------------------------------------------------
\* The step of an operation that only sweeps.
LEMMA SweepStep ==
    ASSUME IInv, Sweep
    PROVE  IInv'
<1>1. mem \in [Requests -> Hold] /\ now \in Nat
    BY DEF IInv, TypeOK
<1>2. up /\ mem' = Swept(mem) /\ disk' = SweptDisk /\ book' = book /\ now' = now /\ up' = up
      /\ unread' = unread
    BY DEF Sweep
<1>3. TypeOK'
    BY <1>1, <1>2, SweptFacts, SweptDiskFacts DEF IInv, TypeOK
<1>4. CeilingHeld'
    <2>1. \A leg \in Legs : Held(Swept(mem), leg) <= Cap[leg]
        BY <1>1, SweptUnderCap DEF IInv, CeilingHeld
    <2>2. \A leg \in Legs : Held(SweptDisk, leg) <= Cap[leg]
        BY <1>2, SweptDiskFacts
    <2> QED BY <1>2, <2>1, <2>2 DEF CeilingHeld, Held, Charge
<1>5. RestartForgetsNothing'
    BY <1>2, SweptDiskFacts DEF RestartForgetsNothing, Live
<1>6. DownIsEmpty'
    BY <1>2 DEF DownIsEmpty
<1> QED BY <1>3, <1>4, <1>5, <1>6 DEF IInv

\* The step of an operation whose change was saved, given that the map it
\* wrote is under every cap.
LEMMA SavedStep ==
    ASSUME IInv, up, NEW holds \in [Requests -> Hold], Saved(holds),
           \A leg \in Legs : Held(holds, leg) <= Cap[leg]
    PROVE  IInv'
BY DEF IInv, TypeOK, CeilingHeld, Held, Charge, RestartForgetsNothing, DownIsEmpty, Saved

\* The step of an operation whose change was not saved: one finished hold may
\* be missing from memory.
LEMMA UnsavedStep ==
    ASSUME IInv, up, NEW r \in Requests, NEW h \in Hold,
           h = Swept(mem)[r] \/ (h = NoHold /\ ~Live(Swept(mem)[r])),
           Unsaved([Swept(mem) EXCEPT ![r] = h])
    PROVE  IInv'
<1> DEFINE after == [Swept(mem) EXCEPT ![r] = h]
<1>1. mem \in [Requests -> Hold] /\ now \in Nat
    BY DEF IInv, TypeOK
<1>2. mem' = after /\ disk' = SweptDisk /\ book' = book /\ now' = now /\ up' = up
      /\ unread' = unread
    BY DEF Unsaved
<1>3. Swept(mem) \in [Requests -> Hold] /\ after \in [Requests -> Hold]
    BY <1>1, SweptFacts
<1>4. TypeOK'
    BY <1>2, <1>3, SweptDiskFacts DEF IInv, TypeOK
<1>5. CeilingHeld'
    <2>1. \A leg \in Legs : Held(after, leg) <= Cap[leg]
        <3> TAKE leg \in Legs
        <3>1. Held(Swept(mem), leg) <= Cap[leg]
            BY <1>1, SweptUnderCap DEF IInv, CeilingHeld
        <3>2. Charge(h, leg) <= Charge(Swept(mem)[r], leg)
            <4>1. Charge(NoHold, leg) = 0
                BY DEF Charge, NoHold
            <4>2. Charge(Swept(mem)[r], leg) \in Nat
                BY <1>3, ChargeType
            <4> QED BY <4>1, <4>2
        <3> QED BY <1>3, <3>1, <3>2, ReplaceUnderCap
    <2>2. \A leg \in Legs : Held(SweptDisk, leg) <= Cap[leg]
        BY SweptDiskFacts
    <2> HIDE DEF after
    <2> QED BY <1>2, <2>1, <2>2 DEF CeilingHeld, Held, Charge
<1>6. RestartForgetsNothing'
    <2>1. \A x \in Requests : x # r => after[x] = Swept(mem)[x]
        BY <1>3
    <2>2. after[r] = h
        BY <1>3
    <2>3. ~Live(NoHold)
        BY DEF Live, NoHold
    <2>4. ~unread =>
             \A x \in Requests : Live(after[x]) \/ Live(SweptDisk[x]) => after[x] = SweptDisk[x]
        BY <2>1, <2>2, <2>3, SweptDiskFacts
    <2> HIDE DEF after
    <2> QED BY <1>2, <2>4 DEF RestartForgetsNothing, Live
<1>7. DownIsEmpty'
    BY <1>2 DEF DownIsEmpty
<1> QED BY <1>4, <1>5, <1>6, <1>7 DEF IInv

\* A step that leaves both maps and the process alone.
LEMMA HoldsUnchangedStep ==
    ASSUME IInv, mem' = mem, disk' = disk, up' = up, unread' = unread,
           book' \in [BookLegs -> Nat], now' \in Nat
    PROVE  IInv'
<1>1. TypeOK'
    BY DEF IInv, TypeOK
<1>2. CeilingHeld'
    BY DEF IInv, CeilingHeld, Held, Charge
<1>3. RestartForgetsNothing' /\ DownIsEmpty'
    BY DEF IInv, RestartForgetsNothing, DownIsEmpty, Live
<1> QED BY <1>1, <1>2, <1>3 DEF IInv

\* An operation that fails its save with nothing of its own left in memory.
LEMMA RolledBackStep ==
    ASSUME IInv, up, Unsaved(Swept(mem))
    PROVE  IInv'
BY SweepStep DEF Sweep, Unsaved

-----------------------------------------------------------------------------
\* Init establishes the invariant.
LEMMA InitIInv == Init => IInv
<1> SUFFICES ASSUME Init PROVE IInv
    OBVIOUS
<1> USE SpendHoldAssumption
<1>1. NoHold \in Hold
    BY DEF NoHold, Hold, States
<1>2. TypeOK
    BY <1>1 DEF Init, TypeOK
<1>4. CeilingHeld
    BY EmptyHoldsNothing DEF Init, CeilingHeld
<1>5. RestartForgetsNothing /\ DownIsEmpty
    BY DEF Init, RestartForgetsNothing, DownIsEmpty
<1> QED BY <1>2, <1>4, <1>5 DEF IInv

\* reserve keeps the invariant, admitted, unsaved or refused.
LEMMA ReserveStep ==
    ASSUME IInv, NEW r \in Requests, NEW amount \in Nat, NEW legs \in SUBSET Legs,
           Reserve(r, amount, legs)
    PROVE  IInv'
<1> USE SpendHoldAssumption
<1>1. mem \in [Requests -> Hold] /\ now \in Nat /\ up
    BY DEF IInv, TypeOK, Reserve
<1>2. Swept(mem) \in [Requests -> Hold]
    BY <1>1, SweptFacts
<1>3. CASE Admitted(r, amount, legs) /\
           Saved([Swept(mem) EXCEPT ![r] = NewHold(amount, legs)])
    <2>1. NewHold(amount, legs) \in Hold
        BY <1>1 DEF NewHold, Hold, States
    <2>2. [Swept(mem) EXCEPT ![r] = NewHold(amount, legs)] \in [Requests -> Hold]
        BY <1>2, <2>1
    <2>3. \A leg \in Legs :
             Held([Swept(mem) EXCEPT ![r] = NewHold(amount, legs)], leg) <= Cap[leg]
        BY <1>3, AdmittedUnderCap
    <2> QED BY <1>1, <1>3, <2>2, <2>3, SavedStep
<1>4. CASE Admitted(r, amount, legs) /\ Unsaved([Swept(mem) EXCEPT ![r] = NoHold])
    <2>1. ~Live(Swept(mem)[r]) /\ NoHold \in Hold
        BY <1>4 DEF Admitted, NoHold, Hold, States
    <2> QED BY <1>1, <1>4, <2>1, UnsavedStep
<1>5. CASE Sweep
    BY <1>5, SweepStep
<1> QED BY <1>3, <1>4, <1>5 DEF Reserve

\* consume keeps the invariant whatever the actual cost: at most the
\* reservation is settled, and that much was counted already.
LEMMA ConsumeStep ==
    ASSUME IInv, NEW r \in Requests, NEW actual \in Nat, Consume(r, actual)
    PROVE  IInv'
<1> USE SpendHoldAssumption
<1> DEFINE k == Swept(mem)[r]
           h == Settled(k, actual)
<1>1. mem \in [Requests -> Hold] /\ now \in Nat /\ up
    BY DEF IInv, TypeOK, Consume
<1>2. Swept(mem) \in [Requests -> Hold] /\ k \in Hold
    BY <1>1, SweptFacts
<1>3. \A leg \in Legs : Held(Swept(mem), leg) <= Cap[leg]
    BY <1>1, SweptUnderCap DEF IInv, CeilingHeld
<1>4. CASE k.state = "open" /\ Saved([Swept(mem) EXCEPT ![r] = h])
    <2>1. h \in Hold
        BY <1>2 DEF Settled, Hold, States
    <2>2. [Swept(mem) EXCEPT ![r] = h] \in [Requests -> Hold]
        BY <1>2, <2>1
    <2>3. ASSUME NEW leg \in Legs
          PROVE  Charge(h, leg) <= Charge(k, leg)
        <3>1. h.state = "consumed" /\ h.legs = k.legs /\ h.consumed <= k.reserved
              /\ h.consumed \in Nat /\ k.reserved \in Nat
            BY <1>2, <1>4 DEF Settled, Hold
        <3> HIDE DEF h, k
        <3> QED BY <1>4, <3>1 DEF Charge
    <2>4. \A leg \in Legs : Held([Swept(mem) EXCEPT ![r] = h], leg) <= Cap[leg]
        <3> HIDE DEF h
        <3> QED BY <1>2, <1>3, <2>1, <2>3, ReplaceUnderCap
    <2> HIDE DEF h
    <2> QED BY <1>1, <1>4, <2>2, <2>4, SavedStep
<1>5. CASE Unsaved(Swept(mem))
    BY <1>1, <1>5, RolledBackStep
<1>6. CASE Sweep
    BY <1>6, SweepStep
<1> QED BY <1>4, <1>5, <1>6 DEF Consume

\* release keeps the invariant.
LEMMA ReleaseStep ==
    ASSUME IInv, NEW r \in Requests, Release(r)
    PROVE  IInv'
<1> USE SpendHoldAssumption
<1> DEFINE k == Swept(mem)[r]
           h == [k EXCEPT !.state = "released"]
<1>1. mem \in [Requests -> Hold] /\ now \in Nat /\ up
    BY DEF IInv, TypeOK, Release
<1>2. Swept(mem) \in [Requests -> Hold] /\ k \in Hold
    BY <1>1, SweptFacts
<1>3. \A leg \in Legs : Held(Swept(mem), leg) <= Cap[leg]
    BY <1>1, SweptUnderCap DEF IInv, CeilingHeld
<1>4. CASE Saved([Swept(mem) EXCEPT ![r].state = "released"])
    <2>1. [Swept(mem) EXCEPT ![r].state = "released"] = [Swept(mem) EXCEPT ![r] = h]
        BY <1>2
    <2>2. h \in Hold
        BY <1>2 DEF Hold, States
    <2>3. [Swept(mem) EXCEPT ![r] = h] \in [Requests -> Hold]
        BY <1>2, <2>2
    <2>4. ASSUME NEW leg \in Legs
          PROVE  Charge(h, leg) <= Charge(k, leg)
        <3>1. h.state = "released"
            BY <1>2 DEF Hold
        <3>2. Charge(h, leg) = 0
            BY <3>1 DEF Charge
        <3> QED BY <1>2, <3>2, ChargeType
    <2>5. \A leg \in Legs : Held([Swept(mem) EXCEPT ![r] = h], leg) <= Cap[leg]
        <3> HIDE DEF h
        <3> QED BY <1>2, <1>3, <2>2, <2>4, ReplaceUnderCap
    <2> HIDE DEF h
    <2> QED BY <1>1, <1>4, <2>1, <2>3, <2>5, SavedStep
<1>5. CASE Unsaved(Swept(mem))
    BY <1>1, <1>5, RolledBackStep
<1>6. CASE Sweep
    BY <1>6, SweepStep
<1> QED BY <1>4, <1>5, <1>6 DEF Release

\* A crash empties the memory and leaves the file.
LEMMA CrashStep ==
    ASSUME IInv, Crash
    PROVE  IInv'
<1>1. mem' = [r \in Requests |-> NoHold] /\ disk' = disk
    BY DEF Crash
<1>2. TypeOK'
    BY DEF Crash, IInv, TypeOK, NoHold, Hold, States
<1>3. CeilingHeld'
    <2>1. \A leg \in Legs : Held(mem', leg) <= Cap[leg] /\ Held(disk', leg) <= Cap[leg]
        BY <1>1, EmptyHoldsNothing, SpendHoldAssumption DEF IInv, CeilingHeld
    <2> QED BY <2>1 DEF CeilingHeld, Held, Charge
<1>4. RestartForgetsNothing' /\ DownIsEmpty'
    BY DEF Crash, RestartForgetsNothing, DownIsEmpty
<1> QED BY <1>2, <1>3, <1>4 DEF IInv

\* A restart loads the file and sweeps it.
LEMMA RestartStep ==
    ASSUME IInv, Restart
    PROVE  IInv'
<1>1. disk \in [Requests -> Hold] /\ now \in Nat
    BY DEF IInv, TypeOK
<1>2. \A leg \in Legs : Held(Swept(disk), leg) <= Cap[leg]
    BY <1>1, SweptUnderCap DEF IInv, CeilingHeld
<1>3. TypeOK'
    BY <1>1, SweptFacts DEF Restart, IInv, TypeOK
<1>4. CeilingHeld'
    BY <1>2 DEF Restart, CeilingHeld, Held, Charge
<1>5. RestartForgetsNothing' /\ DownIsEmpty'
    BY DEF Restart, RestartForgetsNothing, DownIsEmpty
<1> QED BY <1>3, <1>4, <1>5 DEF IInv

\* A boot that cannot read the file starts empty, and leaves the file.
LEMMA RestartUnreadStep ==
    ASSUME IInv, RestartUnread
    PROVE  IInv'
<1>1. mem' = [r \in Requests |-> NoHold] /\ disk' = disk /\ unread' = TRUE
    BY DEF RestartUnread
<1>2. TypeOK'
    BY DEF RestartUnread, IInv, TypeOK, NoHold, Hold, States
<1>3. CeilingHeld'
    <2>1. \A leg \in Legs : Held(mem', leg) <= Cap[leg] /\ Held(disk', leg) <= Cap[leg]
        BY <1>1, EmptyHoldsNothing, SpendHoldAssumption DEF IInv, CeilingHeld
    <2> QED BY <2>1 DEF CeilingHeld, Held, Charge
<1>4. RestartForgetsNothing' /\ DownIsEmpty'
    BY <1>1 DEF RestartUnread, RestartForgetsNothing, DownIsEmpty
<1> QED BY <1>2, <1>3, <1>4 DEF IInv

\* The clock and the book leave the holds alone.
LEMMA TickStep ==
    ASSUME IInv, Tick
    PROVE  IInv'
<1>1. book \in [BookLegs -> Nat] /\ now \in Nat
    BY DEF IInv, TypeOK
<1> QED BY <1>1, HoldsUnchangedStep DEF Tick

\* A step that changes nothing of the store.
LEMMA IdleStep ==
    ASSUME IInv, UNCHANGED vars
    PROVE  IInv'
<1>1. book \in [BookLegs -> Nat] /\ now \in Nat
    BY DEF IInv, TypeOK
<1> QED BY <1>1, HoldsUnchangedStep DEF vars

\* Every step keeps the invariant.
LEMMA NextIInv == IInv /\ [Next]_vars => IInv'
<1> SUFFICES ASSUME IInv, [Next]_vars PROVE IInv'
    OBVIOUS
<1> USE SpendHoldAssumption
<1>1. ASSUME NEW r \in Requests, NEW amount \in Amounts, NEW legs \in SUBSET Legs,
             Reserve(r, amount, legs)
      PROVE  IInv'
    BY <1>1, ReserveStep
<1>2. ASSUME NEW r \in Requests, NEW actual \in Amounts, Consume(r, actual)
      PROVE  IInv'
    BY <1>2, ConsumeStep
<1>3. ASSUME NEW r \in Requests, Release(r)
      PROVE  IInv'
    BY <1>3, ReleaseStep
<1>4. ASSUME NEW leg \in BookLegs, NEW amount \in Amounts, BookRow(leg, amount)
      PROVE  IInv'
    <2>1. book \in [BookLegs -> Nat] /\ now \in Nat
        BY DEF IInv, TypeOK
    <2>2. book' \in [BookLegs -> Nat]
        BY <1>4, <2>1 DEF BookRow
    <2> QED BY <1>4, <2>1, <2>2, HoldsUnchangedStep DEF BookRow
<1> QED BY <1>1, <1>2, <1>3, <1>4, SweepStep, CrashStep, RestartStep, RestartUnreadStep,
           TickStep, IdleStep DEF Next

\* The inductive invariant holds of every behaviour of the store.
THEOREM SpendHoldInvariant == Spec => []IInv
BY InitIInv, NextIInv, PTL DEF Spec

\* The store is type correct: holds of the request ids, in memory and on disk.
THEOREM SpendHoldTypeCorrect == Spec => []TypeOK
<1>1. IInv => TypeOK
    BY DEF IInv
<1> QED BY SpendHoldInvariant, <1>1, PTL

\* No interleaving of reserve, consume, release, expiry, failed saves, crashes
\* and restarts takes a ceiling over its cap, for any caps, amounts and TTL.
THEOREM SpendHoldCeiling == Spec => []CeilingHeld
<1>1. IInv => CeilingHeld
    BY DEF IInv
<1> QED BY SpendHoldInvariant, <1>1, PTL

\* What a restart reads from the file is what counted in memory, until a boot
\* cannot read it.
THEOREM SpendHoldDurable == Spec => []RestartForgetsNothing
<1>1. IInv => RestartForgetsNothing
    BY DEF IInv
<1> QED BY SpendHoldInvariant, <1>1, PTL
-----------------------------------------------------------------------------
(* What a step may never do. *)

\* The step leaves settled spend in the file as it is, unless a boot could not
\* read it.
SettledKept ==
    ~unread' =>
        /\ ~unread
        /\ \A r \in Requests : disk[r].state = "consumed" => disk'[r] = disk[r]

\* The step settles no hold that had stopped counting.
NoneSettledLate ==
    \A r \in Requests :
        (mem[r].state \in {"released", "expired"} \/ Due(mem[r])) => mem'[r].state # "consumed"

\* Settled spend is the same in memory, in the file and after a sweep of both.
LEMMA SettledEverywhere ==
    ASSUME ~unread, IInv, up, NEW r \in Requests, disk[r].state = "consumed"
    PROVE  mem[r] = disk[r] /\ Swept(mem)[r] = disk[r] /\ SweptDisk[r] = disk[r]
<1>1. mem \in [Requests -> Hold] /\ now \in Nat
    BY DEF IInv, TypeOK
<1>2. mem[r] = disk[r]
    BY DEF IInv, RestartForgetsNothing, Live
<1>3. ~Due(mem[r])
    BY <1>2 DEF Due
<1>4. Swept(mem)[r] = mem[r]
    BY <1>1, <1>3, SweptFacts
<1> QED BY <1>2, <1>4 DEF SweptDisk

\* A swept map holds nothing that was settled late.
LEMMA SweptNotLate ==
    ASSUME IInv, NEW r \in Requests,
           mem[r].state \in {"released", "expired"} \/ Due(mem[r])
    PROVE  Swept(mem)[r].state \in {"released", "expired"}
<1>1. mem \in [Requests -> Hold] /\ now \in Nat
    BY DEF IInv, TypeOK
<1>2. CASE Due(mem[r])
    BY <1>1, <1>2, SweptFacts
<1>3. CASE ~Due(mem[r])
    <2>1. Swept(mem)[r] = mem[r]
        BY <1>1, <1>3, SweptFacts
    <2> QED BY <1>3, <2>1
<1> QED BY <1>2, <1>3

\* A sweep alone changes no settled hold and settles none.
LEMMA SweepAction ==
    ASSUME IInv, Sweep
    PROVE  SettledKept /\ NoneSettledLate
<1>1. up /\ mem' = Swept(mem) /\ disk' = SweptDisk /\ unread' = unread
    BY DEF Sweep
<1>2. SettledKept
    BY <1>1, SettledEverywhere DEF SettledKept
<1>3. NoneSettledLate
    <2> SUFFICES ASSUME NEW r \in Requests,
                        mem[r].state \in {"released", "expired"} \/ Due(mem[r])
                 PROVE  Swept(mem)[r].state # "consumed"
        BY <1>1 DEF NoneSettledLate
    <2>1. Swept(mem)[r].state \in {"released", "expired"}
        BY SweptNotLate
    <2> QED BY <2>1
<1> QED BY <1>2, <1>3

\* An operation that replaces one hold changes no settled one, and settles
\* none late, when the hold it replaces was not settled and the one it puts
\* there is settled only from an open hold.
LEMMA ReplaceAction ==
    ASSUME IInv, up, NEW r \in Requests, NEW h,
           Swept(mem)[r].state # "consumed",
           h.state = "consumed" => Swept(mem)[r].state = "open",
           LET after == [Swept(mem) EXCEPT ![r] = h] IN Saved(after) \/ Unsaved(after)
    PROVE  SettledKept /\ NoneSettledLate
<1> DEFINE after == [Swept(mem) EXCEPT ![r] = h]
<1>1. mem' = after /\ disk' \in {after, SweptDisk} /\ unread' = unread
    BY DEF Saved, Unsaved
<1>2. Swept(mem) \in [Requests -> Hold]
    BY SweptFacts DEF IInv, TypeOK
<1>3. after[r] = h /\ \A x \in Requests \ {r} : after[x] = Swept(mem)[x]
    BY <1>2
<1> HIDE DEF after
<1>4. SettledKept
    <2> SUFFICES ASSUME ~unread, NEW x \in Requests, disk[x].state = "consumed"
                 PROVE  disk'[x] = disk[x]
        BY <1>1 DEF SettledKept
    <2>1. Swept(mem)[x] = disk[x] /\ SweptDisk[x] = disk[x]
        BY SettledEverywhere
    <2>2. x # r
        BY <2>1
    <2> QED BY <1>1, <1>3, <2>1, <2>2
<1>5. NoneSettledLate
    <2> SUFFICES ASSUME NEW x \in Requests,
                        mem[x].state \in {"released", "expired"} \/ Due(mem[x])
                 PROVE  after[x].state # "consumed"
        BY <1>1 DEF NoneSettledLate
    <2>1. Swept(mem)[x].state \in {"released", "expired"}
        BY SweptNotLate
    <2> QED BY <1>3, <2>1
<1> QED BY <1>4, <1>5

\* reserve overwrites finished holds only, and settles nothing.
LEMMA ReserveAction ==
    ASSUME IInv, NEW r \in Requests, NEW amount, NEW legs, Reserve(r, amount, legs)
    PROVE  SettledKept /\ NoneSettledLate
<1>1. up
    BY DEF Reserve
<1>2. NewHold(amount, legs).state = "open" /\ NoHold.state = "none"
    BY DEF NewHold, NoHold
<1>3. Admitted(r, amount, legs) => Swept(mem)[r].state # "consumed"
    BY DEF Admitted, Live
<1> QED BY <1>1, <1>2, <1>3, ReplaceAction, SweepAction DEF Reserve

\* A map with one hold replaced by itself is the map.
LEMMA ReplaceBySelf ==
    ASSUME IInv, NEW r \in Requests
    PROVE  Swept(mem) = [Swept(mem) EXCEPT ![r] = Swept(mem)[r]]
<1>1. Swept(mem) \in [Requests -> Hold]
    BY SweptFacts DEF IInv, TypeOK
<1> QED BY <1>1

\* consume settles an open hold only.
LEMMA ConsumeAction ==
    ASSUME IInv, NEW r \in Requests, NEW actual, Consume(r, actual)
    PROVE  SettledKept /\ NoneSettledLate
<1>1. up
    BY DEF Consume
<1>2. CASE Swept(mem)[r].state = "open"
           /\ Saved([Swept(mem) EXCEPT ![r] = Settled(Swept(mem)[r], actual)])
    BY <1>1, <1>2, ReplaceAction
<1>3. CASE Swept(mem)[r].state = "open" /\ Unsaved(Swept(mem))
    BY <1>1, <1>3, ReplaceAction, ReplaceBySelf
<1> QED BY <1>2, <1>3, SweepAction DEF Consume

\* release finishes an open hold only.
LEMMA ReleaseAction ==
    ASSUME IInv, NEW r \in Requests, Release(r)
    PROVE  SettledKept /\ NoneSettledLate
<1> DEFINE h == [Swept(mem)[r] EXCEPT !.state = "released"]
<1>1. up
    BY DEF Release
<1>2. Swept(mem) \in [Requests -> Hold]
    BY SweptFacts DEF IInv, TypeOK
<1>3. CASE Swept(mem)[r].state = "open"
           /\ Saved([Swept(mem) EXCEPT ![r].state = "released"])
    <2>1. [Swept(mem) EXCEPT ![r].state = "released"] = [Swept(mem) EXCEPT ![r] = h]
        BY <1>2
    <2>2. h.state = "released"
        BY <1>2 DEF Hold
    <2> HIDE DEF h
    <2> QED BY <1>1, <1>3, <2>1, <2>2, ReplaceAction
<1>4. CASE Swept(mem)[r].state = "open" /\ Unsaved(Swept(mem))
    BY <1>1, <1>4, ReplaceAction, ReplaceBySelf
<1> QED BY <1>3, <1>4, SweepAction DEF Release

\* A crash leaves the file, and nothing in memory.
LEMMA CrashAction ==
    ASSUME IInv, Crash
    PROVE  SettledKept /\ NoneSettledLate
BY DEF Crash, SettledKept, NoneSettledLate, NoHold

\* A restart sweeps the file, which keeps settled spend; the process that
\* starts had nothing in memory that could settle late.
LEMMA RestartAction ==
    ASSUME IInv, Restart
    PROVE  SettledKept /\ NoneSettledLate
<1>1. disk \in [Requests -> Hold] /\ now \in Nat /\ \A r \in Requests : mem[r] = NoHold
    BY DEF IInv, TypeOK, DownIsEmpty, Restart
<1>2. SettledKept
    <2> SUFFICES ASSUME NEW r \in Requests, disk[r].state = "consumed"
                 PROVE  disk'[r] = disk[r]
        BY DEF SettledKept, Restart
    <2>1. ~Due(disk[r])
        BY DEF Due
    <2>2. Swept(disk)[r] = disk[r]
        BY <1>1, <2>1, SweptFacts
    <2> QED BY <2>2 DEF Restart
<1>3. NoneSettledLate
    BY <1>1 DEF NoneSettledLate, NoHold, Due
<1> QED BY <1>2, <1>3

\* A boot that cannot read the file settles nothing.
LEMMA RestartUnreadAction ==
    ASSUME IInv, RestartUnread
    PROVE  SettledKept /\ NoneSettledLate
BY DEF RestartUnread, SettledKept, NoneSettledLate, NoHold

\* A step that leaves both maps alone.
LEMMA HoldsUnchangedAction ==
    ASSUME mem' = mem, disk' = disk, unread' = unread
    PROVE  SettledKept /\ NoneSettledLate
BY DEF SettledKept, NoneSettledLate, Due

\* No step changes settled spend or settles late.
LEMMA NextAction == IInv /\ [Next]_vars => SettledKept /\ NoneSettledLate
<1> SUFFICES ASSUME IInv, [Next]_vars PROVE SettledKept /\ NoneSettledLate
    OBVIOUS
<1>1. CASE Tick \/ UNCHANGED vars \/ \E leg \in BookLegs, amount \in Amounts : BookRow(leg, amount)
    BY <1>1, HoldsUnchangedAction DEF Tick, vars, BookRow
<1> QED BY <1>1, ReserveAction, ConsumeAction, ReleaseAction, SweepAction, CrashAction, RestartAction,
           RestartUnreadAction DEF Next

\* Settled spend in the file is final: no retry, release, failed save, crash or
\* restart changes it, until a boot cannot read the file.
THEOREM SpendHoldFinal == Spec => SettledSpendIsFinal
<1>1. IInv /\ [Next]_vars =>
        [~unread' => \A r \in Requests : disk[r].state = "consumed" => disk'[r] = disk[r]]_vars
    BY NextAction DEF SettledKept
<1> QED BY <1>1, SpendHoldInvariant, PTL DEF Spec, SettledSpendIsFinal

\* A hold that was released or had expired is never settled: the consume of a
\* request that outlived its TTL is refused.
THEOREM SpendHoldNoLateSettle == Spec => NoLateSettle
<1>1. IInv /\ [Next]_vars => [NoneSettledLate]_vars
    BY NextAction
<1>2. [NoneSettledLate]_vars <=>
        [\A r \in Requests :
            (mem[r].state \in {"released", "expired"} \/ Due(mem[r]))
               => mem'[r].state # "consumed"]_vars
    BY DEF NoneSettledLate
<1> QED BY <1>1, <1>2, SpendHoldInvariant, PTL DEF Spec, NoLateSettle

-----------------------------------------------------------------------------
(* The hold / settle API. *)

\* A route that goes on to sign a receipt has its spend in the file.
JobIsCounted ==
    ~unread /\ (job.op = "sign" \/ (job.op = "settle" /\ job.seen = "consumed"))
        => disk[job.request].state = "consumed"

\* A route waits only in a running process, and a settle only for a request
\* id that has no receipt.
JobIsFirst ==
    /\ job # Idle => up
    /\ job.op \in {"settle", "sign"} => receipts[job.request] = 0

\* A running process knows every receipt of the service's file, unless a boot
\* could not read it.
FileIsLoaded ==
    ~metaUnread /\ up => \A r \in Requests : file.receipts[r] # 0 => receipts[r] = file.receipts[r]

SInv ==
    /\ IInv
    /\ ServiceTypeOK
    /\ ReceiptIsCounted
    /\ JobIsCounted
    /\ JobIsFirst
    /\ FileIsLoaded

-----------------------------------------------------------------------------
\* What a job record says.
LEMMA JobShape ==
    /\ Idle \in Jobs /\ Idle.op = "idle"
    /\ \A r \in Requests :
          /\ Placing(r) \in Jobs /\ Placing(r).op = "place" /\ Placing(r) # Idle
          /\ Counted(r) \in Jobs /\ Counted(r).op = "sign" /\ Counted(r).request = r
          /\ \A st \in {"open", "consumed"} :
                /\ Snapped(r, st) \in Jobs /\ Snapped(r, st).op = "settle"
                /\ Snapped(r, st).request = r /\ Snapped(r, st).seen = st
<1>1. Idle \in Jobs /\ Idle.op = "idle"
    BY DEF Jobs, Idle
<1>2. ASSUME NEW r \in Requests
      PROVE  Placing(r) \in Jobs /\ Placing(r).op = "place" /\ Placing(r).op # Idle.op
    BY <1>1 DEF Jobs, Placing
<1>3. ASSUME NEW r \in Requests
      PROVE  Counted(r) \in Jobs /\ Counted(r).op = "sign" /\ Counted(r).request = r
    BY DEF Jobs, Counted
<1>4. ASSUME NEW r \in Requests, NEW st \in {"open", "consumed"}
      PROVE  /\ Snapped(r, st) \in Jobs /\ Snapped(r, st).op = "settle"
             /\ Snapped(r, st).request = r /\ Snapped(r, st).seen = st
    <2>1. Snapped(r, st) \in Jobs
        BY DEF Jobs
    <2> QED BY <2>1 DEF Snapped
<1> QED BY <1>1, <1>2, <1>3, <1>4

\* A route that waits waits for a request id.
LEMMA JobRequest ==
    ASSUME job \in Jobs
    PROVE  /\ job.op \in {"place", "settle", "sign"} => job.request \in Requests /\ job # Idle
           /\ job.op = "settle" => job.seen \in {"open", "consumed"}
BY DEF Jobs, Idle, Placing, Counted, Snapped

\* A step of the store under a route that stays, ends or moves on: the spend
\* of every receipt is still in the file.
LEMMA StoreStep ==
    ASSUME SInv, IInv', SettledKept, up' = up, job' \in Jobs,
           UNCHANGED <<entries, receipts, file, signed, delivered, metaUnread>>,
           JobIsCounted', JobIsFirst'
    PROVE  SInv'
<1>1. ServiceTypeOK'
    BY DEF SInv, IInv, ServiceTypeOK
<1>2. ReceiptIsCounted'
    BY DEF SInv, ReceiptIsCounted, SettledKept
<1>3. FileIsLoaded'
    BY DEF SInv, FileIsLoaded
<1> QED BY <1>1, <1>2, <1>3 DEF SInv

\* A step of the store during which the route keeps waiting.
LEMMA BesideStep ==
    ASSUME SInv, IInv', SettledKept, up' = up, UNCHANGED serviceVars
    PROVE  SInv'
<1>1. job \in Jobs
    BY DEF SInv, ServiceTypeOK
<1>2. JobIsCounted'
    BY <1>1, JobRequest DEF SInv, JobIsCounted, SettledKept, serviceVars
<1>3. JobIsFirst'
    BY DEF SInv, JobIsFirst, serviceVars
<1> QED BY <1>1, <1>2, <1>3, StoreStep DEF serviceVars

\* The route ends.
LEMMA EndStep ==
    ASSUME SInv, IInv', SettledKept, up' = up, job' = Idle,
           UNCHANGED <<entries, receipts, file, signed, delivered, metaUnread>>
    PROVE  SInv'
<1>1. job' \in Jobs /\ JobIsCounted' /\ JobIsFirst'
    BY JobShape DEF JobIsCounted, JobIsFirst
<1> QED BY <1>1, StoreStep

\* A live hold in memory after a step of a running process is in the file.
LEMMA LiveIsOnDisk ==
    ASSUME ~unread', IInv', up', NEW r \in Requests, mem'[r].state = "consumed"
    PROVE  disk'[r].state = "consumed"
BY DEF IInv, RestartForgetsNothing, Live

\* None of the store's operations stops or starts the process.
LEMMA OperationsKeepUp ==
    /\ Sweep => up /\ up' = up
    /\ \A r \in Requests : Release(r) => up /\ up' = up
    /\ \A r, a : Consume(r, a) => up /\ up' = up
    /\ \A r, a, l : Reserve(r, a, l) => up /\ up' = up
BY DEF Sweep, Release, Consume, Reserve, Saved, Unsaved

-----------------------------------------------------------------------------
\* The service starts with no receipt and no route under way.
LEMMA InitSInv == ServiceInit => SInv
<1> SUFFICES ASSUME ServiceInit PROVE SInv
    OBVIOUS
<1>1. IInv
    BY InitIInv DEF ServiceInit
<1>2. ServiceTypeOK
    BY <1>1, JobShape DEF ServiceInit, ServiceTypeOK, IInv
<1>3. ReceiptIsCounted /\ FileIsLoaded
    BY DEF ServiceInit, ReceiptIsCounted, FileIsLoaded
<1>4. JobIsCounted /\ JobIsFirst
    BY JobShape DEF ServiceInit, JobIsCounted, JobIsFirst
<1> QED BY <1>1, <1>2, <1>3, <1>4 DEF SInv

\* POST /holds up to its await.
LEMMA PlaceStep ==
    ASSUME SInv, NEW r \in Requests, NEW amount \in Amounts, NEW leg \in Legs,
           Place(r, amount, leg)
    PROVE  SInv' /\ SettledKept /\ NoneSettledLate
<1>1. Reserve(r, amount, {leg}) /\ job' \in {Placing(r), Idle}
      /\ UNCHANGED <<entries, receipts, file, signed, delivered, metaUnread>>
    BY DEF Place
<1>2. IInv' /\ SettledKept /\ NoneSettledLate /\ up /\ up' = up
    BY <1>1, ReserveStep, ReserveAction, OperationsKeepUp, SpendHoldAssumption DEF SInv
<1>3. job' \in Jobs /\ JobIsCounted' /\ JobIsFirst'
    BY <1>1, <1>2, JobShape DEF JobIsCounted, JobIsFirst
<1> QED BY <1>1, <1>2, <1>3, StoreStep

\* The entry of a placement, saved or not.
LEMMA PlaceEntryStep ==
    ASSUME SInv, PlaceEntry
    PROVE  SInv' /\ SettledKept /\ NoneSettledLate
<1>1. /\ job \in Jobs /\ job.op = "place" /\ up
      /\ entries' = entries \cup {job.request} /\ receipts' = receipts
      /\ file' \in {file, [entries |-> entries', receipts |-> receipts']}
      /\ job' = Idle /\ UNCHANGED <<vars, signed, delivered, metaUnread>>
    BY DEF PlaceEntry, Persisted, PersistFailed, SInv, ServiceTypeOK
<1>2. job.request \in Requests
    BY <1>1, JobRequest
<1>3. IInv' /\ SettledKept /\ NoneSettledLate /\ disk' = disk /\ up' = up
    BY <1>1, IdleStep, HoldsUnchangedAction DEF SInv, vars
<1>4. \A r \in Requests : file'.receipts[r] \in {file.receipts[r], receipts[r]}
    BY <1>1
<1>5. ServiceTypeOK'
    BY <1>1, <1>2, <1>3, JobShape DEF SInv, ServiceTypeOK, IInv
<1>6. ReceiptIsCounted' /\ FileIsLoaded'
    BY <1>1, <1>3, <1>4 DEF SInv, ReceiptIsCounted, FileIsLoaded, SettledKept
<1>7. JobIsCounted' /\ JobIsFirst'
    BY <1>1, <1>3, JobShape DEF JobIsCounted, JobIsFirst
<1> QED BY <1>3, <1>5, <1>6, <1>7 DEF SInv

\* A stored receipt is returned.
LEMMA SettleCachedStep ==
    ASSUME SInv, NEW r \in Requests, SettleCached(r)
    PROVE  SInv' /\ SettledKept /\ NoneSettledLate
<1>1. IInv' /\ SettledKept /\ NoneSettledLate /\ disk' = disk /\ up' = up
    BY IdleStep, HoldsUnchangedAction DEF SettleCached, SInv, vars
<1>2. ServiceTypeOK'
    BY <1>1 DEF SettleCached, SInv, ServiceTypeOK, IInv
<1>3. ReceiptIsCounted' /\ FileIsLoaded' /\ JobIsCounted' /\ JobIsFirst'
    BY <1>1 DEF SettleCached, SInv, ReceiptIsCounted, FileIsLoaded, JobIsCounted, JobIsFirst, SettledKept
<1> QED BY <1>1, <1>2, <1>3 DEF SInv

\* The snapshot of a settle.
LEMMA SettleSnapshotStep ==
    ASSUME SInv, NEW r \in Requests, SettleSnapshot(r)
    PROVE  SInv' /\ SettledKept /\ NoneSettledLate
<1>1. Sweep /\ receipts[r] = 0 /\ UNCHANGED <<entries, receipts, file, signed, delivered, metaUnread>>
    BY DEF SettleSnapshot
<1>2. IInv' /\ SettledKept /\ NoneSettledLate /\ up /\ up' = up
    BY <1>1, SweepStep, SweepAction, OperationsKeepUp DEF SInv
<1>3. CASE Live(mem'[r])
    <2>1. mem'[r].state \in {"open", "consumed"} /\ job' = Snapped(r, mem'[r].state)
        BY <1>3 DEF SettleSnapshot, Live
    <2>2. JobIsCounted' /\ JobIsFirst' /\ job' \in Jobs
        BY <1>1, <1>2, <2>1, JobShape, LiveIsOnDisk DEF JobIsCounted, JobIsFirst
    <2> QED BY <1>1, <1>2, <2>2, StoreStep
<1>4. CASE ~Live(mem'[r])
    BY <1>1, <1>2, <1>4, EndStep DEF SettleSnapshot
<1> QED BY <1>3, <1>4

\* The consume of a settle: the route goes on only with the spend counted.
LEMMA SettleConsumeStep ==
    ASSUME SInv, SettleConsume
    PROVE  SInv' /\ SettledKept /\ NoneSettledLate
<1> DEFINE r == job.request
<1>1. /\ job \in Jobs /\ job.op = "settle"
      /\ UNCHANGED <<entries, receipts, file, signed, delivered, metaUnread>>
    BY DEF SettleConsume, SInv, ServiceTypeOK
<1>2. r \in Requests /\ receipts[r] = 0
    BY <1>1, JobRequest DEF SInv, JobIsFirst
<1>3. CASE /\ job.seen = "open" /\ Consume(r, mem[r].reserved)
           /\ job' = IF mem'[r].state = "consumed" THEN Counted(r) ELSE Idle
    <2>1. mem[r].reserved \in Nat
        BY <1>2 DEF SInv, IInv, TypeOK, Hold
    <2>2. IInv' /\ SettledKept /\ NoneSettledLate /\ up /\ up' = up
        BY <1>2, <1>3, <2>1, ConsumeStep, ConsumeAction, OperationsKeepUp DEF SInv
    <2>3. CASE mem'[r].state = "consumed"
        <3>1. job' = Counted(r) /\ (~unread' => disk'[r].state = "consumed")
            BY <1>2, <1>3, <2>2, <2>3, LiveIsOnDisk
        <3> HIDE DEF r
        <3>2. JobIsCounted' /\ JobIsFirst' /\ job' \in Jobs
            BY <1>1, <1>2, <2>2, <3>1, JobShape DEF JobIsCounted, JobIsFirst
        <3> QED BY <1>1, <2>2, <3>2, StoreStep
    <2>4. CASE mem'[r].state # "consumed"
        BY <1>1, <1>3, <2>2, <2>4, EndStep
    <2> QED BY <2>3, <2>4
<1>4. CASE job.seen = "consumed" /\ up /\ job' = Counted(r) /\ UNCHANGED vars
    <2>1. IInv' /\ SettledKept /\ NoneSettledLate /\ up' = up /\ disk' = disk
        BY <1>4, IdleStep, HoldsUnchangedAction DEF SInv, vars
    <2>2. ~unread => disk[r].state = "consumed"
        BY <1>1, <1>4 DEF SInv, JobIsCounted
    <2> HIDE DEF r
    <2>3. JobIsCounted' /\ JobIsFirst' /\ job' \in Jobs
        BY <1>1, <1>2, <1>4, <2>1, <2>2, JobShape DEF JobIsCounted, JobIsFirst, SettledKept
    <2> QED BY <1>1, <2>1, <2>3, StoreStep
<1> QED BY <1>3, <1>4 DEF SettleConsume

\* The signature, stored and saved or not.
LEMMA SettleSignStep ==
    ASSUME SInv, SettleSign
    PROVE  SInv' /\ SettledKept /\ NoneSettledLate
<1> DEFINE q == job.request
<1>1. /\ job \in Jobs /\ job.op = "sign" /\ up /\ signed' = signed + 1
      /\ receipts' = [receipts EXCEPT ![q] = signed'] /\ entries' = entries
      /\ file' \in {file, [entries |-> entries', receipts |-> receipts']}
      /\ delivered' \in {delivered, [delivered EXCEPT ![q] = @ \cup {signed'}]}
      /\ job' = Idle /\ UNCHANGED vars /\ metaUnread' = metaUnread
    BY DEF SettleSign, Persisted, PersistFailed, SInv, ServiceTypeOK
<1>2. q \in Requests /\ receipts[q] = 0 /\ (~unread => disk[q].state = "consumed")
    BY <1>1, JobRequest DEF SInv, JobIsCounted, JobIsFirst
<1>3. IInv' /\ SettledKept /\ NoneSettledLate /\ disk' = disk /\ up' = up
    BY <1>1, IdleStep, HoldsUnchangedAction DEF SInv, vars
<1> HIDE DEF q
<1>4. ServiceTypeOK'
    <2>1. /\ entries \in SUBSET Requests /\ receipts \in [Requests -> Nat] /\ signed \in Nat
          /\ file \in [entries : SUBSET Requests, receipts : [Requests -> Nat]]
          /\ delivered \in [Requests -> SUBSET Nat] /\ metaUnread \in BOOLEAN
        BY DEF SInv, ServiceTypeOK
    <2>2. signed' \in Nat /\ receipts' \in [Requests -> Nat] /\ job' \in Jobs
        BY <1>1, <1>2, <2>1, JobShape
    <2>3. delivered' \in [Requests -> SUBSET Nat]
        BY <1>1, <1>2, <2>1, <2>2
    <2>4. file' \in [entries : SUBSET Requests, receipts : [Requests -> Nat]]
        BY <1>1, <2>1, <2>2
    <2> QED BY <1>1, <1>3, <2>1, <2>2, <2>3, <2>4 DEF ServiceTypeOK, IInv
<1>5. \A r \in Requests :
         /\ r # q => receipts'[r] = receipts[r]
         /\ file'.receipts[r] \in {file.receipts[r], receipts'[r]}
    BY <1>1, <1>2 DEF SInv, ServiceTypeOK
<1>6. ReceiptIsCounted'
    BY <1>2, <1>3, <1>5 DEF SInv, ReceiptIsCounted, SettledKept
<1>7. FileIsLoaded'
    BY <1>1, <1>2, <1>3, <1>5 DEF SInv, FileIsLoaded
<1>8. JobIsCounted' /\ JobIsFirst'
    BY <1>1, JobShape DEF JobIsCounted, JobIsFirst
<1> QED BY <1>3, <1>4, <1>6, <1>7, <1>8 DEF SInv

\* The process dies: the routes, the entries and the receipts in memory go.
LEMMA ServiceCrashStep ==
    ASSUME SInv, ServiceCrash
    PROVE  SInv' /\ SettledKept /\ NoneSettledLate
<1>1. IInv' /\ SettledKept /\ NoneSettledLate
    BY CrashStep, CrashAction DEF SInv, ServiceCrash
<1>2. disk' = disk /\ up' = FALSE
    BY DEF ServiceCrash, Crash
<1>3. ServiceTypeOK'
    BY <1>1, JobShape DEF ServiceCrash, SInv, ServiceTypeOK, IInv
<1>4. ReceiptIsCounted' /\ FileIsLoaded'
    BY <1>1, <1>2 DEF ServiceCrash, SInv, ReceiptIsCounted, FileIsLoaded, SettledKept
<1>5. JobIsCounted' /\ JobIsFirst'
    BY JobShape DEF ServiceCrash, JobIsCounted, JobIsFirst
<1> QED BY <1>1, <1>3, <1>4, <1>5 DEF SInv

\* The next process loads the two files, each of them or not.
LEMMA ServiceRestartStep ==
    ASSUME SInv, ServiceRestart
    PROVE  SInv' /\ SettledKept /\ NoneSettledLate
<1>1. IInv' /\ SettledKept /\ NoneSettledLate
    BY RestartStep, RestartAction, RestartUnreadStep, RestartUnreadAction DEF SInv, ServiceRestart
<1>2. ~up /\ job = Idle /\ job' = Idle
    BY DEF ServiceRestart, Restart, RestartUnread, SInv, JobIsFirst
<1>3. ServiceTypeOK'
    <2>1. metaUnread' \in BOOLEAN
        BY DEF ServiceRestart, LoadMeta, LoadMetaUnread, SInv, ServiceTypeOK
    <2>2. CASE LoadMeta
        BY <1>1, <2>1, <2>2 DEF ServiceRestart, LoadMeta, SInv, ServiceTypeOK, IInv
    <2>3. CASE LoadMetaUnread
        BY <1>1, <2>1, <2>3 DEF ServiceRestart, LoadMetaUnread, SInv, ServiceTypeOK, IInv
    <2> QED BY <2>2, <2>3 DEF ServiceRestart
<1>4. ReceiptIsCounted' /\ FileIsLoaded'
    BY <1>1 DEF ServiceRestart, LoadMeta, LoadMetaUnread, SInv, ReceiptIsCounted, FileIsLoaded, SettledKept
<1>5. JobIsCounted' /\ JobIsFirst'
    BY <1>2, JobShape DEF JobIsCounted, JobIsFirst
<1> QED BY <1>1, <1>3, <1>4, <1>5 DEF SInv

\* Every step of the service keeps the invariant, settled spend and the
\* refusal of late consumes.
LEMMA NextSInv == SInv /\ [ServiceNext]_allVars => SInv' /\ SettledKept /\ NoneSettledLate
<1> SUFFICES ASSUME SInv, [ServiceNext]_allVars
             PROVE  SInv' /\ SettledKept /\ NoneSettledLate
    OBVIOUS
<1>1. ASSUME NEW r \in Requests, ReleaseHold(r)
      PROVE  SInv' /\ SettledKept /\ NoneSettledLate
    <2>1. IInv' /\ SettledKept /\ NoneSettledLate /\ up' = up
        BY <1>1, ReleaseStep, ReleaseAction, OperationsKeepUp DEF SInv, ReleaseHold
    <2> QED BY <1>1, <2>1, BesideStep DEF ReleaseHold
<1>2. CASE SettleRefused
    <2>1. IInv' /\ SettledKept /\ NoneSettledLate /\ up' = up
        BY <1>2, IdleStep, HoldsUnchangedAction DEF SInv, SettleRefused, vars
    <2> QED BY <1>2, <2>1, EndStep DEF SettleRefused
<1>3. CASE ChatSweep
    <2>1. IInv' /\ SettledKept /\ NoneSettledLate /\ up' = up
        BY <1>3, SweepStep, SweepAction, OperationsKeepUp DEF SInv, ChatSweep
    <2> QED BY <1>3, <2>1, BesideStep DEF ChatSweep
<1>4. CASE ServiceTick
    <2>1. IInv' /\ SettledKept /\ NoneSettledLate /\ up' = up
        BY <1>4, TickStep, HoldsUnchangedAction DEF SInv, ServiceTick, Tick
    <2> QED BY <1>4, <2>1, BesideStep DEF ServiceTick
<1>5. CASE UNCHANGED allVars
    <2>1. UNCHANGED vars /\ UNCHANGED serviceVars
        BY <1>5 DEF allVars
    <2>2. IInv' /\ SettledKept /\ NoneSettledLate /\ up' = up
        BY <2>1, IdleStep, HoldsUnchangedAction DEF SInv, vars
    <2> QED BY <2>1, <2>2, BesideStep
<1> QED BY <1>1, <1>2, <1>3, <1>4, <1>5, PlaceStep, PlaceEntryStep, SettleCachedStep,
           SettleSnapshotStep, SettleConsumeStep, SettleSignStep, ServiceCrashStep,
           ServiceRestartStep DEF ServiceNext

\* The inductive invariant holds of every behaviour of the service.
THEOREM ServiceInvariant == ServiceSpec => []SInv
<1>1. SInv /\ [ServiceNext]_allVars => SInv'
    BY NextSInv
<1> QED BY <1>1, InitSInv, PTL DEF ServiceSpec

-----------------------------------------------------------------------------
\* The service, its store and its file are type correct.
THEOREM ServiceTypeCorrect == ServiceSpec => []ServiceTypeOK
<1>1. SInv => ServiceTypeOK
    BY DEF SInv
<1> QED BY ServiceInvariant, <1>1, PTL

\* The ceilings of the store hold with the service on top, whose settle
\* consumes what it read of the hold before.
THEOREM ServiceCeiling == ServiceSpec => []CeilingHeld
<1>1. SInv => CeilingHeld
    BY DEF SInv, IInv
<1> QED BY ServiceInvariant, <1>1, PTL

\* What a restart of the service's process reads is what counted in memory,
\* until a boot cannot read the store's file.
THEOREM ServiceDurable == ServiceSpec => []RestartForgetsNothing
<1>1. SInv => RestartForgetsNothing
    BY DEF SInv, IInv
<1> QED BY ServiceInvariant, <1>1, PTL

\* A receipt, in memory or in the service's file, always has its spend in the
\* store's file: no failed save, expiry between the awaits of a settle, crash
\* or restart leaves a signed receipt uncounted, until a boot cannot read the
\* store's file.
THEOREM EveryReceiptIsCounted == ServiceSpec => []ReceiptIsCounted
<1>1. SInv => ReceiptIsCounted
    BY DEF SInv
<1> QED BY ServiceInvariant, <1>1, PTL

\* No route of the service changes settled spend in the file, until a boot
\* cannot read it.
THEOREM ServiceFinal == ServiceSpec => SettledSpendIsFinal
<1>1. SInv /\ [ServiceNext]_allVars =>
        [~unread' => \A r \in Requests : disk[r].state = "consumed" => disk'[r] = disk[r]]_vars
    BY NextSInv DEF SettledKept
<1> QED BY <1>1, ServiceInvariant, PTL DEF ServiceSpec, SettledSpendIsFinal

\* A settle whose hold expired or was released while it waited settles nothing.
THEOREM ServiceNoLateSettle == ServiceSpec => NoLateSettle
<1>1. SInv /\ [ServiceNext]_allVars =>
        [\A r \in Requests :
            (mem[r].state \in {"released", "expired"} \/ Due(mem[r]))
               => mem'[r].state # "consumed"]_vars
    BY NextSInv DEF NoneSettledLate
<1> QED BY <1>1, ServiceInvariant, PTL DEF ServiceSpec, NoLateSettle

\* The step leaves the receipts of the service's file, and answers with no
\* other, unless a boot could not read it.
SavedReceiptKept ==
    ~metaUnread' => \A r \in Requests : file.receipts[r] # 0 =>
        /\ file'.receipts[r] = file.receipts[r]
        /\ delivered'[r] \subseteq delivered[r] \cup {file.receipts[r]}

\* Every step of the service does.
LEMMA NextKeepsReceipts == SInv /\ [ServiceNext]_allVars => SavedReceiptKept
<1> SUFFICES ASSUME ~metaUnread', SInv, [ServiceNext]_allVars,
                    NEW r \in Requests, file.receipts[r] # 0
             PROVE  /\ file'.receipts[r] = file.receipts[r]
                    /\ delivered'[r] \subseteq delivered[r] \cup {file.receipts[r]}
    BY DEF SavedReceiptKept
<1>0. ~metaUnread
    BY DEF ServiceNext, allVars, serviceVars, Place, PlaceEntry, ReleaseHold, SettleCached,
       SettleSnapshot, SettleConsume, SettleRefused, SettleSign, ChatSweep, ServiceTick,
       ServiceCrash, ServiceRestart, LoadMeta, LoadMetaUnread
<1>1. up => receipts[r] = file.receipts[r]
    BY <1>0 DEF SInv, FileIsLoaded
<1>2. CASE PlaceEntry
    BY <1>1, <1>2 DEF PlaceEntry, Persisted, PersistFailed
<1>3. ASSUME NEW q \in Requests, SettleCached(q)
      PROVE  /\ file' = file
             /\ delivered'[r] \subseteq delivered[r] \cup {file.receipts[r]}
    <2>1. delivered' = [delivered EXCEPT ![q] = @ \cup {receipts[q]}] /\ file' = file /\ up
        BY <1>3 DEF SettleCached
    <2>2. delivered \in [Requests -> SUBSET Nat]
        BY DEF SInv, ServiceTypeOK
    <2> QED BY <1>1, <2>1, <2>2
<1>4. CASE SettleSign
    <2>1. job \in Jobs /\ job.op = "sign" /\ up
        BY <1>4 DEF SettleSign, SInv, ServiceTypeOK
    <2>2. receipts[job.request] = 0 /\ job.request \in Requests
        BY <2>1, JobRequest DEF SInv, JobIsFirst
    <2>3. r # job.request
        BY <1>1, <2>1, <2>2
    <2>4. /\ receipts' = [receipts EXCEPT ![job.request] = signed']
          /\ file' \in {file, [entries |-> entries', receipts |-> receipts']}
          /\ delivered' \in {delivered, [delivered EXCEPT ![job.request] = @ \cup {signed'}]}
        BY <1>4 DEF SettleSign, Persisted, PersistFailed
    <2>5. receipts \in [Requests -> Nat] /\ delivered \in [Requests -> SUBSET Nat]
        BY DEF SInv, ServiceTypeOK
    <2>6. receipts'[r] = receipts[r] /\ delivered'[r] = delivered[r]
        BY <2>3, <2>4, <2>5
    <2>7. file'.receipts \in {file.receipts, receipts'}
        BY <2>4
    <2> QED BY <1>1, <2>1, <2>6, <2>7
<1>5. CASE UNCHANGED <<file, delivered>>
    BY <1>5
<1> QED BY <1>2, <1>3, <1>4, <1>5 DEF ServiceNext, allVars, serviceVars, Place, ReleaseHold,
           SettleSnapshot, SettleConsume, SettleRefused, ChatSweep, ServiceTick, ServiceCrash,
           ServiceRestart

\* A saved receipt is the receipt of its request id: it stays in the service's
\* file and every later settle response carries it, however writes fail and the
\* process dies, until a boot cannot read that file.
THEOREM SavedReceiptFinal == ServiceSpec => SavedReceiptIsFinal
<1>1. SInv /\ [ServiceNext]_allVars => [SavedReceiptKept]_allVars
    BY NextKeepsReceipts
<1>2. [SavedReceiptKept]_allVars <=>
        [~metaUnread' => \A r \in Requests : file.receipts[r] # 0 =>
            /\ file'.receipts[r] = file.receipts[r]
            /\ delivered'[r] \subseteq delivered[r] \cup {file.receipts[r]}]_allVars
    BY DEF SavedReceiptKept
<1> QED BY <1>1, <1>2, ServiceInvariant, PTL DEF ServiceSpec, SavedReceiptIsFinal

-----------------------------------------------------------------------------
(* The paid chat door. *)

Before == {"new", "handshake", "settled"}

\* A call that has not begun has no hold anywhere and has paid nothing.
FreshIsEmpty ==
    \A c \in Requests : pc[c] = "new" => mem[c] = NoHold /\ disk[c] = NoHold /\ paid[c] = 0

\* A call in flight runs in a live process, under the hold it reserved when it
\* began, and within the time a call may take.
Covered ==
    \A c \in Requests : pc[c] \in {"handshake", "settled"} =>
        /\ up
        /\ mem[c].state = "open"
        /\ mem[c].expires = since[c] + TTL
        /\ now <= since[c] + CallLimit

\* The rows of the calls that settled in time are on the book.
OnTimeIsBooked == \A leg \in BookLegs : onTime[leg] <= book[leg]

DInv ==
    /\ IInv
    /\ DoorTypeOK
    /\ FreshIsEmpty
    /\ Covered
    /\ OnTimeIsBooked
    /\ AgentBudgetHeld

-----------------------------------------------------------------------------
\* The hold of a call in flight is not due, so a sweep leaves it alone.
LEMMA InFlightNotSwept ==
    ASSUME DInv, NEW c \in Requests, pc[c] \in {"handshake", "settled"}
    PROVE  Swept(mem)[c] = mem[c] /\ now < mem[c].expires
<1>1. mem \in [Requests -> Hold] /\ now \in Nat /\ since[c] \in Nat
    BY DEF DInv, IInv, TypeOK, DoorTypeOK
<1>2. mem[c].expires = since[c] + TTL /\ now <= since[c] + CallLimit
    BY DEF DInv, Covered
<1>3. now < mem[c].expires
    BY <1>1, <1>2, SpendHoldAssumption, MeteredCallAssumption
<1>4. mem[c] \in Hold
    BY <1>1
<1>5. ~Due(mem[c])
    BY <1>1, <1>3, <1>4 DEF Due, Hold
<1> QED BY <1>1, <1>3, <1>5, SweptFacts

\* A call that has not begun has no hold after a sweep either.
LEMMA FreshNotSwept ==
    ASSUME DInv, NEW c \in Requests, pc[c] = "new"
    PROVE  Swept(mem)[c] = NoHold /\ Swept(disk)[c] = NoHold
BY DEF DInv, FreshIsEmpty, Swept, Due, NoHold

\* What a call may still add is a natural number.
LEMMA UnbookedType ==
    ASSUME DoorTypeOK, NEW c \in Requests, NEW leg
    PROVE  Unbooked(c, leg) \in Nat
BY DEF DoorTypeOK, TypeOK, Hold, Unbooked, Kept

\* The hold of a call counts at least what the call may still add.
LEMMA UnbookedIsHeld ==
    ASSUME DInv, NEW c \in Requests, NEW leg
    PROVE  Unbooked(c, leg) <= Charge(Swept(mem)[c], leg)
<1>1. mem[c] \in Hold /\ paid[c] \in Nat /\ Swept(mem)[c] \in Hold
    BY SweptFacts DEF DInv, DoorTypeOK, TypeOK
<1>2. CASE pc[c] \in {"handshake", "settled"}
    <2>1. Swept(mem)[c] = mem[c] /\ mem[c].state = "open"
        BY <1>2, InFlightNotSwept DEF DInv, Covered
    <2> QED BY <1>1, <1>2, <2>1 DEF Unbooked, Kept, Charge, Hold
<1>3. CASE pc[c] \notin {"handshake", "settled"}
    <2>1. Unbooked(c, leg) = 0
        BY <1>3 DEF Unbooked
    <2>2. Charge(Swept(mem)[c], leg) \in Nat
        BY <1>1, ChargeType
    <2> QED BY <2>1, <2>2
<1> QED BY <1>2, <1>3

\* An operation of the store on one request id changes the others by its
\* sweep only, and neither the book, the clock nor the process.
LEMMA OperationLocal ==
    ASSUME IInv, NEW r \in Requests,
           Sweep \/ Release(r) \/ (\E a : Consume(r, a)) \/ (\E a, l : Reserve(r, a, l))
    PROVE  /\ up /\ up' = up /\ book' = book /\ now' = now
           /\ \A x \in Requests \ {r} :
                 mem'[x] = Swept(mem)[x] /\ disk'[x] \in {Swept(mem)[x], disk[x]}
           /\ Sweep => mem' = Swept(mem) /\ disk'[r] \in {Swept(mem)[r], disk[r]}
<1>1. Swept(mem) \in [Requests -> Hold]
    BY SweptFacts DEF IInv, TypeOK
<1>2. \A x \in Requests : SweptDisk[x] \in {Swept(mem)[x], disk[x]}
    BY DEF SweptDisk
<1>3. ASSUME Sweep
      PROVE  up /\ up' = up /\ book' = book /\ now' = now /\ mem' = Swept(mem) /\ disk' = SweptDisk
    BY <1>3 DEF Sweep
<1>4. ASSUME up, NEW h, LET after == [Swept(mem) EXCEPT ![r] = h] IN Saved(after) \/ Unsaved(after)
      PROVE  /\ up' = up /\ book' = book /\ now' = now
             /\ \A x \in Requests \ {r} :
                   mem'[x] = Swept(mem)[x] /\ disk'[x] \in {Swept(mem)[x], disk[x]}
    BY <1>1, <1>2, <1>4 DEF Saved, Unsaved
<1>5. ASSUME up, Unsaved(Swept(mem))
      PROVE  up' = up /\ book' = book /\ now' = now /\ mem' = Swept(mem) /\ disk' = SweptDisk
    BY <1>5 DEF Unsaved
<1>6. ASSUME Release(r), ~Sweep
      PROVE  up /\ (Unsaved(Swept(mem)) \/ \E h : Saved([Swept(mem) EXCEPT ![r] = h]))
    <2>1. [Swept(mem) EXCEPT ![r].state = "released"]
             = [Swept(mem) EXCEPT ![r] = [Swept(mem)[r] EXCEPT !.state = "released"]]
        BY <1>1
    <2> QED BY <1>6, <2>1 DEF Release
<1>7. ASSUME NEW a, Consume(r, a), ~Sweep
      PROVE  up /\ (Unsaved(Swept(mem)) \/ \E h : Saved([Swept(mem) EXCEPT ![r] = h]))
    BY <1>7 DEF Consume
<1>8. ASSUME NEW a, NEW l, Reserve(r, a, l), ~Sweep
      PROVE  up /\ \E h : LET after == [Swept(mem) EXCEPT ![r] = h] IN Saved(after) \/ Unsaved(after)
    BY <1>8 DEF Reserve
<1>9. CASE Sweep
    BY <1>2, <1>3, <1>9
<1>10. CASE ~Sweep
    BY <1>2, <1>4, <1>5, <1>6, <1>7, <1>8, <1>10
<1> QED BY <1>9, <1>10

-----------------------------------------------------------------------------
\* Calls that may add no more, with the same rows on time, keep the budget.
LEMMA BudgetStep ==
    ASSUME DInv, DoorTypeOK', onTime' = onTime,
           \A c \in Requests, leg \in BookLegs : Unbooked(c, leg)' <= Unbooked(c, leg)
    PROVE  AgentBudgetHeld'
<1> SUFFICES ASSUME NEW leg \in BookLegs
             PROVE  onTime[leg] + Sum([c \in Requests |-> Unbooked(c, leg)'], Requests) <= Cap[leg]
    BY DEF AgentBudgetHeld
<1> DEFINE f == [c \in Requests |-> Unbooked(c, leg)]
           g == [c \in Requests |-> Unbooked(c, leg)']
<1>1. \A c \in Requests : Unbooked(c, leg) \in Nat
    BY UnbookedType DEF DInv
<1>2. \A c \in Requests : Unbooked(c, leg)' \in Nat
    BY DEF DoorTypeOK, TypeOK, Hold, Unbooked, Kept
<1>3. \A c \in Requests : f[c] \in Nat /\ g[c] \in Nat /\ g[c] <= f[c]
    BY <1>1, <1>2
<1>4. onTime[leg] \in Nat /\ Cap[leg] \in Nat /\ IsFiniteSet(Requests)
    BY SpendHoldAssumption DEF DInv, DoorTypeOK
<1>5. onTime[leg] + Sum(f, Requests) <= Cap[leg]
    BY DEF DInv, AgentBudgetHeld
<1> HIDE DEF f, g
<1>6. Sum(g, Requests) <= Sum(f, Requests) /\ Sum(g, Requests) \in Nat /\ Sum(f, Requests) \in Nat
    BY <1>3, <1>4, SumMonotone, SumType
<1>7. onTime[leg] + Sum(g, Requests) <= Cap[leg]
    BY <1>4, <1>5, <1>6
<1> QED BY <1>7 DEF g

\* A step that starts no call and settles no payment: every call that is still
\* before its book row is where it was, under the hold it had.
LEMMA QuietStep ==
    ASSUME DInv, IInv', DoorTypeOK', up' = up, now' = now,
           UNCHANGED <<paid, since, onTime>>,
           \A leg \in BookLegs : book[leg] <= book'[leg],
           \A x \in Requests : pc'[x] \in Before =>
              /\ pc'[x] = pc[x]
              /\ mem'[x] \in {mem[x], Swept(mem)[x]}
              /\ disk'[x] \in {disk[x], Swept(mem)[x]}
    PROVE  DInv'
<1>1. \A x \in Requests : pc'[x] \in {"handshake", "settled"} => mem'[x] = mem[x] /\ pc[x] = pc'[x]
    BY InFlightNotSwept DEF Before
<1>2. FreshIsEmpty'
    BY FreshNotSwept DEF DInv, FreshIsEmpty, Before
<1>3. Covered'
    BY <1>1 DEF DInv, Covered
<1>4. OnTimeIsBooked'
    BY DEF DInv, OnTimeIsBooked, DoorTypeOK, TypeOK
<1>5. AgentBudgetHeld'
    <2>1. ASSUME NEW c \in Requests, NEW leg \in BookLegs
          PROVE  Unbooked(c, leg)' <= Unbooked(c, leg)
        <3>1. Unbooked(c, leg) \in Nat
            BY UnbookedType DEF DInv
        <3>2. CASE pc'[c] \in {"handshake", "settled"}
            <4>1. Unbooked(c, leg)' = Unbooked(c, leg)
                BY <1>1, <3>2 DEF Unbooked, Kept
            <4> QED BY <3>1, <4>1
        <3>3. CASE pc'[c] \notin {"handshake", "settled"}
            <4>1. Unbooked(c, leg)' = 0
                BY <3>3 DEF Unbooked
            <4> QED BY <3>1, <4>1
        <3> QED BY <3>2, <3>3
    <2> QED BY <2>1, BudgetStep
<1> QED BY <1>2, <1>3, <1>4, <1>5 DEF DInv

\* An operation of the store after which its call is past its book row.
LEMMA DoneStep ==
    ASSUME DInv, IInv', NEW c \in Requests, pc' = [pc EXCEPT ![c] = "done"],
           UNCHANGED <<paid, since, onTime>>, pending' \in SUBSET Requests,
           Release(c) \/ \E a : Consume(c, a)
    PROVE  DInv'
<1>1. /\ up' = up /\ now' = now /\ book' = book
      /\ \A x \in Requests \ {c} : mem'[x] = Swept(mem)[x] /\ disk'[x] \in {Swept(mem)[x], disk[x]}
    BY OperationLocal DEF DInv
<1>2. pc \in [Requests -> Steps] /\ book \in [BookLegs -> Nat]
    BY DEF DInv, DoorTypeOK, TypeOK
<1>3. DoorTypeOK'
    BY <1>2 DEF DInv, DoorTypeOK, IInv, Steps
<1>4. \A x \in Requests : pc'[x] \in Before => x # c /\ pc'[x] = pc[x]
    BY <1>2 DEF Before
<1>5. \A leg \in BookLegs : book[leg] <= book'[leg]
    BY <1>1, <1>2
<1> QED BY <1>1, <1>3, <1>4, <1>5, QuietStep

\* A step of a call that leaves the holds alone.
LEMMA MoveStep ==
    ASSUME DInv, NEW c \in Requests, NEW step \in Steps \ Before, pc' = [pc EXCEPT ![c] = step],
           UNCHANGED <<mem, disk, now, up, unread, paid, since, onTime>>, pending' \in SUBSET Requests,
           book' \in [BookLegs -> Nat], \A leg \in BookLegs : book[leg] <= book'[leg]
    PROVE  DInv'
<1>1. IInv'
    BY HoldsUnchangedStep DEF DInv, IInv, TypeOK
<1>2. pc \in [Requests -> Steps]
    BY DEF DInv, DoorTypeOK
<1>3. DoorTypeOK'
    BY <1>1, <1>2 DEF DInv, DoorTypeOK, IInv
<1>4. \A x \in Requests : pc'[x] \in Before => pc'[x] = pc[x]
    BY <1>2
<1> QED BY <1>1, <1>3, <1>4, QuietStep
-----------------------------------------------------------------------------
\* One call comes to count in the sum of what calls may still add.
LEMMA BudgetUpdate ==
    ASSUME DInv, DoorTypeOK', NEW c \in Requests, NEW leg \in BookLegs,
           \A x \in Requests \ {c} : Unbooked(x, leg)' = Unbooked(x, leg)
    PROVE  LET before == Sum([x \in Requests |-> Unbooked(x, leg)], Requests)
               after == Sum([x \in Requests |-> Unbooked(x, leg)'], Requests)
           IN  /\ before \in Nat /\ after \in Nat
               /\ after + Unbooked(c, leg) = before + Unbooked(c, leg)'
<1> DEFINE f == [x \in Requests |-> Unbooked(x, leg)]
           g == [x \in Requests |-> Unbooked(x, leg)']
<1>1. \A x \in Requests : f[x] \in Nat /\ g[x] \in Nat
    <2>1. \A x \in Requests : Unbooked(x, leg) \in Nat
        BY UnbookedType DEF DInv
    <2>2. \A x \in Requests : Unbooked(x, leg)' \in Nat
        BY DEF DoorTypeOK, TypeOK, Hold, Unbooked, Kept
    <2> QED BY <2>1, <2>2
<1>2. \A x \in Requests \ {c} : g[x] = f[x]
    OBVIOUS
<1>3. f[c] = Unbooked(c, leg) /\ g[c] = Unbooked(c, leg)'
    OBVIOUS
<1>4. IsFiniteSet(Requests)
    BY SpendHoldAssumption
<1>5. Sum(g, Requests) + f[c] = Sum(f, Requests) + g[c]
    <2> HIDE DEF f, g
    <2> QED BY <1>1, <1>2, <1>4, SumUpdate
<1>6. Sum(f, Requests) \in Nat /\ Sum(g, Requests) \in Nat
    <2> HIDE DEF f, g
    <2> QED BY <1>1, <1>4, SumType
<1> QED BY <1>3, <1>5, <1>6

\* The holds count at least what all calls may still add.
LEMMA BudgetIsHeld ==
    ASSUME DInv, NEW leg
    PROVE  Sum([c \in Requests |-> Unbooked(c, leg)], Requests) <= Held(Swept(mem), leg)
<1> DEFINE f == [c \in Requests |-> Unbooked(c, leg)]
           g == [c \in Requests |-> Charge(Swept(mem)[c], leg)]
<1>1. Swept(mem) \in [Requests -> Hold]
    BY SweptFacts DEF DInv, IInv, TypeOK
<1>2. \A c \in Requests : f[c] \in Nat /\ g[c] \in Nat /\ f[c] <= g[c]
    BY <1>1, UnbookedType, UnbookedIsHeld, ChargeType DEF DInv
<1>3. IsFiniteSet(Requests)
    BY SpendHoldAssumption
<1> HIDE DEF f, g
<1>4. Sum(f, Requests) <= Sum(g, Requests)
    BY <1>2, <1>3, SumMonotone
<1> QED BY <1>4 DEF f, g, Held

\* The gate: the verdict counts the book and every hold, so it leaves room for
\* the calls in flight as well as for the one it admits.
LEMMA GateStep ==
    ASSUME DInv, NEW c \in Requests, NEW amount \in Amounts, NEW legs \in SUBSET Legs,
           Gate(c, amount, legs)
    PROVE  DInv'
<1> USE SpendHoldAssumption
<1>1. /\ pc[c] = "new" /\ Reserve(c, amount, legs)
      /\ pc' = [pc EXCEPT ![c] = IF mem'[c].state = "open" THEN "handshake" ELSE "done"]
      /\ since' = [since EXCEPT ![c] = now] /\ UNCHANGED <<paid, onTime, pending>>
    BY DEF Gate, Goto
<1>2. IInv'
    BY <1>1, ReserveStep DEF DInv
<1>3. /\ mem \in [Requests -> Hold] /\ pc \in [Requests -> Steps]
      /\ since \in [Requests -> Nat] /\ now \in Nat
      /\ onTime \in [BookLegs -> Nat] /\ book \in [BookLegs -> Nat]
    BY DEF DInv, DoorTypeOK, TypeOK
<1>4. /\ up /\ up' = up /\ book' = book /\ now' = now
      /\ \A x \in Requests \ {c} :
            mem'[x] = Swept(mem)[x] /\ disk'[x] \in {Swept(mem)[x], disk[x]}
      /\ Sweep => mem' = Swept(mem)
    BY <1>1, OperationLocal DEF DInv
<1>5. DoorTypeOK'
    BY <1>1, <1>2, <1>3, <1>4 DEF DInv, DoorTypeOK, IInv, Steps
<1>6. Swept(mem) \in [Requests -> Hold] /\ Swept(mem)[c] = NoHold /\ paid[c] = 0
    BY <1>1, <1>3, FreshNotSwept, SweptFacts DEF DInv, FreshIsEmpty
<1>7. mem'[c].state = "open" =>
         Admitted(c, amount, legs) /\ mem'[c] = NewHold(amount, legs)
    BY <1>1, <1>4, <1>6 DEF Reserve, Saved, Unsaved, NoHold
<1>8. \A x \in Requests \ {c} : pc'[x] = pc[x] /\ since'[x] = since[x]
    BY <1>1, <1>3
<1>9. \A x \in Requests \ {c} :
         pc[x] \in {"handshake", "settled"} => mem'[x] = mem[x]
    BY <1>4, InFlightNotSwept
<1>10. FreshIsEmpty'
    <2>1. pc'[c] # "new"
        BY <1>1, <1>3
    <2> QED BY <1>1, <1>4, <1>8, <2>1, FreshNotSwept DEF DInv, FreshIsEmpty
<1>11. Covered'
    <2> SUFFICES ASSUME NEW x \in Requests, pc'[x] \in {"handshake", "settled"}
                 PROVE  /\ up' /\ mem'[x].state = "open"
                        /\ mem'[x].expires = since'[x] + TTL
                        /\ now' <= since'[x] + CallLimit
        BY DEF Covered
    <2>1. CASE x = c
        <3>1. mem'[c].state = "open" /\ since'[c] = now
            BY <1>1, <1>3, <2>1
        <3>2. mem'[c] = NewHold(amount, legs)
            BY <1>7, <3>1
        <3> QED BY <1>1, <1>3, <1>4, <1>6, <2>1, <3>1, <3>2, MeteredCallAssumption DEF NewHold
    <2>2. CASE x # c
        BY <1>1, <1>4, <1>8, <1>9, <2>2 DEF DInv, Covered
    <2> QED BY <2>1, <2>2
<1>12. OnTimeIsBooked'
    BY <1>1, <1>4 DEF DInv, OnTimeIsBooked
<1>13. AgentBudgetHeld'
    <2> SUFFICES ASSUME NEW leg \in BookLegs
                 PROVE  onTime[leg] + Sum([x \in Requests |-> Unbooked(x, leg)'], Requests) <= Cap[leg]
        BY <1>1 DEF AgentBudgetHeld
    <2> DEFINE before == Sum([x \in Requests |-> Unbooked(x, leg)], Requests)
               after == Sum([x \in Requests |-> Unbooked(x, leg)'], Requests)
    <2>1. \A x \in Requests \ {c} : Unbooked(x, leg)' = Unbooked(x, leg)
        BY <1>1, <1>8, <1>9 DEF Unbooked, Kept
    <2>2. Unbooked(c, leg) = 0
        BY <1>1 DEF Unbooked
    <2>3. before \in Nat /\ after \in Nat /\ after + Unbooked(c, leg) = before + Unbooked(c, leg)'
        BY <1>5, <2>1, BudgetUpdate
    <2>4. onTime[leg] + before <= Cap[leg]
        BY DEF DInv, AgentBudgetHeld
    <2>5. before <= Held(Swept(mem), leg) /\ Held(Swept(mem), leg) \in Nat
        BY <1>6, BudgetIsHeld, HeldType
    <2> HIDE DEF before, after
    <2>6. CASE Unbooked(c, leg)' = 0
        BY <2>2, <2>3, <2>4, <2>6 DEF after
    <2>7. CASE Unbooked(c, leg)' # 0
        <3>1. pc'[c] \in {"handshake", "settled"} /\ leg \in mem'[c].legs
            BY <2>7 DEF Unbooked
        <3>2. mem'[c].state = "open" /\ pc'[c] = "handshake"
            BY <1>1, <1>3, <3>1
        <3>3. leg \in legs /\ Unbooked(c, leg)' = amount
            BY <1>7, <3>1, <3>2 DEF NewHold, Unbooked
        <3>4. book[leg] + Held(Swept(mem), leg) + amount <= Cap[leg]
            BY <1>7, <3>2, <3>3 DEF Admitted, Verdict, Committed, Booked
        <3>5. onTime[leg] <= book[leg] /\ onTime[leg] \in Nat /\ book[leg] \in Nat /\ amount \in Nat
            BY <1>3 DEF DInv, OnTimeIsBooked
        <3> QED BY <2>2, <2>3, <2>5, <3>3, <3>4, <3>5 DEF after
    <2> QED BY <2>6, <2>7
<1> QED BY <1>2, <1>5, <1>10, <1>11, <1>12, <1>13 DEF DInv

\* The payment settles, and takes no more of the room than its hold kept.
LEMMA HandshakeSettledStep ==
    ASSUME DInv, NEW c \in Requests, NEW actual \in Amounts, HandshakeSettled(c, actual)
    PROVE  DInv'
<1>1. /\ pc[c] = "handshake"
      /\ paid' = [paid EXCEPT ![c] = actual] /\ pc' = [pc EXCEPT ![c] = "settled"]
      /\ UNCHANGED <<mem, disk, book, now, up, unread, since, onTime, pending>>
    BY DEF HandshakeSettled, Goto, vars
<1>2. /\ mem \in [Requests -> Hold] /\ pc \in [Requests -> Steps] /\ paid \in [Requests -> Nat]
      /\ mem[c].reserved \in Nat /\ actual \in Nat
    BY <1>1, SpendHoldAssumption DEF DInv, DoorTypeOK, TypeOK, Hold
<1>3. IInv'
    BY <1>1, HoldsUnchangedStep DEF DInv, IInv, TypeOK
<1>4. DoorTypeOK'
    BY <1>1, <1>2, <1>3 DEF DInv, DoorTypeOK, IInv, Steps
<1>5. /\ pc'[c] = "settled" /\ paid'[c] = actual
      /\ \A x \in Requests \ {c} : pc'[x] = pc[x] /\ paid'[x] = paid[x]
    BY <1>1, <1>2
<1>6. FreshIsEmpty'
    BY <1>1, <1>5 DEF DInv, FreshIsEmpty
<1>7. Covered'
    BY <1>1, <1>2, <1>5 DEF DInv, Covered
<1>8. OnTimeIsBooked'
    BY <1>1 DEF DInv, OnTimeIsBooked
<1>9. AgentBudgetHeld'
    <2>1. ASSUME NEW x \in Requests, NEW leg \in BookLegs
          PROVE  Unbooked(x, leg)' <= Unbooked(x, leg)
        <3>1. Unbooked(x, leg) \in Nat
            BY UnbookedType DEF DInv
        <3>2. CASE x = c
            BY <1>1, <1>2, <1>5, <3>2 DEF Unbooked, Kept
        <3>3. CASE x # c
            <4>1. Unbooked(x, leg)' = Unbooked(x, leg)
                BY <1>1, <1>5, <3>3 DEF Unbooked, Kept
            <4> QED BY <3>1, <4>1
        <3> QED BY <3>2, <3>3
    <2> QED BY <1>1, <1>4, <2>1, BudgetStep
<1> QED BY <1>3, <1>4, <1>6, <1>7, <1>8, <1>9 DEF DInv

\* The book row: what the call might still add becomes what it has added.
LEMMA BookSettleStep ==
    ASSUME DInv, NEW c \in Requests, BookSettle(c)
    PROVE  DInv'
<1>1. /\ pc[c] = "settled"
      /\ book' = Rows(c, book, paid[c]) /\ onTime' = Rows(c, onTime, Kept(c))
      /\ \E step \in {"armed", "booked"} : pc' = [pc EXCEPT ![c] = step]
      /\ UNCHANGED <<mem, disk, now, up, unread, paid, since, pending>>
    BY DEF BookSettle, Goto
<1>2. /\ pc \in [Requests -> Steps] /\ paid \in [Requests -> Nat]
      /\ book \in [BookLegs -> Nat] /\ onTime \in [BookLegs -> Nat]
      /\ Kept(c) \in Nat /\ Kept(c) <= paid[c]
    BY DEF DInv, DoorTypeOK, TypeOK, Hold, Kept
<1>3. book' \in [BookLegs -> Nat] /\ onTime' \in [BookLegs -> Nat]
    BY <1>1, <1>2 DEF Rows
<1>4. IInv'
    BY <1>1, <1>3, HoldsUnchangedStep DEF DInv, IInv, TypeOK
<1>5. DoorTypeOK'
    BY <1>1, <1>2, <1>3, <1>4 DEF DInv, DoorTypeOK, IInv, Steps
<1>6. pc'[c] \in {"armed", "booked"} /\ \A x \in Requests \ {c} : pc'[x] = pc[x]
    BY <1>1, <1>2
<1>7. FreshIsEmpty' /\ Covered'
    BY <1>1, <1>6 DEF DInv, FreshIsEmpty, Covered
<1>8. OnTimeIsBooked'
    BY <1>1, <1>2 DEF DInv, OnTimeIsBooked, Rows
<1>9. AgentBudgetHeld'
    <2> SUFFICES ASSUME NEW leg \in BookLegs
                 PROVE  onTime'[leg] + Sum([x \in Requests |-> Unbooked(x, leg)'], Requests) <= Cap[leg]
        BY DEF AgentBudgetHeld
    <2> DEFINE before == Sum([x \in Requests |-> Unbooked(x, leg)], Requests)
               after == Sum([x \in Requests |-> Unbooked(x, leg)'], Requests)
    <2>1. \A x \in Requests \ {c} : Unbooked(x, leg)' = Unbooked(x, leg)
        BY <1>1, <1>6 DEF Unbooked, Kept
    <2>2. Unbooked(c, leg)' = 0
        BY <1>6 DEF Unbooked
    <2>3. onTime'[leg] = onTime[leg] + Unbooked(c, leg)
        BY <1>1 DEF Unbooked, Rows
    <2>4. before \in Nat /\ after \in Nat /\ after + Unbooked(c, leg) = before + Unbooked(c, leg)'
        BY <1>5, <2>1, BudgetUpdate
    <2>5. onTime[leg] + before <= Cap[leg]
        BY DEF DInv, AgentBudgetHeld
    <2>6. Unbooked(c, leg) \in Nat /\ onTime[leg] \in Nat
        BY <1>2, UnbookedType DEF DInv
    <2> HIDE DEF before, after
    <2>7. onTime'[leg] + after <= Cap[leg]
        BY <2>2, <2>3, <2>4, <2>5, <2>6
    <2> QED BY <2>7 DEF after
<1> QED BY <1>4, <1>5, <1>7, <1>8, <1>9 DEF DInv

\* A crash ends the calls in flight.
LEMMA DoorCrashStep ==
    ASSUME DInv, DoorCrash
    PROVE  DInv'
<1>1. /\ mem' = [r \in Requests |-> NoHold] /\ disk' = disk /\ book' = book /\ now' = now
      /\ pc' = [c \in Requests |-> IF pc[c] = "new" THEN "new" ELSE "done"]
      /\ UNCHANGED <<paid, since, onTime, pending>>
    BY DEF DoorCrash, Crash
<1>2. IInv'
    BY CrashStep DEF DInv, DoorCrash
<1>3. DoorTypeOK'
    BY <1>1, <1>2 DEF DInv, DoorTypeOK, IInv, Steps
<1>4. FreshIsEmpty' /\ Covered' /\ OnTimeIsBooked'
    BY <1>1 DEF DInv, FreshIsEmpty, Covered, OnTimeIsBooked
<1>5. AgentBudgetHeld'
    <2>1. ASSUME NEW c \in Requests, NEW leg \in BookLegs
          PROVE  Unbooked(c, leg)' <= Unbooked(c, leg)
        <3>1. Unbooked(c, leg)' = 0
            BY <1>1 DEF Unbooked
        <3>2. Unbooked(c, leg) \in Nat
            BY UnbookedType DEF DInv
        <3> QED BY <3>1, <3>2
    <2> QED BY <1>1, <1>3, <2>1, BudgetStep
<1> QED BY <1>2, <1>3, <1>4, <1>5 DEF DInv

\* No call is in flight when the process starts.
LEMMA DoorRestartStep ==
    ASSUME DInv, DoorRestart
    PROVE  DInv'
<1>1. /\ ~up /\ book' = book /\ now' = now
      /\ \/ mem' = Swept(disk) /\ disk' = Swept(disk)
         \/ mem' = [r \in Requests |-> NoHold] /\ disk' = disk
      /\ UNCHANGED <<pc, paid, since, onTime, pending>>
    BY DEF DoorRestart, Restart, RestartUnread, callVars
<1>2. IInv'
    BY RestartStep, RestartUnreadStep DEF DInv, DoorRestart
<1>3. DoorTypeOK'
    BY <1>1, <1>2 DEF DInv, DoorTypeOK, IInv
<1>4. \A c \in Requests : pc[c] \notin {"handshake", "settled"}
    BY <1>1 DEF DInv, Covered
<1>5. FreshIsEmpty'
    BY <1>1, FreshNotSwept DEF DInv, FreshIsEmpty
<1>6. Covered' /\ OnTimeIsBooked'
    BY <1>1, <1>4 DEF DInv, Covered, OnTimeIsBooked
<1>7. AgentBudgetHeld'
    <2>1. ASSUME NEW c \in Requests, NEW leg \in BookLegs
          PROVE  Unbooked(c, leg)' <= Unbooked(c, leg)
        BY <1>1, <1>4 DEF Unbooked
    <2> QED BY <1>1, <1>3, <2>1, BudgetStep
<1> QED BY <1>2, <1>3, <1>5, <1>6, <1>7 DEF DInv

\* The clock does not pass the limit of a call in flight.
LEMMA DoorTickStep ==
    ASSUME DInv, DoorTick
    PROVE  DInv'
<1>1. /\ now' = now + 1
      /\ UNCHANGED <<mem, disk, book, up, unread, pc, paid, since, onTime, pending>>
      /\ \A c \in Requests : pc[c] \in {"handshake", "settled"} => now < since[c] + CallLimit
    BY DEF DoorTick, Tick, callVars
<1>2. IInv'
    BY TickStep DEF DInv, DoorTick
<1>3. DoorTypeOK'
    BY <1>1, <1>2 DEF DInv, DoorTypeOK, IInv
<1>4. FreshIsEmpty' /\ OnTimeIsBooked'
    BY <1>1 DEF DInv, FreshIsEmpty, OnTimeIsBooked
<1>5. Covered'
    <2>1. now \in Nat /\ CallLimit \in Nat /\ \A c \in Requests : since[c] \in Nat
        BY MeteredCallAssumption DEF DInv, DoorTypeOK, TypeOK
    <2> QED BY <1>1, <2>1 DEF DInv, Covered
<1>6. AgentBudgetHeld'
    <2>1. ASSUME NEW c \in Requests, NEW leg \in BookLegs
          PROVE  Unbooked(c, leg)' <= Unbooked(c, leg)
        <3>1. Unbooked(c, leg)' = Unbooked(c, leg)
            BY <1>1 DEF Unbooked, Kept
        <3>2. Unbooked(c, leg) \in Nat
            BY UnbookedType DEF DInv
        <3> QED BY <3>1, <3>2
    <2> QED BY <1>1, <1>3, <2>1, BudgetStep
<1> QED BY <1>2, <1>3, <1>4, <1>5, <1>6 DEF DInv

-----------------------------------------------------------------------------
\* The door starts with no call and nothing on the book.
LEMMA InitDInv == DoorInit => DInv
<1> SUFFICES ASSUME DoorInit PROVE DInv
    OBVIOUS
<1>1. IInv
    BY InitIInv DEF DoorInit
<1>2. DoorTypeOK
    BY <1>1 DEF DoorInit, DoorTypeOK, IInv, Steps
<1>3. FreshIsEmpty /\ Covered
    BY DEF DoorInit, Init, FreshIsEmpty, Covered
<1>4. OnTimeIsBooked
    BY DEF DoorInit, Init, OnTimeIsBooked
<1>5. AgentBudgetHeld
    <2> SUFFICES ASSUME NEW leg \in BookLegs
                 PROVE  onTime[leg] + Sum([c \in Requests |-> Unbooked(c, leg)], Requests) <= Cap[leg]
        BY DEF AgentBudgetHeld
    <2> DEFINE f == [c \in Requests |-> Unbooked(c, leg)]
    <2>1. \A c \in Requests : f[c] = 0
        BY DEF DoorInit, Unbooked
    <2> HIDE DEF f
    <2>2. Sum(f, Requests) = 0
        BY <2>1, SumZero
    <2>3. onTime[leg] = 0 /\ Cap[leg] \in Nat
        BY SpendHoldAssumption DEF DoorInit
    <2> QED BY <2>2, <2>3 DEF f
<1> QED BY <1>1, <1>2, <1>3, <1>4, <1>5 DEF DInv

\* Every step of the door keeps the invariant.
LEMMA NextDInv == DInv /\ [DoorNext]_doorVars => DInv'
<1> SUFFICES ASSUME DInv, [DoorNext]_doorVars PROVE DInv'
    OBVIOUS
<1>1. /\ pending \in SUBSET Requests /\ paid \in [Requests -> Nat] /\ pc \in [Requests -> Steps]
      /\ book \in [BookLegs -> Nat] /\ mem \in [Requests -> Hold]
    BY DEF DInv, DoorTypeOK, TypeOK
<1>2. ASSUME NEW c \in Requests, Probe(c)
      PROVE  DInv'
    <2>1. Sweep /\ UNCHANGED <<pc, paid, since, onTime, pending>>
        BY <1>2 DEF Probe, callVars
    <2>2. /\ up' = up /\ now' = now /\ book' = book /\ mem' = Swept(mem)
          /\ \A x \in Requests : disk'[x] \in {Swept(mem)[x], disk[x]}
        BY <2>1, OperationLocal DEF DInv
    <2>3. IInv' /\ DoorTypeOK'
        BY <2>1, SweepStep DEF DInv, DoorTypeOK, IInv
    <2>4. \A leg \in BookLegs : book[leg] <= book'[leg]
        BY <1>1, <2>2
    <2> QED BY <2>1, <2>2, <2>3, <2>4, QuietStep
<1>3. ASSUME NEW c \in Requests,
             HandshakeFailed(c) \/ HandshakeUnknown(c) \/ DropSessionHold(c) \/ FinishFailed(c)
      PROVE  DInv'
    <2>1. /\ Release(c) /\ pc' = [pc EXCEPT ![c] = "done"]
          /\ UNCHANGED <<paid, since, onTime>> /\ pending' \in SUBSET Requests
        BY <1>1, <1>3 DEF HandshakeFailed, HandshakeUnknown, DropSessionHold, FinishFailed, Goto
    <2>2. IInv'
        BY <2>1, ReleaseStep DEF DInv
    <2> QED BY <2>1, <2>2, DoneStep
<1>4. ASSUME NEW c \in Requests, FinishOk(c)
      PROVE  DInv'
    <2>1. /\ Consume(c, paid[c]) /\ pc' = [pc EXCEPT ![c] = "done"]
          /\ UNCHANGED <<paid, since, onTime>> /\ pending' \in SUBSET Requests
        BY <1>1, <1>4 DEF FinishOk, Goto
    <2>2. IInv'
        BY <1>1, <2>1, ConsumeStep DEF DInv
    <2> QED BY <2>1, <2>2, DoneStep
<1>5. ASSUME NEW c \in Requests, NEW actual \in Amounts, LateRow(c, actual)
      PROVE  DInv'
    <2>1. actual \in Nat
        BY SpendHoldAssumption
    <2>2. book' \in [BookLegs -> Nat] /\ \A leg \in BookLegs : book[leg] <= book'[leg]
        BY <1>1, <1>5, <2>1 DEF LateRow, Rows
    <2>3. UNCHANGED <<mem, disk, now, up, unread, pc, paid, since, onTime>> /\ pending' \in SUBSET Requests
        BY <1>1, <1>5 DEF LateRow
    <2>4. IInv'
        BY <2>2, <2>3, HoldsUnchangedStep DEF DInv, IInv, TypeOK
    <2>5. DoorTypeOK'
        BY <2>3, <2>4 DEF DInv, DoorTypeOK, IInv
    <2> QED BY <2>2, <2>3, <2>4, <2>5, QuietStep
<1>6. ASSUME NEW c \in Requests, ServeReplay(c) \/ BookFails(c)
      PROVE  DInv'
    <2>1. /\ \E step \in Steps \ Before : pc' = [pc EXCEPT ![c] = step]
          /\ UNCHANGED <<mem, disk, book, now, up, unread, paid, since, onTime, pending>>
        BY <1>6 DEF ServeReplay, BookFails, Goto, vars, Steps, Before
    <2>2. book' \in [BookLegs -> Nat] /\ \A leg \in BookLegs : book[leg] <= book'[leg]
        BY <1>1, <2>1
    <2> QED BY <1>1, <2>1, <2>2, MoveStep
<1>7. CASE UNCHANGED doorVars
    <2>1. UNCHANGED <<mem, disk, book, now, up, unread, pc, paid, since, onTime, pending>>
        BY <1>7 DEF doorVars, vars, callVars
    <2>2. IInv'
        BY <2>1, IdleStep DEF DInv, vars
    <2>3. DoorTypeOK'
        BY <2>1, <2>2 DEF DInv, DoorTypeOK, IInv
    <2>4. \A leg \in BookLegs : book[leg] <= book'[leg]
        BY <1>1, <2>1
    <2> QED BY <2>1, <2>2, <2>3, <2>4, QuietStep
<1> QED BY <1>2, <1>3, <1>4, <1>5, <1>6, <1>7, GateStep, HandshakeSettledStep, BookSettleStep,
           DoorCrashStep, DoorRestartStep, DoorTickStep DEF DoorNext

\* The inductive invariant holds of every behaviour of the door.
THEOREM DoorInvariant == DoorSpec => []DInv
BY InitDInv, NextDInv, PTL DEF DoorSpec

\* A call between its reservation and its book row is covered by an open hold
\* that has not expired, whatever other calls sweep, crash or fail to save.
THEOREM InFlightCovered == DoorSpec => []InFlightIsHeld
<1>1. DInv => InFlightIsHeld
    BY InFlightNotSwept DEF DInv, Covered, InFlightIsHeld
<1> QED BY DoorInvariant, <1>1, PTL

\* An agent's budget holds up to overpayment: what rows of calls that settled
\* in time, and the calls in flight, take of the room their holds kept never
\* passes the cap, for any number of calls and whether or not boots read the file.
THEOREM AgentBudget == DoorSpec => []AgentBudgetHeld
<1>1. DInv => AgentBudgetHeld
    BY DEF DInv
<1> QED BY DoorInvariant, <1>1, PTL

\* The ceilings of the store hold with the door on top, although a row is on
\* the book before its hold is settled.
THEOREM DoorCeiling == DoorSpec => []CeilingHeld
<1>1. DInv => CeilingHeld
    BY DEF DInv, IInv
<1> QED BY DoorInvariant, <1>1, PTL

-----------------------------------------------------------------------------
(* The store implements the ledger of settled spend. *)

Ledger == [r \in Requests |-> LedgerEntry(disk[r])]

Refined == <<Ledger, ~unread>>

\* The step puts the settlement of r into the file.
Settles(r) == disk'[r].state = "consumed" /\ disk[r].state # "consumed"

\* The step settles no two requests, unless a boot could not read the file.
OneSettles == ~unread' => \A q, r \in Requests : Settles(q) /\ Settles(r) => q = r

\* The steps of the store, and those that leave its file alone.
StoreAction ==
    \/ Sweep
    \/ \E r \in Requests : \E amount, legs : Reserve(r, amount, legs)
    \/ \E r \in Requests : \E actual : Consume(r, actual)
    \/ \E r \in Requests : Release(r)
    \/ Crash
    \/ Restart
    \/ RestartUnread
    \/ mem' = mem /\ disk' = disk /\ unread' = unread

\* What memory or the swept file holds as settled is settled in the file.
LEMMA SettledInFile ==
    ASSUME ~unread, IInv, up, NEW r \in Requests,
           Swept(mem)[r].state = "consumed" \/ SweptDisk[r].state = "consumed"
    PROVE  disk[r].state = "consumed"
<1>1. mem \in [Requests -> Hold] /\ now \in Nat
    BY DEF IInv, TypeOK
<1>2. ASSUME Swept(mem)[r].state = "consumed" PROVE disk[r].state = "consumed"
    <2>1. Swept(mem)[r] = mem[r]
        BY <1>1, <1>2, SweptFacts DEF Live
    <2> QED BY <1>2, <2>1 DEF IInv, RestartForgetsNothing, Live
<1> QED BY <1>2 DEF SweptDisk

\* An operation that replaces one hold settles no other.
LEMMA ReplaceSettles ==
    ASSUME IInv, up, NEW r \in Requests, NEW h,
           LET after == [Swept(mem) EXCEPT ![r] = h] IN Saved(after) \/ Unsaved(after)
    PROVE  OneSettles
<1> DEFINE after == [Swept(mem) EXCEPT ![r] = h]
<1>1. disk' \in {after, SweptDisk} /\ unread' = unread
    BY DEF Saved, Unsaved
<1>2. Swept(mem) \in [Requests -> Hold]
    BY SweptFacts DEF IInv, TypeOK
<1>3. \A x \in Requests \ {r} : after[x] = Swept(mem)[x]
    BY <1>2
<1> HIDE DEF after
<1>4. ASSUME ~unread', NEW x \in Requests, Settles(x) PROVE x = r
    BY <1>1, <1>3, <1>4, SettledInFile DEF Settles
<1> QED BY <1>4 DEF OneSettles

\* A sweep settles nothing.
LEMMA SweepSettles ==
    ASSUME IInv, Sweep
    PROVE  OneSettles
<1>1. up /\ disk' = SweptDisk /\ unread' = unread
    BY DEF Sweep
<1>2. ~unread' => \A r \in Requests : ~Settles(r)
    BY <1>1, SettledInFile DEF Settles
<1> QED BY <1>2 DEF OneSettles

\* A step of the store settles at most one request, and changes nothing settled.
LEMMA StoreSettles ==
    ASSUME IInv, StoreAction
    PROVE  SettledKept /\ OneSettles
<1>1. ASSUME NEW r \in Requests, NEW amount, NEW legs, Reserve(r, amount, legs)
      PROVE  OneSettles
    BY <1>1, ReplaceSettles, SweepSettles DEF Reserve
<1>2. ASSUME NEW r \in Requests, NEW actual, Consume(r, actual)
      PROVE  OneSettles
    BY <1>2, ReplaceSettles, ReplaceBySelf, SweepSettles DEF Consume
<1>3. ASSUME NEW r \in Requests, Release(r)
      PROVE  OneSettles
    <2> DEFINE h == [Swept(mem)[r] EXCEPT !.state = "released"]
    <2>1. Swept(mem) \in [Requests -> Hold]
        BY SweptFacts DEF IInv, TypeOK
    <2>2. [Swept(mem) EXCEPT ![r].state = "released"] = [Swept(mem) EXCEPT ![r] = h]
        BY <2>1
    <2> HIDE DEF h
    <2> QED BY <1>3, <2>2, ReplaceSettles, ReplaceBySelf, SweepSettles DEF Release
<1>4. ASSUME Restart PROVE OneSettles
    <2>1. disk \in [Requests -> Hold] /\ now \in Nat /\ disk' = Swept(disk)
        BY <1>4 DEF IInv, TypeOK, Restart
    <2>2. \A r \in Requests : ~Settles(r)
        BY <2>1, SweptFacts DEF Settles, Live
    <2> QED BY <2>2 DEF OneSettles
<1>5. ASSUME disk' = disk PROVE OneSettles
    BY <1>5 DEF OneSettles, Settles
<1>6. OneSettles
    BY <1>1, <1>2, <1>3, <1>4, <1>5, SweepSettles
    DEF StoreAction, Crash, RestartUnread
<1>7. SettledKept
    BY ReserveAction, ConsumeAction, ReleaseAction, SweepAction, CrashAction, RestartAction,
       RestartUnreadAction, HoldsUnchangedAction DEF StoreAction
<1> QED BY <1>6, <1>7

\* The spend settled in a map counts no more than the map holds.
LEMMA SpentIsHeld ==
    ASSUME NEW holds \in [Requests -> Hold], NEW leg \in Legs \ BookLegs
    PROVE  /\ Abstract!Spent([r \in Requests |-> LedgerEntry(holds[r])], leg) \in Nat
           /\ Abstract!Spent([r \in Requests |-> LedgerEntry(holds[r])], leg) <= Held(holds, leg)
<1> DEFINE ledgerOf == [r \in Requests |-> LedgerEntry(holds[r])]
           f == [r \in Requests |-> Abstract!Counts(ledgerOf[r], leg)]
           g == [r \in Requests |-> Charge(holds[r], leg)]
<1>1. ASSUME NEW r \in Requests
      PROVE  /\ Abstract!Counts(ledgerOf[r], leg) \in Nat /\ Charge(holds[r], leg) \in Nat
             /\ Abstract!Counts(ledgerOf[r], leg) <= Charge(holds[r], leg)
    <2>1. holds[r] \in Hold /\ ledgerOf[r] = LedgerEntry(holds[r])
        OBVIOUS
    <2> HIDE DEF ledgerOf
    <2> QED BY <2>1 DEF Abstract!Counts, LedgerEntry, Charge, Hold
<1>2. IsFiniteSet(Requests)
    BY SpendHoldAssumption
<1> HIDE DEF ledgerOf
<1>3. \A r \in Requests : f[r] \in Nat /\ g[r] \in Nat /\ f[r] <= g[r]
    BY <1>1
<1> HIDE DEF f, g
<1>4. Sum(f, Requests) \in Nat /\ Sum(f, Requests) <= Sum(g, Requests)
    BY <1>2, <1>3, SumType, SumMonotone
<1>5. Abstract!Spent(ledgerOf, leg) = Sum(f, Requests) /\ Held(holds, leg) = Sum(g, Requests)
    <2>1. Abstract!Spent(ledgerOf, leg) = Abstract!Sum(f, Requests)
        BY DEF Abstract!Spent, f
    <2>2. Abstract!Units(f, Requests) = Units(f, Requests)
        BY DEF Abstract!Units, Units
    <2>3. Abstract!Sum(f, Requests) = Sum(f, Requests)
        BY <2>2 DEF Abstract!Sum, Sum, Abstract!Cardinality, Cardinality
    <2>4. Held(holds, leg) = Sum(g, Requests)
        BY DEF Held, g
    <2> QED BY <2>1, <2>3, <2>4
<1> QED BY <1>4, <1>5 DEF ledgerOf

\* A step that settles at most one request and changes nothing settled, of a
\* file every boot could read, is a step of the ledger.
LEMMA ReadLedgerStep ==
    ASSUME IInv, IInv', SettledKept, OneSettles, ~unread'
    PROVE  Ledger' = Ledger \/ \E r \in Requests : Abstract!Settle(r)
<1>0. ~unread /\ (~unread)' = ~unread
    BY Zenon DEF SettledKept
<1>1. disk \in [Requests -> Hold] /\ disk' \in [Requests -> Hold]
    BY DEF IInv, TypeOK
<1>2. ASSUME NEW r \in Requests, ~Settles(r) PROVE LedgerEntry(disk'[r]) = LedgerEntry(disk[r])
    BY <1>2 DEF Settles, SettledKept, LedgerEntry
<1>3. CASE \A r \in Requests : ~Settles(r)
    BY <1>2, <1>3 DEF Ledger
<1>4. ASSUME NEW r \in Requests, Settles(r) PROVE Abstract!Settle(r)
    <2>1. Ledger[r] = Abstract!Unsettled
        BY <1>4 DEF Ledger, LedgerEntry, Settles, Abstract!Unsettled
    <2>2. Ledger'[r] \in Abstract!Entries
        <3>1. disk'[r] \in Hold /\ disk'[r].state = "consumed"
            BY <1>1, <1>4 DEF Settles
        <3>2. disk'[r].consumed \in Nat /\ disk'[r].legs \in SUBSET Legs
            BY <3>1 DEF Hold
        <3>3. Ledger'[r] = LedgerEntry(disk'[r])
            BY DEF Ledger
        <3> QED BY <3>1, <3>2, <3>3 DEF LedgerEntry, Abstract!Entries
    <2>3. Ledger' = [Ledger EXCEPT ![r] = Ledger'[r]]
        <3>1. ASSUME NEW x \in Requests, x # r PROVE LedgerEntry(disk'[x]) = LedgerEntry(disk[x])
            BY <1>2, <1>4, <3>1 DEF OneSettles
        <3> QED BY <3>1 DEF Ledger
    <2>4. ASSUME NEW leg \in Legs \ BookLegs PROVE Abstract!Spent(Ledger', leg) <= Cap[leg]
        <3>1. Held(disk', leg) <= Cap[leg]
            BY DEF IInv, CeilingHeld
        <3>2. /\ Abstract!Spent(Ledger', leg) \in Nat
              /\ Abstract!Spent(Ledger', leg) <= Held(disk', leg)
            BY <1>1, SpentIsHeld DEF Ledger
        <3>3. Held(disk', leg) \in Nat /\ Cap[leg] \in Nat
            BY <1>1, HeldType, SpendHoldAssumption
        <3> QED BY <3>1, <3>2, <3>3
    <2> QED BY <1>0, <2>1, <2>2, <2>3, <2>4 DEF Abstract!Settle, Ledger
<1> QED BY <1>3, <1>4

\* A step of the store is a step of the ledger; the ledger is lost when a boot
\* could not read the file.
LEMMA LedgerStep ==
    ASSUME IInv, IInv', SettledKept, OneSettles
    PROVE  [Abstract!LedgerNext]_Refined
<1>1. CASE unread'
    <2>1. Abstract!Lose
        BY <1>1, Zenon DEF Abstract!Lose
    <2> QED BY <2>1 DEF Abstract!LedgerNext
<1>2. CASE ~unread'
    <2>1. (~unread)' = ~unread
        BY <1>2, Zenon DEF SettledKept
    <2>2. Ledger' = Ledger \/ \E r \in Requests : Abstract!Settle(r)
        BY <1>2, ReadLedgerStep
    <2> QED BY <2>1, <2>2 DEF Refined, Abstract!LedgerNext
<1> QED BY <1>1, <1>2

\* The empty store is the empty ledger.
LEMMA LedgerStarts == Init => Abstract!LedgerInit
<1> SUFFICES ASSUME Init PROVE Abstract!LedgerInit
    OBVIOUS
<1>1. \A r \in Requests : disk[r] = NoHold
    BY DEF Init
<1>2. LedgerEntry(NoHold) = Abstract!Unsettled
    BY DEF LedgerEntry, NoHold, Abstract!Unsettled
<1> QED BY <1>1, <1>2 DEF Abstract!LedgerInit, Init

\* The store is a ledger of settled spend under its lifetime caps: nothing that
\* sweeps, rolls back, crashes or loads shows to whoever reads the ledger, until
\* a boot cannot read the file.
THEOREM StoreIsLedger == Spec => IsSpendLedger
<1>1. IInv /\ [Next]_vars => StoreAction
    BY DEF Next, StoreAction, Tick, BookRow, vars
<1>2. IInv /\ [Next]_vars => [Abstract!LedgerNext]_Refined
    BY <1>1, NextIInv, StoreSettles, LedgerStep
<1>3. Init => Abstract!LedgerInit
    BY LedgerStarts
<1> QED BY <1>2, <1>3, SpendHoldInvariant, PTL DEF Spec, IsSpendLedger, Abstract!LedgerSpec, Refined, Ledger

\* The hold / settle API keeps the ledger: a settle whose file write fails, that
\* is retried or that a crash cuts off, settles its request id once.
THEOREM ServiceIsLedger == ServiceSpec => IsSpendLedger
<1>1. ASSUME SInv, [ServiceNext]_allVars PROVE StoreAction
    <2>1. job.op \in {"place", "settle", "sign"} => job.request \in Requests
        BY <1>1, JobRequest DEF SInv, ServiceTypeOK
    <2> QED BY <1>1, <2>1 DEF StoreAction, ServiceNext, Place, PlaceEntry, ReleaseHold, SettleCached,
                SettleSnapshot, SettleConsume, SettleRefused, SettleSign, ChatSweep, ServiceTick,
                Tick, ServiceCrash, ServiceRestart, allVars, vars
<1>2. SInv /\ [ServiceNext]_allVars => [Abstract!LedgerNext]_Refined
    <2> SUFFICES ASSUME SInv, [ServiceNext]_allVars PROVE [Abstract!LedgerNext]_Refined
        OBVIOUS
    <2>1. IInv /\ IInv' /\ StoreAction
        BY <1>1, NextSInv DEF SInv
    <2> QED BY <2>1, StoreSettles, LedgerStep
<1>3. ServiceInit => Abstract!LedgerInit
    BY LedgerStarts DEF ServiceInit
<1> QED BY <1>2, <1>3, ServiceInvariant, PTL
        DEF ServiceSpec, IsSpendLedger, Abstract!LedgerSpec, Refined, Ledger

\* The paid chat door keeps the ledger too, whatever its calls do with the holds
\* they took.
THEOREM DoorIsLedger == DoorSpec => IsSpendLedger
<1>1. ASSUME DInv, [DoorNext]_doorVars PROVE StoreAction
    BY <1>1 DEF StoreAction, DoorNext, Gate, Probe, HandshakeSettled, HandshakeFailed,
       HandshakeUnknown, LateRow, ServeReplay, BookSettle, BookFails, DropSessionHold, FinishOk,
       FinishFailed, DoorCrash, DoorRestart, DoorTick, Tick, doorVars, vars
<1>2. DInv /\ [DoorNext]_doorVars => [Abstract!LedgerNext]_Refined
    <2> SUFFICES ASSUME DInv, [DoorNext]_doorVars PROVE [Abstract!LedgerNext]_Refined
        OBVIOUS
    <2>1. IInv /\ IInv' /\ StoreAction
        BY <1>1, NextDInv DEF DInv
    <2> QED BY <2>1, StoreSettles, LedgerStep
<1>3. DoorInit => Abstract!LedgerInit
    BY LedgerStarts DEF DoorInit
<1> QED BY <1>2, <1>3, DoorInvariant, PTL
        DEF DoorSpec, IsSpendLedger, Abstract!LedgerSpec, Refined, Ledger
=============================================================================
