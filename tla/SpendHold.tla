------------------------------ MODULE SpendHold ------------------------------
(***************************************************************************)
(* The spend-hold store of the gateway: class SpendHoldStore of            *)
(* services/gateway/src/spend-hold.js.                                     *)
(*                                                                         *)
(* A paid call reserves its worst-case cost against one or more ceilings   *)
(* ("legs") before upstream runs; success consumes the hold at the actual  *)
(* cost, failure releases it, and a hold whose request never came back     *)
(* expires.  Every operation runs alone under the store's promise-chain    *)
(* lock and contains no await in production, so an operation is one step.  *)
(* It begins with a sweep of the expired holds, which is saved on its own. *)
(* A save replaces the whole file by rename: it happens or it does not.    *)
(***************************************************************************)
EXTENDS Sums

CONSTANTS
    Requests,   \* request ids
    Legs,       \* ceilings, one per <<scope, key>>
    BookLegs,   \* the agent ceilings, whose settled spend is the book's sum
    Cap,        \* cap of each ceiling, atomic USDC
    Amounts,    \* what a call may reserve or settle
    TTL,        \* ttlMs
    MaxTime,    \* bound on the clock
    MaxBook     \* bound on the book's sum

ASSUME SpendHoldAssumption ==
    /\ IsFiniteSet(Requests)
    /\ BookLegs \subseteq Legs
    /\ Cap \in [Legs -> Nat]
    /\ Amounts \subseteq Nat
    /\ TTL \in Nat \ {0}
    /\ MaxTime \in Nat
    /\ MaxBook \in Nat

VARIABLES
    mem,    \* _byRequest: request id -> hold
    disk,   \* spend-holds.json
    book,   \* ledger.sumCollectedByAgent, for each agent ceiling
    now,    \* this._now()
    up,     \* the process is running
    unread  \* history: some boot could not read the file

vars == <<mem, disk, book, now, up, unread>>

States == {"none", "open", "consumed", "released", "expired"}

Hold == [state : States, reserved : Nat, consumed : Nat,
         legs : SUBSET Legs, expires : Nat]

\* A request id that is not in the map.
NoHold == [state |-> "none", reserved |-> 0, consumed |-> 0,
           legs |-> {}, expires |-> 0]

\* The store maps request ids to holds, in memory and on disk.
TypeOK ==
    /\ mem \in [Requests -> Hold]
    /\ disk \in [Requests -> Hold]
    /\ book \in [BookLegs -> Nat]
    /\ now \in Nat
    /\ up \in BOOLEAN
    /\ unread \in BOOLEAN

-----------------------------------------------------------------------------
Live(h) == h.state \in {"open", "consumed"}

Due(h) == h.state = "open" /\ h.expires <= now

\* _expire: every open hold past its TTL stops counting.
Swept(holds) ==
    [r \in Requests |->
        IF Due(holds[r]) THEN [holds[r] EXCEPT !.state = "expired"] ELSE holds[r]]

\* The sweep is saved only when it touched a hold.
SweptDisk == IF \E r \in Requests : Due(mem[r]) THEN Swept(mem) ELSE disk

\* What one hold counts against a leg: its reservation while it is open
\* (_openSum) and its consumed amount once it is settled (_settled), except
\* against an agent ceiling, whose settled spend is the book's.
Charge(h, leg) ==
    CASE leg \in h.legs /\ h.state = "open" -> h.reserved
      [] leg \in h.legs /\ h.state = "consumed" /\ leg \notin BookLegs -> h.consumed
      [] OTHER -> 0

Held(holds, leg) == Sum([r \in Requests |-> Charge(holds[r], leg)], Requests)

Booked(leg) == IF leg \in BookLegs THEN book[leg] ELSE 0

Committed(holds, leg) == Booked(leg) + Held(holds, leg)

\* Mutant: the gate forgets the call it admits.
VerdictWithoutTheCall(holds, legs, amount) ==
    \A leg \in legs : Committed(holds, leg) <= Cap[leg]

\* _verdict: the amount fits under every ceiling of the call.
Verdict(holds, legs, amount) ==
    \A leg \in legs : Committed(holds, leg) + amount <= Cap[leg]

\* Mutant: the TTL is not added.
NewHoldWithoutTTL(amount, legs) ==
    [state |-> "open", reserved |-> amount, consumed |-> 0,
     legs |-> legs, expires |-> now]

NewHold(amount, legs) ==
    [state |-> "open", reserved |-> amount, consumed |-> 0,
     legs |-> legs, expires |-> now + TTL]

-----------------------------------------------------------------------------
Init ==
    /\ mem = [r \in Requests |-> NoHold]
    /\ disk = mem
    /\ book = [leg \in BookLegs |-> 0]
    /\ now = 0
    /\ up = TRUE
    /\ unread = FALSE

\* An operation whose only effect is its sweep: preview, snapshot,
\* openReserved and expireDue, and every early return of the others.
Sweep ==
    /\ up
    /\ mem' = Swept(mem)
    /\ disk' = SweptDisk
    /\ UNCHANGED <<book, now, up, unread>>

\* An operation whose sweep was saved and whose change then reached the file.
Saved(holds) ==
    /\ mem' = holds
    /\ disk' = holds
    /\ UNCHANGED <<book, now, up, unread>>

\* The same, but the second save failed and the change was rolled back.
Unsaved(holds) ==
    /\ mem' = holds
    /\ disk' = SweptDisk
    /\ UNCHANGED <<book, now, up, unread>>

Admitted(r, amount, legs) ==
    /\ ~Live(Swept(mem)[r])
    /\ amount > 0
    /\ legs # {}
    /\ Verdict(Swept(mem), legs, amount)

\* Mutant: the rollback of a failed save is missing.
ReserveWithoutRollback(r, amount, legs) ==
    /\ up
    /\ \/ /\ Admitted(r, amount, legs)
          /\ \/ Saved([Swept(mem) EXCEPT ![r] = NewHold(amount, legs)])
             \/ Unsaved([Swept(mem) EXCEPT ![r] = NewHold(amount, legs)])
       \/ /\ ~Admitted(r, amount, legs)
          /\ Sweep

\* reserve.  A live hold is returned as it is; a released or expired id may
\* reserve again.  The rollback of a failed save deletes the map entry, also
\* when it overwrote a finished hold.
Reserve(r, amount, legs) ==
    /\ up
    /\ \/ /\ Admitted(r, amount, legs)
          /\ Saved([Swept(mem) EXCEPT ![r] = NewHold(amount, legs)])
       \/ /\ Admitted(r, amount, legs)
          /\ Unsaved([Swept(mem) EXCEPT ![r] = NoHold])
       \/ /\ ~Admitted(r, amount, legs)
          /\ Sweep

\* The hold settles at the actual cost, at most at what it reserved.
Settled(h, actual) ==
    [h EXCEPT !.state = "consumed",
              !.consumed = IF actual > h.reserved THEN h.reserved ELSE actual]

\* Mutant: a late consume settles an expired hold.
ConsumeExpired(r, actual) ==
    /\ up
    /\ \/ /\ Swept(mem)[r].state \in {"open", "expired"}
          /\ Saved([Swept(mem) EXCEPT ![r] = Settled(Swept(mem)[r], actual)])
       \/ /\ Swept(mem)[r].state # "open"
          /\ Sweep

\* consume.  Idempotent once consumed, refused once released or expired.
Consume(r, actual) ==
    /\ up
    /\ \/ /\ Swept(mem)[r].state = "open"
          /\ \/ Saved([Swept(mem) EXCEPT ![r] = Settled(Swept(mem)[r], actual)])
             \/ Unsaved(Swept(mem))
       \/ /\ Swept(mem)[r].state # "open"
          /\ Sweep

\* Mutant: a release after the consume gives the spend back.
ReleaseConsumed(r) ==
    /\ up
    /\ \/ /\ Live(Swept(mem)[r])
          /\ Saved([Swept(mem) EXCEPT ![r].state = "released"])
       \/ /\ ~Live(Swept(mem)[r])
          /\ Sweep

\* release.  A consumed hold stays: it is settled spend.
Release(r) ==
    /\ up
    /\ \/ /\ Swept(mem)[r].state = "open"
          /\ \/ Saved([Swept(mem) EXCEPT ![r].state = "released"])
             \/ Unsaved(Swept(mem))
       \/ /\ Swept(mem)[r].state # "open"
          /\ Sweep

Crash ==
    /\ up
    /\ up' = FALSE
    /\ mem' = [r \in Requests |-> NoHold]
    /\ UNCHANGED <<disk, book, now, unread>>

\* The constructor: _load, then a sweep.
Restart ==
    /\ ~up
    /\ up' = TRUE
    /\ mem' = Swept(disk)
    /\ disk' = Swept(disk)
    /\ UNCHANGED <<book, now, unread>>

\* _load cannot read or parse the file: it logs a warning and the store starts
\* empty.  The file stays until the next save replaces it.
RestartUnread ==
    /\ ~up
    /\ up' = TRUE
    /\ unread' = TRUE
    /\ mem' = [r \in Requests |-> NoHold]
    /\ UNCHANGED <<disk, book, now>>

\* The book gains a collected row of the agent (usage-settled.js, not the
\* store's doing): the store only reads the sum.
BookRow(leg, amount) ==
    /\ book[leg] + amount <= MaxBook
    /\ book' = [book EXCEPT ![leg] = @ + amount]
    /\ UNCHANGED <<mem, disk, now, up, unread>>

Tick ==
    /\ now < MaxTime
    /\ now' = now + 1
    /\ UNCHANGED <<mem, disk, book, up, unread>>

Next ==
    \/ \E r \in Requests, amount \in Amounts, legs \in SUBSET Legs : Reserve(r, amount, legs)
    \/ \E r \in Requests, actual \in Amounts : Consume(r, actual)
    \/ \E r \in Requests : Release(r)
    \/ \E leg \in BookLegs, amount \in Amounts : BookRow(leg, amount)
    \/ Sweep
    \/ Crash
    \/ Restart
    \/ RestartUnread
    \/ Tick

Spec == Init /\ [][Next]_vars

-----------------------------------------------------------------------------
\* The ceiling holds: consumed spend plus open reservations of a session or
\* funder leg never pass its cap, in memory and in the file a restart would
\* read, whatever calls interleave, retry, fail to save or crash, and whether
\* or not a boot can read the file.  The holds open against an agent leg alone
\* never pass its cap either.
CeilingHeld ==
    \A leg \in Legs :
        /\ Held(mem, leg) <= Cap[leg]
        /\ Held(disk, leg) <= Cap[leg]

\* "A restart keeps consumed session spend and still-open holds" (spend-hold.js):
\* a hold that counts, in memory or in the file, is the same in both.  (A failed
\* save after a second reserve leaves only finished holds different.)  The code keeps
\* it as long as every boot can read the file: one that cannot starts empty.
RestartForgetsNothing ==
    up /\ ~unread => \A r \in Requests : Live(mem[r]) \/ Live(disk[r]) => mem[r] = disk[r]

\* Settled spend is final: once a consumed hold is in the file nothing
\* changes it, not a retry of the same request id, a release or a restart, as long
\* as every boot can read the file.
SettledSpendIsFinal ==
    [][~unread' => \A r \in Requests : disk[r].state = "consumed" => disk'[r] = disk[r]]_vars

\* A hold that stopped counting (released, or expired) never comes back as
\* settled spend: the late consume of a request that outlived its TTL is
\* refused, and only a new reservation of the id may count again.
NoLateSettle ==
    [][\A r \in Requests :
          (mem[r].state \in {"released", "expired"} \/ Due(mem[r]))
             => mem'[r].state # "consumed"]_vars

\* The ledger entry of a hold in the file.
LedgerEntry(h) ==
    IF h.state = "consumed"
    THEN [state |-> "settled", amount |-> h.consumed, legs |-> h.legs \ BookLegs]
    ELSE [state |-> "open", amount |-> 0, legs |-> {}]

\* The session and funder legs are the lifetime caps: only holds count on them.
Abstract == INSTANCE SpendLedger WITH
    Ids <- Requests,
    Ceilings <- Legs \ BookLegs,
    Limit <- Cap,
    ledger <- [r \in Requests |-> LedgerEntry(disk[r])],
    intact <- ~unread

\* For the lifetime caps the store's file is a ledger of settled spend: each save,
\* sweep, crash or restart settles one request id within its caps, or changes
\* nothing that was settled, until a boot cannot read the file.
IsSpendLedger == Abstract!LedgerSpec
=============================================================================
