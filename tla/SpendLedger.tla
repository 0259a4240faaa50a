----------------------------- MODULE SpendLedger -----------------------------
(***************************************************************************)
(* What the spend-hold store promises to whoever set a lifetime cap: a     *)
(* ledger of settled spend that forgets nothing, in which a request id     *)
(* settles once and no settlement takes a ceiling past its limit, until    *)
(* its keeper cannot read it any more.  It knows nothing of holds, expiry, *)
(* retries, failed saves or crashes.  The concrete store is SpendHold.     *)
(***************************************************************************)
EXTENDS Sums

CONSTANTS
    Ids,
    Ceilings,
    Limit

VARIABLES
    ledger,    \* request id -> its entry
    intact     \* its keeper could always read it

Unsettled == [state |-> "open", amount |-> 0, legs |-> {}]

Entries == [state : {"settled"}, amount : Nat, legs : SUBSET Ceilings]

Counts(entry, leg) == IF leg \in entry.legs THEN entry.amount ELSE 0

Spent(entries, leg) == Sum([id \in Ids |-> Counts(entries[id], leg)], Ids)

LedgerInit == ledger = [id \in Ids |-> Unsettled] /\ intact = TRUE

Settle(id) ==
    /\ ledger[id] = Unsettled
    /\ ledger'[id] \in Entries
    /\ ledger' = [ledger EXCEPT ![id] = ledger'[id]]
    /\ \A leg \in Ceilings : Spent(ledger', leg) <= Limit[leg]
    /\ UNCHANGED intact

\* Nothing is promised of a ledger that could not be read.
Lose == intact' = FALSE

LedgerNext == Lose \/ \E id \in Ids : Settle(id)

LedgerSpec == LedgerInit /\ [][LedgerNext]_<<ledger, intact>>
=============================================================================
