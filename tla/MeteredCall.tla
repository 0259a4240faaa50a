------------------------------ MODULE MeteredCall ------------------------------
(***************************************************************************)
(* A paid call of the chat door and its spend hold: meterV1Request,        *)
(* writeSettleBookRow and armSpendHold of                                  *)
(* services/gateway/src/openai-gateway.js over the spend-hold store.       *)
(*                                                                         *)
(* Each call is a request id of its own (a fresh task id).  The book row   *)
(* of a settled call is written before the hold is armed on the response,  *)
(* so for a while the agent's ceiling counts both.                         *)
(***************************************************************************)
EXTENDS SpendHold

CONSTANT CallLimit   \* a handshake and its book row end within this time

\* The task timeout is shorter than the hold's TTL (spend-hold.js).
ASSUME MeteredCallAssumption == CallLimit \in Nat /\ CallLimit < TTL

VARIABLES
    pc,       \* where each call is
    paid,     \* what each call's payment settled at, 0 before
    since,    \* when each call reserved
    onTime,   \* per agent ceiling: what rows of calls whose handshake settled
              \* took of the room their holds kept
    pending   \* calls whose payment was sent and is still unresolved

callVars == <<pc, paid, since, onTime, pending>>
doorVars == <<vars, callVars>>

Steps == {"new", "handshake", "settled", "booked", "armed", "done"}

\* Every call is at one of the door's await points.
DoorTypeOK ==
    /\ TypeOK
    /\ pc \in [Requests -> Steps]
    /\ paid \in [Requests -> Nat]
    /\ since \in [Requests -> Nat]
    /\ onTime \in [BookLegs -> Nat]
    /\ pending \in SUBSET Requests

DoorInit ==
    /\ Init
    /\ pc = [c \in Requests |-> "new"]
    /\ paid = [c \in Requests |-> 0]
    /\ since = [c \in Requests |-> 0]
    /\ onTime = [leg \in BookLegs |-> 0]
    /\ pending = {}

Goto(c, step) == pc' = [pc EXCEPT ![c] = step]

\* A row that counts against the agent ceilings of a hold.
Rows(c, sums, amount) ==
    [leg \in BookLegs |-> sums[leg] + IF leg \in mem[c].legs THEN amount ELSE 0]

\* The part of a payment that its hold kept room for: an overpaid transfer
\* settles at the amount on chain, and nothing kept room for the rest.
Kept(c) == IF paid[c] > mem[c].reserved THEN mem[c].reserved ELSE paid[c]

-----------------------------------------------------------------------------
\* The paid retry reserves before the handshake.  A refusal, or a store that
\* could not save, halts the call.
Gate(c, amount, legs) ==
    /\ pc[c] = "new"
    /\ legs # {}
    /\ Reserve(c, amount, legs)
    /\ Goto(c, IF mem'[c].state = "open" THEN "handshake" ELSE "done")
    /\ since' = [since EXCEPT ![c] = now]
    /\ UNCHANGED <<paid, onTime, pending>>

\* A probe without a payment previews and is answered with a 402.
Probe(c) ==
    /\ pc[c] = "new"
    /\ Sweep
    /\ UNCHANGED callVars

\* Mutant: the hold is released when the payment settles, before its row.
HandshakeSettledReleases(c, actual) ==
    /\ pc[c] = "handshake"
    /\ actual > 0
    /\ Release(c)
    /\ paid' = [paid EXCEPT ![c] = actual]
    /\ Goto(c, "settled")
    /\ UNCHANGED <<since, onTime, pending>>

\* The payment settled, at the amount on chain.  It covers the quote of its
\* challenge, which may be above or below what the door reserved, and the payer
\* may have sent more than the quote.
HandshakeSettled(c, actual) ==
    /\ up
    /\ pc[c] = "handshake"
    /\ actual > 0
    /\ paid' = [paid EXCEPT ![c] = actual]
    /\ Goto(c, "settled")
    /\ UNCHANGED <<vars, since, onTime, pending>>

\* A challenge, a refused payment, a pause or an exception: the hold is
\* released.  A release that throws is left to the TTL.
HandshakeFailed(c) ==
    /\ pc[c] = "handshake"
    /\ Release(c)
    /\ Goto(c, "done")
    /\ UNCHANGED <<paid, since, onTime, pending>>

\* The facilitator did not answer: the payment is out, its result unknown,
\* and the hold is released all the same.
HandshakeUnknown(c) ==
    /\ pc[c] = "handshake"
    /\ Release(c)
    /\ Goto(c, "done")
    /\ pending' = pending \cup {c}
    /\ UNCHANGED <<paid, since, onTime>>

\* The unresolved payment is found on chain later and gets its book row.
LateRow(c, actual) ==
    /\ up
    /\ c \in pending
    /\ pending' = pending \ {c}
    /\ book' = Rows(c, book, actual)
    /\ \A leg \in BookLegs : book'[leg] <= MaxBook
    /\ UNCHANGED <<mem, disk, now, up, unread, pc, paid, since, onTime>>

\* A replayed payment is answered with the stored response (or refused);
\* the hold this call took is neither consumed nor released.
ServeReplay(c) ==
    /\ up
    /\ pc[c] = "handshake"
    /\ Goto(c, "done")
    /\ UNCHANGED <<vars, paid, since, onTime, pending>>

\* writeSettleBookRow.  The row is on the book before the hold is armed.
BookSettle(c) ==
    /\ up
    /\ pc[c] = "settled"
    /\ book' = Rows(c, book, paid[c])
    /\ \A leg \in BookLegs : book'[leg] <= MaxBook
    /\ onTime' = Rows(c, onTime, Kept(c))
    /\ \/ Goto(c, "armed")
       \/ Goto(c, "booked")
    /\ UNCHANGED <<mem, disk, now, up, unread, paid, since, pending>>

\* The row could not be recorded.  A refused row still arms the hold; a
\* failed write ends the call and leaves the hold to the TTL.
BookFails(c) ==
    /\ up
    /\ pc[c] = "settled"
    /\ \/ Goto(c, "armed")
       \/ Goto(c, "done")
    /\ UNCHANGED <<vars, paid, since, onTime, pending>>

\* The settled payer is not the session's: with the row on the book the hold
\* is dropped and never armed.
DropSessionHold(c) ==
    /\ pc[c] = "booked"
    /\ Release(c)
    /\ Goto(c, "done")
    /\ UNCHANGED <<paid, since, onTime, pending>>

\* The response finished with a 2xx: consume.
FinishOk(c) ==
    /\ pc[c] = "armed"
    /\ Consume(c, paid[c])
    /\ Goto(c, "done")
    /\ UNCHANGED <<paid, since, onTime, pending>>

\* Any other status, or a connection closed early: release.
FinishFailed(c) ==
    /\ pc[c] = "armed"
    /\ Release(c)
    /\ Goto(c, "done")
    /\ UNCHANGED <<paid, since, onTime, pending>>

\* Requests in flight die with the process.
DoorCrash ==
    /\ Crash
    /\ pc' = [c \in Requests |-> IF pc[c] = "new" THEN "new" ELSE "done"]
    /\ UNCHANGED <<paid, since, onTime, pending>>

DoorRestart == (Restart \/ RestartUnread) /\ UNCHANGED callVars

\* The clock does not pass the limit of a call that is before its book row.
DoorTick ==
    /\ \A c \in Requests :
          pc[c] \in {"handshake", "settled"} => now < since[c] + CallLimit
    /\ Tick
    /\ UNCHANGED callVars

DoorNext ==
    \/ \E c \in Requests, amount \in Amounts, legs \in SUBSET Legs : Gate(c, amount, legs)
    \/ \E c \in Requests, actual \in Amounts :
          \/ HandshakeSettled(c, actual)
          \/ LateRow(c, actual)
    \/ \E c \in Requests :
          \/ Probe(c)
          \/ HandshakeFailed(c)
          \/ HandshakeUnknown(c)
          \/ ServeReplay(c)
          \/ BookSettle(c)
          \/ BookFails(c)
          \/ DropSessionHold(c)
          \/ FinishOk(c)
          \/ FinishFailed(c)
    \/ DoorCrash
    \/ DoorRestart
    \/ DoorTick

DoorSpec == DoorInit /\ [][DoorNext]_doorVars

-----------------------------------------------------------------------------
\* What a call may still take of the room its hold keeps.
Unbooked(c, leg) ==
    CASE pc[c] = "handshake" /\ leg \in mem[c].legs -> mem[c].reserved
      [] pc[c] = "settled" /\ leg \in mem[c].legs -> Kept(c)
      [] OTHER -> 0

\* The agent budget holds up to overpayment: what calls that settled in time put
\* on the book, plus what the calls in flight may still put there, each counted
\* up to the hold of its call, never passes the cap, although a hold is released
\* or expires at a moment of its own.  Only what payers send beyond a hold can
\* take the book past the budget.
AgentBudgetHeld ==
    \A leg \in BookLegs :
        onTime[leg] + Sum([c \in Requests |-> Unbooked(c, leg)], Requests) <= Cap[leg]

\* A call between its reservation and its book row is covered by an open
\* hold that has not expired, also when a boot in between could not read the
\* file: the calls of the process before it are over.
InFlightIsHeld ==
    \A c \in Requests :
        pc[c] \in {"handshake", "settled"} => mem[c].state = "open" /\ now < mem[c].expires
=============================================================================
