----------------------------- MODULE PaymentSettle -----------------------------
(***************************************************************************)
(* Settling one x402 payment: settleBoundPayment of                        *)
(* services/gateway/src/x402-settle.js with the resolver of late payments  *)
(* in late-issue.js, over the challenge store of x402-adapter.js.          *)
(*                                                                         *)
(* A payment is a signed authorization presented with the nonce of a       *)
(* challenge.  The request claims the nonce, opens a late row, hands the   *)
(* authorization to the facilitator and reads the chain; a payment it      *)
(* cannot confirm stays in its row, and a resolver (the minute tick, or a  *)
(* retry of the same payment) later signs a receipt for it, or closes it.  *)
(*                                                                         *)
(* A worker is a request or a resolver run, in any of the processes on one *)
(* store.  Its step is what it does between two awaits or between two      *)
(* writes of the store that may fail or be the last before a crash.  EVM   *)
(* only: the chain moves one authorization once, so its transfer is        *)
(* identified with it.                                                     *)
(***************************************************************************)
EXTENDS Naturals, FiniteSets

CONSTANTS
    Nonces,      \* challenges that were issued
    Auths,       \* signed authorizations, all of one payer
    Workers,
    None,
    Clients,     \* what clients may present: sets of <<nonce, authorization>>
    LateModes,   \* the values X402_LATE_ISSUE may have
    LateCap,     \* open rows a payer may have (lateAdmissionCapped)
    OthersFill,  \* whether the rows of other payers may fill the store
    MaxFaults    \* bound: crashes, store errors and failed reads of a resolver

ASSUME PaymentSettleAssumption ==
    /\ None \notin Nonces \cup Auths \cup Workers
    /\ "dead" \notin Workers \cup {None}
    /\ Clients \subseteq SUBSET (Nonces \X Auths)
    /\ LateModes \subseteq BOOLEAN
    /\ {LateCap, MaxFaults} \subseteq Nat
    /\ OthersFill \in BOOLEAN

VARIABLES
    lateIssue,   \* X402_LATE_ISSUE
    payments,    \* the payments clients present in this behaviour
    challenge,   \* each challenge record: its state, the payment bound to it
                 \* once verified, and the payment its hold handle is for
    spent,       \* nonces in the spent set
    late,        \* the late row of each authorization
    authSpent,   \* authorizations marked spent
    txSpent,     \* authorizations whose transfer is marked spent
    reserved,    \* who has reserved the transfer: a worker, "dead" or None
    chain,       \* what became of each authorization on chain
    pc,          \* where each worker is
    job,         \* its payment: [nonce, auth, row, seen]
    served,      \* history: settled answers given for each authorization
    published,   \* history: late receipts put into each row
    handleless,  \* history: payments that were sent and refused, and whose
                 \* refusal had no handle to return
    faults

store == <<challenge, spent, late, authSpent, txSpent, reserved>>
vars == <<lateIssue, payments, handleless, store, chain, pc, job, served, published, faults>>

Open == {"submitted", "unknown", "confirmed", "issuing"}
Terminal == {"issued", "held", "not_settled"}   \* held: for the owner to look at

NoRow == [state |-> "none", nonce |-> None, sent |-> FALSE, jws |-> 0, owner |-> None]

NoJob == [nonce |-> None, auth |-> None, row |-> FALSE, seen |-> "none"]

Inline == {"claimed", "verify", "mark", "settle", "await", "reserve", "confirm",
           "spendNonce", "spendTx", "spendAuth", "close", "hold", "holdTerminal"}
Resolver == {"read", "guard", "lateReserve", "sign", "publish", "issue",
             "lateNonce", "lateAuth", "lateTx"}

Challenges == [state : {"issued", "claimed", "submitted", "unknown", "spent"},
               hash : Auths \cup {None}, handle : Auths \cup {None}]
Rows == [state : Open \cup Terminal \cup {"none"}, nonce : Nonces \cup {None},
         sent : BOOLEAN, jws : Nat, owner : Workers \cup {"dead", None}]
Jobs == [nonce : Nonces \cup {None}, auth : Auths \cup {None},
         row : BOOLEAN, seen : Open \cup Terminal \cup {"none"}]

\* The store, the chain and the place of each worker.
TypeOK ==
    /\ lateIssue \in BOOLEAN
    /\ payments \subseteq Nonces \X Auths
    /\ challenge \in [Nonces -> Challenges]
    /\ spent \subseteq Nonces
    /\ late \in [Auths -> Rows]
    /\ authSpent \subseteq Auths /\ txSpent \subseteq Auths
    /\ reserved \in [Auths -> Workers \cup {"dead", None}]
    /\ chain \in [Auths -> {"none", "sent", "paid", "final", "lapsed"}]
    /\ pc \in [Workers -> Inline \cup Resolver \cup {"idle"}]
    /\ job \in [Workers -> Jobs]
    /\ served \in [Auths -> Nat] /\ published \in [Auths -> Nat]
    /\ handleless \subseteq Nonces \X Auths
    /\ faults \in 0 .. MaxFaults

Init ==
    /\ lateIssue \in LateModes
    /\ payments \in Clients
    /\ challenge = [n \in Nonces |-> [state |-> "issued", hash |-> None, handle |-> None]]
    /\ spent = {} /\ authSpent = {} /\ txSpent = {}
    /\ late = [a \in Auths |-> NoRow]
    /\ reserved = [a \in Auths |-> None]
    /\ chain = [a \in Auths |-> "none"]
    /\ pc = [w \in Workers |-> "idle"]
    /\ job = [w \in Workers |-> NoJob]
    /\ served = [a \in Auths |-> 0]
    /\ published = [a \in Auths |-> 0]
    /\ handleless = {}
    /\ faults = 0

-----------------------------------------------------------------------------
Goto(w, step) == pc' = [pc EXCEPT ![w] = step] /\ UNCHANGED job

Finish(w) == pc' = [pc EXCEPT ![w] = "idle"] /\ job' = [job EXCEPT ![w] = NoJob]

Fault == faults < MaxFaults /\ faults' = faults + 1

\* casLate: the row becomes what is given, if its state is among those named.
CasLate(a, from, row) ==
    late' = [late EXCEPT ![a] = IF @.state \in from THEN row ELSE @]

\* release (from claimed) and revertSubmitted: the challenge can be used
\* again, by any payment.
Back(c, from) == IF c.state = from THEN [c EXCEPT !.state = "issued", !.hash = None] ELSE c

\* openPostSettleHandle: one handle per nonce, kept by the payment it was
\* opened for.  Another payment gets none (ensureHoldHandle answers null).
WithHandle(c, a) == [c EXCEPT !.handle = IF @ = None THEN a ELSE @]
HandleDenied(c, a) == c.handle \notin {None, a}

Release(n) == challenge' = [challenge EXCEPT ![n] = Back(@, "claimed")]
MarkUnknown(n) == challenge' = [challenge EXCEPT ![n].state = "unknown"]
SpendNonce(n) == spent' = spent \cup {n} /\ challenge' = [challenge EXCEPT ![n].state = "spent"]

\* releaseTx, done in a finally block unless the transfer is spent.
Unreserved(w, a) == [reserved EXCEPT ![a] = IF @ = w /\ a \notin txSpent THEN None ELSE @]

-----------------------------------------------------------------------------
\* The request (settleBoundPayment, settleClaimed)

OtherRow(n, a) == \E b \in Auths \ {a} : late[b].nonce = n

\* resumeLateIssue takes a retry of the payment whose row is already sent.
\* findLate by nonce returns the oldest row, which may be another payment's:
\* such a retry is not taken.
Resumed(n, a) ==
    /\ lateIssue
    /\ late[a].nonce = n /\ ~OtherRow(n, a)
    /\ ~(late[a].state = "submitted" /\ ~late[a].sent)

\* The nonce is claimed.  One that is claimed, submitted, unknown or spent, or
\* a spent authorization, is refused without a change.
Claim(w, n, a) ==
    /\ pc[w] = "idle"
    /\ ~Resumed(n, a)
    /\ n \notin spent /\ challenge[n].state = "issued"
    /\ a \notin authSpent
    /\ challenge' = [challenge EXCEPT ![n].state = "claimed"]
    /\ pc' = [pc EXCEPT ![w] = "claimed"]
    /\ job' = [job EXCEPT ![w] = [NoJob EXCEPT !.nonce = n, !.auth = a]]
    /\ UNCHANGED <<lateIssue, payments, handleless, spent, late, authSpent, txSpent, reserved, chain,
                   served, published, faults>>

\* The lease of a claim runs out: whoever looks next makes the nonce unknown.
ClaimExpires(n) ==
    /\ challenge[n].state = "claimed"
    /\ MarkUnknown(n)
    /\ UNCHANGED <<lateIssue, payments, handleless, spent, late, authSpent, txSpent, reserved, chain, pc, job,
                   served, published, faults>>

\* An authorization that has a row under another nonce is a replay.
CheckPrior(w) ==
    /\ pc[w] = "claimed"
    /\ LET n == job[w].nonce
           a == job[w].auth
       IN  \/ /\ late[a] # NoRow /\ late[a].nonce # n
              /\ Release(n)
              /\ Finish(w)
           \/ /\ late[a] = NoRow \/ late[a].nonce = n
              /\ Goto(w, "verify")
              /\ UNCHANGED challenge
    /\ UNCHANGED <<lateIssue, payments, handleless, spent, late, authSpent, txSpent, reserved, chain,
                   served, published, faults>>

\* The facilitator does not accept the payment, or it is used on chain, or
\* its issuance binding or dispute window cannot be had.
VerifyFails(w) ==
    /\ pc[w] = "verify"
    /\ Release(job[w].nonce)
    /\ Finish(w)
    /\ UNCHANGED <<lateIssue, payments, handleless, spent, late, authSpent, txSpent, reserved, chain,
                   served, published, faults>>

\* lateAdmissionCapped: the payer's own rows.  The rows of all payers have a
\* cap of their own, and those of others come and go.
Capped == Cardinality({a \in Auths : late[a].state \in Open}) >= LateCap

\* Verified, as a used authorization is not: the payer is capped and settles
\* without a row, or the row of an earlier try is used again, or a row is
\* opened, or there is one already.
Admit(w) ==
    /\ pc[w] = "verify"
    /\ chain[job[w].auth] # "final"
    /\ LET n == job[w].nonce
           a == job[w].auth
           verified == [challenge EXCEPT ![n].hash = IF challenge[n].state = "claimed" THEN a ELSE @]
       IN  \/ /\ Capped \/ OthersFill
              /\ challenge' = verified
              /\ Goto(w, "settle")
              /\ UNCHANGED late
           \/ /\ ~Capped
              /\ \/ late[a].nonce = n /\ UNCHANGED late
                 \/ /\ late[a] = NoRow
                    /\ late' = [late EXCEPT ![a] = [NoRow EXCEPT !.state = "submitted", !.nonce = n]]
              /\ challenge' = verified
              /\ pc' = [pc EXCEPT ![w] = "mark"]
              /\ job' = [job EXCEPT ![w].row = TRUE]
           \/ /\ ~Capped /\ late[a] # NoRow
              /\ late[a].nonce = n => OtherRow(n, a)
              /\ Release(n)
              /\ Finish(w)
              /\ UNCHANGED late
    /\ UNCHANGED <<lateIssue, payments, handleless, spent, authSpent, txSpent, reserved, chain,
                   served, published, faults>>

MarkSubmitted(w) ==
    /\ pc[w] = "mark"
    /\ challenge' = [challenge EXCEPT ![job[w].nonce].state = IF @ = "claimed" THEN "submitted" ELSE @]
    /\ Goto(w, "settle")
    /\ UNCHANGED <<lateIssue, payments, handleless, spent, late, authSpent, txSpent, reserved, chain,
                   served, published, faults>>

\* Mutant: the row of a payment that was not sent is kept under a new state.
SettleNotSentKeepsRow(w) ==
    /\ pc[w] = "settle"
    /\ late' = IF job[w].row THEN [late EXCEPT ![job[w].auth].state = "aborted"] ELSE late
    /\ challenge' = [challenge EXCEPT ![job[w].nonce] = Back(@, "submitted")]
    /\ Finish(w)
    /\ UNCHANGED <<lateIssue, payments, handleless, spent, authSpent, txSpent, reserved, chain,
                   served, published, faults>>

\* settlePayment fails before the fetch: abortLate and revertSubmitted.
SettleNotSent(w) ==
    /\ pc[w] = "settle"
    /\ LET n == job[w].nonce
           a == job[w].auth
       IN  /\ late' = IF job[w].row /\ late[a].state = "submitted" /\ ~late[a].sent
                      THEN [late EXCEPT ![a] = NoRow] ELSE late
           /\ challenge' = [challenge EXCEPT ![n] = Back(@, "submitted")]
    /\ Finish(w)
    /\ UNCHANGED <<lateIssue, payments, handleless, spent, authSpent, txSpent, reserved, chain,
                   served, published, faults>>

\* POST /settle leaves the process.
SettleCall(w) ==
    /\ pc[w] = "settle"
    /\ chain' = [chain EXCEPT ![job[w].auth] = IF @ = "none" THEN "sent" ELSE @]
    /\ Goto(w, "await")
    /\ UNCHANGED <<lateIssue, payments, handleless, store, served, published, faults>>

\* The row remembers that the payment was sent.
Sent(w) ==
    LET a == job[w].auth
    IN  IF job[w].row
        THEN CasLate(a, {"submitted"}, [late[a] EXCEPT !.sent = TRUE]) ELSE UNCHANGED late

SettleSucceeds(w) ==
    /\ pc[w] = "await"
    /\ chain[job[w].auth] \in {"sent", "paid"}
    /\ Sent(w)
    /\ Goto(w, "reserve")
    /\ UNCHANGED <<lateIssue, payments, handleless, challenge, spent, authSpent, txSpent, reserved, chain,
                   served, published, faults>>

\* Mutant: the claim of a capped payer is released and no handle is opened.
SettleRefusedWithoutHandle(w) ==
    /\ pc[w] = "await"
    /\ challenge' = [challenge EXCEPT ![job[w].nonce] = Back(Back(@, "claimed"), "submitted")]
    /\ Finish(w)
    /\ UNCHANGED <<lateIssue, payments, handleless, spent, late, authSpent, txSpent, reserved, chain,
                   served, published, faults>>

\* An HTTP error or success:false.  Without late issue the nonce goes back;
\* a capped payer's claim is released; otherwise the payment is held.  The
\* answer of the first two carries the row's id or the handle of the nonce, or
\* nothing when the handle is another payment's.
SettleRefused(w) ==
    /\ pc[w] = "await"
    /\ LET n == job[w].nonce
           a == job[w].auth
           Handled(c) == IF job[w].row THEN c ELSE WithHandle(c, a)
       IN  /\ \/ /\ ~lateIssue
                 /\ IF job[w].row
                    THEN CasLate(a, {"submitted", "unknown", "confirmed"},
                                 [late[a] EXCEPT !.state = "unknown", !.sent = TRUE])
                    ELSE UNCHANGED late
                 /\ challenge' = [challenge EXCEPT ![n] = Handled(Back(@, "submitted"))]
                 /\ Finish(w)
              \/ /\ lateIssue /\ ~job[w].row
                 /\ challenge' = [challenge EXCEPT ![n] = Handled(Back(@, "claimed"))]
                 /\ Finish(w)
                 /\ UNCHANGED late
              \/ /\ lateIssue /\ job[w].row
                 /\ Sent(w)
                 /\ MarkUnknown(n)
                 /\ Goto(w, "hold")
           /\ handleless' = IF ~job[w].row /\ HandleDenied(challenge[n], a)
                            THEN handleless \cup {<<n, a>>} ELSE handleless
    /\ UNCHANGED <<lateIssue, payments, spent, authSpent, txSpent, reserved, chain,
                   served, published, faults>>

\* The answer is lost, or names no usable transfer: hold.  The nonce becomes
\* unknown, then the pending row is recorded, then the late row is moved.
SettleUnclear(w) ==
    /\ pc[w] = "await"
    /\ Sent(w)
    /\ MarkUnknown(job[w].nonce)
    /\ Goto(w, "hold")
    /\ UNCHANGED <<lateIssue, payments, handleless, spent, authSpent, txSpent, reserved, chain,
                   served, published, faults>>

HoldRow(w) ==
    /\ pc[w] \in {"hold", "holdTerminal"}
    /\ LET n == job[w].nonce
           a == job[w].auth
       IN  /\ \/ /\ job[w].row
                 /\ CasLate(a, {"submitted", "unknown", "confirmed"},
                            [late[a] EXCEPT !.sent = TRUE,
                                !.state = IF pc[w] = "hold" THEN "unknown" ELSE "held"])
                 /\ UNCHANGED challenge
              \/ /\ ~job[w].row
                 /\ challenge' = [challenge EXCEPT ![n] = WithHandle(@, a)]
                 /\ UNCHANGED late
           /\ reserved' = Unreserved(w, a)
    /\ Finish(w)
    /\ UNCHANGED <<lateIssue, payments, handleless, spent, authSpent, txSpent, chain, served, published, faults>>

\* Mutant: the spent sets are looked at, the transfer is not reserved.
ReserveTxOnlyLooks(w) ==
    /\ pc[w] = "reserve"
    /\ IF job[w].auth \in txSpent \cup authSpent
       THEN SpendNonce(job[w].nonce) /\ Finish(w)
       ELSE Goto(w, "confirm") /\ UNCHANGED <<challenge, spent>>
    /\ UNCHANGED <<lateIssue, payments, handleless, late, authSpent, txSpent, reserved, chain,
                   served, published, faults>>

\* One transfer, one settlement: a spent transfer is a replay, one that
\* another has reserved is refused.
ReserveTx(w) ==
    /\ pc[w] = "reserve"
    /\ LET n == job[w].nonce
           a == job[w].auth
       IN  \/ /\ a \in txSpent \cup authSpent
              /\ SpendNonce(n)
              /\ Finish(w)
              /\ UNCHANGED reserved
           \/ /\ a \notin txSpent \cup authSpent
              /\ reserved[a] # None
              /\ Finish(w)
              /\ UNCHANGED <<challenge, spent, reserved>>
           \/ /\ a \notin txSpent \cup authSpent
              /\ reserved[a] = None
              /\ reserved' = [reserved EXCEPT ![a] = w]
              /\ Goto(w, "confirm")
              /\ UNCHANGED <<challenge, spent>>
    /\ UNCHANGED <<lateIssue, payments, handleless, late, authSpent, txSpent, chain, served, published, faults>>

\* confirmSettlement: the transfer is there, or not yet (or the read failed),
\* or it is not the one that was asked for.
Confirm(w) ==
    /\ pc[w] = "confirm"
    /\ \/ /\ chain[job[w].auth] = "paid"
          /\ Goto(w, "spendNonce")
          /\ UNCHANGED challenge
       \/ /\ MarkUnknown(job[w].nonce)
          /\ \E step \in {"hold", "holdTerminal"} : Goto(w, step)
    /\ UNCHANGED <<lateIssue, payments, handleless, spent, late, authSpent, txSpent, reserved, chain,
                   served, published, faults>>

MarkSpent(w) ==
    /\ pc[w] = "spendNonce"
    /\ SpendNonce(job[w].nonce)
    /\ Goto(w, "spendTx")
    /\ UNCHANGED <<lateIssue, payments, handleless, late, authSpent, txSpent, reserved, chain,
                   served, published, faults>>

MarkTxSpent(w) ==
    /\ pc[w] = "spendTx"
    /\ txSpent' = txSpent \cup {job[w].auth}
    /\ reserved' = [reserved EXCEPT ![job[w].auth] = None]
    /\ Goto(w, "spendAuth")
    /\ UNCHANGED <<lateIssue, payments, handleless, challenge, spent, late, authSpent, chain,
                   served, published, faults>>

MarkAuthSpent(w) ==
    /\ pc[w] = "spendAuth"
    /\ authSpent' = authSpent \cup {job[w].auth}
    /\ Goto(w, "close")
    /\ UNCHANGED <<lateIssue, payments, handleless, challenge, spent, late, txSpent, reserved, chain,
                   served, published, faults>>

\* The store throws after the settlement: hold.
MarkThrows(w) ==
    /\ pc[w] \in {"reserve", "spendNonce", "spendTx", "spendAuth"}
    /\ Fault
    /\ MarkUnknown(job[w].nonce)
    /\ Goto(w, "hold")
    /\ UNCHANGED <<lateIssue, payments, handleless, spent, late, authSpent, txSpent, reserved, chain,
                   served, published>>

\* noteLateInlineIssued, and the settled answer.  A row that a resolver has
\* taken, or that cannot be written, is left: the answer is settle_pending.
Close(w) ==
    /\ pc[w] = "close"
    /\ LET a == job[w].auth
           open == late[a].state \in {"submitted", "unknown", "confirmed"}
       IN  \/ /\ job[w].row => open
              /\ late' = IF job[w].row
                         THEN [late EXCEPT ![a].state = "issued", ![a].sent = TRUE] ELSE late
              /\ served' = [served EXCEPT ![a] = @ + 1]
              /\ UNCHANGED faults
           \/ /\ job[w].row
              /\ IF open THEN Fault ELSE UNCHANGED faults
              /\ UNCHANGED <<late, served>>
    /\ Finish(w)
    /\ UNCHANGED <<lateIssue, payments, handleless, challenge, spent, authSpent, txSpent, reserved, chain,
                   published>>

-----------------------------------------------------------------------------
\* The resolver (resolveLateRecord, publishIssued)

LeaseLive(a) == late[a].owner # None

\* Mutant: a row that is being issued is left alone, whoever has its lease.
ResolveNeverRecovers(w, a) ==
    /\ pc[w] = "idle"
    /\ lateIssue
    /\ late[a].state \in {"submitted", "unknown", "confirmed"}
    /\ CasLate(a, {"submitted"}, [late[a] EXCEPT !.state = "unknown"])
    /\ pc' = [pc EXCEPT ![w] = "read"]
    /\ job' = [job EXCEPT ![w] = [NoJob EXCEPT !.nonce = late[a].nonce, !.auth = a,
                                               !.seen = late'[a].state]]
    /\ UNCHANGED <<lateIssue, payments, handleless, challenge, spent, authSpent, txSpent, reserved, chain,
                   served, published, faults>>

\* An open row is picked up.  One that is being issued goes on from its
\* receipt, is left to a live lease, or goes back to confirmed.
Resolve(w, a) ==
    /\ pc[w] = "idle"
    /\ lateIssue
    /\ \/ /\ late[a].state \in {"submitted", "unknown", "confirmed"}
          /\ CasLate(a, {"submitted"}, [late[a] EXCEPT !.state = "unknown"])
          /\ pc' = [pc EXCEPT ![w] = "read"]
       \/ /\ late[a].state = "issuing" /\ late[a].jws # 0
          /\ UNCHANGED late
          /\ pc' = [pc EXCEPT ![w] = "publish"]
       \/ /\ late[a].state = "issuing" /\ late[a].jws = 0 /\ ~LeaseLive(a)
          /\ late' = [late EXCEPT ![a].state = "confirmed"]
          /\ pc' = [pc EXCEPT ![w] = "read"]
    /\ job' = [job EXCEPT ![w] = [NoJob EXCEPT !.nonce = late[a].nonce, !.auth = a,
                                               !.seen = late'[a].state]]
    /\ UNCHANGED <<lateIssue, payments, handleless, challenge, spent, authSpent, txSpent, reserved, chain,
                   served, published, faults>>

\* readChain finds the finalized transfer.
ReadMatches(w) ==
    /\ pc[w] = "read"
    /\ LET a == job[w].auth
       IN  /\ chain[a] = "final"
           /\ IF job[w].seen = "unknown"
              THEN CasLate(a, {"unknown"}, [late[a] EXCEPT !.state = "confirmed"])
              ELSE UNCHANGED late
    /\ Goto(w, "guard")
    /\ UNCHANGED <<lateIssue, payments, handleless, challenge, spent, authSpent, txSpent, reserved, chain,
                   served, published, faults>>

\* Nothing to be seen yet, or the read fails.
ReadPending(w) ==
    /\ pc[w] = "read"
    /\ IF chain[job[w].auth] \in {"final", "lapsed"} THEN Fault ELSE UNCHANGED faults
    /\ Finish(w)
    /\ UNCHANGED <<lateIssue, payments, handleless, store, chain, served, published>>

\* decideLateExpiry: the authorization lapsed unused, or the transfer is not
\* the one asked for, or the horizon has passed.
ReadCloses(w) ==
    /\ pc[w] = "read"
    /\ LET a == job[w].auth
       IN  \/ /\ chain[a] = "lapsed"
              /\ CasLate(a, {"submitted", "unknown", "confirmed"},
                         [late[a] EXCEPT !.state = "not_settled"])
              /\ UNCHANGED faults
           \/ /\ Fault
              /\ CasLate(a, {"submitted", "unknown", "confirmed"},
                         [late[a] EXCEPT !.state = "held"])
    /\ Finish(w)
    /\ UNCHANGED <<lateIssue, payments, handleless, challenge, spent, authSpent, txSpent, reserved, chain,
                   served, published>>

\* reorgGuard, then the issue CAS: one resolver gets the row.
Guard(w) ==
    /\ pc[w] = "guard"
    /\ LET a == job[w].auth
       IN  \/ /\ Fault
              /\ CasLate(a, {"confirmed"}, [late[a] EXCEPT !.state = "unknown"])
              /\ Finish(w)
           \/ /\ UNCHANGED faults
              /\ CasLate(a, {"confirmed"}, [late[a] EXCEPT !.state = "issuing", !.owner = w])
              /\ IF late[a].state = "confirmed" THEN Goto(w, "lateReserve") ELSE Finish(w)
    /\ UNCHANGED <<lateIssue, payments, handleless, challenge, spent, authSpent, txSpent, reserved, chain,
                   served, published>>

\* The transfer is reserved, or the row is closed as one that has its
\* receipt, or it goes back to confirmed.
LateReserve(w) ==
    /\ pc[w] = "lateReserve"
    /\ LET a == job[w].auth
       IN  \/ /\ a \notin txSpent \cup authSpent
              /\ reserved[a] = None
              /\ reserved' = [reserved EXCEPT ![a] = w]
              /\ Goto(w, "sign")
              /\ UNCHANGED late
           \/ /\ a \in txSpent
              /\ CasLate(a, {"issuing"}, [late[a] EXCEPT !.state = "issued"])
              /\ Finish(w)
              /\ UNCHANGED reserved
           \/ /\ a \notin txSpent
              /\ a \in authSpent \/ reserved[a] # None
              /\ CasLate(a, {"issuing"}, [late[a] EXCEPT !.state = "confirmed", !.owner = None])
              /\ Finish(w)
              /\ UNCHANGED reserved
    /\ UNCHANGED <<lateIssue, payments, handleless, challenge, spent, authSpent, txSpent, chain,
                   served, published, faults>>

\* The receipt is signed and put into the row; or the signer fails.
Sign(w) ==
    /\ pc[w] = "sign"
    /\ LET a == job[w].auth
       IN  \/ /\ late[a].state = "issuing"
              /\ late' = [late EXCEPT ![a].jws = published[a] + 1]
              /\ published' = [published EXCEPT ![a] = @ + 1]
              /\ pc' = [pc EXCEPT ![w] = "publish"]
              /\ job' = [job EXCEPT ![w].seen = "issuing"]
              /\ UNCHANGED <<reserved, faults>>
           \/ /\ late[a].state # "issuing"
              /\ reserved' = Unreserved(w, a)
              /\ Finish(w)
              /\ UNCHANGED <<late, published, faults>>
           \/ /\ Fault
              /\ CasLate(a, {"issuing"}, [late[a] EXCEPT !.state = "confirmed", !.owner = None, !.jws = 0])
              /\ reserved' = Unreserved(w, a)
              /\ Finish(w)
              /\ UNCHANGED published
    /\ UNCHANGED <<lateIssue, payments, handleless, challenge, spent, authSpent, txSpent, chain, served>>

\* The ledger row.  The write puts back the state the row had when the
\* publish began.
Publish(w) ==
    /\ pc[w] = "publish"
    /\ LET a == job[w].auth
       IN  \/ /\ CasLate(a, {"issuing", "confirmed", "issued"}, [late[a] EXCEPT !.state = job[w].seen])
              /\ Goto(w, "issue")
              /\ UNCHANGED <<reserved, faults>>
           \/ /\ Fault
              /\ reserved' = Unreserved(w, a)
              /\ Finish(w)
              /\ UNCHANGED late
    /\ UNCHANGED <<lateIssue, payments, handleless, challenge, spent, authSpent, txSpent, chain, served, published>>

\* The leaf is in the log: the row is issued.
Issue(w) ==
    /\ pc[w] = "issue"
    /\ LET a == job[w].auth
       IN  \/ /\ CasLate(a, {"issuing", "confirmed"}, [late[a] EXCEPT !.state = "issued"])
              /\ Goto(w, "lateNonce")
              /\ UNCHANGED <<reserved, faults>>
           \/ /\ Fault
              /\ reserved' = Unreserved(w, a)
              /\ Finish(w)
              /\ UNCHANGED late
    /\ UNCHANGED <<lateIssue, payments, handleless, challenge, spent, authSpent, txSpent, chain, served, published>>

\* The three marks that follow.
LateMarks(w) ==
    /\ LET a == job[w].auth
       IN  \/ /\ pc[w] = "lateNonce"
              /\ SpendNonce(job[w].nonce)
              /\ Goto(w, "lateAuth")
              /\ UNCHANGED <<authSpent, txSpent, reserved>>
           \/ /\ pc[w] = "lateAuth"
              /\ authSpent' = authSpent \cup {a}
              /\ Goto(w, "lateTx")
              /\ UNCHANGED <<challenge, spent, txSpent, reserved>>
           \/ /\ pc[w] = "lateTx"
              /\ txSpent' = txSpent \cup {a}
              /\ reserved' = [reserved EXCEPT ![a] = None]
              /\ Finish(w)
              /\ UNCHANGED <<challenge, spent, authSpent>>
    /\ UNCHANGED <<lateIssue, payments, handleless, late, chain, served, published, faults>>

-----------------------------------------------------------------------------
\* The chain, and processes that die

\* The facilitator's transfer is mined; or the authorization lapses unused.
Mine(a) ==
    /\ chain[a] = "sent"
    /\ chain' = [chain EXCEPT ![a] = "paid"]
    /\ UNCHANGED <<lateIssue, payments, handleless, store, pc, job, served, published, faults>>

\* The transfer is final.  Finality takes minutes, the calls of a request time
\* out after seconds: no request is between its verification and its end.
Finalize(a) ==
    /\ chain[a] = "paid"
    /\ \A w \in Workers : job[w].auth = a => pc[w] \notin Inline \ {"claimed", "verify"}
    /\ chain' = [chain EXCEPT ![a] = "final"]
    /\ UNCHANGED <<lateIssue, payments, handleless, store, pc, job, served, published, faults>>

Lapse(a) ==
    /\ \E p \in payments : p[2] = a
    /\ chain[a] \in {"none", "sent"}
    /\ chain' = [chain EXCEPT ![a] = "lapsed"]
    /\ UNCHANGED <<lateIssue, payments, handleless, store, pc, job, served, published, faults>>

\* A worker's process dies.  Its leases stay until they run out.
Crash(w) ==
    /\ pc[w] # "idle"
    /\ Fault
    /\ Finish(w)
    /\ late' = [a \in Auths |-> IF late[a].owner = w THEN [late[a] EXCEPT !.owner = "dead"] ELSE late[a]]
    /\ reserved' = [a \in Auths |-> IF reserved[a] = w THEN "dead" ELSE reserved[a]]
    /\ UNCHANGED <<lateIssue, payments, handleless, challenge, spent, authSpent, txSpent, chain, served, published>>

LeaseExpires(a) ==
    /\ "dead" \in {late[a].owner, reserved[a]}
    /\ late' = [late EXCEPT ![a].owner = IF @ = "dead" THEN None ELSE @]
    /\ reserved' = [reserved EXCEPT ![a] = IF @ = "dead" THEN None ELSE @]
    /\ UNCHANGED <<lateIssue, payments, handleless, challenge, spent, authSpent, txSpent, chain, pc, job,
                   served, published, faults>>

-----------------------------------------------------------------------------
Proceed(w) ==
    \/ CheckPrior(w) \/ VerifyFails(w) \/ Admit(w) \/ MarkSubmitted(w)
    \/ SettleNotSent(w) \/ SettleCall(w)
    \/ SettleSucceeds(w) \/ SettleRefused(w) \/ SettleUnclear(w) \/ HoldRow(w)
    \/ ReserveTx(w) \/ Confirm(w) \/ MarkSpent(w) \/ MarkTxSpent(w) \/ MarkAuthSpent(w)
    \/ MarkThrows(w) \/ Close(w)
    \/ ReadMatches(w) \/ ReadPending(w) \/ ReadCloses(w) \/ Guard(w) \/ LateReserve(w)
    \/ Sign(w) \/ Publish(w) \/ Issue(w) \/ LateMarks(w)

Next ==
    \/ \E w \in Workers :
          \/ \E p \in payments : Claim(w, p[1], p[2])
          \/ \E a \in Auths : Resolve(w, a)
          \/ Proceed(w)
          \/ Crash(w)
    \/ \E n \in Nonces : ClaimExpires(n)
    \/ \E a \in Auths : Mine(a) \/ Finalize(a) \/ Lapse(a) \/ LeaseExpires(a)

Spec == Init /\ [][Next]_vars

-----------------------------------------------------------------------------
\* One payment, one answer: an authorization is served once, or gets one late
\* receipt, never both and never twice, whichever nonces it is presented with
\* and whoever dies or retries.
OneAnswer == \A a \in Auths : served[a] + published[a] <= 1

\* What is left of a payment: a late row, the settled answer, the hold handle
\* that was opened for it, or a challenge it was presented with that is out of
\* circulation and bound to it (or to nobody: its claim ran out before the
\* payment verified).
Traced(a) ==
    \/ late[a] # NoRow
    \/ served[a] > 0
    \/ \E n \in Nonces :
          /\ <<n, a>> \in payments
          /\ \/ challenge[n].handle = a
             \/ challenge[n].hash = a /\ challenge[n].state # "issued"
             \/ challenge[n].hash = None /\ challenge[n].state \in {"unknown", "spent"}

\* No payment is lost: one that was made has left a trace of its own, in every
\* exit of the settlement but one.  The exception is the refusal of a payment
\* without a row, on a challenge given back before, whose handle another
\* payment has.
PaidIsTraced ==
    \A a \in Auths : chain[a] \in {"paid", "final"} =>
        Traced(a) \/ \E n \in Nonces : <<n, a>> \in handleless

\* "The original payment already has its receipt": a row is closed as issued
\* only when its payment was served or has a late receipt.
IssuedIsAnswered ==
    \A a \in Auths : late[a].state = "issued" => served[a] + published[a] > 0

-----------------------------------------------------------------------------
\* A worker goes on, leases run out and the chain reaches finality.  The minute
\* tick goes through all the open rows, so one row cannot keep it from another
\* for ever (strong fairness: the workers may all be busy in between).  Clients
\* retry as often as they like, but not for ever.
FairSpec ==
    /\ Spec
    /\ \A w \in Workers : WF_vars(Proceed(w))
    /\ \A a \in Auths :
          /\ SF_vars(\E w \in Workers : Resolve(w, a))
          /\ WF_vars(Finalize(a))
          /\ WF_vars(LeaseExpires(a))
    /\ <>[][~\E w \in Workers, p \in payments : Claim(w, p[1], p[2])]_vars

\* With late issue on, the row of a payment that was made does not stay open:
\* it is issued, held for the owner, or dropped by a request that saw its own
\* try fail before it was sent (the payment then has the handle or the nonce
\* of the earlier try).  Again and again there is no such row.
PaidRowIsClosed ==
    []<>(\A a \in Auths : lateIssue /\ chain[a] \in {"paid", "final"} => late[a].state \notin Open)
=============================================================================
