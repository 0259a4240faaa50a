---------------------------- MODULE AnchorIntents ----------------------------
(***************************************************************************)
(* The Base anchor of a tree head: the anchor intents of class             *)
(* ReceiptMerkleTree in services/gateway/src/receipt-merkle.js, with the   *)
(* transaction lookup of receipt-log-anchor.js.                            *)
(*                                                                         *)
(* A publish reads the sender's pending nonce, deals with the outstanding  *)
(* signed transaction, reserves a nonce, signs, journals the raw bytes,    *)
(* sends them, looks them up and reads the block time.  Every mark is      *)
(* fsynced before it is in memory, so memory and journal are one.          *)
(* Publishes run one at a time; the chain, the mempool, new heads, crashes *)
(* and a boot's reconcile interleave with them at every await.             *)
(*                                                                         *)
(* A root stands for the root of a head and its UTC day.  Signing is       *)
(* deterministic, so a transaction is its root, its nonce and how often    *)
(* its fee was bumped.  Base does not reorganise.  The chain and the RPC   *)
(* are external: they are modelled from what the code asks of them.        *)
(***************************************************************************)
EXTENDS Naturals, Sequences, FiniteSets

CONSTANTS
    NoTx,
    MaxRoots,    \* bound: heads
    MaxNonce,    \* bound: nonces; each head takes one, each fault may cost another
    MaxFee,      \* ANCHOR_MAX_FEE_WEI, in bumps of the quoted fee
    MaxFaults    \* bound: everything that goes wrong, counted together

Roots == 1..MaxRoots
Nonces == 0..MaxNonce
Tx == [root : Roots, nonce : Nonces, fee : 0..MaxFee]

ASSUME AnchorAssumption ==
    /\ {MaxRoots, MaxNonce, MaxFee, MaxFaults} \subseteq Nat
    /\ MaxRoots # 0
    /\ NoTx \notin Tx

VARIABLES
    status,    \* the last journal row of each signed transaction
    unsigned,  \* the open rows with status intent: [root, nonce]
    rejected,  \* transactions with a row that the clock gate replaced
    tracked,   \* this.anchorState.base
    heads,     \* per root, the transaction of the newest head that is anchored
    tip,       \* the newest head: [root, tx]
    head,      \* the root of this.leaves
    pub,       \* the publish in progress
    boot,      \* "down", "running" (reconcile), "deferred" or "done"
    todo,      \* the rows this reconcile has not looked up
    age,       \* of the outstanding row: 1 past the stuck age, 2 past six times it
    chain,     \* external: the sender's mined transactions, by nonce
    mempool,   \* external: the sender's transactions in the pool
    faults

journalVars == <<status, unsigned, rejected, tracked>>
headVars == <<heads, tip>>
netVars == <<chain, mempool>>
vars == <<journalVars, headVars, head, pub, boot, todo, age, netVars, faults>>

Open == {"signed", "broadcast", "blocked"}
Closed == {"anchored", "replaced", "superseded"}
Stages == {"recheck", "nonce", "look", "adopt", "resume", "sign", "replace", "supersede",
           "send", "confirm", "clock"}
Kinds == {"fresh", "resumed", "sent", "replacement"}
Polled == {"fresh", "resumed"}   \* the sends that _pollBaseConfirmation follows

Publishes == [at : Stages, root : Roots, row : Tx \cup {NoTx}, pend : Nonces, kind : Kinds]
Idle == [at |-> "idle"]
Busy == pub # Idle

TypeOK ==
    /\ status \in [Tx -> Open \cup Closed \cup {"none"}]
    /\ unsigned \subseteq [root : Roots, nonce : Nonces]
    /\ rejected \subseteq Tx
    /\ tracked \in [Roots -> Tx \cup {NoTx}]
    /\ heads \in [Roots -> Tx \cup {NoTx}]
    /\ tip \in [root : Roots \cup {0}, tx : Tx \cup {NoTx}]
    /\ head \in Roots
    /\ pub \in Publishes \cup {Idle}
    /\ boot \in {"down", "running", "deferred", "done"}
    /\ todo \subseteq Tx
    /\ age \in 0..2
    /\ chain \in Seq([tx : Tx \cup {NoTx}, ok : BOOLEAN])
    /\ mempool \subseteq Tx
    /\ faults \in 0..MaxFaults

Init ==
    /\ status = [t \in Tx |-> "none"]
    /\ unsigned = {}
    /\ rejected = {}
    /\ tracked = [r \in Roots |-> NoTx]
    /\ heads = [r \in Roots |-> NoTx]
    /\ tip = [root |-> 0, tx |-> NoTx]
    /\ head = 1
    /\ pub = Idle
    /\ boot = "done"
    /\ todo = {}
    /\ age = 0
    /\ chain = <<>>
    /\ mempool = {}
    /\ faults = 0

Fault == faults < MaxFaults /\ faults' = faults + 1

-----------------------------------------------------------------------------
(* The network. *)

Mined(t, ok) == \E i \in 1..Len(chain) : chain[i] = [tx |-> t, ok |-> ok]

Mine(t, ok) ==
    /\ t \in mempool
    /\ t.nonce = Len(chain)
    /\ chain' = Append(chain, [tx |-> t, ok |-> ok])
    /\ mempool' = mempool \ {t}
    /\ IF ok THEN UNCHANGED faults ELSE Fault

\* The sender's key is used elsewhere.
MineForeign ==
    /\ Fault
    /\ chain' = Append(chain, [tx |-> NoTx, ok |-> TRUE])
    /\ mempool' = {t \in mempool : t.nonce # Len(chain)}

Drop(t) ==
    /\ Fault
    /\ t \in mempool
    /\ mempool' = mempool \ {t}
    /\ UNCHANGED chain

\* What the lookup of a transaction answers when its hash is not found.
Missing(t) == IF t.nonce < Len(chain) THEN "consumed" ELSE "unused"

Seen(t) ==
    IF Mined(t, TRUE) THEN "mined"
    ELSE IF Mined(t, FALSE) THEN "failed"
    ELSE IF t \in mempool THEN "pool"
    ELSE Missing(t)

\* A lookup answers, fails, or asks a node that does not have the hash yet and
\* whose nonce count may lag too.
Lookup(t, r) ==
    \/ r = Seen(t) /\ UNCHANGED faults
    \/ r \in {"error", "unused", Missing(t)} \ {Seen(t)} /\ Fault

Replies == {"mined", "failed", "pool", "consumed", "unused", "error"}

\* The pool keeps one transaction per nonce.
Pooled(t) == {s \in mempool : s.nonce # t.nonce} \cup {t}
Known(t) == t \in mempool \/ t.nonce < Len(chain)

\* A failed send may still have reached the pool.
Send(t, r) ==
    \/ r = "known" /\ Known(t) /\ UNCHANGED <<mempool, faults>>
    \/ r = "accepted" /\ ~Known(t) /\ mempool' = Pooled(t) /\ UNCHANGED faults
    \/ r = "transient" /\ Fault /\ mempool' \in {mempool, IF Known(t) THEN mempool ELSE Pooled(t)}
    \/ r = "permanent" /\ ~Known(t) /\ Fault /\ UNCHANGED mempool

\* The sender's next nonce, what the pool holds counted.
Pending(n) ==
    /\ n >= Len(chain)
    /\ \A m \in Len(chain)..(n - 1) : \E t \in mempool : t.nonce = m
    /\ \A t \in mempool : t.nonce # n

-----------------------------------------------------------------------------
(* The journal's rows. *)

Unresolved == {t \in Tx : status[t] \in Open}

\* A later raw transaction was journalled at the nonce of t.
Beaten(t) ==
    \E s \in Tx : s.nonce = t.nonce /\ s.fee > t.fee /\ status[s] \in Open \cup {"anchored"}

\* Mutant: both raws of a nonce stay open.
SupersededNone == status

\* _supersedeOlderRawAtNonce, _supersedeLowerFeeAtNonce
Superseded == [t \in Tx |-> IF t \in Unresolved /\ Beaten(t) THEN "superseded" ELSE status[t]]

\* Mutant: an open unsigned row holds its nonce.
TakenByAny == {t.nonce : t \in {s \in Tx : status[s] # "none"}} \cup {u.nonce : u \in unsigned}

\* _nextFreeNonce: a nonce with a signed row is taken for good, an unsigned one is free.
Taken == {t.nonce : t \in {s \in Tx : status[s] # "none"}}

NextFree(n, m) == m >= n /\ m \notin Taken /\ \A k \in n..(m - 1) : k \in Taken

\* _lowestUnresolvedSigned
Lowest(open) ==
    {t \in open : \A s \in open : t.nonce < s.nonce \/ (t.nonce = s.nonce /\ t.fee <= s.fee)}

\* _reserveBaseIntent, then the choice of the publish: adopt the root's anchored
\* transaction, resume its open one, or sign at the first free nonce.
Reserve(n) ==
    LET root == pub.root
        held == {t \in Tx : t.root = root /\ status'[t] = "anchored"}
        signed == {t \in Tx : t.root = root /\ status'[t] \in Open}
    IN  IF held \cup signed # {}
        THEN /\ unsigned' = {u \in unsigned : u.root = root}
             /\ \E t \in IF held # {} THEN held ELSE signed :
                   pub' = [pub EXCEPT !.at = IF held # {} THEN "adopt" ELSE "resume",
                                      !.row = t, !.kind = "resumed"]
        ELSE \E m \in Nonces :
                /\ NextFree(n, m)
                /\ unsigned' = {[root |-> root, nonce |-> m]}
                /\ pub' = [pub EXCEPT !.at = "sign", !.kind = "fresh",
                              !.row = [root |-> root, nonce |-> m, fee |-> 0]]

Mark(t, s) == status' = [status EXCEPT ![t] = s]

\* _commitAnchored
Commit(t) ==
    /\ Mark(t, "anchored")
    /\ tracked' = [tracked EXCEPT ![t.root] = t]

\* _reopenAnchored: looked up again, or given up for good
Reopen(root, t, s) ==
    LET rows == {x \in Tx : status[x] = "anchored" /\ (x.root = root \/ x = t)}
    IN  /\ tracked' = [tracked EXCEPT ![root] = NoTx]
        /\ status' = [x \in Tx |-> IF x \in rows THEN s ELSE status[x]]
        /\ rejected' = IF s = "replaced" THEN rejected \cup rows \cup {t} ELSE rejected

\* baseAnchoredForRoot, unless the clock gate rejected its transaction
PriorBase(root) ==
    LET t == IF tracked[root] # NoTx THEN tracked[root] ELSE heads[root]
    IN  IF t \in rejected THEN NoTx ELSE t

\* The publish ends with a head that is not anchored, or with one that is.
End ==
    /\ pub' = Idle
    /\ tip' = [root |-> pub.root, tx |-> NoTx]
    /\ UNCHANGED heads
EndAnchored(t) ==
    /\ pub' = Idle
    /\ tip' = [root |-> pub.root, tx |-> t]
    /\ heads' = [heads EXCEPT ![pub.root] = t]
Goto(at) == pub' = [pub EXCEPT !.at = at]

-----------------------------------------------------------------------------
(* The publish: one action per await. *)

At(stage) == Busy /\ pub.at = stage /\ boot # "running"

\* tickAnchors or a route calls publishHead; its root is taken here.
Publish ==
    /\ pub = Idle
    /\ boot \in {"deferred", "done"}
    /\ pub' = [at |-> IF PriorBase(head) # NoTx THEN "recheck" ELSE "nonce",
               root |-> head, row |-> PriorBase(head), pend |-> 0, kind |-> "fresh"]
    /\ UNCHANGED <<journalVars, headVars, head, boot, todo, age, netVars, faults>>

\* The stored anchor is looked up again; its confirmation is a row of its own.
Recheck ==
    /\ At("recheck")
    /\ \E r \in Replies :
          /\ Lookup(pub.row, r)
          /\ IF r = "mined"
             THEN /\ tracked' = [tracked EXCEPT ![pub.root] = pub.row]
                  /\ Goto("clock")
                  /\ UNCHANGED <<status, rejected>>
             ELSE /\ Reopen(pub.root, pub.row, "broadcast")
                  /\ Goto("nonce")
    /\ UNCHANGED <<unsigned, headVars, head, boot, todo, age, netVars>>

\* The pending count of a node that lags may be too low.
ReadNonce ==
    /\ At("nonce")
    /\ \E pending \in Nonces : \E n \in 0..pending :
          /\ Pending(pending)
          /\ IF n = pending THEN UNCHANGED faults ELSE Fault
          /\ status' = Superseded
          /\ LET open == {t \in Tx : status'[t] \in Open}
             IN  IF open # {}
                 THEN /\ \E t \in Lowest(open) :
                            pub' = [pub EXCEPT !.at = "look", !.row = t, !.pend = n]
                      /\ unsigned' = {u \in unsigned : u.root = pub.root}
                 ELSE Reserve(n)
    /\ UNCHANGED <<rejected, tracked, headVars, head, boot, todo, age, netVars>>

NonceUnknown ==
    /\ At("nonce")
    /\ Fault
    /\ End
    /\ UNCHANGED <<journalVars, head, boot, todo, age, netVars>>

\* The last lookup of an outstanding row: the publish goes on, or holds.
AnchoredOrReserve(t) ==
    /\ Commit(t)
    /\ IF t.root = pub.root
       THEN Goto("clock") /\ UNCHANGED unsigned
       ELSE Reserve(pub.pend)
    /\ UNCHANGED <<headVars, age>>

\* The row gets its status and stays; the publish ends with a head that is not anchored.
Rest(t, s) ==
    /\ Mark(t, s)
    /\ End
    /\ UNCHANGED <<unsigned, tracked>>

\* The mark has a reason, and so a row and a time of its own.
Hold(t, s) == Rest(t, s) /\ age' = 0

\* _markIntent without a reason: the same status is no new row and keeps its time.
AgeAfter(t, s) == IF status[t] = s THEN age ELSE 0

Continue(t, s, at, kind) ==
    /\ Mark(t, s)
    /\ pub' = [pub EXCEPT !.at = at, !.kind = kind]
    /\ UNCHANGED <<unsigned, tracked, headVars>>

\* Mutant: a transaction the pool shows counts as mined.
ConfirmedInPool(r) == r \in {"mined", "pool"}

\* _confirmed: only a receipt with status 1 is an anchor.
Confirmed(r) == r = "mined"

\* Mutant: only a failed receipt releases the nonce.
SpentByReceipt(r) == r = "failed"

\* The nonce was spent by another transaction, or by a failed one.
Spent(r) == r \in {"failed", "consumed"}

\* _resolveOutstanding up to its send
Look ==
    /\ At("look")
    /\ \E r \in Replies :
          LET t == pub.row IN
          /\ Lookup(t, r)
          /\ \/ r = "error" /\ Hold(t, "blocked")
             \/ Confirmed(r) /\ AnchoredOrReserve(t)
             \/ /\ Spent(r)
                /\ Mark(t, "replaced")
                /\ Reserve(pub.pend)
                /\ UNCHANGED <<tracked, headVars, age>>
             \/ /\ r = "pool" /\ ~Confirmed(r)
                /\ \/ age > 0 /\ Continue(t, "broadcast", "replace", "sent") /\ UNCHANGED age
                   \/ /\ age = 0
                      /\ Mark(t, "broadcast")
                      /\ End
                      /\ UNCHANGED <<unsigned, tracked, age>>
             \/ /\ r \in {"unused", "consumed"} /\ ~Spent(r)
                /\ IF status[t] = "broadcast" /\ age = 2
                   THEN Continue(t, status[t], "replace", "sent")
                   ELSE Continue(t, status[t], "send", "sent")
                /\ UNCHANGED age
    /\ UNCHANGED <<rejected, head, boot, todo, netVars>>

\* _backoffActive
Backoff ==
    /\ At("look")
    /\ status[pub.row] = "blocked"
    /\ Seen(pub.row) = "unused"
    /\ End
    /\ UNCHANGED <<journalVars, head, boot, todo, age, netVars, faults>>

\* The root's own anchored row, known to the journal and not to the tracker.
Adopt ==
    /\ At("adopt")
    /\ \E r \in Replies :
          /\ Lookup(pub.row, r)
          /\ IF Confirmed(r)
             THEN Commit(pub.row) /\ Goto("clock") /\ UNCHANGED headVars
             ELSE End /\ UNCHANGED <<status, tracked>>
    /\ UNCHANGED <<unsigned, rejected, head, boot, todo, age, netVars>>

\* _resumeSignedIntent up to its send: what is not mined and not to be sent is blocked.
Resume ==
    /\ At("resume")
    /\ \E r \in Replies :
          LET t == pub.row IN
          /\ Lookup(t, r)
          /\ \/ Confirmed(r) /\ Commit(t) /\ Goto("clock") /\ UNCHANGED <<unsigned, headVars, age>>
             \/ Spent(r) /\ Hold(t, "replaced")
             \/ r \in {"pool", "error"} /\ ~Confirmed(r) /\ Hold(t, "blocked")
             \/ r = "unused" /\ Continue(t, status[t], "send", "resumed") /\ UNCHANGED age
    /\ UNCHANGED <<rejected, head, boot, todo, netVars>>

\* _gateAnchorChain, the fee quote and the signature; the raw bytes are journalled.
Sign ==
    /\ At("sign")
    /\ \/ /\ boot = "done"
          /\ Mark(pub.row, "signed")
          /\ age' = 0
          /\ Goto("send")
          /\ UNCHANGED <<headVars, faults>>
       \/ Fault /\ End /\ UNCHANGED <<status, age>>
    /\ UNCHANGED <<unsigned, rejected, tracked, head, boot, todo, netVars>>

\* _replaceAtNonce: sign the publish's root at the nonce, with the next fee.
Replace ==
    /\ At("replace")
    /\ LET old == pub.row
           created == [root |-> pub.root, nonce |-> old.nonce, fee |-> old.fee + 1]
       IN  \/ Fault /\ Hold(old, "blocked")
           \/ /\ boot = "done"
              /\ old.fee < MaxFee
              /\ Mark(created, "signed")
              /\ age' = 0
              /\ pub' = [pub EXCEPT !.at = "supersede", !.row = created, !.kind = "replacement"]
              /\ UNCHANGED <<unsigned, tracked, headVars, faults>>
           \/ /\ boot = "done"
              /\ old.fee = MaxFee
              /\ End
              /\ UNCHANGED <<status, unsigned, tracked, age, faults>>
    /\ UNCHANGED <<rejected, head, boot, todo, netVars>>

\* The older row's mark, which a crash or a failed write can miss.
SupersedeOld ==
    /\ At("supersede")
    /\ \E old \in Tx :
          /\ old.nonce = pub.row.nonce
          /\ old.fee + 1 = pub.row.fee
          /\ status[old] # "none"
          /\ Mark(old, "superseded")
    /\ Goto("send")
    /\ UNCHANGED <<unsigned, rejected, tracked, headVars, head, boot, todo, age, netVars, faults>>

\* _broadcastRaw and what each caller makes of its answer
SendRaw ==
    /\ At("send")
    /\ \E r \in {"accepted", "known", "transient", "permanent"} :
          LET t == pub.row IN
          /\ Send(t, r)
          /\ boot = "deferred" => r = "transient" /\ mempool' = mempool
          /\ LET held == r = "transient" \/ (pub.kind = "resumed" /\ r # "accepted")
             IN  \/ held /\ Hold(t, "blocked")
                 \/ /\ ~held /\ r = "permanent" /\ pub.kind = "sent"
                    /\ Continue(t, "signed", "replace", "sent")
                    /\ age' = 0
                 \/ ~held /\ r = "permanent" /\ pub.kind # "sent" /\ Hold(t, "signed")
                 \/ /\ ~held /\ r # "permanent"
                    /\ IF r = "known" \/ pub.kind \in Polled
                       THEN Mark(t, "broadcast") /\ age' = 0
                       ELSE UNCHANGED <<status, age>>
                    /\ Goto("confirm")
                    /\ UNCHANGED <<unsigned, tracked, headVars>>
    /\ UNCHANGED <<rejected, head, boot, todo, chain>>

\* The lookup after a send; _pollBaseConfirmation for a fresh transaction.
Confirm ==
    /\ At("confirm")
    /\ \E r \in Replies :
          LET t == pub.row IN
          /\ Lookup(t, r)
          /\ \/ Confirmed(r) /\ AnchoredOrReserve(t)
             \/ /\ ~Confirmed(r)
                /\ LET s == IF pub.kind \in Polled /\ Spent(r) THEN "replaced" ELSE "broadcast"
                   IN  /\ Rest(t, s)
                       /\ age' = IF pub.kind = "replacement" /\ r = "pool" THEN 0 ELSE AgeAfter(t, s)
             \/ r = "error" /\ pub.kind \notin Polled /\ Hold(t, "blocked")
    /\ UNCHANGED <<rejected, head, boot, todo, netVars>>

\* _gateConfirmedAnchor: the block time is near this publish, unread, or more than
\* 300 seconds off (a new day, or an outage since the block).
Clock ==
    /\ At("clock")
    /\ \/ /\ EndAnchored(pub.row)
          /\ UNCHANGED <<status, rejected, tracked, faults>>
       \/ /\ Fault
          /\ \E s \in {"broadcast", "replaced"} : Reopen(pub.root, pub.row, s)
          /\ End
    /\ UNCHANGED <<unsigned, head, boot, todo, age, netVars>>

\* A journal write throws: the publish ends without a head.
JournalFails ==
    /\ Busy /\ boot # "running"
    /\ Fault
    /\ pub' = Idle
    /\ UNCHANGED <<journalVars, headVars, head, boot, todo, age, netVars>>

-----------------------------------------------------------------------------
(* Crash, boot and reconcileAnchorIntents. *)

Crash ==
    /\ boot # "down"
    /\ Fault
    /\ boot' = "down"
    /\ pub' = Idle
    /\ todo' = {}
    /\ tracked' \in {tracked, heads}   \* the snapshot may be older than the journal
    /\ UNCHANGED <<status, unsigned, rejected, headVars, head, age, netVars>>

StartReconcile ==
    /\ status' = Superseded
    /\ unsigned' = {}
    /\ todo' = {t \in Tx : status'[t] \in Open \cup {"anchored"}}
    /\ boot' = IF todo' = {} THEN "done" ELSE "running"
    /\ UNCHANGED <<rejected, tracked, headVars, head, pub, age, netVars>>

\* A boot reconciles, or defers it when the RPC does not answer.
Restart ==
    /\ boot = "down"
    /\ StartReconcile
    /\ UNCHANGED faults

RestartDeferred ==
    /\ boot = "down"
    /\ Fault
    /\ boot' = "deferred"
    /\ UNCHANGED <<journalVars, headVars, head, pub, todo, age, netVars>>

\* _gateAnchorChain runs what the boot deferred, before any signed bytes go out.
DeferredReconcile ==
    /\ boot = "deferred"
    /\ Busy /\ pub.at \in {"sign", "replace", "send"}
    /\ StartReconcile
    /\ UNCHANGED faults

\* One row: its lookup and, when its nonce is unused, the send of the same bytes.
Reconcile(t) ==
    /\ boot = "running"
    /\ t \in todo
    /\ todo' = todo \ {t}
    /\ boot' = IF todo' = {} THEN "done" ELSE "running"
    /\ \/ /\ Lookup(t, "mined")
          /\ Commit(t)
          /\ UNCHANGED <<age, mempool>>
       \/ \E r \in Replies \ {"mined", "unused"} :
            /\ Lookup(t, r)
            /\ \/ Spent(r) /\ Mark(t, "replaced") /\ UNCHANGED age
               \/ r = "pool" /\ UNCHANGED <<status, age>>
               \/ r = "error" /\ Mark(t, "blocked") /\ age' = 0
               \/ r = "error" /\ status[t] = "anchored" /\ UNCHANGED <<status, age>>
            /\ UNCHANGED <<tracked, mempool>>
       \/ /\ Seen(t) = "unused"
          /\ \E r \in {"accepted", "transient", "permanent"} :
                /\ Send(t, r)
                /\ Mark(t, IF r = "accepted" THEN "broadcast" ELSE "blocked")
                /\ age' = IF r = "accepted" THEN AgeAfter(t, "broadcast") ELSE 0
          /\ UNCHANGED tracked
       \/ /\ Known(t)   \* a lookup that lags, and a send that is told so
          /\ Lookup(t, "unused")
          /\ Mark(t, "blocked")
          /\ age' = 0
          /\ UNCHANGED <<tracked, mempool>>
    /\ UNCHANGED <<unsigned, rejected, headVars, head, pub, chain>>

-----------------------------------------------------------------------------
(* The other actors. *)

\* A receipt is appended: the next publish has another root.
NewHead ==
    /\ head < MaxRoots
    /\ head' = head + 1
    /\ UNCHANGED <<journalVars, headVars, pub, boot, todo, age, netVars, faults>>

\* On a chain with a block every two seconds, ten minutes without a receipt are a fault.
Age ==
    /\ Unresolved # {}
    /\ Fault
    /\ age' \in (age + 1)..2
    /\ UNCHANGED <<journalVars, headVars, head, pub, boot, todo, netVars>>

MineOk == \E t \in mempool : Mine(t, TRUE)

Network ==
    /\ \/ MineOk
       \/ \E t \in mempool : Mine(t, FALSE) \/ Drop(t)
       \/ MineForeign
    /\ UNCHANGED <<journalVars, headVars, head, pub, boot, todo, age>>

ReconcileStep == DeferredReconcile \/ \E t \in todo : Reconcile(t)

PublishStep ==
    \/ Recheck \/ ReadNonce \/ Adopt \/ Resume \/ Sign \/ Replace \/ SupersedeOld
    \/ SendRaw \/ Confirm \/ Clock

Next ==
    \/ Publish \/ PublishStep \/ Look \/ Backoff \/ NonceUnknown \/ JournalFails
    \/ Crash \/ Restart \/ RestartDeferred \/ ReconcileStep
    \/ NewHead \/ Age \/ Network

\* The ticker publishes again and again, every await of it ends, a supervisor
\* restarts the process, the chain takes what the pool holds, and a backoff
\* is finite.
Fairness ==
    /\ WF_vars(Publish) /\ WF_vars(PublishStep) /\ SF_vars(Look)
    /\ WF_vars(Restart) /\ WF_vars(ReconcileStep)
    /\ WF_vars(MineOk /\ UNCHANGED <<journalVars, headVars, head, pub, boot, todo, age>>)

Spec == Init /\ [][Next]_vars /\ Fairness

-----------------------------------------------------------------------------
(* Properties. *)

\* Every transaction of the sender that the pool or the chain holds was journalled
\* first, and a head that says anchored, or a journal row that does, names a
\* transaction with a receipt of status 1.
JournalMatchesChain ==
    /\ \A t \in mempool : status[t] # "none"
    /\ \A i \in 1..Len(chain) : chain[i].tx # NoTx => status[chain[i].tx] # "none"
    /\ \A t \in Tx : status[t] = "anchored" => Mined(t, TRUE)
    /\ \A r \in Roots : heads[r] # NoTx => Mined(heads[r], TRUE)

\* Between the sender's next nonce and an open signed row there is no nonce without
\* an open row of its own: a crash at any point leaves no gap that would block every
\* later anchor.
NoNonceGap ==
    \A t \in Unresolved : \A n \in Len(chain)..t.nonce : \E s \in Unresolved : s.nonce = n

\* One unresolved signed raw per sender, as _resolveOutstanding says.
OneOutstanding == \A s, t \in Unresolved : s.nonce = t.nonce

\* Of two raw transactions at one nonce only the later one is ever sent.
NewestRawOnly ==
    [][\A t \in mempool' \ mempool :
          \A s \in Tx : s.nonce = t.nonce /\ status[s] # "none" => s.fee <= t.fee]_vars

\* The one place where an operator has to step in: the fee cap forbids the bump of
\* a transaction that is past six times the stuck age and gone from the pool.
HeldAtFeeCap ==
    \E t \in Unresolved : t.fee = MaxFee /\ status[t] = "broadcast" /\ age = 2 /\ t \notin mempool

\* When nothing more goes wrong the newest root ends up in an anchored head, or the
\* sender is held at the fee cap.
HeadIsAnchored == <>[](tip.root = head /\ tip.tx # NoTx) \/ <>[]HeldAtFeeCap
=============================================================================
