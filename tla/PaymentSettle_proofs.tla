------------------------- MODULE PaymentSettle_proofs -------------------------
(***************************************************************************)
(* Settling payments, for any challenges, authorizations, workers, clients *)
(* and any number of faults: a payment gets one answer, and none is lost.  *)
(***************************************************************************)
EXTENDS PaymentSettle, TLAPS

\* The stages of a request past its verification, the stages at which the
\* transfer is reserved, the ones after it was marked spent, and the stages
\* of a resolver before and after the receipt is in the row.
Past == Inline \ {"claimed", "verify"}
Holding == {"confirm", "spendNonce", "spendTx", "sign"}
Marked == {"spendAuth", "close"}
Issuing == {"lateReserve", "sign"}
Publishing == {"publish", "issue", "lateNonce", "lateAuth", "lateTx"}

\* What holds of a worker: it has a payment; finality divides the requests
\* from the resolvers; the transfer is reserved for it, and is not spent
\* before it is marked; then it has not answered yet; the row belongs to the
\* resolver that is about to sign, and has a receipt when it publishes.
WorkerBook(w) ==
    LET a == job[w].auth IN
    /\ pc[w] # "idle" => job[w].nonce \in Nonces /\ a \in Auths
    /\ pc[w] \in Past => chain[a] # "final"
    /\ pc[w] \in Resolver \ {"read"} => chain[a] = "final"
    /\ pc[w] \in Holding => reserved[a] = w /\ a \notin txSpent
    /\ pc[w] \in Marked => a \in txSpent /\ served[a] = 0
    /\ pc[w] \in Issuing => late[a].state = "issuing" /\ late[a].owner = w /\ published[a] = 0
    /\ pc[w] \in Publishing => published[a] > 0
    /\ pc[w] = "publish" => job[w].seen = "issuing"

\* A row has the challenge it was opened for.
RowShape(a) == IF late[a].state = "none" THEN late[a] = NoRow ELSE late[a].nonce \in Nonces

\* What holds of a payment: its row has a challenge; a served transfer is
\* marked; a receipt stays in its row, which is never opened again.
RowBook(a) ==
    /\ RowShape(a)
    /\ served[a] > 0 => a \in txSpent
    /\ late[a].jws # 0 => published[a] > 0
    /\ published[a] > 0 => /\ late[a].jws # 0 /\ late[a].state \in {"issuing", "issued"}
                           /\ chain[a] = "final"
    /\ served[a] + published[a] <= 1

\* The transfer is marked spent by one request.
MarkedOnce ==
    \A v, w \in Workers :
        pc[v] \in Marked /\ pc[w] \in Marked /\ job[v].auth = job[w].auth => v = w

AInv ==
    /\ TypeOK
    /\ \A w \in Workers : WorkerBook(w)
    /\ \A a \in Auths : RowBook(a)
    /\ MarkedOnce

-----------------------------------------------------------------------------
\* The initial state has its type.
LEMMA InitType == Init => TypeOK
<1> SUFFICES ASSUME Init PROVE TypeOK
  OBVIOUS
<1>1. challenge \in [Nonces -> Challenges]
  BY DEF Init, Challenges
<1>2. late \in [Auths -> Rows]
  BY DEF Init, Rows, NoRow
<1>3. job \in [Workers -> Jobs]
  BY DEF Init, Jobs, NoJob
<1>4. pc \in [Workers -> Inline \cup Resolver \cup {"idle"}]
  BY DEF Init
<1>5. lateIssue \in BOOLEAN /\ payments \subseteq Nonces \X Auths /\ faults \in 0 .. MaxFaults
  BY PaymentSettleAssumption DEF Init
<1>6. served \in [Auths -> Nat] /\ published \in [Auths -> Nat]
  BY DEF Init
<1>7. chain \in [Auths -> {"none", "sent", "paid", "final", "lapsed"}]
  BY DEF Init
<1> QED
  BY <1>1, <1>2, <1>3, <1>4, <1>5, <1>6, <1>7 DEF Init, TypeOK

\* The updates the actions are made of keep the types.
LEMMA GotoType ==
    ASSUME TypeOK, NEW w \in Workers, NEW step \in Inline \cup Resolver, Goto(w, step)
    PROVE  /\ pc' \in [Workers -> Inline \cup Resolver \cup {"idle"}] /\ job' \in [Workers -> Jobs]
           /\ pc'[w] = step /\ job' = job
           /\ \A v \in Workers \ {w} : pc'[v] = pc[v]
  BY DEF TypeOK, Goto

\* A worker that ends leaves every other worker as it was.
LEMMA FinishType ==
    ASSUME TypeOK, NEW w \in Workers, Finish(w)
    PROVE  /\ pc' \in [Workers -> Inline \cup Resolver \cup {"idle"}] /\ job' \in [Workers -> Jobs]
           /\ pc'[w] = "idle"
           /\ \A v \in Workers \ {w} : pc'[v] = pc[v] /\ job'[v] = job[v]
<1>1. NoJob \in Jobs
  BY DEF NoJob, Jobs
<1> QED
  BY <1>1 DEF TypeOK, Finish

\* A fault is counted within its bound.
LEMMA FaultType ==
    ASSUME TypeOK, Fault PROVE faults' \in 0 .. MaxFaults
  BY PaymentSettleAssumption DEF TypeOK, Fault

\* A compare-and-set replaces one row, and only from a state it names.
LEMMA CasType ==
    ASSUME TypeOK, NEW a \in Auths, NEW from, NEW row \in Rows, CasLate(a, from, row)
    PROVE  /\ late' \in [Auths -> Rows]
           /\ late'[a] = IF late[a].state \in from THEN row ELSE late[a]
           /\ \A b \in Auths \ {a} : late'[b] = late[b]
  BY DEF TypeOK, CasLate

\* A challenge given back, held or spent is a challenge, and the others stay.
LEMMA BackType ==
    ASSUME NEW c \in Challenges, NEW from
    PROVE  /\ Back(c, from) \in Challenges
           /\ Back(c, from).handle = c.handle
           /\ c.state # from => Back(c, from) = c
           /\ c.state = from => Back(c, from).state = "issued" /\ Back(c, from).hash = None
  BY DEF Challenges, Back

\* Attaching a handle changes nothing else of the challenge.
LEMMA HandleType ==
    ASSUME NEW c \in Challenges, NEW a \in Auths
    PROVE  /\ WithHandle(c, a) \in Challenges
           /\ WithHandle(c, a).handle = IF c.handle = None THEN a ELSE c.handle
           /\ WithHandle(c, a).state = c.state /\ WithHandle(c, a).hash = c.hash
  BY PaymentSettleAssumption DEF Challenges, WithHandle

\* A release gives back one challenge and touches no other.
LEMMA ReleaseType ==
    ASSUME TypeOK, NEW n \in Nonces, Release(n)
    PROVE  /\ challenge' \in [Nonces -> Challenges]
           /\ challenge'[n] = Back(challenge[n], "claimed")
           /\ \A m \in Nonces \ {n} : challenge'[m] = challenge[m]
  BY BackType DEF TypeOK, Release

\* Marking a challenge unknown touches no other.
LEMMA MarkUnknownType ==
    ASSUME TypeOK, NEW n \in Nonces, MarkUnknown(n)
    PROVE  /\ challenge' \in [Nonces -> Challenges]
           /\ challenge'[n] = [challenge[n] EXCEPT !.state = "unknown"]
           /\ \A m \in Nonces \ {n} : challenge'[m] = challenge[m]
  BY DEF TypeOK, MarkUnknown, Challenges

\* Spending a challenge touches no other.
LEMMA SpendNonceType ==
    ASSUME TypeOK, NEW n \in Nonces, SpendNonce(n)
    PROVE  /\ challenge' \in [Nonces -> Challenges] /\ spent' \subseteq Nonces
           /\ challenge'[n] = [challenge[n] EXCEPT !.state = "spent"]
           /\ \A m \in Nonces \ {n} : challenge'[m] = challenge[m]
  BY DEF TypeOK, SpendNonce, Challenges

\* A reservation is given up only by its worker and only while the transfer is unspent.
LEMMA UnreservedType ==
    ASSUME TypeOK, NEW w \in Workers, NEW a \in Auths, reserved' = Unreserved(w, a)
    PROVE  /\ reserved' \in [Auths -> Workers \cup {"dead", None}]
           /\ reserved'[a] = IF reserved[a] = w /\ a \notin txSpent THEN None ELSE reserved[a]
           /\ \A b \in Auths \ {a} : reserved'[b] = reserved[b]
  BY DEF TypeOK, Unreserved

\* How a step of w may change a row: not at all; before a receipt can be in
\* it; a row without a receipt whose lease is w's or nobody's; a row with a
\* receipt, which keeps it; the lease of a row of w's or of a dead worker's.
RowStep(w, b) ==
    \/ late'[b] = late[b]
    \/ late[b].state \notin {"issuing", "issued"} /\ late'[b].jws = late[b].jws
    \/ /\ late[b].state = "issuing" /\ late[b].jws = 0 /\ late[b].owner \in {w, None}
       /\ late'[b].jws = 0
    \/ late[b].jws # 0 /\ late'[b].jws # 0 /\ late'[b].state \in {"issuing", "issued"}
    \/ /\ late[b].owner \in {w, "dead"}
       /\ late'[b].state = late[b].state /\ late'[b].jws = late[b].jws

\* A step of w that answers nobody: the others stay where they are and keep
\* their reservations, and nothing is marked or becomes final.
Quiet(w) ==
    /\ \A v \in Workers \ {w} : /\ pc'[v] = pc[v] /\ job'[v] = job[v]
                                /\ \A b \in Auths : reserved[b] = v => reserved'[b] = v
    /\ \A b \in Auths : /\ RowStep(w, b) /\ RowShape(b)'
                        /\ chain'[b] = "final" <=> chain[b] = "final"
    /\ txSpent' = txSpent /\ served' = served /\ published' = published

\* Such a step keeps AInv if w itself is left where the invariant has it.
LEMMA QuietStep ==
    ASSUME AInv, NEW w, Quiet(w), TypeOK',
           w \in Workers => /\ WorkerBook(w)'
                            /\ pc'[w] \in Marked => pc[w] \in Marked /\ job'[w].auth = job[w].auth
    PROVE  AInv'
<1>1. ASSUME NEW v \in Workers PROVE WorkerBook(v)'
  <2>1. CASE v = w
    BY <2>1
  <2>2. CASE v # w /\ pc[v] = "idle"
    BY <2>2 DEF Quiet, WorkerBook, Past, Inline, Resolver, Holding, Marked, Issuing, Publishing
  <2>3. CASE v # w /\ pc[v] # "idle"
    <3> DEFINE a == job[v].auth
    <3>1. pc'[v] = pc[v] /\ job'[v] = job[v] /\ a \in Auths /\ WorkerBook(v)
      BY <1>1, <2>3 DEF Quiet, AInv, WorkerBook
    <3>2. pc[v] \in Issuing => late'[a] = late[a]
      BY <1>1, <2>3, <3>1, PaymentSettleAssumption
      DEF Quiet, RowStep, AInv, RowBook, WorkerBook, TypeOK
    <3> QED
      BY <1>1, <2>3, <3>1, <3>2 DEF Quiet, WorkerBook
  <2> QED
    BY <2>1, <2>2, <2>3
<1>2. ASSUME NEW b \in Auths PROVE RowBook(b)'
  <2>1. RowBook(b) /\ RowStep(w, b) /\ RowShape(b)' /\ (chain'[b] = "final" <=> chain[b] = "final")
    BY <1>2 DEF AInv, Quiet
  <2> QED
    BY <1>2, <2>1 DEF RowBook, RowStep, Quiet, AInv, TypeOK, Rows
<1>3. MarkedOnce'
  BY DEF AInv, MarkedOnce, Quiet
<1> QED
  BY <1>1, <1>2, <1>3 DEF AInv

\* A step that changes the chain, the challenges and nothing else, or that
\* leaves the rows and the reservations alone.
LEMMA SameRows ==
    ASSUME AInv, late' = late
    PROVE  \A b \in Auths : RowShape(b)' /\ \A w : RowStep(w, b)
  BY DEF AInv, RowBook, RowShape, RowStep

\* A row moved before a receipt can be in it.
LEMMA CasOpen ==
    ASSUME AInv, NEW a \in Auths, NEW from, from \subseteq {"submitted", "unknown", "confirmed"},
           NEW row \in Rows, CasLate(a, from, row),
           row.state # "none", row.nonce = late[a].nonce, row.jws = late[a].jws
    PROVE  /\ late' \in [Auths -> Rows]
           /\ late'[a] = IF late[a].state \in from THEN row ELSE late[a]
           /\ \A b \in Auths \ {a} : late'[b] = late[b]
           /\ \A b \in Auths : RowShape(b)' /\ \A w : RowStep(w, b)
<1>1. TypeOK /\ RowShape(a) /\ \A b \in Auths \ {a} : RowShape(b)
  BY DEF AInv, RowBook
<1>2. /\ late' \in [Auths -> Rows]
      /\ late'[a] = IF late[a].state \in from THEN row ELSE late[a]
      /\ \A b \in Auths \ {a} : late'[b] = late[b]
  BY <1>1, CasType
<1> QED
  BY <1>1, <1>2 DEF RowShape, RowStep

\* The row remembers that its payment was sent.
LEMMA SentType ==
    ASSUME AInv, NEW w \in Workers, job[w].auth \in Auths, Sent(w)
    PROVE  /\ late' \in [Auths -> Rows]
           /\ late'[job[w].auth] =
                 IF job[w].row /\ late[job[w].auth].state = "submitted"
                 THEN [late[job[w].auth] EXCEPT !.sent = TRUE] ELSE late[job[w].auth]
           /\ \A b \in Auths \ {job[w].auth} : late'[b] = late[b]
           /\ \A b \in Auths : RowShape(b)' /\ \A v : RowStep(v, b)
<1> DEFINE a == job[w].auth
           row == [late[a] EXCEPT !.sent = TRUE]
<1>1. TypeOK /\ late[a] \in Rows
  BY DEF AInv, TypeOK
<1>2. CASE ~job[w].row
  BY <1>1, <1>2, SameRows DEF Sent, TypeOK
<1>3. CASE job[w].row
  <2>1. CASE late[a].state = "none"
    <3>1. late' = late
      BY <1>1, <1>3, <2>1 DEF Sent, CasLate, TypeOK
    <3> QED
      BY <1>1, <2>1, <3>1, SameRows DEF TypeOK
  <2>2. CASE late[a].state # "none"
    <3>1. row \in Rows /\ row.state # "none" /\ row.nonce = late[a].nonce /\ row.jws = late[a].jws
      BY <1>1, <2>2 DEF Rows
    <3>2. CasLate(a, {"submitted"}, row)
      BY <1>3 DEF Sent
    <3> HIDE DEF row
    <3>3. {"submitted"} \subseteq {"submitted", "unknown", "confirmed"}
      OBVIOUS
    <3>4. /\ late' \in [Auths -> Rows]
          /\ late'[a] = IF late[a].state \in {"submitted"} THEN row ELSE late[a]
          /\ \A b \in Auths \ {a} : late'[b] = late[b]
          /\ \A b \in Auths : RowShape(b)' /\ \A v : RowStep(v, b)
      BY <3>1, <3>2, <3>3, CasOpen
    <3> QED
      BY <1>3, <3>4 DEF row
  <2> QED
    BY <2>1, <2>2
<1> QED
  BY <1>2, <1>3

\* A row moved from one of the states before a receipt can be in it to s.
LEMMA CasMove ==
    ASSUME AInv, NEW a \in Auths, NEW from, from \subseteq {"submitted", "unknown", "confirmed"},
           NEW s \in Open \cup Terminal,
           \/ CasLate(a, from, [late[a] EXCEPT !.state = s])
           \/ CasLate(a, from, [late[a] EXCEPT !.state = s, !.sent = TRUE])
           \/ CasLate(a, from, [late[a] EXCEPT !.sent = TRUE, !.state = s])
    PROVE  /\ late' \in [Auths -> Rows]
           /\ late[a].state \notin from => late'[a] = late[a]
           /\ late[a].state \in from => /\ late'[a].state = s /\ late'[a].nonce = late[a].nonce
                                        /\ late[a].sent => late'[a].sent
           /\ \A b \in Auths \ {a} : late'[b] = late[b]
           /\ \A b \in Auths : RowShape(b)' /\ \A w : RowStep(w, b)
<1>1. TypeOK /\ late[a] \in Rows /\ None \in Workers \cup {"dead", None} /\ s # "none"
  BY DEF AInv, TypeOK, Open, Terminal
<1>2. PICK row \in Rows : /\ CasLate(a, from, row) /\ row.state = s
                          /\ row.nonce = late[a].nonce /\ row.jws = late[a].jws
                          /\ late[a].sent => row.sent
  <2> DEFINE p == [late[a] EXCEPT !.state = s]
             q == [late[a] EXCEPT !.state = s, !.sent = TRUE]
  <2>1. /\ p \in Rows /\ p.state = s /\ p.nonce = late[a].nonce /\ p.jws = late[a].jws
        /\ p.sent = late[a].sent
        /\ q \in Rows /\ q.state = s /\ q.nonce = late[a].nonce /\ q.jws = late[a].jws
        /\ q.sent
        /\ [late[a] EXCEPT !.sent = TRUE, !.state = s] = q
    BY <1>1 DEF Rows
  <2>2. CasLate(a, from, p) \/ CasLate(a, from, q)
    BY <2>1
  <2> HIDE DEF p, q
  <2> QED
    BY <2>1, <2>2
<1>3. /\ late' \in [Auths -> Rows]
      /\ late'[a] = IF late[a].state \in from THEN row ELSE late[a]
      /\ \A b \in Auths \ {a} : late'[b] = late[b]
      /\ \A b \in Auths : RowShape(b)' /\ \A w : RowStep(w, b)
  BY <1>1, <1>2, CasOpen
<1> QED
  BY <1>2, <1>3

\* The steps that leave the rows alone, or note that a payment was sent.
LEMMA PlainSteps ==
    ASSUME AInv, NEW w \in Workers,
           \/ CheckPrior(w)
           \/ VerifyFails(w)
           \/ MarkSubmitted(w)
           \/ SettleCall(w)
           \/ SettleSucceeds(w)
           \/ SettleUnclear(w)
           \/ ReserveTx(w)
           \/ Confirm(w)
           \/ MarkSpent(w)
           \/ MarkAuthSpent(w)
           \/ MarkThrows(w)
           \/ ReadPending(w)
    PROVE  AInv'
<1> DEFINE n == job[w].nonce
           a == job[w].auth
<1>0. TypeOK /\ WorkerBook(w)
  BY DEF AInv
<1>1. pc[w] # "idle" /\ n \in Nonces /\ a \in Auths
  BY <1>0 DEF WorkerBook, CheckPrior, VerifyFails, MarkSubmitted, SettleCall, SettleSucceeds, SettleUnclear, ReserveTx, Confirm, MarkSpent, MarkAuthSpent, MarkThrows, ReadPending
<1>2. CASE CheckPrior(w)
  <2>1. \A b \in Auths : RowShape(b)' /\ RowStep(w, b)
    BY <1>2, SameRows DEF CheckPrior, store, TypeOK
  <2>2. TypeOK'
    BY <1>0, <1>1, <1>2, ReleaseType, FinishType, GotoType
    DEF TypeOK, CheckPrior, Inline, Resolver
  <2>3. WorkerBook(w)' /\ (pc'[w] \in Marked => pc[w] \in Marked /\ job'[w].auth = a)
    BY <1>0, <1>1, <1>2, ReleaseType, FinishType, GotoType
    DEF TypeOK, CheckPrior, WorkerBook, Past, Inline, Resolver, Holding, Marked, Issuing, Publishing
  <2>4. Quiet(w)
    BY <1>0, <1>1, <1>2, <2>1, ReleaseType, FinishType, GotoType
    DEF TypeOK, CheckPrior, Quiet, Inline, Resolver
  <2> QED
    BY <2>2, <2>3, <2>4, QuietStep
<1>3. CASE VerifyFails(w)
  <2>1. \A b \in Auths : RowShape(b)' /\ RowStep(w, b)
    BY <1>3, SameRows DEF VerifyFails, store, TypeOK
  <2>2. TypeOK'
    BY <1>0, <1>1, <1>3, ReleaseType, FinishType
    DEF TypeOK, VerifyFails, Inline, Resolver
  <2>3. WorkerBook(w)' /\ (pc'[w] \in Marked => pc[w] \in Marked /\ job'[w].auth = a)
    BY <1>0, <1>1, <1>3, ReleaseType, FinishType
    DEF TypeOK, VerifyFails, WorkerBook, Past, Inline, Resolver, Holding, Marked, Issuing, Publishing
  <2>4. Quiet(w)
    BY <1>0, <1>1, <1>3, <2>1, ReleaseType, FinishType
    DEF TypeOK, VerifyFails, Quiet, Inline, Resolver
  <2> QED
    BY <2>2, <2>3, <2>4, QuietStep
<1>4. CASE MarkSubmitted(w)
  <2>1. \A b \in Auths : RowShape(b)' /\ RowStep(w, b)
    BY <1>4, SameRows DEF MarkSubmitted, store, TypeOK
  <2>2. TypeOK'
    <3>1. challenge' \in [Nonces -> Challenges]
      BY <1>0, <1>1, <1>4 DEF TypeOK, MarkSubmitted, Challenges
    <3> QED
      BY <1>0, <1>1, <1>4, <3>1, GotoType DEF TypeOK, MarkSubmitted, Inline, Resolver
  <2>3. WorkerBook(w)' /\ (pc'[w] \in Marked => pc[w] \in Marked /\ job'[w].auth = a)
    BY <1>0, <1>1, <1>4, GotoType
    DEF TypeOK, MarkSubmitted, WorkerBook, Past, Inline, Resolver, Holding, Marked, Issuing, Publishing, Challenges
  <2>4. Quiet(w)
    BY <1>0, <1>1, <1>4, <2>1, GotoType
    DEF TypeOK, MarkSubmitted, Quiet, Inline, Resolver, Challenges
  <2> QED
    BY <2>2, <2>3, <2>4, QuietStep
<1>5. CASE SettleCall(w)
  <2>1. \A b \in Auths : RowShape(b)' /\ RowStep(w, b)
    BY <1>5, SameRows DEF SettleCall, store, TypeOK
  <2>2. TypeOK'
    BY <1>0, <1>1, <1>5, GotoType
    DEF TypeOK, SettleCall, Inline, Resolver, store
  <2>3. WorkerBook(w)' /\ (pc'[w] \in Marked => pc[w] \in Marked /\ job'[w].auth = a)
    BY <1>0, <1>1, <1>5, GotoType
    DEF TypeOK, SettleCall, WorkerBook, Past, Inline, Resolver, Holding, Marked, Issuing, Publishing, store
  <2>4. Quiet(w)
    BY <1>0, <1>1, <1>5, <2>1, GotoType
    DEF TypeOK, SettleCall, Quiet, Inline, Resolver, store
  <2> QED
    BY <2>2, <2>3, <2>4, QuietStep
<1>6. CASE SettleSucceeds(w)
  <2>1. \A b \in Auths : RowShape(b)' /\ RowStep(w, b)
    BY <1>0, <1>1, <1>6, SentType DEF SettleSucceeds
  <2>2. TypeOK'
    BY <1>0, <1>1, <1>6, GotoType, SentType
    DEF TypeOK, SettleSucceeds, Inline, Resolver
  <2>3. WorkerBook(w)' /\ (pc'[w] \in Marked => pc[w] \in Marked /\ job'[w].auth = a)
    BY <1>0, <1>1, <1>6, GotoType, SentType
    DEF TypeOK, SettleSucceeds, WorkerBook, Past, Inline, Resolver, Holding, Marked, Issuing, Publishing
  <2>4. Quiet(w)
    BY <1>0, <1>1, <1>6, <2>1, GotoType, SentType
    DEF TypeOK, SettleSucceeds, Quiet, Inline, Resolver
  <2> QED
    BY <2>2, <2>3, <2>4, QuietStep
<1>7. CASE SettleUnclear(w)
  <2>1. \A b \in Auths : RowShape(b)' /\ RowStep(w, b)
    BY <1>0, <1>1, <1>7, SentType DEF SettleUnclear
  <2>2. TypeOK'
    BY <1>0, <1>1, <1>7, GotoType, SentType, MarkUnknownType
    DEF TypeOK, SettleUnclear, Inline, Resolver
  <2>3. WorkerBook(w)' /\ (pc'[w] \in Marked => pc[w] \in Marked /\ job'[w].auth = a)
    BY <1>0, <1>1, <1>7, GotoType, SentType, MarkUnknownType
    DEF TypeOK, SettleUnclear, WorkerBook, Past, Inline, Resolver, Holding, Marked, Issuing, Publishing
  <2>4. Quiet(w)
    BY <1>0, <1>1, <1>7, <2>1, GotoType, SentType, MarkUnknownType
    DEF TypeOK, SettleUnclear, Quiet, Inline, Resolver
  <2> QED
    BY <2>2, <2>3, <2>4, QuietStep
<1>8. CASE ReserveTx(w)
  <2>1. /\ reserved' \in [Auths -> Workers \cup {"dead", None}]
        /\ \A b \in Auths, v \in Workers \ {w} : reserved[b] = v => reserved'[b] = v
    BY <1>0, <1>1, <1>8, PaymentSettleAssumption DEF TypeOK, ReserveTx
  <2>2. \/ Finish(w) /\ SpendNonce(n)
        \/ Finish(w) /\ UNCHANGED <<challenge, spent>>
        \/ Goto(w, "confirm") /\ UNCHANGED <<challenge, spent>>
    BY <1>8 DEF ReserveTx
  <2>3. UNCHANGED <<lateIssue, payments, handleless, late, authSpent, txSpent, chain, served, published, faults>>
    BY <1>8 DEF ReserveTx
  <2>4. \A b \in Auths : RowShape(b)' /\ RowStep(w, b)
    BY <1>8, SameRows DEF ReserveTx, store, TypeOK
  <2>5. TypeOK'
    BY <1>0, <1>1, <2>1, <2>2, <2>3, FinishType, GotoType, SpendNonceType
    DEF TypeOK, Inline, Resolver
  <2>6. WorkerBook(w)' /\ (pc'[w] \in Marked => pc[w] \in Marked /\ job'[w].auth = a)
    BY <1>0, <1>1, <1>8, FinishType, GotoType, SpendNonceType
    DEF TypeOK, ReserveTx, WorkerBook, Past, Inline, Resolver, Holding, Marked, Issuing, Publishing
  <2>7. Quiet(w)
    BY <1>0, <1>1, <2>1, <2>2, <2>3, <2>4, FinishType, GotoType, SpendNonceType
    DEF TypeOK, Quiet, Inline, Resolver
  <2> QED
    BY <2>5, <2>6, <2>7, QuietStep
<1>9. CASE Confirm(w)
  <2>1. \A b \in Auths : RowShape(b)' /\ RowStep(w, b)
    BY <1>9, SameRows DEF Confirm, store, TypeOK
  <2>2. TypeOK'
    BY <1>0, <1>1, <1>9, GotoType, MarkUnknownType
    DEF TypeOK, Confirm, Inline, Resolver
  <2>3. WorkerBook(w)' /\ (pc'[w] \in Marked => pc[w] \in Marked /\ job'[w].auth = a)
    BY <1>0, <1>1, <1>9, GotoType, MarkUnknownType
    DEF TypeOK, Confirm, WorkerBook, Past, Inline, Resolver, Holding, Marked, Issuing, Publishing
  <2>4. Quiet(w)
    BY <1>0, <1>1, <1>9, <2>1, GotoType, MarkUnknownType
    DEF TypeOK, Confirm, Quiet, Inline, Resolver
  <2> QED
    BY <2>2, <2>3, <2>4, QuietStep
<1>10. CASE MarkSpent(w)
  <2>1. \A b \in Auths : RowShape(b)' /\ RowStep(w, b)
    BY <1>10, SameRows DEF MarkSpent, store, TypeOK
  <2>2. TypeOK'
    BY <1>0, <1>1, <1>10, GotoType, SpendNonceType
    DEF TypeOK, MarkSpent, Inline, Resolver
  <2>3. WorkerBook(w)' /\ (pc'[w] \in Marked => pc[w] \in Marked /\ job'[w].auth = a)
    BY <1>0, <1>1, <1>10, GotoType, SpendNonceType
    DEF TypeOK, MarkSpent, WorkerBook, Past, Inline, Resolver, Holding, Marked, Issuing, Publishing
  <2>4. Quiet(w)
    BY <1>0, <1>1, <1>10, <2>1, GotoType, SpendNonceType
    DEF TypeOK, MarkSpent, Quiet, Inline, Resolver
  <2> QED
    BY <2>2, <2>3, <2>4, QuietStep
<1>11. CASE MarkAuthSpent(w)
  <2>1. \A b \in Auths : RowShape(b)' /\ RowStep(w, b)
    BY <1>11, SameRows DEF MarkAuthSpent, store, TypeOK
  <2>2. TypeOK'
    BY <1>0, <1>1, <1>11, GotoType
    DEF TypeOK, MarkAuthSpent, Inline, Resolver
  <2>3. WorkerBook(w)' /\ (pc'[w] \in Marked => pc[w] \in Marked /\ job'[w].auth = a)
    BY <1>0, <1>1, <1>11, GotoType
    DEF TypeOK, MarkAuthSpent, WorkerBook, Past, Inline, Resolver, Holding, Marked, Issuing, Publishing
  <2>4. Quiet(w)
    BY <1>0, <1>1, <1>11, <2>1, GotoType
    DEF TypeOK, MarkAuthSpent, Quiet, Inline, Resolver
  <2> QED
    BY <2>2, <2>3, <2>4, QuietStep
<1>12. CASE MarkThrows(w)
  <2>1. \A b \in Auths : RowShape(b)' /\ RowStep(w, b)
    BY <1>12, SameRows DEF MarkThrows, store, TypeOK
  <2>2. TypeOK'
    BY <1>0, <1>1, <1>12, GotoType, MarkUnknownType, FaultType
    DEF TypeOK, MarkThrows, Inline, Resolver
  <2>3. WorkerBook(w)' /\ (pc'[w] \in Marked => pc[w] \in Marked /\ job'[w].auth = a)
    BY <1>0, <1>1, <1>12, GotoType, MarkUnknownType, FaultType
    DEF TypeOK, MarkThrows, WorkerBook, Past, Inline, Resolver, Holding, Marked, Issuing, Publishing
  <2>4. Quiet(w)
    BY <1>0, <1>1, <1>12, <2>1, GotoType, MarkUnknownType, FaultType
    DEF TypeOK, MarkThrows, Quiet, Inline, Resolver
  <2> QED
    BY <2>2, <2>3, <2>4, QuietStep
<1>13. CASE ReadPending(w)
  <2>1. \A b \in Auths : RowShape(b)' /\ RowStep(w, b)
    BY <1>13, SameRows DEF ReadPending, store, TypeOK
  <2>2. TypeOK'
    BY <1>0, <1>1, <1>13, FinishType, FaultType
    DEF TypeOK, ReadPending, Inline, Resolver, store
  <2>3. WorkerBook(w)' /\ (pc'[w] \in Marked => pc[w] \in Marked /\ job'[w].auth = a)
    BY <1>0, <1>1, <1>13, FinishType, FaultType
    DEF TypeOK, ReadPending, WorkerBook, Past, Inline, Resolver, Holding, Marked, Issuing, Publishing, store
  <2>4. Quiet(w)
    BY <1>0, <1>1, <1>13, <2>1, FinishType, FaultType
    DEF TypeOK, ReadPending, Quiet, Inline, Resolver, store
  <2> QED
    BY <2>2, <2>3, <2>4, QuietStep
<1> QED
  BY <1>2, <1>3, <1>4, <1>5, <1>6, <1>7, <1>8, <1>9, <1>10, <1>11, <1>12, <1>13

\* A payment is admitted: its row is opened, used again, or not needed.
LEMMA AdmitStep ==
    ASSUME AInv, NEW w \in Workers, Admit(w)
    PROVE  AInv'
<1> DEFINE n == job[w].nonce
           a == job[w].auth
           opened == [NoRow EXCEPT !.state = "submitted", !.nonce = n]
<1>0. TypeOK /\ WorkerBook(w) /\ pc[w] = "verify" /\ n \in Nonces /\ a \in Auths /\ RowShape(a)
  BY DEF AInv, WorkerBook, Admit, RowBook
<1>1. opened \in Rows /\ opened.state = "submitted" /\ opened.nonce = n /\ opened.jws = 0
  BY <1>0 DEF NoRow, Rows, Open
<1> HIDE DEF opened
<1>2. late' = late \/ (late[a] = NoRow /\ late' = [late EXCEPT ![a] = opened])
  BY DEF Admit, opened
<1>3. late' \in [Auths -> Rows] /\ \A b \in Auths : RowShape(b)' /\ RowStep(w, b)
  <2>1. CASE late' = late
    BY <1>0, <2>1, SameRows DEF TypeOK
  <2>2. CASE late[a] = NoRow /\ late' = [late EXCEPT ![a] = opened]
    <3>1. late' \in [Auths -> Rows] /\ late'[a] = opened /\ \A b \in Auths \ {a} : late'[b] = late[b]
      BY <1>0, <1>1, <2>2 DEF TypeOK
    <3>2. late[a].state = "none" /\ late[a].jws = 0
      BY <2>2 DEF NoRow
    <3> QED
      BY <1>0, <1>1, <3>1, <3>2 DEF RowShape, RowStep, AInv, RowBook
  <2> QED
    BY <1>2, <2>1, <2>2
<1>4. challenge' \in [Nonces -> Challenges]
  <2>1. CASE Release(n)
    BY <1>0, <2>1, ReleaseType
  <2>2. CASE challenge' = [challenge EXCEPT ![n].hash = IF challenge[n].state = "claimed" THEN a ELSE @]
    BY <1>0, <2>2 DEF TypeOK, Challenges
  <2> QED
    BY <2>1, <2>2 DEF Admit
<1>5. /\ pc' \in [Workers -> Inline \cup Resolver \cup {"idle"}] /\ job' \in [Workers -> Jobs]
      /\ pc'[w] \in {"idle", "mark", "settle"} /\ (pc'[w] # "idle" => job'[w].nonce = n /\ job'[w].auth = a)
      /\ \A v \in Workers \ {w} : pc'[v] = pc[v] /\ job'[v] = job[v]
  <2>1. CASE Goto(w, "settle")
    BY <1>0, <2>1, GotoType DEF Inline
  <2>2. CASE Finish(w)
    BY <1>0, <2>2, FinishType
  <2>3. CASE pc' = [pc EXCEPT ![w] = "mark"] /\ job' = [job EXCEPT ![w].row = TRUE]
    <3>1. [job[w] EXCEPT !.row = TRUE] \in Jobs
      BY <1>0 DEF TypeOK, Jobs
    <3>2. /\ [job[w] EXCEPT !.row = TRUE].nonce = n /\ [job[w] EXCEPT !.row = TRUE].auth = a
          /\ job' = [job EXCEPT ![w] = [job[w] EXCEPT !.row = TRUE]]
      BY <1>0, <2>3 DEF TypeOK, Jobs
    <3>3. /\ pc' \in [Workers -> Inline \cup Resolver \cup {"idle"}] /\ pc'[w] = "mark"
          /\ \A v \in Workers \ {w} : pc'[v] = pc[v]
      BY <1>0, <2>3 DEF TypeOK, Inline
    <3> QED
      BY <1>0, <3>1, <3>2, <3>3 DEF TypeOK
  <2> QED
    BY <2>1, <2>2, <2>3 DEF Admit
<1>6. /\ UNCHANGED <<lateIssue, payments, handleless, spent, authSpent, txSpent, reserved, chain,
                     served, published, faults>>
      /\ chain[a] # "final"
  BY DEF Admit
<1>7. TypeOK'
  BY <1>0, <1>3, <1>4, <1>5, <1>6 DEF TypeOK
<1>8. Quiet(w)
  BY <1>3, <1>5, <1>6 DEF Quiet
<1>9. WorkerBook(w)' /\ pc'[w] \notin Marked
  BY <1>0, <1>5, <1>6 DEF WorkerBook, Past, Inline, Resolver, Holding, Marked, Issuing, Publishing
<1> QED
  BY <1>7, <1>8, <1>9, QuietStep

\* A payment that was not sent: its row may be dropped.
LEMMA SettleNotSentStep ==
    ASSUME AInv, NEW w \in Workers, SettleNotSent(w)
    PROVE  AInv'
<1> DEFINE n == job[w].nonce
           a == job[w].auth
<1>0. TypeOK /\ WorkerBook(w) /\ pc[w] = "settle" /\ n \in Nonces /\ a \in Auths
  BY DEF AInv, WorkerBook, SettleNotSent
<1>1. late' = late \/ (late[a].state = "submitted" /\ late' = [late EXCEPT ![a] = NoRow])
  BY DEF SettleNotSent
<1>2. late' \in [Auths -> Rows] /\ \A b \in Auths : RowShape(b)' /\ RowStep(w, b)
  <2>1. CASE late' = late
    BY <1>0, <2>1, SameRows DEF TypeOK
  <2>2. CASE late[a].state = "submitted" /\ late' = [late EXCEPT ![a] = NoRow]
    <3>1. NoRow \in Rows /\ NoRow.state = "none" /\ NoRow.jws = 0
      BY DEF NoRow, Rows
    <3>2. late' \in [Auths -> Rows] /\ late'[a] = NoRow /\ \A b \in Auths \ {a} : late'[b] = late[b]
      BY <1>0, <2>2, <3>1 DEF TypeOK
    <3>3. late[a].jws = 0
      BY <1>0, <2>2 DEF AInv, RowBook, TypeOK
    <3> QED
      BY <1>0, <2>2, <3>1, <3>2, <3>3 DEF RowShape, RowStep, AInv, RowBook
  <2> QED
    BY <1>1, <2>1, <2>2
<1>3. challenge' \in [Nonces -> Challenges]
  BY <1>0, BackType DEF SettleNotSent, TypeOK
<1>4. /\ Finish(w)
      /\ UNCHANGED <<lateIssue, payments, handleless, spent, authSpent, txSpent, reserved, chain,
                     served, published, faults>>
  BY DEF SettleNotSent
<1>5. TypeOK' /\ Quiet(w)
  BY <1>0, <1>2, <1>3, <1>4, FinishType DEF TypeOK, Quiet
<1>6. WorkerBook(w)' /\ pc'[w] \notin Marked
  BY <1>0, <1>4, FinishType
  DEF WorkerBook, Past, Inline, Resolver, Holding, Marked, Issuing, Publishing
<1> QED
  BY <1>5, <1>6, QuietStep

\* The facilitator refuses.
LEMMA SettleRefusedStep ==
    ASSUME AInv, NEW w \in Workers, SettleRefused(w)
    PROVE  AInv'
<1> DEFINE n == job[w].nonce
           a == job[w].auth
           open == {"submitted", "unknown", "confirmed"}
<1>0. TypeOK /\ WorkerBook(w) /\ pc[w] = "await" /\ n \in Nonces /\ a \in Auths /\ challenge[n] \in Challenges
  BY DEF AInv, WorkerBook, SettleRefused, TypeOK
<1>1. late' \in [Auths -> Rows] /\ \A b \in Auths : RowShape(b)' /\ RowStep(w, b)
  <2>1. CASE late' = late
    BY <1>0, <2>1, SameRows DEF TypeOK
  <2>2. CASE CasLate(a, open, [late[a] EXCEPT !.state = "unknown", !.sent = TRUE])
    BY <1>0, <2>2, CasMove DEF Open
  <2>3. CASE Sent(w)
    BY <1>0, <2>3, SentType
  <2> QED
    BY <2>1, <2>2, <2>3 DEF SettleRefused
<1>2. challenge' \in [Nonces -> Challenges]
  <2>1. CASE MarkUnknown(n)
    BY <1>0, <2>1, MarkUnknownType
  <2>2. ASSUME NEW from, challenge' = [challenge EXCEPT ![n] = Back(@, from)]
        PROVE  challenge' \in [Nonces -> Challenges]
    BY <1>0, <2>2, BackType DEF TypeOK
  <2>3. ASSUME NEW from, challenge' = [challenge EXCEPT ![n] = WithHandle(Back(@, from), a)]
        PROVE  challenge' \in [Nonces -> Challenges]
    BY <1>0, <2>3, BackType, HandleType DEF TypeOK
  <2>4. \/ MarkUnknown(n)
        \/ challenge' = [challenge EXCEPT ![n] = Back(@, "submitted")]
        \/ challenge' = [challenge EXCEPT ![n] = WithHandle(Back(@, "submitted"), a)]
        \/ challenge' = [challenge EXCEPT ![n] = WithHandle(Back(@, "claimed"), a)]
    BY DEF SettleRefused
  <2> QED
    BY <2>1, <2>2, <2>3, <2>4
<1>3. /\ Finish(w) \/ Goto(w, "hold")
      /\ UNCHANGED <<lateIssue, payments, spent, authSpent, txSpent, reserved, chain,
                     served, published, faults>>
      /\ handleless' \in {handleless, handleless \cup {<<n, a>>}}
  BY DEF SettleRefused
<1>t. handleless' \subseteq Nonces \X Auths
  BY <1>0, <1>3 DEF TypeOK
<1>4. TypeOK' /\ Quiet(w)
  BY <1>0, <1>1, <1>2, <1>3, <1>t, FinishType, GotoType DEF TypeOK, Quiet, Inline
<1>5. WorkerBook(w)' /\ pc'[w] \notin Marked
  BY <1>0, <1>3, FinishType, GotoType
  DEF WorkerBook, Past, Inline, Resolver, Holding, Marked, Issuing, Publishing
<1> QED
  BY <1>4, <1>5, QuietStep

\* The row of a payment in doubt is moved, and its reservation given up.
LEMMA HoldRowStep ==
    ASSUME AInv, NEW w \in Workers, HoldRow(w)
    PROVE  AInv'
<1> DEFINE n == job[w].nonce
           a == job[w].auth
           open == {"submitted", "unknown", "confirmed"}
<1>0. TypeOK /\ n \in Nonces /\ a \in Auths /\ challenge[n] \in Challenges
  BY DEF AInv, WorkerBook, HoldRow, TypeOK
<1>1. late' \in [Auths -> Rows] /\ \A b \in Auths : RowShape(b)' /\ RowStep(w, b)
  <2>1. CASE late' = late
    BY <1>0, <2>1, SameRows DEF TypeOK
  <2>2. ASSUME NEW s \in {"unknown", "held"},
               CasLate(a, open, [late[a] EXCEPT !.sent = TRUE, !.state = s])
        PROVE  late' \in [Auths -> Rows] /\ \A b \in Auths : RowShape(b)' /\ RowStep(w, b)
    BY <1>0, <2>2, CasMove DEF Open, Terminal
  <2>3. \/ late' = late
        \/ \E s \in {"unknown", "held"} :
              CasLate(a, open, [late[a] EXCEPT !.sent = TRUE, !.state = s])
    BY DEF HoldRow
  <2> QED
    BY <2>1, <2>2, <2>3
<1>2. challenge' \in [Nonces -> Challenges]
  BY <1>0, HandleType DEF TypeOK, HoldRow
<1>3. /\ Finish(w) /\ reserved' = Unreserved(w, a)
      /\ UNCHANGED <<lateIssue, payments, handleless, spent, authSpent, txSpent, chain, served, published, faults>>
  BY DEF HoldRow
<1>4. TypeOK' /\ Quiet(w)
  BY <1>0, <1>1, <1>2, <1>3, FinishType, UnreservedType DEF TypeOK, Quiet
<1>5. WorkerBook(w)' /\ pc'[w] \notin Marked
  BY <1>0, <1>3, FinishType
  DEF WorkerBook, Past, Inline, Resolver, Holding, Marked, Issuing, Publishing
<1> QED
  BY <1>4, <1>5, QuietStep

\* What the resolver makes of its reading of the chain.
LEMMA ReadSteps ==
    ASSUME AInv, NEW w \in Workers, ReadMatches(w) \/ ReadCloses(w)
    PROVE  AInv'
<1> DEFINE a == job[w].auth
           open == {"submitted", "unknown", "confirmed"}
<1>0. TypeOK /\ job[w].nonce \in Nonces /\ a \in Auths
  BY DEF AInv, WorkerBook, ReadMatches, ReadCloses
<1>1. late' \in [Auths -> Rows] /\ \A b \in Auths : RowShape(b)' /\ RowStep(w, b)
  <2>1. CASE late' = late
    BY <1>0, <2>1, SameRows DEF TypeOK
  <2>2. ASSUME NEW from, from \subseteq open, NEW s \in {"confirmed", "not_settled", "held"},
               CasLate(a, from, [late[a] EXCEPT !.state = s])
        PROVE  late' \in [Auths -> Rows] /\ \A b \in Auths : RowShape(b)' /\ RowStep(w, b)
    BY <1>0, <2>2, CasMove DEF Open, Terminal
  <2>3. \/ late' = late
        \/ CasLate(a, {"unknown"}, [late[a] EXCEPT !.state = "confirmed"])
        \/ CasLate(a, open, [late[a] EXCEPT !.state = "not_settled"])
        \/ CasLate(a, open, [late[a] EXCEPT !.state = "held"])
    BY DEF ReadMatches, ReadCloses
  <2>4. {"unknown"} \subseteq open /\ open \subseteq open
    OBVIOUS
  <2> HIDE DEF open
  <2> QED
    BY <2>1, <2>2, <2>3, <2>4
<1>2. /\ Finish(w) \/ (Goto(w, "guard") /\ chain[a] = "final")
      /\ Fault \/ UNCHANGED faults
      /\ UNCHANGED <<lateIssue, payments, handleless, challenge, spent, authSpent, txSpent, reserved, chain,
                     served, published>>
  BY DEF ReadMatches, ReadCloses
<1>3. TypeOK' /\ Quiet(w)
  BY <1>0, <1>1, <1>2, FinishType, GotoType, FaultType DEF TypeOK, Quiet, Resolver
<1>4. WorkerBook(w)' /\ pc'[w] \notin Marked
  BY <1>0, <1>2, FinishType, GotoType
  DEF WorkerBook, Past, Inline, Resolver, Holding, Marked, Issuing, Publishing
<1> QED
  BY <1>3, <1>4, QuietStep

\* One resolver gets the row.
LEMMA GuardStep ==
    ASSUME AInv, NEW w \in Workers, Guard(w)
    PROVE  AInv'
<1> DEFINE a == job[w].auth
           row == [late[a] EXCEPT !.state = "issuing", !.owner = w]
<1>0. /\ TypeOK /\ WorkerBook(w) /\ pc[w] = "guard" /\ job[w].nonce \in Nonces /\ a \in Auths
      /\ late[a] \in Rows /\ RowBook(a) /\ chain[a] = "final"
  BY DEF AInv, WorkerBook, Guard, TypeOK, Resolver
<1>1. /\ row \in Rows /\ row.state = "issuing" /\ row.owner = w
      /\ row.nonce = late[a].nonce /\ row.jws = late[a].jws
  BY <1>0 DEF Rows, Open
<1>2. UNCHANGED <<lateIssue, payments, handleless, challenge, spent, authSpent, txSpent, reserved, chain,
                  served, published>>
  BY DEF Guard
<1>3. CASE /\ Fault /\ Finish(w)
           /\ CasLate(a, {"confirmed"}, [late[a] EXCEPT !.state = "unknown"])
  <2>0. {"confirmed"} \subseteq {"submitted", "unknown", "confirmed"} /\ "unknown" \in Open \cup Terminal
    BY DEF Open
  <2>1. late' \in [Auths -> Rows] /\ \A b \in Auths : RowShape(b)' /\ RowStep(w, b)
    BY <1>0, <1>3, <2>0, CasMove
  <2>2. TypeOK' /\ Quiet(w)
    BY <1>0, <1>2, <1>3, <2>1, FinishType, FaultType DEF TypeOK, Quiet
  <2>3. WorkerBook(w)' /\ pc'[w] \notin Marked
    BY <1>0, <1>3, FinishType
    DEF WorkerBook, Past, Inline, Resolver, Holding, Marked, Issuing, Publishing
  <2> QED
    BY <2>2, <2>3, QuietStep
<1>4. CASE /\ UNCHANGED faults /\ CasLate(a, {"confirmed"}, row)
           /\ IF late[a].state = "confirmed" THEN Goto(w, "lateReserve") ELSE Finish(w)
  <2> HIDE DEF row
  <2>0. {"confirmed"} \subseteq {"submitted", "unknown", "confirmed"} /\ row.state # "none"
    BY <1>1
  <2>1. /\ late' \in [Auths -> Rows] /\ \A b \in Auths : RowShape(b)' /\ RowStep(w, b)
        /\ late'[a] = IF late[a].state \in {"confirmed"} THEN row ELSE late[a]
    BY <1>0, <1>1, <1>4, <2>0, CasOpen
  <2>2. TypeOK' /\ Quiet(w)
    BY <1>0, <1>2, <1>4, <2>1, FinishType, GotoType DEF TypeOK, Quiet, Resolver
  <2>3. late[a].state = "confirmed" => published[a] = 0
    BY <1>0 DEF RowBook, TypeOK
  <2>4. WorkerBook(w)' /\ pc'[w] \notin Marked
    BY <1>0, <1>1, <1>2, <1>4, <2>1, <2>3, FinishType, GotoType
    DEF WorkerBook, Past, Inline, Resolver, Holding, Marked, Issuing, Publishing
  <2> QED
    BY <2>2, <2>4, QuietStep
<1> QED
  BY <1>3, <1>4 DEF Guard

\* A request claims a nonce; a resolver takes up a row.
LEMMA ClaimStep ==
    ASSUME AInv, NEW w \in Workers, NEW p \in payments, Claim(w, p[1], p[2])
    PROVE  AInv'
<1> DEFINE mine == [NoJob EXCEPT !.nonce = p[1], !.auth = p[2]]
<1>0. TypeOK /\ p[1] \in Nonces /\ p[2] \in Auths
  BY DEF AInv, TypeOK
<1>1. mine \in Jobs /\ mine.nonce = p[1] /\ mine.auth = p[2]
  BY <1>0 DEF NoJob, Jobs
<1>2. /\ pc' = [pc EXCEPT ![w] = "claimed"] /\ job' = [job EXCEPT ![w] = mine]
      /\ challenge' = [challenge EXCEPT ![p[1]].state = "claimed"]
      /\ UNCHANGED <<lateIssue, payments, handleless, spent, late, authSpent, txSpent, reserved, chain,
                     served, published, faults>>
  BY DEF Claim
<1> HIDE DEF mine
<1>3. challenge' \in [Nonces -> Challenges]
  BY <1>0, <1>2 DEF TypeOK, Challenges
<1>4. /\ pc' \in [Workers -> Inline \cup Resolver \cup {"idle"}] /\ job' \in [Workers -> Jobs]
      /\ pc'[w] = "claimed" /\ job'[w] = mine
      /\ \A v \in Workers \ {w} : pc'[v] = pc[v] /\ job'[v] = job[v]
  BY <1>0, <1>1, <1>2 DEF TypeOK, Inline
<1>5. TypeOK'
  BY <1>0, <1>2, <1>3, <1>4 DEF TypeOK
<1>6. Quiet(w)
  BY <1>2, <1>4, SameRows DEF Quiet
<1>7. WorkerBook(w)' /\ pc'[w] \notin Marked
  BY <1>0, <1>1, <1>4
  DEF WorkerBook, Past, Inline, Resolver, Holding, Marked, Issuing, Publishing
<1> QED
  BY <1>5, <1>6, <1>7, QuietStep

\* A resolver takes up an open row, and goes on from the receipt of one being issued.
LEMMA ResolveStep ==
    ASSUME AInv, NEW w \in Workers, NEW a \in Auths, Resolve(w, a)
    PROVE  AInv'
<1> DEFINE mine == [NoJob EXCEPT !.nonce = late[a].nonce, !.auth = a, !.seen = late'[a].state]
<1>0. TypeOK /\ late[a] \in Rows /\ RowBook(a) /\ RowShape(a)
  BY DEF AInv, TypeOK, RowBook
<1>1. late[a].state # "none" /\ late[a].nonce \in Nonces
  BY <1>0 DEF RowShape, Resolve
<1>2. /\ late' \in [Auths -> Rows]
      /\ \A b \in Auths : RowShape(b)' /\ RowStep(w, b)
  <2>1. CASE CasLate(a, {"submitted"}, [late[a] EXCEPT !.state = "unknown"])
    <3>1. {"submitted"} \subseteq {"submitted", "unknown", "confirmed"} /\ "unknown" \in Open \cup Terminal
      BY DEF Open
    <3> QED
      BY <2>1, <3>1, CasMove
  <2>2. CASE late' = late
    BY <1>0, <2>2, SameRows DEF TypeOK
  <2>3. CASE /\ late[a].state = "issuing" /\ late[a].jws = 0 /\ ~LeaseLive(a)
             /\ late' = [late EXCEPT ![a].state = "confirmed"]
    <3> DEFINE row == [late[a] EXCEPT !.state = "confirmed"]
    <3>1. row \in Rows /\ row.state = "confirmed" /\ row.jws = 0 /\ row.nonce = late[a].nonce
      BY <1>0, <2>3 DEF Rows, Open
    <3>2. late' = [late EXCEPT ![a] = row]
      BY <1>0, <2>3 DEF TypeOK
    <3> HIDE DEF row
    <3>3. late' \in [Auths -> Rows] /\ late'[a] = row /\ \A b \in Auths \ {a} : late'[b] = late[b]
      BY <1>0, <3>1, <3>2 DEF TypeOK
    <3> QED
      BY <1>0, <1>1, <2>3, <3>1, <3>3 DEF AInv, RowBook, RowShape, RowStep, LeaseLive
  <2> QED
    BY <2>1, <2>2, <2>3 DEF Resolve
<1>3. /\ mine \in Jobs /\ mine.nonce = late[a].nonce /\ mine.auth = a
      /\ mine.seen = late'[a].state
  BY <1>0, <1>1, <1>2 DEF NoJob, Jobs, Rows
<1>4. /\ job' = [job EXCEPT ![w] = mine]
      /\ \/ pc' = [pc EXCEPT ![w] = "read"]
         \/ /\ pc' = [pc EXCEPT ![w] = "publish"] /\ late' = late
            /\ late[a].state = "issuing" /\ late[a].jws # 0
      /\ UNCHANGED <<lateIssue, payments, handleless, challenge, spent, authSpent, txSpent, reserved, chain,
                     served, published, faults>>
  BY DEF Resolve
<1> HIDE DEF mine
<1>5. /\ pc' \in [Workers -> Inline \cup Resolver \cup {"idle"}] /\ job' \in [Workers -> Jobs]
      /\ pc'[w] \in {"read", "publish"} /\ job'[w] = mine
      /\ pc'[w] = "publish" => late' = late /\ late[a].state = "issuing" /\ late[a].jws # 0
      /\ \A v \in Workers \ {w} : pc'[v] = pc[v] /\ job'[v] = job[v]
  BY <1>0, <1>3, <1>4 DEF TypeOK, Resolver
<1>6. TypeOK'
  BY <1>0, <1>2, <1>4, <1>5 DEF TypeOK
<1>7. Quiet(w)
  BY <1>2, <1>4, <1>5 DEF Quiet
<1>8. WorkerBook(w)' /\ pc'[w] \notin Marked
  BY <1>0, <1>1, <1>3, <1>4, <1>5
  DEF WorkerBook, RowBook, Past, Inline, Resolver, Holding, Marked, Issuing, Publishing
<1> QED
  BY <1>6, <1>7, <1>8, QuietStep

\* A row that is being issued and has no receipt is moved by the resolver
\* that owns it.
LEMMA CasOwned ==
    ASSUME AInv, NEW a \in Auths, NEW w \in Workers, NEW row \in Rows,
           late[a].state = "issuing", late[a].owner = w, published[a] = 0,
           CasLate(a, {"issuing"}, row),
           row.state # "none", row.nonce = late[a].nonce, row.jws = 0
    PROVE  /\ late' \in [Auths -> Rows] /\ late'[a] = row
           /\ \A b \in Auths \ {a} : late'[b] = late[b]
           /\ \A b \in Auths : RowShape(b)' /\ RowStep(w, b)
<1>1. TypeOK /\ RowShape(a) /\ late[a].jws = 0 /\ \A b \in Auths \ {a} : RowShape(b)
  BY DEF AInv, RowBook
<1>2. late' \in [Auths -> Rows] /\ late'[a] = row /\ \A b \in Auths \ {a} : late'[b] = late[b]
  BY <1>1, CasType
<1> QED
  BY <1>1, <1>2 DEF RowShape, RowStep

\* The resolver reserves the transfer, or gives the row up.
LEMMA LateReserveStep ==
    ASSUME AInv, NEW w \in Workers, LateReserve(w)
    PROVE  AInv'
<1> DEFINE a == job[w].auth
           done == [late[a] EXCEPT !.state = "issued"]
           back == [late[a] EXCEPT !.state = "confirmed", !.owner = None]
<1>0. /\ TypeOK /\ WorkerBook(w) /\ pc[w] = "lateReserve" /\ job[w].nonce \in Nonces /\ a \in Auths
      /\ late[a] \in Rows /\ late[a].state = "issuing" /\ late[a].owner = w /\ published[a] = 0
      /\ late[a].jws = 0 /\ chain[a] = "final"
  BY DEF AInv, WorkerBook, RowBook, LateReserve, TypeOK, Resolver, Issuing
<1>1. /\ done \in Rows /\ done.state # "none" /\ done.nonce = late[a].nonce /\ done.jws = 0
      /\ back \in Rows /\ back.state # "none" /\ back.nonce = late[a].nonce /\ back.jws = 0
  BY <1>0 DEF Rows, Open, Terminal
<1>2. /\ \/ /\ a \notin txSpent /\ reserved[a] = None /\ reserved' = [reserved EXCEPT ![a] = w]
            /\ Goto(w, "sign") /\ late' = late
         \/ /\ CasLate(a, {"issuing"}, done) \/ CasLate(a, {"issuing"}, back)
            /\ Finish(w) /\ reserved' = reserved
      /\ UNCHANGED <<lateIssue, payments, handleless, challenge, spent, authSpent, txSpent, chain,
                     served, published, faults>>
  BY DEF LateReserve
<1> HIDE DEF done, back
<1>3. late' \in [Auths -> Rows] /\ \A b \in Auths : RowShape(b)' /\ RowStep(w, b)
  <2>1. CASE late' = late
    BY <1>0, <2>1, SameRows DEF TypeOK
  <2>2. CASE CasLate(a, {"issuing"}, done)
    BY <1>0, <1>1, <2>2, CasOwned
  <2>3. CASE CasLate(a, {"issuing"}, back)
    BY <1>0, <1>1, <2>3, CasOwned
  <2> QED
    BY <1>2, <2>1, <2>2, <2>3
<1>4. /\ reserved' \in [Auths -> Workers \cup {"dead", None}]
      /\ \A v \in Workers \ {w} : \A b \in Auths : reserved[b] = v => reserved'[b] = v
      /\ pc'[w] = "sign" => reserved'[a] = w
  <2>1. CASE reserved' = reserved /\ Finish(w)
    BY <1>0, <2>1, FinishType DEF TypeOK
  <2>2. CASE reserved[a] = None /\ reserved' = [reserved EXCEPT ![a] = w]
    BY <1>0, <2>2, PaymentSettleAssumption DEF TypeOK
  <2> QED
    BY <1>2, <2>1, <2>2
<1>5. /\ (Goto(w, "sign") /\ a \notin txSpent /\ late' = late) \/ Finish(w)
      /\ UNCHANGED <<lateIssue, payments, handleless, challenge, spent, authSpent, txSpent, chain,
                     served, published, faults>>
  BY <1>2
<1>6. TypeOK' /\ Quiet(w)
  BY <1>0, <1>3, <1>4, <1>5, FinishType, GotoType DEF TypeOK, Quiet, Resolver
<1>7. WorkerBook(w)' /\ pc'[w] \notin Marked
  BY <1>0, <1>4, <1>5, FinishType, GotoType
  DEF WorkerBook, Past, Inline, Resolver, Holding, Marked, Issuing, Publishing
<1> QED
  BY <1>6, <1>7, QuietStep

\* The receipt is signed: the payment was not served, for its transfer is
\* reserved and not spent, and its row had no receipt.
LEMMA SignStep ==
    ASSUME AInv, NEW w \in Workers, Sign(w)
    PROVE  AInv'
<1> DEFINE a == job[w].auth
           row == [late[a] EXCEPT !.jws = published[a] + 1]
           back == [late[a] EXCEPT !.state = "confirmed", !.owner = None, !.jws = 0]
           mine == [job[w] EXCEPT !.seen = "issuing"]
<1>0. /\ TypeOK /\ WorkerBook(w) /\ pc[w] = "sign" /\ job[w].nonce \in Nonces /\ a \in Auths
      /\ late[a] \in Rows /\ late[a].state = "issuing" /\ late[a].owner = w /\ published[a] = 0
      /\ late[a].jws = 0 /\ chain[a] = "final" /\ reserved[a] = w /\ a \notin txSpent
      /\ RowShape(a)
  BY DEF AInv, WorkerBook, RowBook, Sign, TypeOK, Resolver, Issuing, Holding
<1>1. served[a] = 0
  BY <1>0 DEF AInv, RowBook, TypeOK
<1>2. /\ row \in Rows /\ row.state = "issuing" /\ row.owner = w /\ row.jws = 1
      /\ row.nonce = late[a].nonce
      /\ back \in Rows /\ back.state # "none" /\ back.nonce = late[a].nonce /\ back.jws = 0
  <2>1. published[a] + 1 = 1
    BY <1>0
  <2>2. /\ row \in Rows /\ row.state = "issuing" /\ row.owner = w /\ row.jws = 1
        /\ row.nonce = late[a].nonce
    BY <1>0, <2>1 DEF Rows
  <2>3. back \in Rows /\ back.state # "none" /\ back.nonce = late[a].nonce /\ back.jws = 0
    BY <1>0 DEF Rows, Open
  <2> QED
    BY <2>2, <2>3
<1>3. mine \in Jobs /\ mine.nonce = job[w].nonce /\ mine.auth = a /\ mine.seen = "issuing"
  BY <1>0 DEF TypeOK, Jobs, Open
<1>4. CASE /\ late' = [late EXCEPT ![a].jws = published[a] + 1]
           /\ published' = [published EXCEPT ![a] = @ + 1]
           /\ pc' = [pc EXCEPT ![w] = "publish"]
           /\ job' = [job EXCEPT ![w].seen = "issuing"]
           /\ UNCHANGED <<reserved, faults>>
  <2>1. late' = [late EXCEPT ![a] = row] /\ job' = [job EXCEPT ![w] = mine]
    BY <1>0, <1>4 DEF TypeOK
  <2> HIDE DEF row, mine
  <2>2. late' \in [Auths -> Rows] /\ late'[a] = row /\ \A b \in Auths \ {a} : late'[b] = late[b]
    BY <1>0, <1>2, <2>1 DEF TypeOK
  <2>3. /\ pc' \in [Workers -> Inline \cup Resolver \cup {"idle"}] /\ job' \in [Workers -> Jobs]
        /\ pc'[w] = "publish" /\ job'[w] = mine
        /\ \A v \in Workers \ {w} : pc'[v] = pc[v] /\ job'[v] = job[v]
    BY <1>0, <1>3, <1>4, <2>1 DEF TypeOK, Resolver
  <2>4. /\ published' \in [Auths -> Nat] /\ published'[a] = 1
        /\ \A b \in Auths \ {a} : published'[b] = published[b]
    BY <1>0, <1>4 DEF TypeOK
  <2>5. UNCHANGED <<lateIssue, payments, handleless, challenge, spent, authSpent, txSpent, reserved, chain,
                    served, faults>>
    BY <1>4 DEF Sign
  <2>6. TypeOK'
    BY <1>0, <2>2, <2>3, <2>4, <2>5 DEF TypeOK
  <2>7. WorkerBook(w)'
    BY <1>0, <1>3, <2>3, <2>4, <2>5
    DEF WorkerBook, Past, Inline, Resolver, Holding, Marked, Issuing, Publishing
  <2>8. ASSUME NEW v \in Workers \ {w} PROVE WorkerBook(v)'
    <3>1. WorkerBook(v) /\ pc'[v] = pc[v] /\ job'[v] = job[v]
      BY <2>3 DEF AInv
    <3>2. pc[v] \in Issuing => job[v].auth # a
      BY <1>0, <3>1 DEF WorkerBook
    <3>3. pc[v] \in Issuing \cup Publishing => job[v].auth \in Auths
      BY <3>1 DEF WorkerBook, Issuing, Publishing
    <3> QED
      BY <2>2, <2>4, <2>5, <3>1, <3>2, <3>3 DEF WorkerBook
  <2>9. ASSUME NEW b \in Auths PROVE RowBook(b)'
    BY <1>0, <1>1, <1>2, <2>2, <2>4, <2>5 DEF AInv, RowBook, RowShape
  <2>10. MarkedOnce'
    BY <2>3 DEF AInv, MarkedOnce, Marked
  <2> QED
    BY <2>6, <2>7, <2>8, <2>9, <2>10 DEF AInv
<1>5. CASE /\ Fault /\ CasLate(a, {"issuing"}, back)
           /\ reserved' = Unreserved(w, a) /\ Finish(w) /\ UNCHANGED published
  <2> HIDE DEF back
  <2>1. late' \in [Auths -> Rows] /\ \A b \in Auths : RowShape(b)' /\ RowStep(w, b)
    BY <1>0, <1>2, <1>5, CasOwned
  <2>2. UNCHANGED <<lateIssue, payments, handleless, challenge, spent, authSpent, txSpent, chain, served>>
    BY DEF Sign
  <2>3. TypeOK' /\ Quiet(w)
    BY <1>0, <1>5, <2>1, <2>2, FinishType, FaultType, UnreservedType DEF TypeOK, Quiet
  <2>4. WorkerBook(w)' /\ pc'[w] \notin Marked
    BY <1>0, <1>5, FinishType
    DEF WorkerBook, Past, Inline, Resolver, Holding, Marked, Issuing, Publishing
  <2> QED
    BY <2>3, <2>4, QuietStep
<1>6. \/ /\ late' = [late EXCEPT ![a].jws = published[a] + 1]
         /\ published' = [published EXCEPT ![a] = @ + 1]
         /\ pc' = [pc EXCEPT ![w] = "publish"]
         /\ job' = [job EXCEPT ![w].seen = "issuing"]
         /\ UNCHANGED <<reserved, faults>>
      \/ late[a].state # "issuing"
      \/ /\ Fault /\ CasLate(a, {"issuing"}, back)
         /\ reserved' = Unreserved(w, a) /\ Finish(w) /\ UNCHANGED published
  BY DEF Sign
<1> QED
  BY <1>0, <1>4, <1>5, <1>6

\* The ledger row and the leaf: the row keeps its receipt.
LEMMA PublishSteps ==
    ASSUME AInv, NEW w \in Workers, Publish(w) \/ Issue(w)
    PROVE  AInv'
<1> DEFINE a == job[w].auth
<1>0. /\ TypeOK /\ WorkerBook(w) /\ pc[w] \in {"publish", "issue"} /\ job[w].nonce \in Nonces /\ a \in Auths
      /\ late[a] \in Rows /\ late[a].jws # 0 /\ late[a].state \in {"issuing", "issued"}
      /\ chain[a] = "final" /\ published[a] > 0 /\ RowShape(a)
      /\ pc[w] = "publish" => job[w].seen = "issuing"
  BY DEF AInv, WorkerBook, RowBook, Publish, Issue, TypeOK, Resolver, Publishing
<1>1. late' \in [Auths -> Rows] /\ \A b \in Auths : RowShape(b)' /\ RowStep(w, b)
  <2>1. CASE late' = late
    BY <1>0, <2>1, SameRows DEF TypeOK
  <2>2. ASSUME NEW from, NEW s \in {"issuing", "issued"},
               CasLate(a, from, [late[a] EXCEPT !.state = s])
        PROVE  late' \in [Auths -> Rows] /\ \A b \in Auths : RowShape(b)' /\ RowStep(w, b)
    <3> DEFINE row == [late[a] EXCEPT !.state = s]
    <3>1. row \in Rows /\ row.state = s /\ row.jws = late[a].jws /\ row.nonce = late[a].nonce
      BY <1>0 DEF Rows, Open, Terminal
    <3> HIDE DEF row
    <3>2. /\ late' \in [Auths -> Rows] /\ late'[a] \in {row, late[a]}
          /\ \A b \in Auths \ {a} : late'[b] = late[b]
      BY <1>0, <2>2, <3>1, CasType DEF row
    <3> QED
      BY <1>0, <3>1, <3>2 DEF AInv, RowBook, RowShape, RowStep
  <2>3. \/ late' = late
        \/ CasLate(a, {"issuing", "confirmed", "issued"}, [late[a] EXCEPT !.state = "issuing"])
        \/ CasLate(a, {"issuing", "confirmed"}, [late[a] EXCEPT !.state = "issued"])
    BY <1>0 DEF Publish, Issue
  <2> QED
    BY <2>1, <2>2, <2>3
<1>2. /\ \/ (Goto(w, "issue") \/ Goto(w, "lateNonce")) /\ UNCHANGED <<reserved, faults>>
         \/ Fault /\ reserved' = Unreserved(w, a) /\ Finish(w)
      /\ UNCHANGED <<lateIssue, payments, handleless, challenge, spent, authSpent, txSpent, chain, served, published>>
  BY DEF Publish, Issue
<1>3. TypeOK' /\ Quiet(w)
  BY <1>0, <1>1, <1>2, FinishType, GotoType, FaultType, UnreservedType DEF TypeOK, Quiet, Resolver
<1>4. WorkerBook(w)' /\ pc'[w] \notin Marked
  BY <1>0, <1>2, FinishType, GotoType
  DEF WorkerBook, Past, Inline, Resolver, Holding, Marked, Issuing, Publishing
<1> QED
  BY <1>3, <1>4, QuietStep

\* The marks that follow a late receipt: by then no request has the transfer
\* reserved, and no other resolver is about to sign.
LEMMA LateMarksStep ==
    ASSUME AInv, NEW w \in Workers, LateMarks(w)
    PROVE  AInv'
<1> DEFINE n == job[w].nonce
           a == job[w].auth
<1>0. /\ TypeOK /\ WorkerBook(w) /\ pc[w] \in {"lateNonce", "lateAuth", "lateTx"}
      /\ n \in Nonces /\ a \in Auths /\ chain[a] = "final" /\ published[a] > 0
  BY DEF AInv, WorkerBook, LateMarks, Resolver, Publishing
<1>1. UNCHANGED <<lateIssue, payments, handleless, late, chain, served, published, faults>>
  BY DEF LateMarks
<1>2. CASE /\ \/ SpendNonce(n) /\ Goto(w, "lateAuth") /\ UNCHANGED authSpent
              \/ authSpent' = authSpent \cup {a} /\ Goto(w, "lateTx") /\ UNCHANGED <<challenge, spent>>
           /\ UNCHANGED <<txSpent, reserved>>
  <2>1. TypeOK' /\ Quiet(w)
    BY <1>0, <1>1, <1>2, GotoType, SpendNonceType, SameRows DEF TypeOK, Quiet, Resolver
  <2>2. WorkerBook(w)' /\ pc'[w] \notin Marked
    BY <1>0, <1>1, <1>2, GotoType
    DEF WorkerBook, Past, Inline, Resolver, Holding, Marked, Issuing, Publishing
  <2> QED
    BY <2>1, <2>2, QuietStep
<1>3. CASE /\ txSpent' = txSpent \cup {a} /\ reserved' = [reserved EXCEPT ![a] = None]
           /\ Finish(w) /\ UNCHANGED <<challenge, spent, authSpent>>
  <2>1. /\ reserved' \in [Auths -> Workers \cup {"dead", None}]
        /\ \A b \in Auths \ {a} : reserved'[b] = reserved[b]
    BY <1>0, <1>3 DEF TypeOK
  <2>2. TypeOK'
    BY <1>0, <1>1, <1>3, <2>1, FinishType DEF TypeOK
  <2>3. ASSUME NEW v \in Workers PROVE WorkerBook(v)'
    <3>1. CASE v = w
      BY <1>0, <1>3, <3>1, FinishType
      DEF WorkerBook, Past, Inline, Resolver, Holding, Marked, Issuing, Publishing
    <3>2. CASE v # w
      <4>1. WorkerBook(v) /\ pc'[v] = pc[v] /\ job'[v] = job[v]
        BY <1>0, <1>3, <3>2, FinishType DEF AInv
      <4>2. pc[v] \in Holding => job[v].auth # a /\ job[v].auth \in Auths
        <5>1. pc[v] = "sign" => job[v].auth # a /\ job[v].auth \in Auths
          BY <1>0, <4>1 DEF WorkerBook, Issuing
        <5>2. pc[v] \in Holding \ {"sign"} => job[v].auth # a /\ job[v].auth \in Auths
          BY <1>0, <4>1 DEF WorkerBook, Holding, Past, Inline
        <5> QED
          BY <5>1, <5>2
      <4> QED
        BY <1>1, <1>3, <2>1, <4>1, <4>2 DEF WorkerBook
    <3> QED
      BY <3>1, <3>2
  <2>4. ASSUME NEW b \in Auths PROVE RowBook(b)'
    BY <1>1, <1>3 DEF AInv, RowBook, RowShape
  <2>5. MarkedOnce'
    BY <1>0, <1>3, FinishType DEF AInv, MarkedOnce, Marked
  <2> QED
    BY <2>2, <2>3, <2>4, <2>5 DEF AInv
<1> QED
  BY <1>2, <1>3 DEF LateMarks

\* The request marks the transfer it has reserved: nobody else has.
LEMMA MarkTxSpentStep ==
    ASSUME AInv, NEW w \in Workers, MarkTxSpent(w)
    PROVE  AInv'
<1> DEFINE a == job[w].auth
<1>0. /\ TypeOK /\ WorkerBook(w) /\ pc[w] = "spendTx" /\ job[w].nonce \in Nonces /\ a \in Auths
      /\ chain[a] # "final" /\ reserved[a] = w /\ a \notin txSpent
  BY DEF AInv, WorkerBook, MarkTxSpent, Inline, Past, Holding
<1>1. served[a] = 0
  BY <1>0 DEF AInv, RowBook, TypeOK
<1>2. /\ txSpent' = txSpent \cup {a} /\ reserved' = [reserved EXCEPT ![a] = None]
      /\ Goto(w, "spendAuth")
      /\ UNCHANGED <<lateIssue, payments, handleless, challenge, spent, late, authSpent, chain,
                     served, published, faults>>
  BY DEF MarkTxSpent
<1>3. /\ reserved' \in [Auths -> Workers \cup {"dead", None}]
      /\ \A b \in Auths \ {a} : reserved'[b] = reserved[b]
  BY <1>0, <1>2 DEF TypeOK
<1>4. TypeOK'
  BY <1>0, <1>2, <1>3, GotoType DEF TypeOK, Inline
<1>5. WorkerBook(w)'
  BY <1>0, <1>1, <1>2, GotoType
  DEF WorkerBook, Past, Inline, Resolver, Holding, Marked, Issuing, Publishing
<1>6. ASSUME NEW v \in Workers \ {w}
      PROVE  WorkerBook(v)' /\ (pc[v] \in Marked => job[v].auth # a)
  <2>1. WorkerBook(v) /\ pc'[v] = pc[v] /\ job'[v] = job[v]
    BY <1>0, <1>2, GotoType DEF AInv, Inline
  <2>2. pc[v] \in Holding => job[v].auth # a /\ job[v].auth \in Auths
    BY <1>0, <2>1 DEF WorkerBook, Holding
  <2> QED
    BY <1>0, <1>2, <1>3, <2>1, <2>2 DEF WorkerBook
<1>7. ASSUME NEW b \in Auths PROVE RowBook(b)'
  BY <1>2 DEF AInv, RowBook, RowShape
<1>8. MarkedOnce'
  BY <1>0, <1>2, <1>6, GotoType DEF AInv, MarkedOnce, Inline
<1> QED
  BY <1>4, <1>5, <1>6, <1>7, <1>8 DEF AInv

\* The settled answer: the payment has no receipt, for its transfer is not
\* final, and no other request has marked it.
LEMMA CloseStep ==
    ASSUME AInv, NEW w \in Workers, Close(w)
    PROVE  AInv'
<1> DEFINE a == job[w].auth
           row == [late[a] EXCEPT !.state = "issued", !.sent = TRUE]
<1>0. /\ TypeOK /\ WorkerBook(w) /\ pc[w] = "close" /\ a \in Auths /\ RowBook(a) /\ late[a] \in Rows
      /\ chain[a] # "final" /\ a \in txSpent /\ served[a] = 0
  BY DEF AInv, WorkerBook, Close, Inline, Past, Marked, TypeOK
<1>1. published[a] = 0 /\ late[a].jws = 0
  BY <1>0 DEF RowBook, TypeOK
<1>2. row \in Rows /\ row.state = "issued" /\ row.jws = 0 /\ row.nonce = late[a].nonce
  BY <1>0, <1>1 DEF Rows, Terminal
<1>3. /\ Finish(w)
      /\ UNCHANGED <<lateIssue, payments, handleless, challenge, spent, authSpent, txSpent, reserved, chain, published>>
  BY DEF Close
<1>4. late' = late \/ (late[a].state \in {"submitted", "unknown", "confirmed"} /\ late' = [late EXCEPT ![a] = row])
  <2>1. [late EXCEPT ![a].state = "issued", ![a].sent = TRUE] = [late EXCEPT ![a] = row]
    BY <1>0 DEF TypeOK, Rows
  <2> QED
    BY <2>1 DEF Close
<1> HIDE DEF row
<1>5. late' \in [Auths -> Rows] /\ \A b \in Auths : RowShape(b)' /\ RowStep(w, b)
  <2>1. CASE late' = late
    BY <1>0, <2>1, SameRows DEF TypeOK
  <2>2. CASE late[a].state \in {"submitted", "unknown", "confirmed"} /\ late' = [late EXCEPT ![a] = row]
    <3>1. late' \in [Auths -> Rows] /\ late'[a] = row /\ \A b \in Auths \ {a} : late'[b] = late[b]
      BY <1>0, <1>2, <2>2 DEF TypeOK
    <3> QED
      BY <1>0, <1>1, <1>2, <2>2, <3>1 DEF AInv, RowBook, RowShape, RowStep
  <2> QED
    BY <1>4, <2>1, <2>2
<1>6. faults' \in 0 .. MaxFaults
  BY <1>0, FaultType DEF Close, TypeOK
<1>7. WorkerBook(w)' /\ pc'[w] \notin Marked
  BY <1>0, <1>3, FinishType
  DEF WorkerBook, Past, Inline, Resolver, Holding, Marked, Issuing, Publishing
<1>8. CASE served' = served
  <2>1. TypeOK' /\ Quiet(w)
    BY <1>0, <1>3, <1>5, <1>6, <1>8, FinishType DEF TypeOK, Quiet
  <2> QED
    BY <1>7, <2>1, QuietStep
<1>9. CASE served' = [served EXCEPT ![a] = @ + 1]
  <2>1. served' \in [Auths -> Nat] /\ served'[a] = 1 /\ \A b \in Auths \ {a} : served'[b] = served[b]
    BY <1>0, <1>9 DEF TypeOK
  <2>2. TypeOK'
    BY <1>0, <1>3, <1>5, <1>6, <2>1, FinishType DEF TypeOK
  <2>3. ASSUME NEW v \in Workers \ {w} PROVE WorkerBook(v)'
    <3>1. WorkerBook(v) /\ pc'[v] = pc[v] /\ job'[v] = job[v]
      BY <1>0, <1>3, FinishType DEF AInv
    <3>2. pc[v] \in Marked => job[v].auth # a /\ job[v].auth \in Auths
      <4>1. pc[w] \in Marked /\ (pc[v] \in Marked => pc[v] # "idle")
        BY <1>0 DEF Marked
      <4> QED
        BY <3>1, <4>1 DEF AInv, MarkedOnce, WorkerBook
    <3>3. pc[v] \in Issuing => late'[job[v].auth] = late[job[v].auth]
      <4>1. pc[v] \in Issuing => /\ job[v].auth \in Auths
                                 /\ late[job[v].auth].state = "issuing" /\ late[job[v].auth].owner = v
                                 /\ published[job[v].auth] = 0
        BY <3>1 DEF WorkerBook, Issuing
      <4>2. pc[v] \in Issuing => RowStep(w, job[v].auth) /\ RowBook(job[v].auth)
        BY <1>5, <4>1 DEF AInv
      <4> QED
        BY <4>1, <4>2, PaymentSettleAssumption DEF RowStep, RowBook
    <3> QED
      BY <1>3, <2>1, <3>1, <3>2, <3>3 DEF WorkerBook
  <2>4. ASSUME NEW b \in Auths PROVE RowBook(b)'
    <3>1. RowBook(b) /\ RowStep(w, b) /\ RowShape(b)'
      BY <1>5 DEF AInv
    <3> QED
      BY <1>0, <1>1, <1>3, <2>1, <2>2, <3>1 DEF RowBook, RowStep, TypeOK, Rows
  <2>5. MarkedOnce'
    BY <1>0, <1>3, FinishType DEF AInv, MarkedOnce, Marked
  <2> QED
    BY <1>7, <2>2, <2>3, <2>4, <2>5 DEF AInv
<1> QED
  BY <1>8, <1>9 DEF Close

\* A process dies; a lease runs out.
LEMMA CrashStep ==
    ASSUME AInv, NEW w \in Workers, Crash(w)
    PROVE  AInv'
<1> DEFINE Dead(r) == [r EXCEPT !.owner = "dead"]
<1>0. TypeOK /\ Finish(w) /\ Fault
      /\ late' = [a \in Auths |-> IF late[a].owner = w THEN Dead(late[a]) ELSE late[a]]
      /\ reserved' = [a \in Auths |-> IF reserved[a] = w THEN "dead" ELSE reserved[a]]
      /\ UNCHANGED <<lateIssue, payments, handleless, challenge, spent, authSpent, txSpent, chain, served, published>>
  BY DEF AInv, Crash
<1>1. ASSUME NEW r \in Rows
      PROVE  /\ Dead(r) \in Rows /\ Dead(r).state = r.state /\ Dead(r).nonce = r.nonce
             /\ Dead(r).jws = r.jws
  BY DEF Rows
<1> HIDE DEF Dead
<1>2. late' \in [Auths -> Rows]
  BY <1>0, <1>1 DEF TypeOK
<1>3. ASSUME NEW b \in Auths PROVE RowShape(b)' /\ RowStep(w, b)
  <2>1. RowShape(b) /\ late[b] \in Rows /\ late'[b] = IF late[b].owner = w THEN Dead(late[b]) ELSE late[b]
    BY <1>0 DEF AInv, RowBook, TypeOK
  <2>2. late[b].owner = w => late[b].state # "none"
    BY <2>1, PaymentSettleAssumption DEF RowShape, NoRow
  <2> QED
    BY <1>1, <2>1, <2>2 DEF RowShape, RowStep
<1>4. /\ reserved' \in [Auths -> Workers \cup {"dead", None}]
      /\ \A v \in Workers \ {w} : \A b \in Auths : reserved[b] = v => reserved'[b] = v
  BY <1>0 DEF TypeOK
<1>5. TypeOK'
  BY <1>0, <1>2, <1>4, FinishType, FaultType DEF TypeOK
<1>6. Quiet(w)
  BY <1>0, <1>3, <1>4, FinishType DEF Quiet
<1>7. WorkerBook(w)' /\ pc'[w] \notin Marked
  BY <1>0, FinishType
  DEF WorkerBook, Past, Inline, Resolver, Holding, Marked, Issuing, Publishing
<1> QED
  BY <1>5, <1>6, <1>7, QuietStep

\* A lease that runs out frees only what a dead worker held.
LEMMA LeaseExpiresStep ==
    ASSUME AInv, NEW a \in Auths, LeaseExpires(a)
    PROVE  AInv'
<1> DEFINE row == [late[a] EXCEPT !.owner = IF @ = "dead" THEN None ELSE @]
<1>0. TypeOK /\ late[a] \in Rows /\ RowShape(a) /\ None \notin Workers /\ "dead" \notin Workers
  BY PaymentSettleAssumption DEF AInv, TypeOK, RowBook
<1>1. /\ row \in Rows /\ row.state = late[a].state /\ row.nonce = late[a].nonce /\ row.jws = late[a].jws
      /\ late[a].owner # "dead" => row = late[a]
  BY <1>0 DEF Rows
<1>2. late' = [late EXCEPT ![a] = row]
  BY <1>0 DEF LeaseExpires, TypeOK
<1> HIDE DEF row
<1>3. late' \in [Auths -> Rows] /\ late'[a] = row /\ \A b \in Auths \ {a} : late'[b] = late[b]
  BY <1>0, <1>1, <1>2 DEF TypeOK
<1>4. late[a].owner = "dead" => late[a].state # "none"
  BY <1>0, PaymentSettleAssumption DEF RowShape, NoRow
<1>5. ASSUME NEW b \in Auths PROVE RowShape(b)' /\ RowStep(None, b)
  BY <1>0, <1>1, <1>3, <1>4 DEF AInv, RowBook, RowShape, RowStep
<1>6. /\ reserved' \in [Auths -> Workers \cup {"dead", None}]
      /\ \A v \in Workers : \A b \in Auths : reserved[b] = v => reserved'[b] = v
  BY <1>0 DEF TypeOK, LeaseExpires
<1>7. UNCHANGED <<lateIssue, payments, handleless, challenge, spent, authSpent, txSpent, chain, pc, job,
                  served, published, faults>>
  BY DEF LeaseExpires
<1>8. TypeOK' /\ Quiet(None)
  BY <1>0, <1>3, <1>5, <1>6, <1>7 DEF TypeOK, Quiet
<1> QED
  BY <1>0, <1>8, QuietStep

\* A claim runs out, a transfer is mined, an authorization lapses.
LEMMA OutsideSteps ==
    ASSUME AInv,
           \/ \E n \in Nonces : ClaimExpires(n)
           \/ \E a \in Auths : Mine(a) \/ Lapse(a)
    PROVE  AInv'
<1>0. TypeOK /\ None \notin Workers
  BY PaymentSettleAssumption DEF AInv
<1>1. /\ challenge' \in [Nonces -> Challenges]
      /\ chain' \in [Auths -> {"none", "sent", "paid", "final", "lapsed"}]
      /\ \A b \in Auths : chain'[b] = "final" <=> chain[b] = "final"
  BY <1>0, MarkUnknownType DEF ClaimExpires, Mine, Lapse, store, TypeOK
<1>2. UNCHANGED <<lateIssue, payments, handleless, spent, late, authSpent, txSpent, reserved, pc, job,
                  served, published, faults>>
  BY DEF ClaimExpires, Mine, Lapse, store
<1>3. TypeOK' /\ Quiet(None)
  BY <1>0, <1>1, <1>2, SameRows DEF TypeOK, Quiet
<1> QED
  BY <1>0, <1>3, QuietStep

\* The transfer is final: no request has it any more.
LEMMA FinalizeStep ==
    ASSUME AInv, NEW a \in Auths, Finalize(a)
    PROVE  AInv'
<1>0. TypeOK
  BY DEF AInv
<1>1. /\ UNCHANGED <<lateIssue, payments, handleless, challenge, spent, late, authSpent, txSpent, reserved, pc, job,
                     served, published, faults>>
      /\ \A w \in Workers : job[w].auth = a => pc[w] \notin Past
  BY DEF Finalize, store, Past
<1>2. /\ chain' \in [Auths -> {"none", "sent", "paid", "final", "lapsed"}]
      /\ chain'[a] = "final" /\ \A b \in Auths \ {a} : chain'[b] = chain[b]
  BY <1>0 DEF Finalize, TypeOK
<1>3. TypeOK'
  BY <1>0, <1>1, <1>2 DEF TypeOK
<1>4. ASSUME NEW w \in Workers PROVE WorkerBook(w)'
  <2>1. WorkerBook(w) /\ (pc[w] \in Past \cup Resolver => job[w].auth \in Auths)
    BY DEF AInv, WorkerBook, Past, Inline, Resolver
  <2> QED
    BY <1>1, <1>2, <2>1 DEF WorkerBook
<1>5. ASSUME NEW b \in Auths PROVE RowBook(b)'
  BY <1>1, <1>2 DEF AInv, RowBook, RowShape
<1>6. MarkedOnce'
  BY <1>1 DEF AInv, MarkedOnce
<1> QED
  BY <1>3, <1>4, <1>5, <1>6 DEF AInv

\* No worker runs and no row exists at the start.
LEMMA InitAInv == Init => AInv
<1> SUFFICES ASSUME Init PROVE AInv
  OBVIOUS
<1>1. ASSUME NEW w \in Workers PROVE WorkerBook(w)
  BY DEF Init, WorkerBook, Past, Inline, Resolver, Holding, Marked, Issuing, Publishing
<1>2. ASSUME NEW a \in Auths PROVE RowBook(a)
  BY DEF Init, RowBook, RowShape, NoRow
<1>3. MarkedOnce
  BY DEF Init, MarkedOnce, Marked
<1> QED
  BY <1>1, <1>2, <1>3, InitType DEF AInv

\* Every step keeps AInv.
LEMMA NextAInv ==
    ASSUME AInv, [Next]_vars
    PROVE  AInv'
<1>1. CASE UNCHANGED vars
  BY <1>1 DEF vars, store, AInv, TypeOK, WorkerBook, RowBook, RowShape, MarkedOnce
<1>2. ASSUME NEW w \in Workers, Proceed(w) PROVE AInv'
  BY <1>2, PlainSteps, AdmitStep, SettleNotSentStep, SettleRefusedStep, HoldRowStep, ReadSteps,
     GuardStep, LateReserveStep, SignStep, PublishSteps, LateMarksStep, MarkTxSpentStep, CloseStep
  DEF Proceed
<1> QED
  BY <1>1, <1>2, ClaimStep, ResolveStep, CrashStep, LeaseExpiresStep, OutsideSteps, FinalizeStep
  DEF Next

\* The inductive invariant holds in every reachable state.
THEOREM SettleInvariant == Spec => []AInv
<1>1. Init => AInv
  BY InitAInv
<1>2. AInv /\ [Next]_vars => AInv'
  BY NextAInv
<1> QED
  BY <1>1, <1>2, PTL DEF Spec

\* The store, the chain and every worker keep their types.
THEOREM SettleTypeCorrect == Spec => []TypeOK
<1>1. AInv => TypeOK
  BY DEF AInv
<1> QED
  BY <1>1, SettleInvariant, PTL

\* One payment, one answer (settleBoundPayment against resolveLateRecord): an
\* authorization is served once or gets one late receipt, never both, however
\* many nonces it is presented with, however many requests and resolvers run
\* on the store and whichever of them die.
THEOREM SettleOneAnswer == Spec => []OneAnswer
<1>1. AInv => OneAnswer
  BY DEF AInv, OneAnswer, RowBook
<1> QED
  BY <1>1, SettleInvariant, PTL

-----------------------------------------------------------------------------
\* No payment is lost.

\* A challenge in use belongs to one request, and is bound to its payment
\* once that is verified; the row a request opened or found is its nonce's.
\* The payment is one that a client presents.
NonceBook(w) ==
    LET c == challenge[job[w].nonce] IN
    pc[w] \in Inline =>
        /\ <<job[w].nonce, job[w].auth>> \in payments
        /\ c.state # "issued"
        /\ pc[w] \in {"claimed", "verify"} => c.hash = None /\ c.state # "submitted"
        /\ pc[w] \in Past => /\ c.hash \in {job[w].auth, None}
                             /\ c.state \in {"claimed", "submitted"} => c.hash = job[w].auth
        /\ job[w].row => late[job[w].auth].nonce = job[w].nonce

\* Of the other workers, none has a request of challenge n.
OwnNonce(w, n) == \A v \in Workers \ {w} : pc[v] \in Inline => job[v].nonce # n

\* A challenge in circulation is bound to no payment.
ChallengeShape(n) == challenge[n].state = "issued" => challenge[n].hash = None

\* A row that is not dropped any more.
Sticky(a) == late[a].state # "none" /\ ~(late[a].state = "submitted" /\ ~late[a].sent)

\* A challenge that is not given back any more without leaving another trace.
Unsent == {"claimed", "verify", "mark", "settle"}
Kept(n, a) ==
    /\ <<n, a>> \in payments
    /\ challenge[n].hash \in {a, None}
    /\ \/ challenge[n].state \in {"unknown", "spent"}
       \/ /\ challenge[n].state \in {"claimed", "submitted"} /\ challenge[n].hash = a
          /\ \A w \in Workers : pc[w] \in Unsent => job[w].nonce # n

\* The trace a payment has from the moment it is sent.
OnChain == {"sent", "paid", "final"}
Trace(a) ==
    \/ Sticky(a)
    \/ served[a] > 0
    \/ \E n \in Nonces : \/ <<n, a>> \in payments /\ challenge[n].handle = a
                        \/ <<n, a>> \in handleless
                        \/ Kept(n, a)

TInv ==
    /\ AInv
    /\ \A w \in Workers : NonceBook(w) /\ (pc[w] \in Inline => OwnNonce(w, job[w].nonce))
    /\ \A n \in Nonces : ChallengeShape(n)
    /\ \A a \in Auths : chain[a] \in OnChain => Trace(a)

\* A challenge that stays, or goes out of circulation for good.
ChallengeStep(n) ==
    /\ challenge'[n].hash = challenge[n].hash
    /\ challenge'[n].state = challenge[n].state \/ challenge'[n].state \in {"unknown", "spent"}

\* A row that keeps what the books say of it.
KeepRow(a) ==
    /\ Sticky(a) => Sticky(a)'
    /\ late[a].nonce # None => late'[a].nonce = late[a].nonce

\* What a step of w must do to keep the traces.
LEMMA TraceStep ==
    ASSUME TInv, AInv', payments' = payments,
           handleless \subseteq handleless', NEW w,
           \A v \in Workers \ {w} : pc'[v] = pc[v] /\ job'[v] = job[v],
           w \in Workers => /\ NonceBook(w)'
                            /\ pc'[w] \in Inline => OwnNonce(w, job'[w].nonce)
                            /\ pc'[w] \in Unsent =>
                                  \/ pc[w] \in Unsent /\ job'[w].nonce = job[w].nonce
                                  \/ challenge[job'[w].nonce].state = "issued",
           \A n \in Nonces :
              /\ challenge[n].handle # None => challenge'[n].handle = challenge[n].handle
              /\ \/ ChallengeStep(n)
                 \/ /\ OwnNonce(w, n) /\ ChallengeShape(n)'
                    /\ \A a \in Auths : Kept(n, a) => Trace(a)',
           \A a \in Auths :
              /\ \/ KeepRow(a)
                 \/ /\ Sticky(a) => Sticky(a)'
                    /\ \A v \in Workers \ {w} : pc[v] \in Inline /\ job[v].row => job[v].auth # a
              /\ served[a] > 0 => served'[a] > 0
              /\ chain'[a] \in OnChain => chain[a] \in OnChain \/ Trace(a)'
    PROVE  TInv'
<1>1. ASSUME NEW v \in Workers PROVE NonceBook(v)'
  <2>1. CASE v = w
    BY <2>1
  <2>2. CASE v # w /\ pc[v] \in Inline
    <3>1. /\ WorkerBook(v) /\ NonceBook(v) /\ pc'[v] = pc[v] /\ job'[v] = job[v]
          /\ job[v].nonce \in Nonces /\ job[v].auth \in Auths /\ job[v].nonce # None
      BY <1>1, <2>2, PaymentSettleAssumption DEF TInv, AInv, WorkerBook, Inline
    <3>2. ChallengeStep(job[v].nonce)
      BY <1>1, <2>2, <3>1 DEF OwnNonce
    <3>3. job[v].row => late'[job[v].auth].nonce = job[v].nonce
      BY <1>1, <2>2, <3>1 DEF NonceBook, KeepRow
    <3> QED
      BY <2>2, <3>1, <3>2, <3>3 DEF NonceBook, ChallengeStep
  <2>3. CASE v # w /\ pc[v] \notin Inline
    BY <1>1, <2>3 DEF NonceBook
  <2> QED
    BY <2>1, <2>2, <2>3
<1>2. ASSUME NEW v \in Workers, pc'[v] \in Inline PROVE OwnNonce(v, job[v].nonce)'
  BY <1>2 DEF TInv, OwnNonce
<1>3. ASSUME NEW n \in Nonces PROVE ChallengeShape(n)'
  BY <1>3 DEF TInv, ChallengeShape, ChallengeStep
<1>4. ASSUME NEW a \in Auths, chain'[a] \in OnChain PROVE Trace(a)'
  <2>1. CASE chain[a] \in OnChain
    <3>1. CASE Sticky(a) \/ served[a] > 0
      BY <1>4, <3>1 DEF Trace, KeepRow
    <3>2. ASSUME NEW n \in Nonces,
                 (<<n, a>> \in payments /\ challenge[n].handle = a) \/ <<n, a>> \in handleless
          PROVE  Trace(a)'
      BY <1>4, <3>2, PaymentSettleAssumption DEF Trace
    <3>3. ASSUME NEW n \in Nonces, Kept(n, a) PROVE Trace(a)'
      <4>1. CASE ChallengeStep(n)
        <5>1. Kept(n, a)'
          <6>1. CASE challenge'[n].state \in {"unknown", "spent"}
            BY <3>3, <4>1, <6>1 DEF Kept, ChallengeStep
          <6>2. CASE /\ challenge'[n].state = challenge[n].state
                     /\ challenge[n].state \in {"claimed", "submitted"}
            BY <3>3, <4>1, <6>2 DEF Kept, ChallengeStep
          <6> QED
            BY <3>3, <4>1, <6>1, <6>2 DEF Kept, ChallengeStep
        <5> QED
          BY <3>3, <5>1 DEF Trace
      <4> QED
        BY <1>4, <3>3, <4>1
    <3> QED
      BY <1>4, <2>1, <3>1, <3>2, <3>3 DEF TInv, Trace
  <2> QED
    BY <1>4, <2>1
<1> QED
  BY <1>1, <1>2, <1>3, <1>4 DEF TInv

\* A step that gives no challenge back, drops no row and sends nothing, of a
\* worker that is no request, or a request past its sending.
Calm(w) ==
    /\ \A v \in Workers \ {w} : pc'[v] = pc[v] /\ job'[v] = job[v]
    /\ w \in Workers /\ pc'[w] \in Inline =>
          pc[w] \in Past /\ pc'[w] \in Past \ Unsent /\ job'[w] = job[w]
    /\ \A n \in Nonces : /\ ChallengeStep(n)
                         /\ challenge[n].handle # None => challenge'[n].handle = challenge[n].handle
    /\ \A a \in Auths : /\ KeepRow(a)
                        /\ served[a] > 0 => served'[a] > 0
                        /\ chain'[a] \in OnChain => chain[a] \in OnChain

\* A step that keeps rows, challenges and answers of the others keeps every payment traced.
LEMMA CalmStep ==
    ASSUME TInv, AInv', payments' = payments,
           handleless \subseteq handleless', NEW w, Calm(w)
    PROVE  TInv'
<1>1. ASSUME w \in Workers
      PROVE  /\ NonceBook(w)'
             /\ pc'[w] \in Inline => OwnNonce(w, job'[w].nonce)
             /\ pc'[w] \notin Unsent
  <2>1. CASE pc'[w] \notin Inline
    BY <2>1 DEF NonceBook, Unsent, Inline
  <2>2. CASE pc'[w] \in Inline
    <3>1. /\ WorkerBook(w) /\ NonceBook(w) /\ OwnNonce(w, job[w].nonce)
          /\ pc[w] \in Past /\ pc'[w] \in Past \ Unsent /\ job'[w] = job[w]
      BY <1>1, <2>2 DEF TInv, AInv, Calm, Past
    <3>2. /\ job[w].nonce \in Nonces /\ job[w].auth \in Auths /\ job[w].nonce # None
          /\ pc[w] \in Inline /\ pc'[w] \notin {"claimed", "verify"}
      BY <3>1, PaymentSettleAssumption DEF WorkerBook, Past, Inline, Unsent
    <3>3. ChallengeStep(job[w].nonce) /\ KeepRow(job[w].auth)
      BY <3>2 DEF Calm
    <3> QED
      BY <3>1, <3>2, <3>3 DEF NonceBook, ChallengeStep, KeepRow
  <2> QED
    BY <2>1, <2>2
<1> QED
  BY <1>1, TraceStep DEF Calm

\* The ways in which the actions write challenges and rows without harm.
LEMMA ChallengeSteps ==
    ASSUME TypeOK, NEW n \in Nonces, NEW a \in Auths,
           \/ challenge' = challenge \/ MarkUnknown(n) \/ SpendNonce(n)
           \/ challenge' = [challenge EXCEPT ![n] = WithHandle(@, a)]
    PROVE  \A m \in Nonces : /\ ChallengeStep(m)
                             /\ challenge[m].handle # None => challenge'[m].handle = challenge[m].handle
<1> SUFFICES ASSUME NEW m \in Nonces
             PROVE  /\ ChallengeStep(m)
                    /\ challenge[m].handle # None => challenge'[m].handle = challenge[m].handle
  OBVIOUS
<1>0. challenge[n] \in Challenges /\ challenge[m] \in Challenges
  BY DEF TypeOK
<1>1. CASE challenge'[m] = challenge[m]
  BY <1>1 DEF ChallengeStep
<1>2. CASE m = n /\ MarkUnknown(n)
  BY <1>0, <1>2, MarkUnknownType DEF ChallengeStep, Challenges
<1>3. CASE m = n /\ SpendNonce(n)
  BY <1>0, <1>3, SpendNonceType DEF ChallengeStep, Challenges
<1>4. CASE m = n /\ challenge' = [challenge EXCEPT ![n] = WithHandle(@, a)]
  BY <1>0, <1>4, HandleType DEF ChallengeStep, TypeOK
<1>5. CASE m # n
  BY <1>1, <1>5, MarkUnknownType, SpendNonceType DEF TypeOK
<1> QED
  BY <1>1, <1>2, <1>3, <1>4, <1>5

\* Rows that do not change are kept.
LEMMA SameKeeps ==
    ASSUME late' = late PROVE \A b \in Auths : KeepRow(b)
  BY DEF KeepRow, Sticky

\* A row written over with its own challenge and a later state is kept.
LEMMA RowKeeps ==
    ASSUME TypeOK, NEW a \in Auths, NEW from, NEW row \in Rows, CasLate(a, from, row),
           row.nonce = late[a].nonce, row.state \notin {"none", "submitted"}
    PROVE  \A b \in Auths : KeepRow(b)
<1>1. /\ late'[a] \in {row, late[a]}
      /\ \A b \in Auths \ {a} : late'[b] = late[b]
  BY CasType
<1> QED
  BY <1>1 DEF KeepRow, Sticky

\* A compare-and-set that moves a row on, in any of the forms the code uses, keeps it.
LEMMA EditKeeps ==
    ASSUME TypeOK, NEW a \in Auths, NEW from,
           NEW s \in (Open \cup Terminal) \ {"submitted"}, NEW o \in Workers \cup {"dead", None},
           \/ CasLate(a, from, [late[a] EXCEPT !.state = s])
           \/ CasLate(a, from, [late[a] EXCEPT !.state = s, !.sent = TRUE])
           \/ CasLate(a, from, [late[a] EXCEPT !.sent = TRUE, !.state = s])
           \/ CasLate(a, from, [late[a] EXCEPT !.state = s, !.owner = o])
           \/ CasLate(a, from, [late[a] EXCEPT !.state = s, !.owner = o, !.jws = 0])
    PROVE  \A b \in Auths : KeepRow(b)
<1> DEFINE r1 == [late[a] EXCEPT !.state = s]
           r2 == [late[a] EXCEPT !.state = s, !.sent = TRUE]
           r3 == [late[a] EXCEPT !.sent = TRUE, !.state = s]
           r4 == [late[a] EXCEPT !.state = s, !.owner = o]
           r5 == [late[a] EXCEPT !.state = s, !.owner = o, !.jws = 0]
<1>0. late[a] \in Rows /\ s \notin {"none", "submitted"} /\ s \in Open \cup Terminal
  BY DEF TypeOK, Open, Terminal
<1>1. r1 \in Rows /\ r1.state = s /\ r1.nonce = late[a].nonce
  BY <1>0 DEF Rows
<1>2. r2 \in Rows /\ r2.state = s /\ r2.nonce = late[a].nonce
  BY <1>0 DEF Rows
<1>3. r3 \in Rows /\ r3.state = s /\ r3.nonce = late[a].nonce
  BY <1>0 DEF Rows
<1>4. r4 \in Rows /\ r4.state = s /\ r4.nonce = late[a].nonce
  BY <1>0 DEF Rows
<1>5. r5 \in Rows /\ r5.state = s /\ r5.nonce = late[a].nonce
  BY <1>0 DEF Rows
<1>6. \E row \in {r1, r2, r3, r4, r5} : CasLate(a, from, row)
  OBVIOUS
<1> HIDE DEF r1, r2, r3, r4, r5
<1>7. PICK row \in Rows : CasLate(a, from, row) /\ row.state = s /\ row.nonce = late[a].nonce
  BY <1>1, <1>2, <1>3, <1>4, <1>5, <1>6
<1>8. row.state \notin {"none", "submitted"}
  BY <1>0, <1>7
<1> QED
  BY <1>7, <1>8, RowKeeps

\* Recording that the transfer was sent keeps every row.
LEMMA SentKeeps ==
    ASSUME AInv, NEW w \in Workers, job[w].auth \in Auths, Sent(w)
    PROVE  \A b \in Auths : KeepRow(b)
<1> DEFINE a == job[w].auth
<1>1. late[a] \in Rows
  BY DEF AInv, TypeOK
<1>2. /\ \A b \in Auths \ {a} : late'[b] = late[b]
      /\ late'[a] = late[a] \/ late'[a] = [late[a] EXCEPT !.sent = TRUE]
  BY SentType
<1>3. /\ [late[a] EXCEPT !.sent = TRUE].state = late[a].state
      /\ [late[a] EXCEPT !.sent = TRUE].nonce = late[a].nonce
      /\ [late[a] EXCEPT !.sent = TRUE].sent
  BY <1>1 DEF Rows
<1> QED
  BY <1>2, <1>3 DEF KeepRow, Sticky

\* The steps of a request past its sending.
LEMMA PastCalm ==
    ASSUME TInv, NEW w \in Workers,
           \/ SettleSucceeds(w) \/ SettleUnclear(w) \/ HoldRow(w) \/ ReserveTx(w) \/ Confirm(w)
           \/ MarkSpent(w) \/ MarkTxSpent(w) \/ MarkAuthSpent(w) \/ MarkThrows(w) \/ Close(w)
    PROVE  Calm(w)
<1> DEFINE n == job[w].nonce
           a == job[w].auth
<1>0. /\ AInv /\ TypeOK /\ pc[w] \in Past \ Unsent /\ n \in Nonces /\ a \in Auths
      /\ WorkerBook(w)
  BY DEF TInv, AInv, WorkerBook, SettleSucceeds, SettleUnclear, HoldRow, ReserveTx, Confirm,
         MarkSpent, MarkTxSpent, MarkAuthSpent, MarkThrows, Close, Past, Inline, Unsent
<1>1. \A m \in Nonces : /\ ChallengeStep(m)
                        /\ challenge[m].handle # None => challenge'[m].handle = challenge[m].handle
  <2>1. \/ challenge' = challenge \/ MarkUnknown(n) \/ SpendNonce(n)
        \/ challenge' = [challenge EXCEPT ![n] = WithHandle(@, a)]
    BY DEF SettleSucceeds, SettleUnclear, HoldRow, ReserveTx, Confirm,
           MarkSpent, MarkTxSpent, MarkAuthSpent, MarkThrows, Close
  <2> QED
    BY <1>0, <2>1, ChallengeSteps
<1>2. \A b \in Auths : KeepRow(b)
  <2>1. CASE late' = late
    BY <2>1, SameKeeps
  <2>2. CASE Sent(w)
    BY <1>0, <2>2, SentKeeps
  <2>3. CASE HoldRow(w) /\ late' # late
    <3>1. PICK s \in {"unknown", "held"} :
             CasLate(a, {"submitted", "unknown", "confirmed"}, [late[a] EXCEPT !.sent = TRUE, !.state = s])
      BY <2>3 DEF HoldRow
    <3>2. s \in (Open \cup Terminal) \ {"submitted"}
      BY DEF Open, Terminal
    <3> QED
      BY <1>0, <3>1, <3>2, EditKeeps
  <2>4. CASE Close(w) /\ late' # late
    <3> DEFINE row == [late[a] EXCEPT !.state = "issued", !.sent = TRUE]
    <3>1. row.nonce = late[a].nonce /\ row.state = "issued" /\ row \in Rows /\ late[a] \in Rows
      BY <1>0 DEF TypeOK, Rows, Terminal
    <3>2. late' = [late EXCEPT ![a] = row]
      <4>1. [late EXCEPT ![a].state = "issued", ![a].sent = TRUE] = [late EXCEPT ![a] = row]
        BY <1>0 DEF TypeOK, Rows
      <4> QED
        BY <2>4, <4>1 DEF Close
    <3> HIDE DEF row
    <3>3. late'[a] = row /\ \A b \in Auths \ {a} : late'[b] = late[b]
      BY <1>0, <3>2 DEF TypeOK
    <3> QED
      BY <3>1, <3>3 DEF KeepRow, Sticky
  <2> QED
    BY <2>1, <2>2, <2>3, <2>4
    DEF SettleSucceeds, SettleUnclear, ReserveTx, Confirm, MarkSpent, MarkTxSpent, MarkAuthSpent, MarkThrows
<1>3. /\ Finish(w) \/ (\E step \in Past \ Unsent : Goto(w, step))
      /\ chain' = chain
  BY DEF SettleSucceeds, SettleUnclear, HoldRow, ReserveTx, Confirm,
         MarkSpent, MarkTxSpent, MarkAuthSpent, MarkThrows, Close, Past, Inline, Unsent
<1>4. \A b \in Auths : served[b] > 0 => served'[b] > 0
  <2>1. CASE served' = served
    BY <2>1
  <2>2. CASE served' = [served EXCEPT ![a] = @ + 1]
    BY <1>0, <2>2 DEF TypeOK
  <2> QED
    BY <2>1, <2>2 DEF SettleSucceeds, SettleUnclear, HoldRow, ReserveTx, Confirm,
         MarkSpent, MarkTxSpent, MarkAuthSpent, MarkThrows, Close
<1>5. /\ \A v \in Workers \ {w} : pc'[v] = pc[v] /\ job'[v] = job[v]
      /\ pc'[w] \in Inline => pc'[w] \in Past \ Unsent /\ job'[w] = job[w]
  BY <1>0, <1>3, FinishType, GotoType DEF Past, Inline
<1> QED
  BY <1>0, <1>1, <1>2, <1>3, <1>4, <1>5 DEF Calm

\* The steps of a resolver.
LEMMA ResolverCalm ==
    ASSUME TInv, NEW w \in Workers,
           \/ ReadMatches(w) \/ ReadPending(w) \/ ReadCloses(w) \/ Guard(w) \/ LateReserve(w)
           \/ Sign(w) \/ Publish(w) \/ Issue(w) \/ LateMarks(w)
    PROVE  Calm(w)
<1> DEFINE n == job[w].nonce
           a == job[w].auth
           open == {"submitted", "unknown", "confirmed"}
<1>0. /\ AInv /\ TypeOK /\ pc[w] \in Resolver /\ n \in Nonces /\ a \in Auths
      /\ WorkerBook(w) /\ late[a] \in Rows
  BY DEF TInv, AInv, WorkerBook, ReadMatches, ReadPending, ReadCloses, Guard, LateReserve,
         Sign, Publish, Issue, LateMarks, Resolver, TypeOK
<1>1. \A m \in Nonces : /\ ChallengeStep(m)
                        /\ challenge[m].handle # None => challenge'[m].handle = challenge[m].handle
  <2>1. challenge' = challenge \/ SpendNonce(n)
    BY DEF ReadMatches, ReadPending, ReadCloses, Guard, LateReserve, Sign, Publish, Issue, LateMarks, store
  <2> QED
    BY <1>0, <2>1, ChallengeSteps
<1>2. \A b \in Auths : KeepRow(b)
  <2>1. CASE late' = late
    BY <2>1, SameKeeps
  <2>2. CASE late' = [late EXCEPT ![a].jws = published[a] + 1]
    <3> DEFINE row == [late[a] EXCEPT !.jws = published[a] + 1]
    <3>1. row.nonce = late[a].nonce /\ row.state = late[a].state /\ row.sent = late[a].sent
      BY <1>0 DEF Rows
    <3>2. late'[a] = row /\ \A b \in Auths \ {a} : late'[b] = late[b]
      BY <1>0, <2>2 DEF TypeOK
    <3> HIDE DEF row
    <3> QED
      BY <3>1, <3>2 DEF KeepRow, Sticky
  <2>3. ASSUME NEW from, NEW s \in {"unknown", "confirmed", "issuing", "issued", "held", "not_settled"},
               \/ CasLate(a, from, [late[a] EXCEPT !.state = s])
               \/ CasLate(a, from, [late[a] EXCEPT !.state = s, !.owner = w])
               \/ CasLate(a, from, [late[a] EXCEPT !.state = s, !.owner = None])
               \/ CasLate(a, from, [late[a] EXCEPT !.state = s, !.owner = None, !.jws = 0])
        PROVE  \A b \in Auths : KeepRow(b)
    <3>1. /\ s \in (Open \cup Terminal) \ {"submitted"}
          /\ w \in Workers \cup {"dead", None} /\ None \in Workers \cup {"dead", None}
      BY DEF Open, Terminal
    <3> QED
      BY <1>0, <2>3, <3>1, EditKeeps
  <2>4. CASE ReadMatches(w) \/ ReadPending(w) \/ ReadCloses(w)
    BY <2>1, <2>3, <2>4 DEF ReadMatches, ReadPending, ReadCloses, store
  <2>5. CASE Guard(w)
    BY <2>1, <2>3, <2>5 DEF Guard
  <2>6. CASE LateReserve(w)
    BY <2>1, <2>3, <2>6 DEF LateReserve
  <2>7. CASE Sign(w)
    BY <2>1, <2>2, <2>3, <2>7 DEF Sign
  <2>8. CASE Publish(w)
    <3>1. pc[w] = "publish" /\ job[w].seen = "issuing"
      BY <1>0, <2>8 DEF Publish, WorkerBook
    <3> QED
      BY <2>1, <2>3, <2>8, <3>1 DEF Publish
  <2>9. CASE Issue(w)
    BY <2>1, <2>3, <2>9 DEF Issue
  <2> QED
    BY <2>1, <2>4, <2>5, <2>6, <2>7, <2>8, <2>9 DEF LateMarks
<1>3. /\ \/ Finish(w) \/ (\E step \in Resolver : Goto(w, step))
         \/ /\ pc' = [pc EXCEPT ![w] = "publish"]
            /\ job' = [job EXCEPT ![w].seen = "issuing"]
      /\ chain' = chain /\ served' = served
  BY DEF ReadMatches, ReadPending, ReadCloses, Guard, LateReserve, Sign, Publish, Issue, LateMarks,
         Resolver, store
<1>4. /\ \A v \in Workers \ {w} : pc'[v] = pc[v] /\ job'[v] = job[v]
      /\ pc'[w] \notin Inline
  <2>1. CASE Finish(w) \/ \E step \in Resolver : Goto(w, step)
    BY <1>0, <2>1, FinishType, GotoType DEF Inline, Resolver
  <2>2. CASE pc' = [pc EXCEPT ![w] = "publish"] /\ job' = [job EXCEPT ![w].seen = "issuing"]
    BY <1>0, <2>2 DEF TypeOK, Inline
  <2> QED
    BY <1>3, <2>1, <2>2
<1> QED
  BY <1>1, <1>2, <1>3, <1>4 DEF Calm

\* A resolver takes up a row; a process dies; a lease or a claim runs out; the
\* chain moves on.
LEMMA ResolveCalm ==
    ASSUME TInv, NEW w \in Workers, NEW a \in Auths, Resolve(w, a)
    PROVE  Calm(w)
<1>0. AInv /\ TypeOK /\ late[a] \in Rows
  BY DEF TInv, AInv, TypeOK
<1>1. \A b \in Auths : KeepRow(b)
  <2>1. CASE late' = late
    BY <2>1, SameKeeps
  <2>2. CASE CasLate(a, {"submitted"}, [late[a] EXCEPT !.state = "unknown"])
    <3>1. "unknown" \in (Open \cup Terminal) \ {"submitted"} /\ None \in Workers \cup {"dead", None}
      BY DEF Open
    <3> QED
      BY <1>0, <2>2, <3>1, EditKeeps
  <2>3. CASE late' = [late EXCEPT ![a].state = "confirmed"]
    <3> DEFINE row == [late[a] EXCEPT !.state = "confirmed"]
    <3>1. row.nonce = late[a].nonce /\ row.state = "confirmed"
      BY <1>0 DEF Rows
    <3>2. late'[a] = row /\ \A b \in Auths \ {a} : late'[b] = late[b]
      BY <1>0, <2>3 DEF TypeOK
    <3> HIDE DEF row
    <3> QED
      BY <3>1, <3>2 DEF KeepRow, Sticky
  <2> QED
    BY <2>1, <2>2, <2>3 DEF Resolve
<1>2. /\ pc' = [pc EXCEPT ![w] = "read"] \/ pc' = [pc EXCEPT ![w] = "publish"]
      /\ \E j : job' = [job EXCEPT ![w] = j]
      /\ UNCHANGED <<challenge, chain, served>>
  BY DEF Resolve
<1>3. /\ \A v \in Workers \ {w} : pc'[v] = pc[v] /\ job'[v] = job[v]
      /\ pc'[w] \notin Inline
  BY <1>0, <1>2 DEF TypeOK, Inline
<1> QED
  BY <1>1, <1>2, <1>3 DEF Calm, ChallengeStep

\* A crash drops only the worker's own progress.
LEMMA CrashCalm ==
    ASSUME TInv, NEW w \in Workers, Crash(w)
    PROVE  Calm(w)
<1>0. TypeOK /\ Finish(w) /\ UNCHANGED <<challenge, chain, served>>
  BY DEF TInv, AInv, Crash
<1>1. ASSUME NEW b \in Auths PROVE KeepRow(b)
  <2>1. /\ late[b] \in Rows
        /\ late'[b] = late[b] \/ late'[b] = [late[b] EXCEPT !.owner = "dead"]
    BY <1>0 DEF TypeOK, Crash
  <2> QED
    BY <2>1 DEF KeepRow, Sticky, Rows
<1> QED
  BY <1>0, <1>1, FinishType DEF Calm, ChallengeStep, Inline

\* The chain, the lapse of claims and the end of leases change nothing a request relies on.
LEMMA OutsideCalm ==
    ASSUME TInv,
           \/ \E n \in Nonces : ClaimExpires(n)
           \/ \E a \in Auths : Mine(a) \/ Finalize(a) \/ Lapse(a) \/ LeaseExpires(a)
    PROVE  Calm(None)
<1>0. TypeOK /\ None \notin Workers
  BY PaymentSettleAssumption DEF TInv, AInv
<1>1. UNCHANGED <<pc, job, served>>
  BY DEF ClaimExpires, Mine, Finalize, Lapse, LeaseExpires, store
<1>2. \A m \in Nonces : /\ ChallengeStep(m)
                        /\ challenge[m].handle # None => challenge'[m].handle = challenge[m].handle
  <2>1. CASE challenge' = challenge
    BY <2>1 DEF ChallengeStep
  <2>2. ASSUME NEW n \in Nonces, MarkUnknown(n), NEW m \in Nonces
        PROVE  /\ ChallengeStep(m)
               /\ challenge[m].handle # None => challenge'[m].handle = challenge[m].handle
    <3>1. challenge[n] \in Challenges
      BY <1>0 DEF TypeOK
    <3>2. CASE m = n
      BY <1>0, <2>2, <3>1, <3>2, MarkUnknownType DEF ChallengeStep, Challenges
    <3>3. CASE m # n
      BY <1>0, <2>2, <3>3, MarkUnknownType DEF ChallengeStep
    <3> QED
      BY <3>2, <3>3
  <2> QED
    BY <2>1, <2>2 DEF ClaimExpires, Mine, Finalize, Lapse, LeaseExpires, store
<1>3. \A b \in Auths : chain'[b] \in OnChain => chain[b] \in OnChain
  BY <1>0 DEF ClaimExpires, Mine, Finalize, Lapse, LeaseExpires, OnChain, TypeOK
<1>4. ASSUME NEW b \in Auths PROVE KeepRow(b)
  <2>1. CASE late' = late
    BY <2>1, SameKeeps
  <2>2. ASSUME NEW a \in Auths, LeaseExpires(a) PROVE KeepRow(b)
    <3>1. /\ late[b] \in Rows
          /\ \/ late'[b] = late[b]
             \/ late'[b] = [late[b] EXCEPT !.owner = IF @ = "dead" THEN None ELSE @]
      BY <1>0, <2>2 DEF TypeOK, LeaseExpires
    <3> QED
      BY <3>1 DEF KeepRow, Sticky, Rows
  <2> QED
    BY <2>1, <2>2 DEF ClaimExpires, Mine, Finalize, Lapse, store
<1> QED
  BY <1>0, <1>1, <1>2, <1>3, <1>4 DEF Calm

\* A request that has not sent its payment has its challenge to itself, and no
\* trace rests on a challenge it may give back.
LEMMA UnsentOwns ==
    ASSUME TInv, NEW w \in Workers, pc[w] \in Unsent
    PROVE  /\ AInv /\ TypeOK /\ WorkerBook(w) /\ NonceBook(w)
           /\ pc[w] \in Inline /\ OwnNonce(w, job[w].nonce)
           /\ job[w].nonce \in Nonces /\ job[w].auth \in Auths /\ job[w].nonce # None
           /\ challenge[job[w].nonce] \in Challenges /\ challenge[job[w].nonce].state # "issued"
           /\ challenge[job[w].nonce].state \in {"claimed", "submitted"} =>
                 \A a \in Auths : ~Kept(job[w].nonce, a)
<1>1. pc[w] \in Inline /\ pc[w] # "idle"
  BY DEF Unsent, Inline
<1>2. AInv /\ TypeOK /\ WorkerBook(w) /\ NonceBook(w) /\ OwnNonce(w, job[w].nonce)
  BY <1>1 DEF TInv, AInv
<1>3. job[w].nonce \in Nonces /\ job[w].auth \in Auths /\ job[w].nonce # None
  BY <1>1, <1>2, PaymentSettleAssumption DEF WorkerBook
<1> QED
  BY <1>1, <1>2, <1>3 DEF NonceBook, Kept, TypeOK

\* A step of a request that has not sent its payment.
LEMMA UnsentStep ==
    ASSUME TInv, AInv', payments' = payments,
           handleless \subseteq handleless', NEW w \in Workers, pc[w] \in Unsent,
           NEW n \in Nonces, n = job[w].nonce,
           \A v \in Workers \ {w} : pc'[v] = pc[v] /\ job'[v] = job[v],
           NonceBook(w)', pc'[w] \in Inline => job'[w].nonce = n,
           \A m \in Nonces : /\ m # n => challenge'[m] = challenge[m]
                             /\ challenge'[m].handle = challenge[m].handle,
           \/ ChallengeStep(n)
           \/ /\ challenge[n].state \in {"claimed", "submitted"}
              /\ ChallengeShape(n)',
           \A a \in Auths :
              /\ \/ KeepRow(a)
                 \/ /\ Sticky(a) => Sticky(a)'
                    /\ \A v \in Workers \ {w} : pc[v] \in Inline /\ job[v].row => job[v].auth # a
              /\ chain'[a] \in OnChain => chain[a] \in OnChain \/ Trace(a)',
           served' = served
    PROVE  TInv'
<1>1. /\ OwnNonce(w, n)
      /\ challenge[n].state \in {"claimed", "submitted"} => \A a \in Auths : ~Kept(n, a)
  BY UnsentOwns
<1>2. ASSUME NEW m \in Nonces
      PROVE  /\ challenge[m].handle # None => challenge'[m].handle = challenge[m].handle
             /\ \/ ChallengeStep(m)
                \/ /\ OwnNonce(w, m) /\ ChallengeShape(m)'
                   /\ \A a \in Auths : Kept(m, a) => Trace(a)'
  <2>1. CASE m = n
    BY <1>1, <2>1
  <2>2. CASE m # n
    BY <2>2 DEF ChallengeStep
  <2> QED
    BY <2>1, <2>2
<1>3. /\ NonceBook(w)'
      /\ pc'[w] \in Inline => OwnNonce(w, job'[w].nonce)
      /\ pc'[w] \in Unsent =>
            \/ pc[w] \in Unsent /\ job'[w].nonce = job[w].nonce
            \/ challenge[job'[w].nonce].state = "issued"
  BY <1>1 DEF Unsent, Inline
<1> QED
  BY <1>2, <1>3, TraceStep

\* What giving a challenge back does to it.
LEMMA BackSteps ==
    ASSUME TInv, NEW n \in Nonces, NEW from \in {"claimed", "submitted"},
           challenge' = [challenge EXCEPT ![n] = Back(@, from)]
    PROVE  /\ \A m \in Nonces : /\ m # n => challenge'[m] = challenge[m]
                                /\ challenge'[m].handle = challenge[m].handle
           /\ \/ ChallengeStep(n)
              \/ challenge[n].state \in {"claimed", "submitted"} /\ ChallengeShape(n)'
<1>1. challenge[n] \in Challenges /\ TypeOK
  BY DEF TInv, AInv, TypeOK
<1>2. challenge'[n] = Back(challenge[n], from) /\ \A m \in Nonces \ {n} : challenge'[m] = challenge[m]
  BY <1>1 DEF TypeOK
<1> QED
  BY <1>1, <1>2, BackType DEF ChallengeStep, ChallengeShape

\* A request stopped by a replay or by its verification gives back a challenge that paid nothing.
LEMMA RequestTraces ==
    ASSUME TInv, AInv', payments' = payments,
           handleless \subseteq handleless', NEW w \in Workers, CheckPrior(w) \/ VerifyFails(w)
    PROVE  TInv'
<1>1. pc[w] \in {"claimed", "verify"} /\ pc[w] \in Unsent
  BY DEF CheckPrior, VerifyFails, Unsent
<1>n. PICK n \in Nonces : n = job[w].nonce
  BY <1>1, UnsentOwns
<1>2. AInv /\ TypeOK /\ NonceBook(w) /\ pc[w] \in Inline
  BY <1>1, UnsentOwns
<1>3. /\ UNCHANGED <<late, served, chain>>
      /\ \/ Release(n) /\ Finish(w)
         \/ challenge' = challenge /\ Goto(w, "verify")
  BY <1>n DEF CheckPrior, VerifyFails
<1>4. /\ \A v \in Workers \ {w} : pc'[v] = pc[v] /\ job'[v] = job[v]
      /\ pc'[w] = "idle" \/ (pc'[w] = "verify" /\ job' = job /\ challenge' = challenge)
  BY <1>2, <1>3, FinishType, GotoType DEF Inline
<1>5. NonceBook(w)'
  BY <1>1, <1>2, <1>3, <1>4 DEF NonceBook, Inline, Past
<1>6. /\ \A m \in Nonces : /\ m # n => challenge'[m] = challenge[m]
                           /\ challenge'[m].handle = challenge[m].handle
      /\ \/ ChallengeStep(n)
         \/ challenge[n].state \in {"claimed", "submitted"} /\ ChallengeShape(n)'
  <2>1. CASE challenge' = challenge
    BY <2>1 DEF ChallengeStep
  <2>2. CASE Release(n)
    <3>1. challenge' = [challenge EXCEPT ![n] = Back(@, "claimed")]
      BY <2>2 DEF Release
    <3> QED
      BY <1>2, <3>1, BackSteps
  <2> QED
    BY <1>3, <2>1, <2>2
<1>7. \A a \in Auths : KeepRow(a) /\ (chain'[a] \in OnChain => chain[a] \in OnChain)
  BY <1>3, SameKeeps
<1>8. pc'[w] \in Inline => job'[w].nonce = n
  BY <1>n, <1>4 DEF Inline
<1>9. served' = served
  BY <1>3
<1> QED
  BY <1>n, <1>1, <1>4, <1>5, <1>6, <1>7, <1>8, <1>9, UnsentStep

\* Marking the challenge submitted before the call keeps its payment traced.
LEMMA MarkSubmittedTraces ==
    ASSUME TInv, AInv', payments' = payments,
           handleless \subseteq handleless', NEW w \in Workers, MarkSubmitted(w)
    PROVE  TInv'
<1>1. pc[w] = "mark" /\ pc[w] \in Unsent
  BY DEF MarkSubmitted, Unsent
<1>n. PICK n \in Nonces : n = job[w].nonce
  BY <1>1, UnsentOwns
<1> DEFINE c == challenge[n]
           marked == [c EXCEPT !.state = IF @ = "claimed" THEN "submitted" ELSE @]
<1>2. /\ AInv /\ TypeOK /\ NonceBook(w) /\ pc[w] \in Inline /\ pc[w] \in Past
      /\ c \in Challenges
  BY <1>n, <1>1, UnsentOwns DEF Past
<1>3. /\ UNCHANGED <<late, served, chain>> /\ Goto(w, "settle")
      /\ challenge' = [challenge EXCEPT ![n] = marked]
  BY <1>n, <1>2 DEF MarkSubmitted, TypeOK
<1>4. /\ marked.hash = c.hash /\ marked.handle = c.handle
      /\ marked.state = IF c.state = "claimed" THEN "submitted" ELSE c.state
  BY <1>2 DEF Challenges
<1> HIDE DEF marked
<1>5. challenge'[n] = marked /\ \A m \in Nonces \ {n} : challenge'[m] = challenge[m]
  BY <1>2, <1>3 DEF TypeOK
<1>6. /\ \A v \in Workers \ {w} : pc'[v] = pc[v] /\ job'[v] = job[v]
      /\ pc'[w] = "settle" /\ job' = job
  BY <1>2, <1>3, GotoType DEF Inline
<1>7. NonceBook(w)'
  BY <1>n, <1>2, <1>3, <1>4, <1>5, <1>6 DEF NonceBook
<1>8. /\ \A m \in Nonces : /\ m # n => challenge'[m] = challenge[m]
                           /\ challenge'[m].handle = challenge[m].handle
      /\ \/ ChallengeStep(n)
         \/ challenge[n].state \in {"claimed", "submitted"} /\ ChallengeShape(n)'
  BY <1>4, <1>5 DEF ChallengeStep, ChallengeShape
<1>9. \A a \in Auths : KeepRow(a) /\ (chain'[a] \in OnChain => chain[a] \in OnChain)
  BY <1>3, SameKeeps
<1>10. served' = served /\ job'[w].nonce = n
  BY <1>n, <1>3, <1>6
<1> QED
  BY <1>n, <1>1, <1>6, <1>7, <1>8, <1>9, <1>10, UnsentStep

\* A verified request carries its own challenge to the settlement.
LEMMA AdmitTraces ==
    ASSUME TInv, AInv', payments' = payments,
           handleless \subseteq handleless', NEW w \in Workers, Admit(w)
    PROVE  TInv'
<1>1. pc[w] = "verify" /\ pc[w] \in Unsent
  BY DEF Admit, Unsent
<1>2. PICK n \in Nonces, a \in Auths : n = job[w].nonce /\ a = job[w].auth
  BY <1>1, UnsentOwns
<1> DEFINE c == challenge[n]
           verified == [c EXCEPT !.hash = IF c.state = "claimed" THEN a ELSE @]
           opened == [NoRow EXCEPT !.state = "submitted", !.nonce = n]
<1>3. /\ AInv /\ TypeOK /\ NonceBook(w) /\ pc[w] \in Inline /\ c \in Challenges /\ n # None
      /\ c.hash = None /\ c.state \notin {"issued", "submitted"} /\ RowShape(a)
  BY <1>1, <1>2, UnsentOwns DEF NonceBook, AInv, RowBook
<1>4. /\ verified.hash \in {a, None} /\ verified.handle = c.handle /\ verified.state = c.state
      /\ c.state = "claimed" => verified.hash = a
      /\ c.state # "claimed" => verified.hash = c.hash
  BY <1>3 DEF Challenges
<1>5. opened.state = "submitted" /\ opened.nonce = n
  BY DEF NoRow
<1>6. /\ UNCHANGED <<served, chain>>
      /\ late' = late \/ (late[a] = NoRow /\ late' = [late EXCEPT ![a] = opened])
      /\ \/ /\ challenge' = [challenge EXCEPT ![n] = verified]
            /\ \/ Goto(w, "settle") /\ late' = late
               \/ /\ pc' = [pc EXCEPT ![w] = "mark"] /\ job' = [job EXCEPT ![w].row = TRUE]
                  /\ (late[a].nonce = n /\ late' = late) \/ late' = [late EXCEPT ![a] = opened]
         \/ Release(n) /\ Finish(w)
  BY <1>2, <1>3 DEF Admit, TypeOK
<1> HIDE DEF verified, opened
<1>7. \A b \in Auths : KeepRow(b)
  <2>1. CASE late' = late
    BY <2>1, SameKeeps
  <2>2. CASE late[a] = NoRow /\ late' = [late EXCEPT ![a] = opened]
    <3>1. \A b \in Auths \ {a} : late'[b] = late[b]
      BY <1>3, <2>2 DEF TypeOK
    <3>2. late[a].state = "none" /\ late[a].nonce = None
      BY <2>2 DEF NoRow
    <3> QED
      BY <3>1, <3>2 DEF KeepRow, Sticky
  <2> QED
    BY <1>6, <2>1, <2>2
<1>8. CASE Release(n) /\ Finish(w)
  <2>1. /\ \A v \in Workers \ {w} : pc'[v] = pc[v] /\ job'[v] = job[v]
        /\ pc'[w] = "idle"
    BY <1>3, <1>8, FinishType
  <2>2. NonceBook(w)' /\ pc'[w] \notin Inline
    BY <2>1 DEF NonceBook, Inline
  <2>3. /\ \A m \in Nonces : /\ m # n => challenge'[m] = challenge[m]
                             /\ challenge'[m].handle = challenge[m].handle
        /\ \/ ChallengeStep(n)
           \/ challenge[n].state \in {"claimed", "submitted"} /\ ChallengeShape(n)'
    <3>1. challenge' = [challenge EXCEPT ![n] = Back(@, "claimed")]
      BY <1>8 DEF Release
    <3> QED
      BY <3>1, BackSteps
  <2>4. served' = served /\ \A b \in Auths : chain'[b] \in OnChain => chain[b] \in OnChain
    BY <1>6
  <2> QED
    BY <1>1, <1>2, <1>7, <2>1, <2>2, <2>3, <2>4, UnsentStep
<1>9. CASE /\ challenge' = [challenge EXCEPT ![n] = verified]
           /\ \/ Goto(w, "settle") /\ late' = late
              \/ /\ pc' = [pc EXCEPT ![w] = "mark"] /\ job' = [job EXCEPT ![w].row = TRUE]
                 /\ (late[a].nonce = n /\ late' = late) \/ late' = [late EXCEPT ![a] = opened]
  <2>1. challenge'[n] = verified /\ \A m \in Nonces \ {n} : challenge'[m] = challenge[m]
    BY <1>3, <1>9 DEF TypeOK
  <2>2. /\ \A v \in Workers \ {w} : pc'[v] = pc[v] /\ job'[v] = job[v]
        /\ pc'[w] \in {"settle", "mark"} /\ job'[w].nonce = n /\ job'[w].auth = a
        /\ job'[w].row => late'[a].nonce = n
    <3>1. CASE Goto(w, "settle") /\ late' = late
      BY <1>2, <1>3, <3>1, GotoType DEF Inline, NonceBook
    <3>2. CASE /\ pc' = [pc EXCEPT ![w] = "mark"] /\ job' = [job EXCEPT ![w].row = TRUE]
               /\ (late[a].nonce = n /\ late' = late) \/ late' = [late EXCEPT ![a] = opened]
      <4>1. late'[a].nonce = n
        BY <1>3, <1>5, <3>2 DEF TypeOK
      <4>2. job'[w].nonce = n /\ job'[w].auth = a /\ \A v \in Workers \ {w} : job'[v] = job[v]
        BY <1>2, <1>3, <3>2 DEF TypeOK, Jobs
      <4>3. pc'[w] = "mark" /\ \A v \in Workers \ {w} : pc'[v] = pc[v]
        BY <1>3, <3>2 DEF TypeOK
      <4> QED
        BY <4>1, <4>2, <4>3
    <3> QED
      BY <1>9, <3>1, <3>2
  <2>3. NonceBook(w)'
    <3>1. <<n, a>> \in payments
      BY <1>2, <1>3 DEF NonceBook
    <3> QED
      BY <1>3, <1>4, <2>1, <2>2, <3>1 DEF NonceBook, Past, Inline
  <2>4. /\ \A m \in Nonces : /\ m # n => challenge'[m] = challenge[m]
                             /\ challenge'[m].handle = challenge[m].handle
        /\ \/ ChallengeStep(n)
           \/ challenge[n].state \in {"claimed", "submitted"} /\ ChallengeShape(n)'
    BY <1>3, <1>4, <2>1 DEF ChallengeStep, ChallengeShape
  <2>5. served' = served /\ \A b \in Auths : chain'[b] \in OnChain => chain[b] \in OnChain
    BY <1>6
  <2> QED
    BY <1>1, <1>2, <1>7, <2>2, <2>3, <2>4, <2>5, UnsentStep
<1> QED
  BY <1>6, <1>8, <1>9

\* A transfer that was never sent leaves nothing to trace.
LEMMA SettleNotSentTraces ==
    ASSUME TInv, AInv', payments' = payments,
           handleless \subseteq handleless', NEW w \in Workers, SettleNotSent(w)
    PROVE  TInv'
<1>1. pc[w] = "settle" /\ pc[w] \in Unsent
  BY DEF SettleNotSent, Unsent
<1>2. PICK n \in Nonces, a \in Auths : n = job[w].nonce /\ a = job[w].auth
  BY <1>1, UnsentOwns
<1>3. AInv /\ TypeOK /\ NonceBook(w) /\ OwnNonce(w, n) /\ pc[w] \in Inline
  BY <1>1, <1>2, UnsentOwns
<1>4. /\ UNCHANGED <<served, chain>> /\ Finish(w)
      /\ challenge' = [challenge EXCEPT ![n] = Back(@, "submitted")]
      /\ \/ late' = late
         \/ /\ job[w].row /\ late[a].state = "submitted" /\ ~late[a].sent
            /\ late' = [late EXCEPT ![a] = NoRow]
  BY <1>2 DEF SettleNotSent
<1>5. \A v \in Workers \ {w} : pc'[v] = pc[v] /\ job'[v] = job[v]
  BY <1>3, <1>4, FinishType
<1>6. NonceBook(w)' /\ pc'[w] \notin Inline
  BY <1>3, <1>4, FinishType DEF NonceBook, Inline
<1>7. /\ \A m \in Nonces : /\ m # n => challenge'[m] = challenge[m]
                           /\ challenge'[m].handle = challenge[m].handle
      /\ \/ ChallengeStep(n)
         \/ challenge[n].state \in {"claimed", "submitted"} /\ ChallengeShape(n)'
  BY <1>4, BackSteps
<1>8. ASSUME NEW b \in Auths
      PROVE  /\ \/ KeepRow(b)
                \/ /\ Sticky(b) => Sticky(b)'
                   /\ \A v \in Workers \ {w} : pc[v] \in Inline /\ job[v].row => job[v].auth # b
             /\ chain'[b] \in OnChain => chain[b] \in OnChain
  <2>1. CASE late' = late
    BY <1>4, <2>1, SameKeeps
  <2>2. CASE late' # late /\ b = a
    <3>1. ~Sticky(a) /\ late[a].nonce = n
      BY <1>2, <1>3, <1>4, <2>2 DEF Sticky, NonceBook
    <3>2. ASSUME NEW v \in Workers \ {w}, pc[v] \in Inline, job[v].row, job[v].auth = a PROVE FALSE
      BY <1>3, <3>1, <3>2 DEF TInv, NonceBook, OwnNonce
    <3> QED
      BY <1>4, <2>2, <3>1, <3>2
  <2>3. CASE late' # late /\ b # a
    BY <1>3, <1>4, <2>3 DEF KeepRow, Sticky, TypeOK
  <2> QED
    BY <2>1, <2>2, <2>3
<1>9. served' = served
  BY <1>4
<1> QED
  BY <1>1, <1>2, <1>5, <1>6, <1>7, <1>8, <1>9, UnsentStep

\* The payment leaves the process: its challenge is the trace of it.
LEMMA SettleCallTraces ==
    ASSUME TInv, AInv', payments' = payments,
           handleless \subseteq handleless', NEW w \in Workers, SettleCall(w)
    PROVE  TInv'
<1>1. pc[w] = "settle" /\ pc[w] \in Unsent /\ pc[w] \in Past
  BY DEF SettleCall, Unsent, Past, Inline
<1>2. PICK n \in Nonces, a \in Auths : n = job[w].nonce /\ a = job[w].auth
  BY <1>1, UnsentOwns
<1>3. /\ AInv /\ TypeOK /\ NonceBook(w) /\ OwnNonce(w, n) /\ pc[w] \in Inline
      /\ challenge[n] \in Challenges /\ challenge[n].state # "issued"
  BY <1>1, <1>2, UnsentOwns
<1>4. /\ UNCHANGED <<served, challenge, late>> /\ Goto(w, "await")
      /\ \A b \in Auths \ {a} : chain'[b] = chain[b]
  BY <1>2, <1>3 DEF SettleCall, store, TypeOK
<1>5. /\ \A v \in Workers \ {w} : pc'[v] = pc[v] /\ job'[v] = job[v]
      /\ pc'[w] = "await" /\ job' = job
  BY <1>3, <1>4, GotoType DEF Inline
<1>6. NonceBook(w)'
  BY <1>1, <1>3, <1>4, <1>5 DEF NonceBook, Past, Inline
<1>7. Kept(n, a)'
  <2>1. \A v \in Workers : pc'[v] \in Unsent => job'[v].nonce # n
    BY <1>3, <1>5 DEF OwnNonce, Unsent, Inline
  <2>2. /\ challenge[n].hash \in {a, None} /\ <<n, a>> \in payments
        /\ \/ challenge[n].state \in {"unknown", "spent"}
           \/ challenge[n].state \in {"claimed", "submitted"} /\ challenge[n].hash = a
    BY <1>1, <1>2, <1>3 DEF NonceBook, Challenges
  <2> QED
    BY <1>4, <2>1, <2>2 DEF Kept
<1>8. \A b \in Auths : /\ KeepRow(b)
                       /\ chain'[b] \in OnChain => chain[b] \in OnChain \/ Trace(b)'
  BY <1>4, <1>7, SameKeeps DEF Trace
<1>9. /\ ChallengeStep(n) /\ served' = served /\ job'[w].nonce = n
      /\ \A m \in Nonces : /\ m # n => challenge'[m] = challenge[m]
                           /\ challenge'[m].handle = challenge[m].handle
  BY <1>2, <1>4, <1>5 DEF ChallengeStep
<1> QED
  BY <1>1, <1>2, <1>5, <1>6, <1>8, <1>9, UnsentStep

\* The facilitator refuses a payment that was sent: when its challenge is
\* given back, the handle or the row is the trace that is left.
LEMMA SettleRefusedTraces ==
    ASSUME TInv, AInv', payments' = payments,
           handleless \subseteq handleless', NEW w \in Workers, SettleRefused(w)
    PROVE  TInv'
<1>1. pc[w] = "await" /\ pc[w] \in Inline /\ pc[w] \in Past \ Unsent
  BY DEF SettleRefused, Past, Inline, Unsent
<1>2. PICK n \in Nonces, a \in Auths : n = job[w].nonce /\ a = job[w].auth
  BY <1>1 DEF TInv, AInv, WorkerBook
<1>3. /\ AInv /\ TypeOK /\ NonceBook(w) /\ OwnNonce(w, n) /\ challenge[n] \in Challenges
      /\ n # None /\ a # None /\ late[a] \in Rows /\ RowShape(a)
  BY <1>1, <1>2, PaymentSettleAssumption DEF TInv, AInv, TypeOK, RowBook
<1> DEFINE open == {"submitted", "unknown", "confirmed"}
           row == [late[a] EXCEPT !.state = "unknown", !.sent = TRUE]
<1>4. UNCHANGED <<served, chain>>
  BY DEF SettleRefused
<1>5. CASE Sent(w) /\ MarkUnknown(n) /\ Goto(w, "hold")
  <2>1. /\ \A v \in Workers \ {w} : pc'[v] = pc[v] /\ job'[v] = job[v]
        /\ pc'[w] = "hold" /\ job' = job
    BY <1>3, <1>5, GotoType DEF Inline
  <2>2. \A b \in Auths : KeepRow(b)
    BY <1>2, <1>3, <1>5, SentKeeps
  <2>3. \A m \in Nonces : /\ ChallengeStep(m)
                          /\ challenge[m].handle # None => challenge'[m].handle = challenge[m].handle
    BY <1>3, <1>5, ChallengeSteps
  <2>4. Calm(w)
    BY <1>1, <1>4, <2>1, <2>2, <2>3 DEF Calm, Past, Inline, Unsent
  <2> QED
    BY <2>4, CalmStep
<1>6. ASSUME Finish(w), NEW from \in {"claimed", "submitted"},
             \/ /\ job[w].row /\ CasLate(a, open, row)
                /\ challenge' = [challenge EXCEPT ![n] = Back(@, from)]
             \/ /\ ~job[w].row /\ late' = late
                /\ challenge' = [challenge EXCEPT ![n] = WithHandle(Back(@, from), a)]
      PROVE  TInv'
  <2>1. /\ \A v \in Workers \ {w} : pc'[v] = pc[v] /\ job'[v] = job[v]
        /\ pc'[w] = "idle"
    BY <1>3, <1>6, FinishType
  <2>2. /\ NonceBook(w)' /\ pc'[w] \notin Inline /\ pc'[w] \notin Unsent
    BY <2>1 DEF NonceBook, Inline, Unsent
  <2>3. \A m \in Nonces \ {n} : challenge'[m] = challenge[m]
    BY <1>3, <1>6 DEF TypeOK
  <2>4. row \in Rows /\ row.state = "unknown" /\ row.nonce = late[a].nonce /\ row.sent
    BY <1>3 DEF Rows, Open
  <2> HIDE DEF row, open
  <2>5. \A b \in Auths : KeepRow(b)
    <3>1. CASE late' = late
      BY <3>1, SameKeeps
    <3>2. CASE CasLate(a, open, row)
      BY <1>3, <2>4, <3>2, RowKeeps
    <3> QED
      BY <1>6, <3>1, <3>2
  <2>6. /\ challenge[n].handle # None => challenge'[n].handle = challenge[n].handle
        /\ \/ ChallengeStep(n)
           \/ /\ OwnNonce(w, n) /\ ChallengeShape(n)'
              /\ \A b \in Auths : Kept(n, b) => Trace(b)'
    <3>1. CASE job[w].row
      <4>1. challenge'[n] = Back(challenge[n], from) /\ CasLate(a, open, row)
        BY <1>3, <1>6, <3>1 DEF TypeOK
      <4>2. CASE challenge[n].state # from
        BY <1>3, <4>1, <4>2, BackType DEF ChallengeStep
      <4>3. CASE challenge[n].state = from
        <5>1. /\ challenge'[n].state = "issued" /\ challenge'[n].hash = None
              /\ challenge'[n].handle = challenge[n].handle
          BY <1>3, <4>1, <4>3, BackType
        <5>2. challenge[n].hash = a /\ late[a].nonce = n
          BY <1>1, <1>2, <1>3, <3>1, <4>3 DEF NonceBook
        <5>3. late[a].state # "none"
          BY <1>3, <5>2 DEF RowShape, NoRow
        <5>4. Sticky(a)'
          <6>1. late'[a] = IF late[a].state \in open THEN row ELSE late[a]
            BY <1>3, <2>4, <4>1, CasType
          <6>2. late[a].state \notin open => late[a].state \notin {"none", "submitted"}
            BY <5>3 DEF open
          <6> QED
            BY <2>4, <6>1, <6>2 DEF Sticky
        <5>5. ASSUME NEW b \in Auths, Kept(n, b) PROVE Trace(b)'
          <6>1. b = a
            BY <1>3, <5>2, <5>5 DEF Kept
          <6> QED
            BY <5>4, <6>1 DEF Trace
        <5> QED
          BY <1>3, <5>1, <5>5 DEF ChallengeShape
      <4> QED
        BY <4>2, <4>3
    <3>2. CASE ~job[w].row
      <4>1. challenge'[n] = WithHandle(Back(challenge[n], from), a)
        BY <1>3, <1>6, <3>2 DEF TypeOK
      <4>2. /\ Back(challenge[n], from) \in Challenges
            /\ challenge[n].state # from => Back(challenge[n], from) = challenge[n]
            /\ challenge[n].state = from =>
                  /\ Back(challenge[n], from).state = "issued" /\ Back(challenge[n], from).hash = None
        BY <1>3, BackType
      <4>3. /\ challenge'[n].handle = IF challenge[n].handle = None THEN a ELSE challenge[n].handle
            /\ challenge'[n].state = Back(challenge[n], from).state
            /\ challenge'[n].hash = Back(challenge[n], from).hash
        BY <1>3, <4>1, <4>2, BackType, HandleType
      <4>4. Trace(a)'
        <5>1. CASE challenge[n].handle \in {None, a}
          BY <1>1, <1>2, <1>3, <4>3, <5>1 DEF Trace, NonceBook
        <5>2. CASE challenge[n].handle \notin {None, a}
          <6>1. <<n, a>> \in handleless'
            BY <1>2, <3>2, <5>2 DEF SettleRefused, HandleDenied
          <6> QED
            BY <6>1 DEF Trace
        <5> QED
          BY <5>1, <5>2
      <4>5. CASE challenge[n].state # from
        BY <1>3, <4>2, <4>3, <4>5 DEF ChallengeStep
      <4>6. CASE challenge[n].state = from
        <5>1. challenge[n].hash = a
          BY <1>1, <1>2, <1>3, <4>6 DEF NonceBook
        <5>2. \A b \in Auths : Kept(n, b) => b = a
          BY <1>3, <5>1 DEF Kept
        <5> QED
          BY <1>3, <4>2, <4>3, <4>4, <4>6, <5>2 DEF ChallengeShape
      <4> QED
        BY <4>5, <4>6
    <3> QED
      BY <3>1, <3>2
  <2>7. ASSUME NEW m \in Nonces
        PROVE  /\ challenge[m].handle # None => challenge'[m].handle = challenge[m].handle
               /\ \/ ChallengeStep(m)
                  \/ /\ OwnNonce(w, m) /\ ChallengeShape(m)'
                     /\ \A b \in Auths : Kept(m, b) => Trace(b)'
    <3>1. CASE m = n
      BY <2>6, <3>1
    <3>2. CASE m # n
      BY <2>3, <3>2 DEF ChallengeStep
    <3> QED
      BY <3>1, <3>2
  <2> QED
    BY <1>4, <2>1, <2>2, <2>5, <2>7, TraceStep
<1>7. \/ /\ Finish(w)
         /\ \E from \in {"claimed", "submitted"} :
              \/ /\ job[w].row /\ CasLate(a, open, row)
                 /\ challenge' = [challenge EXCEPT ![n] = Back(@, from)]
              \/ /\ ~job[w].row /\ late' = late
                 /\ challenge' = [challenge EXCEPT ![n] = WithHandle(Back(@, from), a)]
      \/ Sent(w) /\ MarkUnknown(n) /\ Goto(w, "hold")
  <2>1. CASE job[w].row
    BY <1>2, <2>1 DEF SettleRefused
  <2>2. CASE ~job[w].row
    BY <1>2, <2>2 DEF SettleRefused
  <2> QED
    BY <2>1, <2>2
<1> QED
  BY <1>5, <1>6, <1>7

\* A nonce in circulation is claimed: nobody has it, and nothing rests on it.
LEMMA ClaimTraces ==
    ASSUME TInv, AInv', payments' = payments,
           handleless \subseteq handleless', NEW w \in Workers, NEW p \in payments, Claim(w, p[1], p[2])
    PROVE  TInv'
<1>1. PICK n \in Nonces, a \in Auths : n = p[1] /\ a = p[2]
  BY DEF TInv, AInv, TypeOK
<1> DEFINE mine == [NoJob EXCEPT !.nonce = n, !.auth = a]
           claimed == [challenge[n] EXCEPT !.state = "claimed"]
<1>2. /\ TypeOK /\ challenge[n] \in Challenges /\ challenge[n].state = "issued"
      /\ challenge[n].hash = None
  BY <1>1 DEF TInv, AInv, TypeOK, Claim, ChallengeShape
<1>3. /\ pc' = [pc EXCEPT ![w] = "claimed"] /\ job' = [job EXCEPT ![w] = mine]
      /\ challenge' = [challenge EXCEPT ![n] = claimed]
      /\ UNCHANGED <<late, chain, served>>
  BY <1>1, <1>2 DEF Claim, TypeOK
<1>4. mine.nonce = n /\ mine.auth = a /\ ~mine.row
  BY DEF NoJob
<1>5. claimed.state = "claimed" /\ claimed.hash = None /\ claimed.handle = challenge[n].handle
  BY <1>2 DEF Challenges
<1> HIDE DEF mine, claimed
<1>6. /\ \A v \in Workers \ {w} : pc'[v] = pc[v] /\ job'[v] = job[v]
      /\ pc'[w] = "claimed" /\ job'[w] = mine
  BY <1>2, <1>3 DEF TypeOK
<1>7. challenge'[n] = claimed /\ \A m \in Nonces \ {n} : challenge'[m] = challenge[m]
  BY <1>2, <1>3 DEF TypeOK
<1>8. OwnNonce(w, n)
  BY <1>2 DEF TInv, NonceBook, OwnNonce
<1>9. NonceBook(w)'
  <2>1. <<job'[w].nonce, job'[w].auth>> \in payments'
    <3>1. p = <<n, a>>
      BY <1>1 DEF TInv, AInv, TypeOK
    <3> QED
      BY <1>4, <1>6, <3>1
  <2> QED
    BY <1>4, <1>5, <1>6, <1>7, <2>1 DEF NonceBook, Past
<1>10. ASSUME NEW m \in Nonces
       PROVE  /\ challenge[m].handle # None => challenge'[m].handle = challenge[m].handle
              /\ \/ ChallengeStep(m)
                 \/ /\ OwnNonce(w, m) /\ ChallengeShape(m)'
                    /\ \A b \in Auths : Kept(m, b) => Trace(b)'
  <2>1. CASE m = n
    BY <1>2, <1>5, <1>7, <1>8, <2>1 DEF ChallengeShape, Kept
  <2>2. CASE m # n
    BY <1>7, <2>2 DEF ChallengeStep
  <2> QED
    BY <2>1, <2>2
<1>11. /\ OwnNonce(w, job'[w].nonce) /\ challenge[job'[w].nonce].state = "issued"
  BY <1>2, <1>4, <1>6, <1>8
<1>12. \A b \in Auths : KeepRow(b)
  BY <1>3, SameKeeps
<1> QED
  BY <1>3, <1>6, <1>9, <1>10, <1>11, <1>12, TraceStep

\* Nothing is paid at the start.
LEMMA InitTInv == Init => TInv
<1> SUFFICES ASSUME Init PROVE TInv
  OBVIOUS
<1>1. AInv
  BY InitAInv
<1>2. ASSUME NEW w \in Workers PROVE pc[w] \notin Inline
  BY DEF Init, Inline
<1>3. ASSUME NEW n \in Nonces PROVE ChallengeShape(n)
  BY DEF Init, ChallengeShape
<1>4. ASSUME NEW a \in Auths PROVE chain[a] \notin OnChain
  BY DEF Init, OnChain
<1> QED
  BY <1>1, <1>2, <1>3, <1>4 DEF TInv, NonceBook

\* Clients present what they present from the start, and a refusal without a
\* handle stays on record.
LEMMA HistoryStep ==
    ASSUME [Next]_vars
    PROVE  payments' = payments /\ handleless \subseteq handleless'
<1>1. CASE UNCHANGED vars
  BY <1>1 DEF vars
<1>2. ASSUME NEW w \in Workers, Proceed(w)
      PROVE  payments' = payments /\ handleless \subseteq handleless'
  BY <1>2 DEF Proceed, CheckPrior, VerifyFails, Admit, MarkSubmitted, SettleNotSent, SettleCall,
     SettleSucceeds, SettleRefused, SettleUnclear, HoldRow, ReserveTx, Confirm, MarkSpent,
     MarkTxSpent, MarkAuthSpent, MarkThrows, Close, ReadMatches, ReadPending, ReadCloses, Guard,
     LateReserve, Sign, Publish, Issue, LateMarks
<1>3. ASSUME NEW w \in Workers,
             \/ \E p \in payments : Claim(w, p[1], p[2])
             \/ \E a \in Auths : Resolve(w, a)
             \/ Crash(w)
      PROVE  payments' = payments /\ handleless \subseteq handleless'
  BY <1>3 DEF Claim, Resolve, Crash
<1>4. CASE \/ \E n \in Nonces : ClaimExpires(n)
           \/ \E a \in Auths : Mine(a) \/ Finalize(a) \/ Lapse(a) \/ LeaseExpires(a)
  BY <1>4 DEF ClaimExpires, Mine, Finalize, Lapse, LeaseExpires
<1> QED
  BY <1>1, <1>2, <1>3, <1>4 DEF Next

\* Every step keeps TInv.
LEMMA NextTInv ==
    ASSUME TInv, [Next]_vars
    PROVE  TInv'
<1>0. AInv' /\ payments' = payments /\ handleless \subseteq handleless'
  BY NextAInv, HistoryStep DEF TInv
<1>1. CASE UNCHANGED vars
  BY <1>0, <1>1 DEF vars, store, TInv, NonceBook, OwnNonce, ChallengeShape, Trace, Sticky, Kept
<1>2. ASSUME NEW w \in Workers, Proceed(w) PROVE TInv'
  BY <1>0, <1>2, PastCalm, ResolverCalm, CalmStep, RequestTraces, MarkSubmittedTraces, AdmitTraces,
     SettleNotSentTraces, SettleCallTraces, SettleRefusedTraces
  DEF Proceed
<1>3. ASSUME NEW w \in Workers, NEW p \in payments, Claim(w, p[1], p[2]) PROVE TInv'
  BY <1>0, <1>3, ClaimTraces
<1>4. ASSUME NEW w \in Workers, NEW a \in Auths, Resolve(w, a) PROVE TInv'
  BY <1>0, <1>4, ResolveCalm, CalmStep
<1>5. ASSUME NEW w \in Workers, Crash(w) PROVE TInv'
  BY <1>0, <1>5, CrashCalm, CalmStep
<1>6. CASE \/ \E n \in Nonces : ClaimExpires(n)
           \/ \E a \in Auths : Mine(a) \/ Finalize(a) \/ Lapse(a) \/ LeaseExpires(a)
  BY <1>0, <1>6, OutsideCalm, CalmStep
<1> QED
  BY <1>1, <1>2, <1>3, <1>4, <1>5, <1>6 DEF Next

\* No payment is lost (settleBoundPayment, noteLateUnknown, the hold handle):
\* from the moment an authorization leaves the process, whatever fails or
\* dies, one that was paid is in a late row, was served, has a hold handle
\* that was opened for it, or left a challenge of its own out of circulation;
\* the only other case is a refusal that found the handle of its challenge
\* given to another payment.
THEOREM SettlePaidIsTraced == Spec => []PaidIsTraced
<1>1. Init => TInv
  BY InitTInv
<1>2. TInv /\ [Next]_vars => TInv'
  BY NextTInv
<1>3. TInv => PaidIsTraced
  <2> SUFFICES ASSUME TInv, NEW a \in Auths, chain[a] \in {"paid", "final"}
               PROVE  Traced(a) \/ \E n \in Nonces : <<n, a>> \in handleless
    BY DEF PaidIsTraced
  <2>1. Trace(a)
    BY DEF TInv, OnChain
  <2>2. Sticky(a) => late[a] # NoRow
    BY DEF Sticky, NoRow
  <2>3. ASSUME NEW n \in Nonces, Kept(n, a) PROVE Traced(a)
    <3>1. CASE challenge[n].hash = a /\ challenge[n].state # "issued"
      BY <2>3, <3>1 DEF Traced, Kept
    <3>2. CASE challenge[n].hash = None /\ challenge[n].state \in {"unknown", "spent"}
      BY <2>3, <3>2 DEF Traced, Kept
    <3> QED
      BY <2>3, <3>1, <3>2 DEF Kept
  <2>4. ASSUME NEW n \in Nonces, <<n, a>> \in payments, challenge[n].handle = a PROVE Traced(a)
    BY <2>4 DEF Traced
  <2> QED
    BY <2>1, <2>2, <2>3, <2>4 DEF Trace, Traced
<1> QED
  BY <1>1, <1>2, <1>3, PTL DEF Spec
=============================================================================
