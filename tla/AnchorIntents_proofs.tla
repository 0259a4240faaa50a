------------------------- MODULE AnchorIntents_proofs -------------------------
(***************************************************************************)
(* The anchor intents of the receipt log, for any number of heads, nonces, *)
(* fee bumps and faults: what the pool and the chain hold is in the        *)
(* journal, an anchored row is mined, no nonce is left out below an open   *)
(* row, and only the newest raw transaction of a nonce is ever sent.       *)
(***************************************************************************)
EXTENDS AnchorIntents, WellFoundedInduction, TLAPS

-----------------------------------------------------------------------------
(* The inductive invariant. *)

Signed(t) == status[t] # "none"

\* The nonce of t is spent on the chain.
Consumed(t) == t.nonce < Len(chain)

\* Unless its nonce is spent, no raw with a higher fee was signed at it.
Newest(t) ==
    Consumed(t) \/ \A s \in Tx : s.nonce = t.nonce /\ Signed(s) => s.fee <= t.fee

\* The chain has one transaction per nonce, in order, and every one of ours
\* that left the process was journalled.
ChainFits ==
    /\ \A i \in 1..Len(chain) : chain[i].tx # NoTx => chain[i].tx.nonce = i - 1
    /\ \A i \in 1..Len(chain) : chain[i].tx # NoTx => Signed(chain[i].tx)
    /\ \A t \in mempool : Signed(t)

\* A row is closed for a reason the chain keeps: its transaction is mined, its
\* nonce is spent, or a later raw at the nonce is still open.
ClosedFits ==
    \A t \in Tx :
        /\ status[t] = "anchored" => Mined(t, TRUE)
        /\ status[t] = "replaced" => Consumed(t)
        /\ status[t] = "superseded" =>
              Consumed(t) \/ \E s \in Unresolved : s.nonce = t.nonce /\ s.fee > t.fee

\* Signed nonces leave no gap above the chain.
NoGap == \A t \in Tx : Signed(t) => \A n \in Len(chain)..t.nonce : n \in Taken

\* Two rows of one nonce that is not spent differ in their fee.
OnePerFee ==
    \A s, t \in Tx : s.nonce = t.nonce /\ s.fee = t.fee /\ Signed(s) /\ Signed(t)
                        => Consumed(s) \/ s = t

RowInv == ChainFits /\ ClosedFits /\ NoGap /\ OnePerFee

\* What the tracker and the heads call anchored is mined.
HeadInv ==
    /\ \A r \in Roots : tracked[r] # NoTx => Mined(tracked[r], TRUE)
    /\ \A r \in Roots : heads[r] # NoTx => Mined(heads[r], TRUE)

\* The stages at which every open row is the newest of its nonce.
Sorted == {"look", "adopt", "resume", "sign", "replace", "send", "confirm"}

\* The stages that work on a row of the journal.
OnRow == {"look", "adopt", "resume", "replace", "supersede", "send", "confirm"}

\* The stages before a transaction is sent or replaced.
Sending == {"look", "resume", "replace", "supersede", "send"}

NoGapBelow(n) == \A k \in Len(chain)..(n - 1) : k \in Taken

\* What a publish remembers across its awaits.
PubInv ==
    Busy =>
        /\ NoGapBelow(pub.pend)
        /\ pub.at \in {"recheck", "clock"} => pub.row \in Tx /\ Mined(pub.row, TRUE)
        /\ pub.at \in OnRow => pub.row \in Tx /\ Signed(pub.row)
        /\ pub.at = "sign" =>
              /\ pub.row \in Tx /\ pub.row.nonce \notin Taken
              /\ NoGapBelow(pub.row.nonce)
        /\ pub.at \in Sending => Newest(pub.row)
        /\ pub.at \in Sorted => \A t \in Unresolved : Newest(t)
        /\ pub.at = "supersede" =>
              /\ status[pub.row] = "signed"
              /\ \A t \in Unresolved :
                    Newest(t) \/ (t.nonce = pub.row.nonce /\ t.fee + 1 = pub.row.fee)

\* The rows a reconcile has to look up, and when it runs.
BootInv ==
    /\ boot # "running" => todo = {}
    /\ \A t \in todo : Signed(t) /\ Newest(t)
    /\ Busy => boot # "down"
    /\ Busy /\ boot = "running" => pub.at \in {"sign", "replace", "send"}

AInv == TypeOK /\ RowInv /\ HeadInv /\ PubInv /\ BootInv

-----------------------------------------------------------------------------
(* Facts on transactions and lookups. *)

\* The fields of a transaction, which determine it.
LEMMA TxFields ==
    /\ \A t \in Tx : /\ t.root \in Roots /\ t.nonce \in Nonces /\ t.nonce \in Nat
                     /\ t.fee \in Nat /\ t.fee <= MaxFee
    /\ \A s, t \in Tx : s.root = t.root /\ s.nonce = t.nonce /\ s.fee = t.fee => s = t
    /\ Nonces \subseteq Nat
    /\ \A r \in Roots, n \in Nonces, f \in 0..MaxFee :
          /\ [root |-> r, nonce |-> n, fee |-> f] \in Tx
          /\ [root |-> r, nonce |-> n] \in [root : Roots, nonce : Nonces]
    /\ NoTx \notin Tx
<1>1. MaxFee \in Nat /\ MaxNonce \in Nat /\ NoTx \notin Tx
    BY AnchorAssumption
<1> QED
    BY <1>1 DEF Tx, Nonces

\* Open, closed and absent rows.
LEMMA Statuses ==
    /\ "none" \notin Open \cup Closed
    /\ {"anchored", "replaced", "superseded"} \cap Open = {}
    /\ {"anchored", "replaced", "superseded"} \subseteq Closed
    /\ {"signed", "broadcast", "blocked"} \subseteq Open
    BY DEF Open, Closed

\* The entries of the chain.
LEMMA ChainType ==
    ASSUME TypeOK
    PROVE  /\ Len(chain) \in Nat
           /\ \A i \in 1..Len(chain) : chain[i].tx \in Tx \cup {NoTx}
<1> DEFINE E == [tx : Tx \cup {NoTx}, ok : BOOLEAN]
<1>1. chain \in Seq(E)
    BY DEF TypeOK
<1>2. \A e \in E : e.tx \in Tx \cup {NoTx}
    OBVIOUS
<1> HIDE DEF E
<1>3. \A i \in 1..Len(chain) : chain[i] \in E
    BY <1>1
<1> QED
    BY <1>1, <1>2, <1>3

\* What is mined is spent.
LEMMA MinedSpent ==
    ASSUME TypeOK, ChainFits, NEW t \in Tx, NEW ok, Mined(t, ok)
    PROVE  Consumed(t)
<1>1. PICK i \in 1..Len(chain) : chain[i] = [tx |-> t, ok |-> ok]
    BY DEF Mined
<1>2. chain[i].tx = t /\ t # NoTx
    BY <1>1, TxFields
<1>3. t.nonce = i - 1 /\ Len(chain) \in Nat
    BY <1>2 DEF ChainFits, TypeOK
<1> QED
    BY <1>3 DEF Consumed

\* What an answer to a lookup proves.
LEMMA LookupSays ==
    ASSUME TypeOK, ChainFits, NEW t \in Tx, NEW r, Lookup(t, r)
    PROVE  /\ r = "mined" => Mined(t, TRUE)
           /\ Confirmed(r) => Mined(t, TRUE)
           /\ Spent(r) => Consumed(t)
           /\ faults' \in 0..MaxFaults
<1>1. faults' \in 0..MaxFaults
    BY AnchorAssumption DEF Lookup, Fault, TypeOK
<1>2. r = "mined" => Mined(t, TRUE)
    BY DEF Lookup, Seen, Missing
<1>3. ASSUME r = "failed" PROVE Consumed(t)
  <2>1. Mined(t, FALSE)
      BY <1>3 DEF Lookup, Seen, Missing
  <2> QED
      BY <2>1, MinedSpent
<1>4. r = "consumed" => Consumed(t)
    BY DEF Lookup, Seen, Missing, Consumed
<1> QED
    BY <1>1, <1>2, <1>3, <1>4 DEF Confirmed, Spent

\* A send changes the pool for its own transaction only, and puts it there
\* only while its nonce is free on the chain.
LEMMA SendDoes ==
    ASSUME TypeOK, NEW t \in Tx, NEW r, Send(t, r)
    PROVE  /\ mempool' \subseteq mempool \cup {t}
           /\ t \in mempool' /\ t \notin mempool => ~Consumed(t)
           /\ faults' \in 0..MaxFaults
<1>1. faults' \in 0..MaxFaults
    BY AnchorAssumption DEF Send, Fault, TypeOK
<1>2. /\ mempool' \subseteq mempool \cup {t}
      /\ t \in mempool' /\ t \notin mempool => ~Consumed(t)
    BY DEF Send, Known, Pooled, Consumed
<1> QED
    BY <1>1, <1>2

\* Of some transactions one has the highest fee.
LEMMA HighestFee ==
    ASSUME NEW S \in SUBSET Tx, S # {}
    PROVE  \E t \in S : \A s \in S : s.fee <= t.fee
<1> DEFINE R == {ij \in Nat \X Nat : ij[1] < ij[2]}
           T == {MaxFee - s.fee : s \in S}
<1>1. IsWellFoundedOn(R, Nat)
    BY NatLessThanWellFounded DEF OpToRel
<1>2. \A i, k \in Nat : k < i => <<k, i>> \in R
    OBVIOUS
<1>3. MaxFee \in Nat /\ \A s \in S : s.fee \in Nat /\ s.fee <= MaxFee
    BY TxFields, AnchorAssumption
<1>4. T \subseteq Nat /\ T # {}
    BY <1>3
<1> HIDE DEF R, T
<1>5. PICK i \in T : \A k \in T : ~(<<k, i>> \in R)
    BY <1>1, <1>4, WFMin
<1>6. PICK t \in S : i = MaxFee - t.fee
    BY <1>5 DEF T
<1>7. ASSUME NEW s \in S PROVE s.fee <= t.fee
  <2>1. MaxFee - s.fee \in T /\ MaxFee - s.fee \in Nat /\ i \in Nat
      BY <1>4 DEF T
  <2>2. ~(MaxFee - s.fee < i)
      BY <1>2, <1>5, <2>1
  <2> QED
      BY <1>3, <1>6, <2>2
<1> QED
    BY <1>7

-----------------------------------------------------------------------------
(* Steps that sign nothing. *)

\* A row keeps its status, is opened again, or is closed for a good reason.
Moves(t) ==
    \/ status'[t] = status[t]
    \/ /\ Signed(t)
       /\ \/ status'[t] \in Open
          \/ status'[t] = "anchored" /\ Mined(t, TRUE)
          \/ status'[t] = "replaced" /\ Consumed(t)
          \/ /\ status'[t] = "superseded"
             /\ \/ Consumed(t)
                \/ \E s \in Tx : status'[s] \in Open /\ s.nonce = t.nonce /\ s.fee > t.fee

Calm ==
    /\ chain' = chain
    /\ \A t \in Tx : Moves(t)
    /\ \A t \in mempool' : t \in mempool \/ (t \in Tx /\ Signed(t))

\* The same rows are signed, so the facts on nonces and fees stay.
LEMMA CalmFacts ==
    ASSUME TypeOK, Calm
    PROVE  /\ \A t \in Tx : Signed(t)' <=> Signed(t)
           /\ Taken' = Taken
           /\ \A t : Consumed(t)' <=> Consumed(t)
           /\ \A t, ok : Mined(t, ok)' <=> Mined(t, ok)
           /\ \A t \in Tx : Newest(t)' <=> Newest(t)
           /\ \A n : NoGapBelow(n)' <=> NoGapBelow(n)
<1>1. \A t \in Tx : Signed(t)' <=> Signed(t)
    BY Statuses DEF Calm, Moves, Signed
<1>2. Taken' = Taken
    BY <1>1 DEF Taken, Signed
<1>3. chain' = chain
    BY DEF Calm
<1>4. \A t : Consumed(t)' <=> Consumed(t)
    BY <1>3 DEF Consumed
<1>5. \A t, ok : Mined(t, ok)' <=> Mined(t, ok)
    BY <1>3 DEF Mined
<1>6. \A t \in Tx : Newest(t)' <=> Newest(t)
    BY <1>1, <1>4 DEF Newest
<1>7. \A n : NoGapBelow(n)' <=> NoGapBelow(n)
    BY <1>2, <1>3 DEF NoGapBelow
<1> QED
    BY <1>1, <1>2, <1>4, <1>5, <1>6, <1>7

\* The journal stays in order.
LEMMA CalmRows ==
    ASSUME TypeOK, TypeOK', RowInv, Calm
    PROVE  RowInv'
<1>1. ChainFits'
  <2>1. \A i \in 1..Len(chain) : chain[i].tx # NoTx => chain[i].tx \in Tx
      BY ChainType
  <2>2. chain' = chain /\ \A t \in mempool' : t \in Tx
      BY DEF Calm, TypeOK
  <2>3. ASSUME NEW t \in mempool' PROVE status[t] # "none"
      BY DEF Calm, RowInv, ChainFits, Signed
  <2>4. \A t \in Tx : status[t] # "none" => status'[t] # "none"
      BY CalmFacts DEF Signed
  <2>5. ASSUME NEW i \in 1..Len(chain), chain[i].tx # NoTx
        PROVE  chain[i].tx.nonce = i - 1 /\ status'[chain[i].tx] # "none"
      BY <2>1, <2>4, <2>5 DEF RowInv, ChainFits, Signed
  <2>6. \A t \in mempool' : status'[t] # "none"
      BY <2>2, <2>3, <2>4 DEF Signed
  <2> QED
      BY <2>2, <2>5, <2>6 DEF ChainFits, Signed
<1>2. ASSUME NEW t \in Tx
      PROVE  /\ status'[t] = "anchored" => Mined(t, TRUE)
             /\ status'[t] = "replaced" => Consumed(t)
    BY Statuses DEF Calm, Moves, RowInv, ClosedFits
<1>3. ASSUME NEW t \in Tx, status'[t] = "superseded", ~Consumed(t)
      PROVE  \E s \in Tx : status'[s] \in Open /\ s.nonce = t.nonce /\ s.fee > t.fee
  <2>1. CASE status[t] = "superseded"
    <3>1. PICK s \in Tx : status[s] \in Open /\ s.nonce = t.nonce /\ s.fee > t.fee
        BY <1>3, <2>1 DEF RowInv, ClosedFits, Unresolved
    <3>2. ~Consumed(s) /\ ~Mined(s, TRUE)
        BY <1>3, <3>1, MinedSpent DEF Consumed, RowInv
    <3>3. CASE status'[s] \in Open
        BY <3>1, <3>3
    <3>4. CASE status'[s] \notin Open
      <4>1. PICK u \in Tx : status'[u] \in Open /\ u.nonce = s.nonce /\ u.fee > s.fee
          BY <3>1, <3>2, <3>4 DEF Calm, Moves
      <4>2. u.fee > t.fee
          BY <3>1, <4>1, TxFields
      <4> QED
          BY <3>1, <4>1, <4>2
    <3> QED
        BY <3>3, <3>4
  <2>2. CASE status[t] # "superseded"
      BY <1>3, <2>2, Statuses DEF Calm, Moves
  <2> QED
      BY <2>1, <2>2
<1>4. ClosedFits'
    BY <1>2, <1>3, CalmFacts DEF ClosedFits, Unresolved
<1>5. NoGap'
  <2>1. chain' = chain
      BY DEF Calm
  <2> QED
      BY <2>1, CalmFacts DEF RowInv, NoGap
<1>6. OnePerFee'
    BY CalmFacts DEF RowInv, OnePerFee
<1> QED
    BY <1>1, <1>4, <1>5, <1>6 DEF RowInv

\* The journal's rows without a change.
LEMMA StillCalm ==
    ASSUME UNCHANGED <<status, chain>>, mempool' \subseteq mempool
    PROVE  Calm
    BY DEF Calm, Moves

\* One row is marked.
LEMMA MarkCalm ==
    ASSUME TypeOK, NEW t \in Tx, Signed(t), NEW s, Mark(t, s), UNCHANGED chain,
           mempool' \subseteq mempool \cup {t},
           s \in Open \/ (s = "anchored" /\ Mined(t, TRUE)) \/ (s = "replaced" /\ Consumed(t))
              \/ s = status[t]
    PROVE  /\ Calm
           /\ \A u \in Tx : status'[u] \in Open => status[u] \in Open \/ u = t
           /\ status'[t] = s
<1>1. \A u \in Tx : status'[u] = IF u = t THEN s ELSE status[u]
    BY DEF Mark, TypeOK
<1>2. \A u \in Tx : Moves(u)
    BY <1>1 DEF Moves
<1>3. \A u \in mempool' : u \in mempool \/ (u \in Tx /\ Signed(u))
    OBVIOUS
<1> QED
    BY <1>1, <1>2, <1>3 DEF Calm

\* Older raws are superseded: afterwards every open row is the newest.
LEMMA SupersedeCalm ==
    ASSUME TypeOK, RowInv, status' = Superseded, UNCHANGED chain, mempool' \subseteq mempool
    PROVE  /\ Calm
           /\ \A t \in Tx : status'[t] \in Open => status[t] \in Open /\ Newest(t)
           /\ \A t \in Tx : status[t] = "anchored" <=> status'[t] = "anchored"
<1>1. \A t \in Tx : status'[t] = IF t \in Unresolved /\ Beaten(t) THEN "superseded" ELSE status[t]
    BY DEF Superseded
<1>2. ASSUME NEW t \in Tx, t \in Unresolved, Beaten(t), ~Consumed(t)
      PROVE  \E s \in Tx : status'[s] \in Open /\ s.nonce = t.nonce /\ s.fee > t.fee
  <2> DEFINE B == {s \in Tx : /\ s.nonce = t.nonce /\ s.fee > t.fee
                              /\ status[s] \in Open \cup {"anchored"}}
  <2>1. B # {} /\ B \subseteq Tx
      BY <1>2 DEF Beaten
  <2>2. PICK u \in B : \A s \in B : s.fee <= u.fee
      BY <2>1, HighestFee
  <2>3. status[u] \in Open
    <3>1. status[u] # "anchored"
      <4>1. ~Consumed(u)
          BY <1>2 DEF Consumed
      <4> QED
          BY <4>1, MinedSpent DEF RowInv, ClosedFits
    <3> QED
        BY <3>1
  <2>4. ~Beaten(u)
    <3> SUFFICES ASSUME NEW s \in Tx, s.nonce = u.nonce, s.fee > u.fee,
                        status[s] \in Open \cup {"anchored"}
                 PROVE  FALSE
        BY DEF Beaten
    <3>1. s.fee \in Nat /\ u.fee \in Nat /\ t.fee \in Nat
        BY TxFields
    <3>2. s \in B
        BY <3>1
    <3> QED
        BY <2>2, <3>1, <3>2
  <2> QED
      BY <1>1, <2>3, <2>4
<1>3. \A t \in Tx : t \in Unresolved => Signed(t)
    BY Statuses DEF Unresolved, Signed
<1>4. \A t \in Tx : Moves(t)
    BY <1>1, <1>2, <1>3 DEF Moves
<1>5. Calm
    BY <1>4 DEF Calm
<1>6. ASSUME NEW t \in Tx, status'[t] \in Open
      PROVE  status[t] \in Open /\ Newest(t)
  <2>1. t \in Unresolved /\ ~Beaten(t)
      BY <1>1, <1>6, Statuses DEF Unresolved
  <2>2. ASSUME ~Consumed(t), NEW s \in Tx, s.nonce = t.nonce, Signed(s), ~(s.fee <= t.fee)
        PROVE  FALSE
    <3>1. s.fee > t.fee /\ ~Consumed(s)
        BY <2>2, TxFields DEF Consumed
    <3>2. status[s] \notin Open \cup {"anchored"}
        BY <2>1, <2>2, <3>1 DEF Beaten
    <3>3. status[s] \in {"replaced", "superseded"}
        BY <2>2, <3>2 DEF TypeOK, Closed, Signed
    <3>4. PICK u \in Tx : status[u] \in Open /\ u.nonce = s.nonce /\ u.fee > s.fee
        BY <3>1, <3>3 DEF RowInv, ClosedFits, Unresolved
    <3>5. u.fee > t.fee /\ u.nonce = t.nonce
        BY <2>2, <3>1, <3>4, TxFields
    <3> QED
        BY <2>1, <3>4, <3>5 DEF Beaten
  <2> QED
      BY <2>1, <2>2 DEF Newest, Unresolved
<1>7. \A t \in Tx : status[t] = "anchored" <=> status'[t] = "anchored"
    BY <1>1, Statuses DEF Unresolved
<1> QED
    BY <1>5, <1>6, <1>7

-----------------------------------------------------------------------------
(* A new raw transaction, and a longer chain. *)

\* A row is signed: at a nonce nobody took, or one fee above the newest raw.
FreshNonce(t) == t.nonce \notin Taken /\ NoGapBelow(t.nonce)

Bumps(t) ==
    \E old \in Tx : Signed(old) /\ Newest(old) /\ old.nonce = t.nonce /\ t.fee = old.fee + 1

\* The new row is the newest, and no other row of its nonce is open but the
\* one it bumps.
LEMMA SignRows ==
    ASSUME TypeOK, RowInv, NEW t \in Tx, Mark(t, "signed"), UNCHANGED <<chain, mempool>>,
           FreshNonce(t) \/ Bumps(t),
           \A u \in Unresolved : Newest(u)
    PROVE  /\ RowInv'
           /\ \A u \in Tx : Signed(u)' <=> (Signed(u) \/ u = t)
           /\ \A u \in Tx : Consumed(u)' <=> Consumed(u)
           /\ \A n : NoGapBelow(n) => NoGapBelow(n)'
           /\ Newest(t)'
           /\ FreshNonce(t) => \A u \in Unresolved' : Newest(u)'
           /\ \A u \in Unresolved' : Newest(u)' \/ (u.nonce = t.nonce /\ u.fee + 1 = t.fee)
           /\ \A u, ok : Mined(u, ok)' <=> Mined(u, ok)
<1>1. /\ \A u \in Tx : status'[u] = IF u = t THEN "signed" ELSE status[u]
      /\ chain' = chain /\ mempool' = mempool
    BY DEF Mark, TypeOK
<1>2. \A u \in Tx : Signed(u)' <=> (Signed(u) \/ u = t)
    BY <1>1 DEF Signed
<1>3. \A u \in Tx : Consumed(u)' <=> Consumed(u)
    BY <1>1 DEF Consumed
<1>4. Taken' = Taken \cup {t.nonce}
    BY <1>2 DEF Taken, Signed
<1>5. \A n : NoGapBelow(n) => NoGapBelow(n)'
    BY <1>1, <1>4 DEF NoGapBelow
<1>6. ASSUME NEW s \in Tx, s.nonce = t.nonce, Signed(s), ~Consumed(t)
      PROVE  s.fee < t.fee
  <2>1. ~FreshNonce(t)
      BY <1>6 DEF FreshNonce, Taken, Signed
  <2>2. PICK old \in Tx : Newest(old) /\ old.nonce = t.nonce /\ t.fee = old.fee + 1
      BY <2>1 DEF Bumps
  <2>3. s.fee <= old.fee
      BY <1>6, <2>2 DEF Newest, Consumed
  <2> QED
      BY <2>2, <2>3, TxFields
<1>7. Newest(t)'
    BY <1>2, <1>3, <1>6, TxFields DEF Newest
<1>8. ASSUME NEW u \in Tx, status'[u] \in Open
      PROVE  /\ Newest(u)' \/ (u.nonce = t.nonce /\ u.fee + 1 = t.fee)
             /\ FreshNonce(t) => Newest(u)'
  <2>1. CASE u = t
      BY <1>7, <2>1
  <2>2. CASE u # t /\ u.nonce # t.nonce
    <3>1. Newest(u)
        BY <1>1, <1>8, <2>2 DEF Unresolved
    <3> QED
        BY <1>2, <1>3, <2>2, <3>1 DEF Newest
  <2>3. CASE u # t /\ u.nonce = t.nonce
    <3>1. Newest(u) /\ Signed(u) /\ ~FreshNonce(t)
      <4>1. u \in Unresolved /\ status[u] # "none"
          BY <1>1, <1>8, <2>3, Statuses DEF Unresolved
      <4> QED
          BY <2>3, <4>1 DEF FreshNonce, Taken, Signed
    <3>2. PICK old \in Tx : /\ Newest(old) /\ Signed(old) /\ old.nonce = t.nonce
                            /\ t.fee = old.fee + 1
        BY <3>1 DEF Bumps
    <3>3. Consumed(u) \/ (u.fee <= old.fee /\ old.fee <= u.fee)
        BY <2>3, <3>1, <3>2 DEF Newest, Consumed
    <3>4. Consumed(u) \/ u.fee + 1 = t.fee
        BY <3>2, <3>3, TxFields
    <3> QED
        BY <1>3, <2>3, <3>1, <3>4 DEF Newest
  <2> QED
      BY <2>1, <2>2, <2>3
<1>9. ChainFits'
  <2>1. ASSUME NEW i \in 1..Len(chain), chain[i].tx # NoTx
        PROVE  chain[i].tx.nonce = i - 1 /\ status'[chain[i].tx] # "none"
    <3>1. chain[i].tx \in Tx
        BY <2>1, ChainType
    <3> QED
        BY <1>1, <2>1, <3>1 DEF RowInv, ChainFits, Signed
  <2>2. \A u \in mempool : status'[u] # "none"
      BY <1>1 DEF RowInv, ChainFits, Signed, TypeOK
  <2> QED
      BY <1>1, <2>1, <2>2 DEF ChainFits, Signed
<1>10. \A u, ok : Mined(u, ok)' <=> Mined(u, ok)
    BY <1>1 DEF Mined
<1>11. ClosedFits'
  <2>1. Unresolved' = Unresolved \cup {t}
      BY <1>1, Statuses DEF Unresolved
  <2> QED
      BY <1>1, <1>3, <1>10, <2>1 DEF RowInv, ClosedFits
<1>12. NoGap'
  <2>1. ASSUME NEW n \in Len(chain)..t.nonce PROVE n \in Taken'
    <3>1. CASE FreshNonce(t)
      <4>1. n = t.nonce \/ n \in Len(chain)..(t.nonce - 1)
          BY ChainType, TxFields
      <4> QED
          BY <1>4, <3>1, <4>1 DEF FreshNonce, NoGapBelow
    <3>2. CASE Bumps(t)
        BY <1>4, <3>2 DEF Bumps, RowInv, NoGap
    <3> QED
        BY <3>1, <3>2
  <2> QED
      BY <1>1, <1>2, <1>4, <2>1 DEF RowInv, NoGap
<1>13. OnePerFee'
  <2> SUFFICES ASSUME NEW s \in Tx, NEW u \in Tx, s.nonce = u.nonce, s.fee = u.fee,
                      Signed(s)', Signed(u)', ~Consumed(s), s # u
               PROVE  FALSE
      BY <1>3 DEF OnePerFee
  <2>1. s.fee \in Nat /\ u.fee \in Nat /\ t.fee \in Nat
      BY TxFields
  <2>2. CASE s # t /\ u # t
      BY <1>2, <2>2 DEF RowInv, OnePerFee
  <2>3. CASE s = t
    <3>1. Signed(u)
        BY <1>2, <2>3
    <3> QED
        BY <1>6, <2>1, <2>3, <3>1
  <2>4. CASE u = t
    <3>1. Signed(s) /\ ~Consumed(t)
        BY <1>2, <2>4 DEF Consumed
    <3> QED
        BY <1>6, <2>1, <2>4, <3>1
  <2> QED
      BY <2>2, <2>3, <2>4
<1>14. RowInv'
    BY <1>9, <1>11, <1>12, <1>13 DEF RowInv
<1> QED
    BY <1>2, <1>3, <1>5, <1>7, <1>8, <1>10, <1>14 DEF Unresolved

\* A block takes the next nonce, for a transaction of the pool or another one.
Grows ==
    \E e \in [tx : mempool \cup {NoTx}, ok : BOOLEAN] :
        /\ chain' = Append(chain, e)
        /\ e.tx # NoTx => e.tx.nonce = Len(chain)
        /\ UNCHANGED status
        /\ mempool' \subseteq mempool

\* What is said of the chain stays true of a longer one.
LEMMA GrowsRows ==
    ASSUME TypeOK, RowInv, Grows
    PROVE  /\ RowInv'
           /\ \A t \in Tx : Consumed(t) => Consumed(t)'
           /\ \A t, ok : Mined(t, ok) => Mined(t, ok)'
           /\ \A t \in Tx : Newest(t) => Newest(t)'
           /\ \A n \in Nat : NoGapBelow(n) => NoGapBelow(n)'
           /\ Taken' = Taken
<1>1. PICK e \in [tx : mempool \cup {NoTx}, ok : BOOLEAN] :
          /\ chain' = Append(chain, e)
          /\ e.tx # NoTx => e.tx.nonce = Len(chain)
          /\ status' = status /\ mempool' \subseteq mempool
    BY DEF Grows
<1>2. e \in [tx : Tx \cup {NoTx}, ok : BOOLEAN]
    BY DEF TypeOK
<1>3. /\ Len(chain) \in Nat /\ Len(chain') = Len(chain) + 1
      /\ \A i \in 1..Len(chain) : chain'[i] = chain[i]
      /\ chain'[Len(chain) + 1] = e
    BY <1>1, <1>2 DEF TypeOK
<1>4. \A t \in Tx : Consumed(t) => Consumed(t)'
    BY <1>3, TxFields DEF Consumed
<1>5. \A t, ok : Mined(t, ok) => Mined(t, ok)'
  <2>1. \A i \in 1..Len(chain) : i \in 1..Len(chain')
      BY <1>3
  <2> QED
      BY <1>3, <2>1 DEF Mined
<1>6. \A t \in Tx : Newest(t) => Newest(t)'
    BY <1>1, <1>4 DEF Newest, Signed
<1>7. Taken' = Taken
    BY <1>1 DEF Taken
<1>8. \A n \in Nat : NoGapBelow(n) => NoGapBelow(n)'
  <2>1. \A n \in Nat : \A k \in Len(chain')..(n - 1) : k \in Len(chain)..(n - 1)
      BY <1>3
  <2> QED
      BY <1>7, <2>1 DEF NoGapBelow
<1>9. ChainFits'
  <2>1. ASSUME NEW i \in 1..Len(chain'), chain'[i].tx # NoTx
        PROVE  chain'[i].tx.nonce = i - 1 /\ status[chain'[i].tx] # "none"
    <3>1. CASE i \in 1..Len(chain)
        BY <1>3, <2>1, <3>1 DEF RowInv, ChainFits, Signed
    <3>2. CASE i \notin 1..Len(chain)
      <4>1. i = Len(chain) + 1 /\ chain'[i] = e
          BY <1>3, <3>2
      <4>2. e.tx \in mempool /\ i - 1 = Len(chain)
          BY <1>3, <2>1, <4>1
      <4> QED
          BY <1>1, <2>1, <4>1, <4>2 DEF RowInv, ChainFits, Signed
    <3> QED
        BY <3>1, <3>2
  <2> QED
      BY <1>1, <2>1 DEF RowInv, ChainFits, Signed
<1>10. ClosedFits'
    BY <1>1, <1>4, <1>5 DEF RowInv, ClosedFits, Unresolved
<1>11. NoGap'
  <2>1. \A t \in Tx : \A n \in Len(chain')..t.nonce : n \in Len(chain)..t.nonce
      BY <1>3, TxFields
  <2> QED
      BY <1>1, <1>7, <2>1 DEF RowInv, NoGap, Signed
<1>12. OnePerFee'
    BY <1>1, <1>4 DEF RowInv, OnePerFee, Signed
<1> QED
    BY <1>4, <1>5, <1>6, <1>7, <1>8, <1>9, <1>10, <1>11, <1>12 DEF RowInv

-----------------------------------------------------------------------------
(* What a publish goes on with. *)

\* The record of a publish that goes on is in order, seen from the state
\* before the step.
PubOk(p) ==
    /\ p \in Publishes
    /\ NoGapBelow(p.pend)
    /\ p.at # "supersede"
    /\ p.at \in {"recheck", "clock"} => p.row \in Tx /\ Mined(p.row, TRUE)
    /\ p.at \in OnRow => p.row \in Tx /\ Signed(p.row)
    /\ p.at = "sign" => p.row \in Tx /\ FreshNonce(p.row)
    /\ p.at \in Sending => Newest(p.row)
    /\ p.at \in Sorted => \A t \in Tx : status'[t] \in Open => Newest(t)

\* Idle is no publish.
LEMMA IdleIs == Idle \notin Publishes /\ "idle" \notin Stages
    BY DEF Idle, Publishes, Stages

\* The books of a publish that goes on, after a step that signs nothing.
LEMMA CalmPub ==
    ASSUME TypeOK, Calm, NEW p, PubOk(p), pub' = p
    PROVE  PubInv'
<1>1. NoGapBelow(p.pend)'
    BY CalmFacts DEF PubOk
<1>2. p.at \in {"recheck", "clock"} => p.row \in Tx /\ Mined(p.row, TRUE)'
    BY CalmFacts DEF PubOk
<1>3. p.at \in OnRow => p.row \in Tx /\ Signed(p.row)'
    BY CalmFacts DEF PubOk
<1>4. p.at = "sign" => p.row \in Tx /\ p.row.nonce \notin Taken' /\ NoGapBelow(p.row.nonce)'
    BY CalmFacts DEF PubOk, FreshNonce
<1>5. p.at \in Sending => Newest(p.row)'
  <2>1. p.at \in Sending => p.row \in Tx
      BY DEF PubOk, Sending, OnRow
  <2> QED
      BY <2>1, CalmFacts DEF PubOk
<1>6. p.at \in Sorted => \A t \in Unresolved' : Newest(t)'
    BY CalmFacts DEF PubOk, Unresolved
<1> HIDE DEF Newest, Signed, Mined, NoGapBelow, Taken
<1> QED
    BY <1>1, <1>2, <1>3, <1>4, <1>5, <1>6 DEF PubInv, PubOk

\* A step of a publish that signs nothing.
LEMMA PublishCalm ==
    ASSUME AInv, TypeOK', Calm, boot \notin {"running", "down"}, UNCHANGED <<boot, todo>>,
           \A r \in Roots : \/ tracked'[r] = tracked[r] \/ tracked'[r] = NoTx
                            \/ tracked'[r] = pub.row /\ Mined(pub.row, TRUE),
           \A r \in Roots : heads'[r] = heads[r] \/ (heads'[r] = pub.row /\ Mined(pub.row, TRUE)),
           pub' = Idle \/ \E p \in Publishes : pub' = p /\ PubOk(p)
    PROVE  AInv'
<1>1. TypeOK /\ RowInv /\ HeadInv /\ PubInv /\ BootInv
    BY DEF AInv
<1>2. RowInv'
    BY <1>1, CalmRows
<1>3. HeadInv'
  <2>1. chain' = chain
      BY DEF Calm
  <2> QED
      BY <1>1, <2>1 DEF HeadInv, Mined
<1>4. PubInv'
  <2>1. CASE pub' = Idle
      BY <2>1 DEF PubInv, Busy
  <2>2. CASE pub' # Idle
      BY <1>1, <2>2, CalmPub
  <2> QED
      BY <2>1, <2>2
<1>5. BootInv'
  <2>1. todo = {}
      BY <1>1 DEF BootInv
  <2> QED
      BY <2>1 DEF BootInv
<1> QED
    BY <1>2, <1>3, <1>4, <1>5 DEF AInv

\* The fields of a publish.
LEMMA PubFields ==
    ASSUME TypeOK, Busy
    PROVE  /\ pub \in Publishes /\ pub.root \in Roots /\ pub.pend \in Nonces
           /\ pub.kind \in Kinds /\ pub.at \in Stages /\ pub.row \in Tx \cup {NoTx}
<1>1. pub \in Publishes
    BY DEF TypeOK, Busy
<1> QED
    BY <1>1 DEF Publishes

\* The type of a journal with one more mark.
LEMMA MarkType ==
    ASSUME TypeOK, NEW t \in Tx, NEW s \in Open \cup Closed, Mark(t, s)
    PROVE  status' \in [Tx -> Open \cup Closed \cup {"none"}]
    BY DEF TypeOK, Mark

\* The type of a journal whose older raws are superseded.
LEMMA SupersededType ==
    ASSUME TypeOK, status' = Superseded
    PROVE  status' \in [Tx -> Open \cup Closed \cup {"none"}]
    BY Statuses DEF TypeOK, Superseded

\* The type of the faults after a step.
LEMMA FaultType ==
    ASSUME TypeOK, faults' = faults \/ Fault
    PROVE  faults' \in 0..MaxFaults
    BY AnchorAssumption DEF TypeOK, Fault

\* The end of a publish.
LEMMA EndDoes ==
    ASSUME TypeOK, Busy, End
    PROVE  /\ pub' = Idle /\ UNCHANGED heads
           /\ tip' \in [root : Roots \cup {0}, tx : Tx \cup {NoTx}]
<1>1. pub.root \in Roots
    BY DEF TypeOK, Busy, Publishes
<1> QED
    BY <1>1 DEF End

\* The stages and kinds of sends.
LEMMA StageIs ==
    /\ {"recheck", "nonce", "look", "adopt", "resume", "sign", "replace", "supersede",
        "send", "confirm", "clock"} \subseteq Stages
    /\ {"fresh", "resumed", "sent", "replacement"} \subseteq Kinds
    BY DEF Stages, Kinds

\* The choice after the outstanding rows are dealt with.
LEMMA ReserveDoes ==
    ASSUME TypeOK, PubInv, Busy, Calm, NEW n \in Nat, NoGapBelow(n), Reserve(n),
           \A t \in Tx : status'[t] \in Open => Newest(t)
    PROVE  /\ \E p \in Publishes : pub' = p /\ PubOk(p)
           /\ unsigned' \subseteq [root : Roots, nonce : Nonces]
<1> DEFINE held == {t \in Tx : t.root = pub.root /\ status'[t] = "anchored"}
           signed == {t \in Tx : t.root = pub.root /\ status'[t] \in Open}
<1>1. NoGapBelow(pub.pend) /\ pub.root \in Roots
    BY PubFields DEF PubInv
<1>2. \A t \in held \cup signed : Signed(t)
  <2>1. \A t \in held \cup signed : status'[t] # "none"
      BY Statuses
  <2> QED
      BY <2>1, CalmFacts DEF Signed
<1>3. CASE held # {}
  <2>1. PICK t \in held : pub' = [pub EXCEPT !.at = "adopt", !.row = t, !.kind = "resumed"]
      BY <1>3 DEF Reserve
  <2> DEFINE p == [pub EXCEPT !.at = "adopt", !.row = t, !.kind = "resumed"]
  <2>2. p \in Publishes /\ p.at = "adopt" /\ p.row = t /\ p.pend = pub.pend
    <3>1. "adopt" \in Stages /\ "resumed" \in Kinds /\ t \in Tx
        BY StageIs
    <3> QED
        BY <3>1, PubFields DEF Publishes
  <2>3. unsigned' \subseteq unsigned
      BY <1>3 DEF Reserve
  <2> HIDE DEF p
  <2>4. PubOk(p)
      BY <1>1, <1>2, <2>2 DEF PubOk, OnRow, Sending, Sorted
  <2> QED
      BY <2>1, <2>2, <2>3, <2>4 DEF p, TypeOK
<1>4. CASE held = {} /\ signed # {}
  <2>1. PICK t \in signed : pub' = [pub EXCEPT !.at = "resume", !.row = t, !.kind = "resumed"]
      BY <1>4 DEF Reserve
  <2> DEFINE p == [pub EXCEPT !.at = "resume", !.row = t, !.kind = "resumed"]
  <2>2. p \in Publishes /\ p.at = "resume" /\ p.row = t /\ p.pend = pub.pend
    <3>1. "resume" \in Stages /\ "resumed" \in Kinds /\ t \in Tx
        BY StageIs
    <3> QED
        BY <3>1, PubFields DEF Publishes
  <2>3. unsigned' \subseteq unsigned
      BY <1>4 DEF Reserve
  <2> HIDE DEF p
  <2>4. PubOk(p)
      BY <1>1, <1>2, <2>2 DEF PubOk, OnRow, Sending, Sorted
  <2> QED
      BY <2>1, <2>2, <2>3, <2>4 DEF p, TypeOK
<1>5. CASE held \cup signed = {}
  <2>1. PICK m \in Nonces :
            /\ NextFree(n, m)
            /\ unsigned' = {[root |-> pub.root, nonce |-> m]}
            /\ pub' = [pub EXCEPT !.at = "sign", !.kind = "fresh",
                          !.row = [root |-> pub.root, nonce |-> m, fee |-> 0]]
      BY <1>5 DEF Reserve
  <2> DEFINE t == [root |-> pub.root, nonce |-> m, fee |-> 0]
             p == [pub EXCEPT !.at = "sign", !.row = t, !.kind = "fresh"]
  <2>2. t \in Tx /\ t.nonce = m /\ unsigned' \subseteq [root : Roots, nonce : Nonces]
      BY <1>1, <2>1, TxFields, AnchorAssumption
  <2>3. pub' = p
      BY <2>1
  <2>4. FreshNonce(t)
    <3>1. m \in Nat /\ Len(chain) \in Nat
        BY TxFields, ChainType
    <3>2. ASSUME NEW k \in Len(chain)..(m - 1) PROVE k \in Taken
      <4>1. k \in Len(chain)..(n - 1) \/ k \in n..(m - 1)
          BY <3>1
      <4> QED
          BY <2>1, <4>1 DEF NextFree, NoGapBelow
    <3> QED
        BY <2>1, <2>2, <3>2 DEF FreshNonce, NoGapBelow, NextFree
  <2> HIDE DEF t
  <2>5. p \in Publishes /\ p.at = "sign" /\ p.row = t /\ p.pend = pub.pend
    <3>1. "sign" \in Stages /\ "fresh" \in Kinds
        BY StageIs
    <3> QED
        BY <2>2, <3>1, PubFields DEF Publishes
  <2> HIDE DEF p
  <2>6. PubOk(p)
      BY <1>1, <2>2, <2>4, <2>5 DEF PubOk, OnRow, Sending, Sorted
  <2> QED
      BY <2>2, <2>3, <2>5, <2>6
<1> QED
    BY <1>3, <1>4, <1>5

-----------------------------------------------------------------------------
(* The parts the steps of a publish have in common. *)

\* What holds when a publish is at one of its awaits.
LEMMA AtIs ==
    ASSUME AInv, NEW stage, At(stage)
    PROVE  /\ Busy /\ pub.at = stage
           /\ boot \notin {"running", "down"} /\ todo = {}
           /\ TypeOK /\ RowInv /\ ChainFits /\ HeadInv /\ PubInv /\ BootInv
           /\ NoGapBelow(pub.pend)
           /\ stage \in OnRow => pub.row \in Tx /\ Signed(pub.row)
           /\ stage \in Sorted => \A t \in Tx : status[t] \in Open => Newest(t)
           /\ stage \in Sending => Newest(pub.row)
<1>1. TypeOK /\ RowInv /\ ChainFits /\ HeadInv /\ PubInv /\ BootInv
    BY DEF AInv, RowInv
<1>2. Busy /\ pub.at = stage /\ boot # "running"
    BY DEF At
<1>3. boot # "down" /\ todo = {}
    BY <1>1, <1>2 DEF BootInv
<1> HIDE DEF Newest, Signed, NoGapBelow
<1>4. /\ NoGapBelow(pub.pend)
      /\ stage \in OnRow => pub.row \in Tx /\ Signed(pub.row)
      /\ stage \in Sending => Newest(pub.row)
    BY <1>1, <1>2 DEF PubInv
<1>5. stage \in Sorted => \A t \in Unresolved : Newest(t)
    BY <1>1, <1>2 DEF PubInv
<1>6. stage \in Sorted => \A t \in Tx : status[t] \in Open => Newest(t)
    BY <1>5 DEF Unresolved
<1> QED
    BY <1>1, <1>2, <1>3, <1>4, <1>6

\* A row is marked and the publish ends.
LEMMA RestKeeps ==
    ASSUME AInv, Busy, boot \notin {"running", "down"}, NEW t \in Tx, Signed(t), NEW s,
           s \in Open \/ (s = "replaced" /\ Consumed(t)), Rest(t, s), age' \in 0..2,
           UNCHANGED <<rejected, head, boot, todo, chain>>,
           mempool' \subseteq mempool \cup {t}, faults' \in 0..MaxFaults
    PROVE  AInv'
<1>1. TypeOK /\ s \in Open \cup Closed
    BY Statuses DEF AInv
<1>2. Mark(t, s) /\ End /\ UNCHANGED <<unsigned, tracked>>
    BY DEF Rest
<1>3. status' \in [Tx -> Open \cup Closed \cup {"none"}]
    BY <1>1, <1>2, MarkType
<1>4. /\ pub' = Idle /\ UNCHANGED heads
      /\ tip' \in [root : Roots \cup {0}, tx : Tx \cup {NoTx}]
    BY <1>1, <1>2, EndDoes
<1>5. TypeOK'
    BY <1>1, <1>2, <1>3, <1>4 DEF TypeOK
<1>6. Calm
    BY <1>1, <1>2, MarkCalm
<1> QED
    BY <1>2, <1>4, <1>5, <1>6, PublishCalm

\* The same, with a reason in the mark.
LEMMA HoldKeeps ==
    ASSUME AInv, Busy, boot \notin {"running", "down"}, NEW t \in Tx, Signed(t), NEW s,
           s \in Open \/ (s = "replaced" /\ Consumed(t)), Hold(t, s),
           UNCHANGED <<rejected, head, boot, todo, chain>>,
           mempool' \subseteq mempool \cup {t}, faults' \in 0..MaxFaults
    PROVE  AInv'
<1>1. Rest(t, s) /\ age' \in 0..2
    BY DEF Hold
<1> QED
    BY <1>1, RestKeeps

\* A row is marked and the publish goes on to send or replace it.
LEMMA ContinueKeeps ==
    ASSUME AInv, NEW stage \in {"look", "resume", "send"}, At(stage),
           NEW s, s \in Open \/ s = status[pub.row],
           NEW at \in {"replace", "send"}, NEW kind \in Kinds,
           Continue(pub.row, s, at, kind), age' \in 0..2,
           UNCHANGED <<rejected, head, boot, todo, chain>>,
           mempool' \subseteq mempool \cup {pub.row}, faults' \in 0..MaxFaults
    PROVE  AInv'
<1>0. stage \in OnRow /\ stage \in Sorted /\ stage \in Sending
    BY DEF OnRow, Sorted, Sending
<1>1. /\ TypeOK /\ Busy /\ pub.row \in Tx /\ Signed(pub.row) /\ Newest(pub.row)
      /\ boot \notin {"running", "down"} /\ NoGapBelow(pub.pend)
      /\ \A t \in Tx : status[t] \in Open => Newest(t)
    BY <1>0, AtIs
<1>2. /\ Mark(pub.row, s) /\ UNCHANGED <<unsigned, tracked, headVars>>
      /\ pub' = [pub EXCEPT !.at = at, !.kind = kind]
    BY DEF Continue
<1>3. s \in Open \cup Closed
    BY <1>1, Statuses DEF TypeOK, Signed
<1>4. status' \in [Tx -> Open \cup Closed \cup {"none"}]
    BY <1>1, <1>2, <1>3, MarkType
<1>5. /\ pub' \in Publishes /\ pub'.at = at /\ pub'.row = pub.row /\ pub'.pend = pub.pend
  <2>1. at \in Stages
      BY StageIs
  <2> QED
      BY <1>1, <1>2, <2>1, PubFields DEF Publishes
<1>6. TypeOK'
    BY <1>1, <1>2, <1>4, <1>5 DEF TypeOK, headVars
<1>7. Calm /\ \A t \in Tx : status'[t] \in Open => Newest(t)
  <2>1. Calm /\ \A t \in Tx : status'[t] \in Open => status[t] \in Open \/ t = pub.row
      BY <1>1, <1>2, MarkCalm
  <2> QED
      BY <1>1, <2>1
<1>8. PubOk(pub')
  <2>1. at \notin {"recheck", "clock", "sign", "supersede"}
      OBVIOUS
  <2> HIDE DEF Newest, Signed, NoGapBelow
  <2> QED
      BY <1>1, <1>5, <1>7, <2>1 DEF PubOk
<1>9. UNCHANGED <<heads, tracked>>
    BY <1>2 DEF headVars
<1> QED
    BY <1>1, <1>5, <1>6, <1>7, <1>8, <1>9, PublishCalm

\* A row is found mined: the publish reads its block time, or reserves.
LEMMA AnchoredKeeps ==
    ASSUME AInv, NEW stage \in {"look", "confirm"}, At(stage), Mined(pub.row, TRUE),
           AnchoredOrReserve(pub.row),
           UNCHANGED <<rejected, head, boot, todo, netVars>>, faults' \in 0..MaxFaults
    PROVE  AInv'
<1>0. stage \in OnRow /\ stage \in Sorted
    BY DEF OnRow, Sorted
<1>1. /\ TypeOK /\ PubInv /\ Busy /\ pub.row \in Tx /\ Signed(pub.row)
      /\ boot \notin {"running", "down"} /\ NoGapBelow(pub.pend)
      /\ \A t \in Tx : status[t] \in Open => Newest(t)
    BY <1>0, AtIs
<1>2. /\ Mark(pub.row, "anchored") /\ tracked' = [tracked EXCEPT ![pub.row.root] = pub.row]
      /\ UNCHANGED <<heads, tip, age>>
    BY DEF AnchoredOrReserve, Commit, headVars
<1>3. status' \in [Tx -> Open \cup Closed \cup {"none"}]
    BY <1>1, <1>2, MarkType, Statuses
<1>4. Calm /\ \A t \in Tx : status'[t] \in Open => Newest(t)
  <2>0. chain' = chain /\ mempool' \subseteq mempool \cup {pub.row}
      BY DEF netVars
  <2>1. Calm /\ status'[pub.row] = "anchored"
          /\ \A t \in Tx : status'[t] \in Open => status[t] \in Open \/ t = pub.row
      BY <1>1, <1>2, <2>0, MarkCalm
  <2> QED
      BY <1>1, <2>1, Statuses
<1>5. /\ \E p \in Publishes : pub' = p /\ PubOk(p)
      /\ unsigned' \subseteq [root : Roots, nonce : Nonces]
  <2>1. CASE pub.row.root = pub.root
    <3>1. pub' = [pub EXCEPT !.at = "clock"] /\ UNCHANGED unsigned
        BY <2>1 DEF AnchoredOrReserve, Goto
    <3>2. pub' \in Publishes /\ pub'.at = "clock" /\ pub'.row = pub.row /\ pub'.pend = pub.pend
        BY <1>1, <3>1, StageIs, PubFields DEF Publishes
    <3>3. "clock" \notin OnRow \cup Sorted \cup Sending
        BY DEF OnRow, Sorted, Sending
    <3>4. PubOk(pub')
        BY <1>1, <3>2, <3>3 DEF PubOk
    <3> QED
        BY <1>1, <3>1, <3>2, <3>4 DEF TypeOK
  <2>2. CASE pub.row.root # pub.root
    <3>1. Reserve(pub.pend)
        BY <2>2 DEF AnchoredOrReserve
    <3>2. pub.pend \in Nat
        BY <1>1, PubFields, TxFields
    <3> QED
        BY <1>1, <1>4, <3>1, <3>2, ReserveDoes
  <2> QED
      BY <2>1, <2>2
<1>6. TypeOK'
  <2>1. tracked' \in [Roots -> Tx \cup {NoTx}]
      BY <1>1, <1>2, TxFields DEF TypeOK
  <2> QED
      BY <1>1, <1>2, <1>3, <1>5, <2>1 DEF TypeOK, netVars
<1>7. \A r \in Roots : tracked'[r] = tracked[r] \/ (tracked'[r] = pub.row /\ Mined(pub.row, TRUE))
    BY <1>1, <1>2 DEF TypeOK
<1> QED
    BY <1>1, <1>2, <1>4, <1>5, <1>6, <1>7, PublishCalm

\* Anchored rows are opened again or given up: their nonces are spent.
LEMMA ReopenDoes ==
    ASSUME TypeOK, RowInv, NEW root \in Roots, NEW t \in Tx, NEW s \in {"broadcast", "replaced"},
           Reopen(root, t, s), UNCHANGED netVars
    PROVE  /\ Calm
           /\ status' \in [Tx -> Open \cup Closed \cup {"none"}]
           /\ tracked' \in [Roots -> Tx \cup {NoTx}]
           /\ rejected' \subseteq Tx
           /\ \A r \in Roots : tracked'[r] = tracked[r] \/ tracked'[r] = NoTx
<1> DEFINE rows == {x \in Tx : status[x] = "anchored" /\ (x.root = root \/ x = t)}
<1>1. /\ tracked' = [tracked EXCEPT ![root] = NoTx]
      /\ status' = [x \in Tx |-> IF x \in rows THEN s ELSE status[x]]
      /\ rejected' = IF s = "replaced" THEN rejected \cup rows \cup {t} ELSE rejected
    BY DEF Reopen
<1>2. ASSUME NEW x \in Tx PROVE Moves(x)
  <2>1. CASE x \in rows
    <3>1. Signed(x) /\ Mined(x, TRUE)
        BY <2>1 DEF Signed, RowInv, ClosedFits
    <3>2. Consumed(x)
        BY <3>1, MinedSpent DEF RowInv
    <3>3. status'[x] \in Open \/ status'[x] = "replaced"
        BY <1>1, <2>1, Statuses
    <3> QED
        BY <3>1, <3>2, <3>3 DEF Moves
  <2>2. CASE x \notin rows
      BY <1>1, <2>2 DEF Moves
  <2> QED
      BY <2>1, <2>2
<1>3. Calm
    BY <1>2 DEF Calm, netVars
<1>4. status' \in [Tx -> Open \cup Closed \cup {"none"}]
    BY <1>1, Statuses DEF TypeOK
<1>5. /\ tracked' \in [Roots -> Tx \cup {NoTx}]
      /\ \A r \in Roots : tracked'[r] = tracked[r] \/ tracked'[r] = NoTx
    BY <1>1 DEF TypeOK
<1>6. rejected' \subseteq Tx
    BY <1>1 DEF TypeOK
<1> QED
    BY <1>3, <1>4, <1>5, <1>6

-----------------------------------------------------------------------------
(* The steps of a publish. *)

\* A publish starts: what it rechecks is tracked or in a head.
LEMMA PublishStarts ==
    ASSUME AInv, Publish
    PROVE  AInv'
<1> DEFINE prior == PriorBase(head)
<1>1. TypeOK /\ HeadInv /\ head \in Roots /\ pub = Idle /\ boot \in {"deferred", "done"}
    BY DEF AInv, TypeOK, Publish
<1>2. prior # NoTx => prior \in Tx /\ Mined(prior, TRUE)
  <2> DEFINE t == IF tracked[head] # NoTx THEN tracked[head] ELSE heads[head]
  <2>1. t # NoTx => t \in Tx /\ Mined(t, TRUE)
      BY <1>1 DEF TypeOK, HeadInv
  <2>2. prior = IF t \in rejected THEN NoTx ELSE t
      BY DEF PriorBase
  <2> HIDE DEF t
  <2> QED
      BY <2>1, <2>2
<1> HIDE DEF prior
<1>3. /\ pub' = [at |-> IF prior # NoTx THEN "recheck" ELSE "nonce",
                 root |-> head, row |-> prior, pend |-> 0, kind |-> "fresh"]
      /\ UNCHANGED <<journalVars, headVars, head, boot, todo, age, netVars, faults>>
    BY DEF Publish, prior
<1>4. /\ pub' \in Publishes /\ pub'.row = prior /\ pub'.pend = 0
      /\ pub'.at = IF prior # NoTx THEN "recheck" ELSE "nonce"
  <2>1. 0 \in Nonces
      BY AnchorAssumption DEF Nonces
  <2> QED
      BY <1>1, <1>2, <1>3, <2>1, StageIs DEF Publishes
<1>5. UNCHANGED <<status, unsigned, rejected, tracked, heads, tip, head, boot, todo, age, chain,
                  mempool, faults>>
    BY <1>3 DEF journalVars, headVars, netVars
<1>6. TypeOK'
    BY <1>1, <1>4, <1>5 DEF TypeOK
<1>7. Calm
    BY <1>5, StillCalm
<1>8. PubOk(pub')
  <2>1. NoGapBelow(0)
      BY <1>1, ChainType DEF NoGapBelow
  <2>2. pub'.at \notin OnRow \cup Sorted \cup Sending /\ pub'.at # "sign" /\ pub'.at # "supersede"
      BY <1>4 DEF OnRow, Sorted, Sending
  <2>3. pub'.at \in {"recheck", "clock"} => prior # NoTx
      BY <1>4
  <2> QED
      BY <1>2, <1>4, <2>1, <2>2, <2>3 DEF PubOk
<1> QED
    BY <1>1, <1>4, <1>5, <1>6, <1>7, <1>8, PublishCalm

\* A stored anchor is looked up again.
LEMMA RecheckStep ==
    ASSUME AInv, Recheck
    PROVE  AInv'
<1>1. At("recheck")
    BY DEF Recheck
<1>2. /\ TypeOK /\ RowInv /\ ChainFits /\ PubInv /\ Busy /\ pub.at = "recheck"
      /\ boot \notin {"running", "down"} /\ NoGapBelow(pub.pend)
    BY <1>1, AtIs
<1>3. pub.row \in Tx /\ Mined(pub.row, TRUE)
    BY <1>2 DEF PubInv
<1>4. PICK r \in Replies :
          /\ Lookup(pub.row, r)
          /\ IF r = "mined"
             THEN /\ tracked' = [tracked EXCEPT ![pub.root] = pub.row]
                  /\ Goto("clock")
                  /\ UNCHANGED <<status, rejected>>
             ELSE /\ Reopen(pub.root, pub.row, "broadcast")
                  /\ Goto("nonce")
    BY DEF Recheck
<1>5. faults' \in 0..MaxFaults
    BY <1>2, <1>3, <1>4, LookupSays
<1>6. UNCHANGED <<unsigned, heads, tip, head, boot, todo, age, chain, mempool>>
    BY DEF Recheck, headVars, netVars
<1>7. pub.root \in Roots
    BY <1>2, PubFields
<1>8. /\ Calm
      /\ status' \in [Tx -> Open \cup Closed \cup {"none"}]
      /\ tracked' \in [Roots -> Tx \cup {NoTx}]
      /\ rejected' \subseteq Tx
      /\ \A x \in Roots : tracked'[x] = tracked[x] \/ tracked'[x] \in {NoTx, pub.row}
  <2>1. CASE r = "mined"
    <3>1. Calm
        BY <1>4, <1>6, <2>1, StillCalm
    <3> QED
        BY <1>2, <1>3, <1>4, <2>1, <3>1 DEF TypeOK
  <2>2. CASE r # "mined"
    <3>1. Reopen(pub.root, pub.row, "broadcast") /\ UNCHANGED netVars
        BY <1>4, <1>6, <2>2 DEF netVars
    <3> QED
        BY <1>2, <1>3, <1>7, <3>1, ReopenDoes
  <2> QED
      BY <2>1, <2>2
<1>9. PICK a \in {"clock", "nonce"} : pub' = [pub EXCEPT !.at = a]
    BY <1>4 DEF Goto
<1>10. pub' \in Publishes /\ pub'.at = a /\ pub'.row = pub.row /\ pub'.pend = pub.pend
  <2>1. a \in Stages
      BY StageIs
  <2> QED
      BY <1>2, <1>9, <2>1, PubFields DEF Publishes
<1>11. TypeOK'
    BY <1>2, <1>5, <1>6, <1>8, <1>10 DEF TypeOK
<1>12. PubOk(pub')
  <2>1. a \notin OnRow \cup Sorted \cup Sending /\ a # "sign" /\ a # "supersede"
      BY DEF OnRow, Sorted, Sending
  <2> QED
      BY <1>2, <1>3, <1>10, <2>1 DEF PubOk
<1> QED
    BY <1>2, <1>3, <1>6, <1>8, <1>10, <1>11, <1>12, PublishCalm

\* The pending count is no higher than a nonce without a row.
LEMMA PendingNoGap ==
    ASSUME TypeOK, RowInv, NEW pending \in Nonces, NEW n \in 0..pending, Pending(pending)
    PROVE  n \in Nonces /\ n \in Nat /\ NoGapBelow(n)
<1>1. pending \in Nat /\ n \in Nat /\ Len(chain) \in Nat /\ MaxNonce \in Nat
    BY TxFields, ChainType, AnchorAssumption
<1>2. n \in Nonces
    BY <1>1 DEF Nonces
<1>3. ASSUME NEW k \in Len(chain)..(n - 1) PROVE k \in Taken
  <2>1. k \in Len(chain)..(pending - 1)
      BY <1>1
  <2>2. PICK t \in mempool : t.nonce = k
      BY <2>1 DEF Pending
  <2>3. t \in Tx /\ status[t] # "none"
      BY DEF TypeOK, RowInv, ChainFits, Signed
  <2> QED
      BY <2>2, <2>3 DEF Taken
<1> QED
    BY <1>1, <1>2, <1>3 DEF NoGapBelow

\* The nonce is read: older raws are superseded, and the lowest open row is
\* looked up, or there is none and a nonce is reserved.
LEMMA ReadNonceStep ==
    ASSUME AInv, ReadNonce
    PROVE  AInv'
<1>1. At("nonce")
    BY DEF ReadNonce
<1>2. /\ TypeOK /\ RowInv /\ PubInv /\ Busy /\ boot \notin {"running", "down"}
      /\ NoGapBelow(pub.pend)
    BY <1>1, AtIs
<1> DEFINE open == {t \in Tx : status'[t] \in Open}
<1>3. PICK pending \in Nonces : \E n \in 0..pending :
          /\ Pending(pending)
          /\ IF n = pending THEN UNCHANGED faults ELSE Fault
          /\ status' = Superseded
          /\ IF open # {}
             THEN /\ \E t \in Lowest(open) :
                        pub' = [pub EXCEPT !.at = "look", !.row = t, !.pend = n]
                  /\ unsigned' = {u \in unsigned : u.root = pub.root}
             ELSE Reserve(n)
    BY DEF ReadNonce
<1>4. PICK n \in 0..pending :
          /\ Pending(pending)
          /\ IF n = pending THEN UNCHANGED faults ELSE Fault
          /\ status' = Superseded
          /\ IF open # {}
             THEN /\ \E t \in Lowest(open) :
                        pub' = [pub EXCEPT !.at = "look", !.row = t, !.pend = n]
                  /\ unsigned' = {u \in unsigned : u.root = pub.root}
             ELSE Reserve(n)
    BY <1>3
<1>5. n \in Nonces /\ n \in Nat /\ NoGapBelow(n)
    BY <1>2, <1>4, PendingNoGap
<1>6. UNCHANGED <<rejected, tracked, heads, tip, head, boot, todo, age, chain, mempool>>
    BY DEF ReadNonce, headVars, netVars
<1>7. Calm /\ \A t \in Tx : status'[t] \in Open => Newest(t)
    BY <1>2, <1>4, <1>6, SupersedeCalm
<1>8. status' \in [Tx -> Open \cup Closed \cup {"none"}] /\ faults' \in 0..MaxFaults
  <2>1. faults' = faults \/ Fault
      BY <1>4
  <2> QED
      BY <1>2, <1>4, <2>1, SupersededType, FaultType
<1>9. /\ \E p \in Publishes : pub' = p /\ PubOk(p)
      /\ unsigned' \subseteq [root : Roots, nonce : Nonces]
  <2>1. CASE open # {}
    <3>1. PICK t \in Lowest(open) : pub' = [pub EXCEPT !.at = "look", !.row = t, !.pend = n]
        BY <1>4, <2>1
    <3>2. t \in Tx /\ status'[t] \in Open
        BY DEF Lowest
    <3>3. Newest(t) /\ Signed(t)
      <4>1. status'[t] # "none"
          BY <3>2, Statuses
      <4> QED
          BY <1>2, <1>7, <3>2, <4>1, CalmFacts DEF Signed
    <3>4. pub' \in Publishes /\ pub'.at = "look" /\ pub'.row = t /\ pub'.pend = n
        BY <1>2, <1>5, <3>1, <3>2, StageIs, PubFields DEF Publishes
    <3>5. PubOk(pub')
        BY <1>5, <1>7, <3>2, <3>3, <3>4 DEF PubOk
    <3>6. unsigned' \subseteq unsigned
        BY <1>4, <2>1
    <3> QED
        BY <1>2, <3>4, <3>5, <3>6 DEF TypeOK
  <2>2. CASE open = {}
      BY <1>2, <1>4, <1>5, <1>7, <2>2, ReserveDoes
  <2> QED
      BY <2>1, <2>2
<1>10. TypeOK'
    BY <1>2, <1>6, <1>8, <1>9 DEF TypeOK
<1> QED
    BY <1>2, <1>6, <1>7, <1>9, <1>10, PublishCalm

\* A mined row is committed and its block time is read next.
LEMMA ClockNext ==
    ASSUME AInv, Busy, boot \notin {"running", "down"}, pub.row \in Tx, Signed(pub.row),
           Mined(pub.row, TRUE), Commit(pub.row), Goto("clock"),
           UNCHANGED <<unsigned, rejected, heads, tip, head, boot, todo, age, chain, mempool>>,
           faults' \in 0..MaxFaults
    PROVE  AInv'
<1>1. TypeOK /\ PubInv
    BY DEF AInv
<1>2. Mark(pub.row, "anchored") /\ tracked' = [tracked EXCEPT ![pub.row.root] = pub.row]
    BY DEF Commit
<1>3. status' \in [Tx -> Open \cup Closed \cup {"none"}]
    BY <1>1, <1>2, MarkType, Statuses
<1>4. Calm
    BY <1>1, <1>2, MarkCalm
<1>5. pub' \in Publishes /\ pub'.at = "clock" /\ pub'.row = pub.row /\ pub'.pend = pub.pend
    BY <1>1, StageIs, PubFields DEF Publishes, Goto
<1>6. PubOk(pub')
  <2>1. "clock" \notin OnRow \cup Sorted \cup Sending
      BY DEF OnRow, Sorted, Sending
  <2>2. NoGapBelow(pub.pend)
      BY <1>1 DEF PubInv
  <2> QED
      BY <1>5, <2>1, <2>2 DEF PubOk
<1>7. /\ tracked' \in [Roots -> Tx \cup {NoTx}]
      /\ \A r \in Roots : tracked'[r] = tracked[r] \/ tracked'[r] = pub.row
    BY <1>1, <1>2, TxFields DEF TypeOK
<1>8. TypeOK'
    BY <1>1, <1>3, <1>5, <1>7 DEF TypeOK
<1> QED
    BY <1>4, <1>5, <1>6, <1>7, <1>8, PublishCalm

\* The publish ends and the journal stays.
LEMMA EndStep ==
    ASSUME AInv, Busy, boot \notin {"running", "down"}, End,
           UNCHANGED <<journalVars, head, boot, todo, age, netVars>>, faults' = faults \/ Fault
    PROVE  AInv'
<1>1. TypeOK /\ UNCHANGED <<status, unsigned, rejected, tracked, chain, mempool>>
    BY DEF AInv, journalVars, netVars
<1>2. /\ pub' = Idle /\ UNCHANGED heads
      /\ tip' \in [root : Roots \cup {0}, tx : Tx \cup {NoTx}]
    BY <1>1, EndDoes
<1>3. TypeOK'
    BY <1>1, <1>2, FaultType DEF TypeOK
<1>4. Calm
    BY <1>1, StillCalm
<1> QED
    BY <1>1, <1>2, <1>3, <1>4, PublishCalm

\* The nonce is not read.
LEMMA NonceUnknownStep ==
    ASSUME AInv, NonceUnknown
    PROVE  AInv'
<1>1. Busy /\ boot \notin {"running", "down"}
    BY AtIs DEF NonceUnknown
<1> QED
    BY <1>1, EndStep DEF NonceUnknown

\* A blocked row waits for its backoff.
LEMMA BackoffStep ==
    ASSUME AInv, Backoff
    PROVE  AInv'
<1>1. Busy /\ boot \notin {"running", "down"}
    BY AtIs DEF Backoff
<1> QED
    BY <1>1, EndStep DEF Backoff

\* The outstanding row is looked up.
LEMMA LookStep ==
    ASSUME AInv, Look
    PROVE  AInv'
<1> DEFINE t == pub.row
<1>1. At("look") /\ UNCHANGED <<rejected, head, boot, todo, netVars>>
    BY DEF Look
<1>2. /\ TypeOK /\ RowInv /\ ChainFits /\ PubInv /\ Busy /\ boot \notin {"running", "down"}
      /\ t \in Tx /\ Signed(t) /\ NoGapBelow(pub.pend)
      /\ \A x \in Tx : status[x] \in Open => Newest(x)
    BY <1>1, AtIs DEF OnRow, Sorted
<1>3. UNCHANGED <<chain, mempool, rejected, head, boot, todo>>
    BY <1>1 DEF netVars
<1>4. PICK r \in Replies :
          /\ Lookup(t, r)
          /\ \/ r = "error" /\ Hold(t, "blocked")
             \/ Confirmed(r) /\ AnchoredOrReserve(t)
             \/ /\ Spent(r)
                /\ Mark(t, "replaced")
                /\ Reserve(pub.pend)
                /\ UNCHANGED <<tracked, headVars, age>>
             \/ /\ r = "pool" /\ ~Confirmed(r)
                /\ \/ age > 0 /\ Continue(t, "broadcast", "replace", "sent") /\ UNCHANGED age
                   \/ /\ age = 0
                      /\ Mark(t, "broadcast")
                      /\ End
                      /\ UNCHANGED <<unsigned, tracked, age>>
             \/ /\ r \in {"unused", "consumed"} /\ ~Spent(r)
                /\ IF status[t] = "broadcast" /\ age = 2
                   THEN Continue(t, status[t], "replace", "sent")
                   ELSE Continue(t, status[t], "send", "sent")
                /\ UNCHANGED age
    BY DEF Look
<1>5. /\ Confirmed(r) => Mined(t, TRUE)
      /\ Spent(r) => Consumed(t)
      /\ faults' \in 0..MaxFaults
    BY <1>2, <1>4, LookupSays
<1>6. {"broadcast", "blocked"} \subseteq Open /\ "sent" \in Kinds
    BY Statuses, StageIs
<1>7. mempool' \subseteq mempool \cup {t}
    BY <1>3
<1>8. CASE Hold(t, "blocked")
    BY <1>2, <1>3, <1>5, <1>6, <1>8, HoldKeeps
<1>9. CASE Confirmed(r) /\ AnchoredOrReserve(t)
    BY <1>1, <1>5, <1>9, AnchoredKeeps
<1>10. CASE Spent(r) /\ Mark(t, "replaced") /\ Reserve(pub.pend)
            /\ UNCHANGED <<tracked, headVars, age>>
  <2>1. UNCHANGED <<tracked, heads, tip, age>>
      BY <1>10 DEF headVars
  <2>2. /\ Calm /\ status'[t] = "replaced"
        /\ \A x \in Tx : status'[x] \in Open => status[x] \in Open \/ x = t
      BY <1>2, <1>3, <1>5, <1>10, MarkCalm
  <2>3. \A x \in Tx : status'[x] \in Open => Newest(x)
      BY <1>2, <2>2, Statuses
  <2>4. status' \in [Tx -> Open \cup Closed \cup {"none"}]
      BY <1>2, <1>10, MarkType, Statuses
  <2>5. pub.pend \in Nat
      BY <1>2, PubFields, TxFields
  <2>6. /\ \E p \in Publishes : pub' = p /\ PubOk(p)
        /\ unsigned' \subseteq [root : Roots, nonce : Nonces]
      BY <1>2, <1>10, <2>2, <2>3, <2>5, ReserveDoes
  <2>7. TypeOK'
      BY <1>2, <1>3, <1>5, <2>1, <2>4, <2>6 DEF TypeOK
  <2> QED
      BY <1>2, <1>3, <2>1, <2>2, <2>6, <2>7, PublishCalm
<1>11. CASE Continue(t, "broadcast", "replace", "sent") /\ UNCHANGED age
  <2>1. age' \in 0..2
      BY <1>2, <1>11 DEF TypeOK
  <2> QED
      BY <1>1, <1>3, <1>5, <1>6, <1>11, <2>1, ContinueKeeps
<1>12. CASE Mark(t, "broadcast") /\ End /\ UNCHANGED <<unsigned, tracked, age>>
  <2>1. /\ pub' = Idle /\ UNCHANGED heads
        /\ tip' \in [root : Roots \cup {0}, tx : Tx \cup {NoTx}]
      BY <1>2, <1>12, EndDoes
  <2>2. Calm
      BY <1>2, <1>3, <1>6, <1>12, MarkCalm
  <2>3. status' \in [Tx -> Open \cup Closed \cup {"none"}]
      BY <1>2, <1>6, <1>12, MarkType
  <2>4. TypeOK'
      BY <1>2, <1>3, <1>5, <1>12, <2>1, <2>3 DEF TypeOK
  <2> QED
      BY <1>2, <1>3, <1>12, <2>1, <2>2, <2>4, PublishCalm
<1>13. CASE /\ \E at \in {"replace", "send"} : Continue(t, status[t], at, "sent")
            /\ UNCHANGED age
  <2>1. age' \in 0..2
      BY <1>2, <1>13 DEF TypeOK
  <2> QED
      BY <1>1, <1>3, <1>5, <1>6, <1>13, <2>1, ContinueKeeps
<1>14. \/ Hold(t, "blocked")
       \/ Confirmed(r) /\ AnchoredOrReserve(t)
       \/ /\ Spent(r) /\ Mark(t, "replaced") /\ Reserve(pub.pend)
          /\ UNCHANGED <<tracked, headVars, age>>
       \/ Continue(t, "broadcast", "replace", "sent") /\ UNCHANGED age
       \/ Mark(t, "broadcast") /\ End /\ UNCHANGED <<unsigned, tracked, age>>
       \/ /\ \E at \in {"replace", "send"} : Continue(t, status[t], at, "sent")
          /\ UNCHANGED age
  <2> HIDE DEF t
  <2> QED
      BY <1>4
<1> QED
    BY <1>8, <1>9, <1>10, <1>11, <1>12, <1>13, <1>14

\* The journal's own anchored row is adopted.
LEMMA AdoptStep ==
    ASSUME AInv, Adopt
    PROVE  AInv'
<1> DEFINE t == pub.row
<1>1. At("adopt")
    BY DEF Adopt
<1>2. /\ TypeOK /\ RowInv /\ ChainFits /\ PubInv /\ Busy /\ boot \notin {"running", "down"}
      /\ t \in Tx /\ Signed(t) /\ NoGapBelow(pub.pend)
    BY <1>1, AtIs DEF OnRow
<1>3. UNCHANGED <<unsigned, rejected, head, boot, todo, age, chain, mempool>>
    BY DEF Adopt, netVars
<1>4. PICK r \in Replies :
          /\ Lookup(t, r)
          /\ IF Confirmed(r)
             THEN Commit(t) /\ Goto("clock") /\ UNCHANGED headVars
             ELSE End /\ UNCHANGED <<status, tracked>>
    BY DEF Adopt
<1>5. (Confirmed(r) => Mined(t, TRUE)) /\ faults' \in 0..MaxFaults
    BY <1>2, <1>4, LookupSays
<1>6. CASE Confirmed(r)
  <2>1. Commit(t) /\ Goto("clock") /\ UNCHANGED <<heads, tip>>
      BY <1>4, <1>6 DEF headVars
  <2> QED
      BY <1>1, <1>2, <1>3, <1>5, <1>6, <2>1, ClockNext
<1>7. CASE ~Confirmed(r)
  <2>1. End /\ UNCHANGED <<status, tracked>>
      BY <1>4, <1>7
  <2>2. /\ pub' = Idle /\ UNCHANGED heads
        /\ tip' \in [root : Roots \cup {0}, tx : Tx \cup {NoTx}]
      BY <1>2, <2>1, EndDoes
  <2>3. TypeOK'
      BY <1>2, <1>3, <1>5, <2>1, <2>2 DEF TypeOK
  <2>4. Calm
      BY <1>3, <2>1, StillCalm
  <2> QED
      BY <1>2, <1>3, <2>1, <2>2, <2>3, <2>4, PublishCalm
<1> QED
    BY <1>6, <1>7

\* The root's open row is taken up again.
LEMMA ResumeStep ==
    ASSUME AInv, Resume
    PROVE  AInv'
<1> DEFINE t == pub.row
<1>1. At("resume")
    BY DEF Resume
<1>2. /\ TypeOK /\ RowInv /\ ChainFits /\ PubInv /\ Busy /\ boot \notin {"running", "down"}
      /\ t \in Tx /\ Signed(t) /\ NoGapBelow(pub.pend)
    BY <1>1, AtIs DEF OnRow
<1>3. UNCHANGED <<rejected, head, boot, todo, chain, mempool>>
    BY DEF Resume, netVars
<1>4. PICK r \in Replies :
          /\ Lookup(t, r)
          /\ \/ Confirmed(r) /\ Commit(t) /\ Goto("clock") /\ UNCHANGED <<unsigned, headVars, age>>
             \/ Spent(r) /\ Hold(t, "replaced")
             \/ r \in {"pool", "error"} /\ ~Confirmed(r) /\ Hold(t, "blocked")
             \/ r = "unused" /\ Continue(t, status[t], "send", "resumed") /\ UNCHANGED age
    BY DEF Resume
<1>5. /\ Confirmed(r) => Mined(t, TRUE)
      /\ Spent(r) => Consumed(t)
      /\ faults' \in 0..MaxFaults
    BY <1>2, <1>4, LookupSays
<1>6. CASE Confirmed(r) /\ Commit(t) /\ Goto("clock") /\ UNCHANGED <<unsigned, headVars, age>>
  <2>1. UNCHANGED <<heads, tip>>
      BY <1>6 DEF headVars
  <2> QED
      BY <1>1, <1>2, <1>3, <1>5, <1>6, <2>1, ClockNext
<1>7. CASE Spent(r) /\ Hold(t, "replaced")
    BY <1>2, <1>3, <1>5, <1>7, HoldKeeps
<1>8. CASE Hold(t, "blocked")
    BY <1>2, <1>3, <1>5, <1>8, HoldKeeps, Statuses
<1>9. CASE Continue(t, status[t], "send", "resumed") /\ UNCHANGED age
  <2>1. "resumed" \in Kinds /\ age' \in 0..2
      BY <1>2, <1>9, StageIs DEF TypeOK
  <2> QED
      BY <1>1, <1>3, <1>5, <1>9, <2>1, ContinueKeeps
<1> QED
    BY <1>4, <1>6, <1>7, <1>8, <1>9

\* A raw is signed at the free nonce the publish reserved, or nothing is.
LEMMA SignStep ==
    ASSUME AInv, Sign
    PROVE  AInv'
<1>1. At("sign") /\ UNCHANGED <<unsigned, rejected, tracked, head, boot, todo, chain, mempool>>
    BY DEF Sign, netVars
<1>2. /\ TypeOK /\ RowInv /\ HeadInv /\ PubInv /\ Busy /\ pub.at = "sign" /\ todo = {}
      /\ boot \notin {"running", "down"} /\ NoGapBelow(pub.pend)
      /\ \A x \in Tx : status[x] \in Open => Newest(x)
    BY <1>1, AtIs DEF Sorted
<1>3. pub.row \in Tx /\ FreshNonce(pub.row)
    BY <1>2 DEF PubInv, FreshNonce
<1>4. CASE Mark(pub.row, "signed") /\ age' = 0 /\ Goto("send") /\ UNCHANGED <<headVars, faults>>
  <2>0. PICK t \in Tx, n \in Nonces : t = pub.row /\ n = pub.pend
      BY <1>2, <1>3, PubFields
  <2>1. \A u \in Unresolved : Newest(u)
      BY <1>2 DEF Unresolved
  <2>2. /\ RowInv'
        /\ \A u \in Tx : Signed(u)' <=> (Signed(u) \/ u = t)
        /\ \A k : NoGapBelow(k) => NoGapBelow(k)'
        /\ Newest(t)'
        /\ \A u \in Unresolved' : Newest(u)'
        /\ \A u, ok : Mined(u, ok)' <=> Mined(u, ok)
      BY <1>1, <1>2, <1>3, <1>4, <2>0, <2>1, SignRows
  <2>3. pub' \in Publishes /\ pub'.at = "send" /\ pub'.row = pub.row /\ pub'.pend = pub.pend
      BY <1>2, <1>4, StageIs, PubFields DEF Publishes, Goto
  <2>4. status' \in [Tx -> Open \cup Closed \cup {"none"}] /\ UNCHANGED <<heads, tip>>
      BY <1>2, <1>3, <1>4, MarkType, Statuses DEF headVars
  <2>5. TypeOK'
      BY <1>1, <1>2, <1>4, <2>3, <2>4 DEF TypeOK
  <2>6. HeadInv'
      BY <1>1, <1>2, <2>2, <2>4 DEF HeadInv
  <2>7. PubInv'
    <3>1. Signed(t)' /\ NoGapBelow(n)'
        BY <1>2, <2>0, <2>2
    <3>2. pub'.row = t /\ pub'.pend = n
        BY <2>0, <2>3
    <3> HIDE DEF Newest, Signed, NoGapBelow
    <3> QED
        BY <2>2, <2>3, <3>1, <3>2 DEF PubInv
  <2>8. BootInv'
      BY <1>1, <1>2 DEF BootInv
  <2> QED
      BY <2>2, <2>5, <2>6, <2>7, <2>8 DEF AInv
<1>5. CASE Fault /\ End /\ UNCHANGED <<status, age>>
  <2>1. UNCHANGED <<journalVars, head, boot, todo, age, netVars>>
      BY <1>1, <1>5 DEF journalVars, netVars
  <2> QED
      BY <1>2, <1>5, <2>1, EndStep
<1> QED
    BY <1>4, <1>5 DEF Sign

\* A raw is signed with the next fee, or the publish holds.
LEMMA ReplaceStep ==
    ASSUME AInv, Replace
    PROVE  AInv'
<1> DEFINE old == pub.row
           created == [root |-> pub.root, nonce |-> old.nonce, fee |-> old.fee + 1]
<1>1. At("replace") /\ UNCHANGED <<rejected, head, boot, todo, chain, mempool>>
    BY DEF Replace, netVars
<1>2. /\ TypeOK /\ RowInv /\ HeadInv /\ PubInv /\ Busy /\ todo = {}
      /\ boot \notin {"running", "down"} /\ NoGapBelow(pub.pend)
      /\ old \in Tx /\ Signed(old) /\ Newest(old)
      /\ \A x \in Tx : status[x] \in Open => Newest(x)
    BY <1>1, AtIs DEF Sorted, OnRow, Sending
<1>3. CASE Fault /\ Hold(old, "blocked")
  <2>1. faults' \in 0..MaxFaults
      BY <1>2, <1>3, FaultType
  <2> QED
      BY <1>1, <1>2, <1>3, <2>1, HoldKeeps, Statuses
<1>4. CASE /\ old.fee < MaxFee
           /\ Mark(created, "signed")
           /\ age' = 0
           /\ pub' = [pub EXCEPT !.at = "supersede", !.row = created, !.kind = "replacement"]
           /\ UNCHANGED <<unsigned, tracked, headVars, faults>>
  <2>1. /\ created \in Tx /\ created.nonce = old.nonce /\ created.fee = old.fee + 1
    <3>1. old.fee + 1 \in 0..MaxFee /\ pub.root \in Roots /\ old.nonce \in Nonces
        BY <1>2, <1>4, TxFields, PubFields, AnchorAssumption
    <3> QED
        BY <3>1, TxFields
  <2>2. /\ pub' \in Publishes /\ pub'.at = "supersede" /\ pub'.row = created
        /\ pub'.pend = pub.pend
    <3> HIDE DEF created
    <3> QED
        BY <1>2, <1>4, <2>1, StageIs, PubFields DEF Publishes
  <2>3. PICK t \in Tx, n \in Nonces : t = created /\ n = pub.pend
      BY <1>2, <2>1, PubFields
  <2>4. /\ Mark(t, "signed") /\ t.nonce = old.nonce /\ t.fee = old.fee + 1
        /\ pub'.row = t /\ pub'.pend = n
      BY <1>4, <2>1, <2>2, <2>3
  <2> HIDE DEF created
  <2>5. Bumps(t) /\ \A u \in Unresolved : Newest(u)
      BY <1>2, <2>4 DEF Bumps, Unresolved
  <2>6. /\ RowInv'
        /\ \A u \in Tx : Signed(u)' <=> (Signed(u) \/ u = t)
        /\ \A k : NoGapBelow(k) => NoGapBelow(k)'
        /\ Newest(t)'
        /\ \A u \in Unresolved' : Newest(u)' \/ (u.nonce = t.nonce /\ u.fee + 1 = t.fee)
        /\ \A u, ok : Mined(u, ok)' <=> Mined(u, ok)
      BY <1>1, <1>2, <2>4, <2>5, SignRows
  <2>7. /\ status' \in [Tx -> Open \cup Closed \cup {"none"}]
        /\ status'[t] = "signed" /\ UNCHANGED <<heads, tip, unsigned, tracked, faults>>
    <3>1. status'[t] = "signed"
        BY <1>2, <2>4 DEF Mark, TypeOK
    <3> QED
        BY <1>2, <1>4, <2>4, <3>1, MarkType, Statuses DEF headVars
  <2>8. TypeOK'
      BY <1>1, <1>2, <1>4, <2>2, <2>7 DEF TypeOK
  <2>9. HeadInv'
      BY <1>1, <1>2, <2>6, <2>7 DEF HeadInv
  <2>10. PubInv'
    <3>1. Signed(t)' /\ NoGapBelow(n)'
        BY <1>2, <2>3, <2>6
    <3>2. "supersede" \notin Sorted
        BY DEF Sorted
    <3> HIDE DEF Newest, Signed, NoGapBelow
    <3> QED
        BY <2>2, <2>4, <2>6, <2>7, <3>1, <3>2 DEF PubInv
  <2>11. BootInv'
      BY <1>1, <1>2 DEF BootInv
  <2> QED
      BY <2>6, <2>8, <2>9, <2>10, <2>11 DEF AInv
<1>5. CASE End /\ UNCHANGED <<status, unsigned, tracked, age, faults>>
  <2>1. UNCHANGED <<journalVars, head, boot, todo, age, netVars, faults>>
      BY <1>1, <1>5 DEF journalVars, netVars
  <2> QED
      BY <1>2, <1>5, <2>1, EndStep
<1> QED
    BY <1>3, <1>4, <1>5 DEF Replace

\* The row that was bumped is closed.
LEMMA SupersedeOldStep ==
    ASSUME AInv, SupersedeOld
    PROVE  AInv'
<1>1. /\ At("supersede")
      /\ UNCHANGED <<unsigned, rejected, tracked, heads, tip, head, boot, todo, age, chain,
                     mempool, faults>>
    BY DEF SupersedeOld, netVars, headVars
<1>2. /\ TypeOK /\ RowInv /\ PubInv /\ Busy /\ pub.at = "supersede"
      /\ boot \notin {"running", "down"} /\ NoGapBelow(pub.pend)
      /\ pub.row \in Tx /\ Signed(pub.row) /\ Newest(pub.row)
    BY <1>1, AtIs DEF OnRow, Sending
<1>3. /\ status[pub.row] = "signed"
      /\ \A t \in Unresolved :
            Newest(t) \/ (t.nonce = pub.row.nonce /\ t.fee + 1 = pub.row.fee)
    BY <1>2 DEF PubInv
<1>4. PICK old \in Tx :
          /\ old.nonce = pub.row.nonce /\ old.fee + 1 = pub.row.fee
          /\ status[old] # "none" /\ Mark(old, "superseded")
    BY DEF SupersedeOld
<1>5. /\ old # pub.row /\ old.fee \in Nat /\ pub.row.fee > old.fee
    BY <1>2, <1>4, TxFields
<1>6. \A x \in Tx : status'[x] = IF x = old THEN "superseded" ELSE status[x]
    BY <1>2, <1>4 DEF Mark, TypeOK
<1>7. Calm
  <2>1. status'[pub.row] \in Open
      BY <1>2, <1>3, <1>5, <1>6, Statuses
  <2>2. Moves(old)
      BY <1>2, <1>4, <1>5, <1>6, <2>1 DEF Moves, Signed
  <2>3. \A x \in Tx : x # old => Moves(x)
      BY <1>6 DEF Moves
  <2> QED
      BY <1>1, <2>2, <2>3 DEF Calm
<1>8. ASSUME NEW x \in Tx, status'[x] \in Open PROVE Newest(x)
  <2>1. x # old /\ x \in Unresolved /\ Signed(x)
      BY <1>6, <1>8, Statuses DEF Unresolved, Signed
  <2>2. CASE x.nonce = pub.row.nonce /\ x.fee + 1 = pub.row.fee
    <3>1. x.fee = old.fee /\ x.nonce = old.nonce
        BY <1>4, <2>2, TxFields
    <3>2. Consumed(x)
        BY <1>2, <1>4, <2>1, <3>1 DEF RowInv, OnePerFee, Signed
    <3> QED
        BY <3>2 DEF Newest
  <2> QED
      BY <1>3, <2>1, <2>2
<1>9. pub' \in Publishes /\ pub'.at = "send" /\ pub'.row = pub.row /\ pub'.pend = pub.pend
    BY <1>2, StageIs, PubFields DEF Publishes, Goto, SupersedeOld
<1>10. status' \in [Tx -> Open \cup Closed \cup {"none"}]
    BY <1>2, <1>4, MarkType, Statuses
<1>11. TypeOK'
    BY <1>1, <1>2, <1>9, <1>10 DEF TypeOK
<1>12. PubOk(pub')
  <2> HIDE DEF Newest, Signed, NoGapBelow
  <2> QED
      BY <1>2, <1>8, <1>9 DEF PubOk
<1> QED
    BY <1>1, <1>2, <1>7, <1>9, <1>11, <1>12, PublishCalm

\* The raw bytes are sent.
LEMMA SendRawStep ==
    ASSUME AInv, SendRaw
    PROVE  AInv'
<1> DEFINE t == pub.row
<1>1. At("send") /\ UNCHANGED <<rejected, head, boot, todo, chain>>
    BY DEF SendRaw
<1>2. /\ TypeOK /\ PubInv /\ Busy /\ boot \notin {"running", "down"}
      /\ t \in Tx /\ Signed(t) /\ NoGapBelow(pub.pend)
      /\ \A x \in Tx : status[x] \in Open => Newest(x)
    BY <1>1, AtIs DEF OnRow, Sorted
<1>3. PICK r \in {"accepted", "known", "transient", "permanent"} :
          /\ Send(t, r)
          /\ \/ Hold(t, "blocked")
             \/ Continue(t, "signed", "replace", "sent") /\ age' = 0
             \/ Hold(t, "signed")
             \/ /\ \/ Mark(t, "broadcast") /\ age' = 0
                   \/ UNCHANGED <<status, age>>
                /\ Goto("confirm")
                /\ UNCHANGED <<unsigned, tracked, headVars>>
    BY DEF SendRaw
<1>4. mempool' \subseteq mempool \cup {t} /\ faults' \in 0..MaxFaults
    BY <1>2, <1>3, SendDoes
<1>5. {"signed", "broadcast", "blocked"} \subseteq Open /\ "sent" \in Kinds
    BY Statuses, StageIs
<1>6. CASE \E s \in {"signed", "blocked"} : Hold(t, s)
    BY <1>1, <1>2, <1>4, <1>5, <1>6, HoldKeeps
<1>7. CASE Continue(t, "signed", "replace", "sent") /\ age' = 0
  <2>1. age' \in 0..2
      BY <1>7
  <2> QED
      BY <1>1, <1>4, <1>5, <1>7, <2>1, ContinueKeeps
<1>8. CASE /\ \E s \in {"broadcast", status[t]} : Mark(t, s)
           /\ age' \in 0..2 /\ Goto("confirm") /\ UNCHANGED <<unsigned, tracked, headVars>>
  <2>1. PICK s \in {"broadcast", status[t]} : Mark(t, s)
      BY <1>8
  <2>2. s \in Open \cup Closed /\ UNCHANGED <<heads, tip>>
      BY <1>2, <1>5, <1>8 DEF TypeOK, Signed, headVars
  <2>3. Calm /\ \A x \in Tx : status'[x] \in Open => status[x] \in Open \/ x = t
      BY <1>1, <1>2, <1>4, <1>5, <2>1, MarkCalm
  <2>4. status' \in [Tx -> Open \cup Closed \cup {"none"}]
      BY <1>2, <2>1, <2>2, MarkType
  <2>5. pub' \in Publishes /\ pub'.at = "confirm" /\ pub'.row = t /\ pub'.pend = pub.pend
      BY <1>2, <1>8, StageIs, PubFields DEF Publishes, Goto
  <2>6. mempool' \subseteq Tx
      BY <1>2, <1>4 DEF TypeOK
  <2>7. TypeOK'
      BY <1>1, <1>2, <1>4, <1>8, <2>2, <2>4, <2>5, <2>6 DEF TypeOK
  <2>8. PubOk(pub')
    <3>1. Newest(t)
        BY <1>1, AtIs DEF Sending
    <3>2. \A x \in Tx : status'[x] \in Open => Newest(x)
        BY <1>2, <2>3, <3>1
    <3>3. "confirm" \notin Sending
        BY DEF Sending
    <3> HIDE DEF Newest, Signed, NoGapBelow
    <3> QED
        BY <1>2, <2>5, <3>2, <3>3 DEF PubOk
  <2> QED
      BY <1>1, <1>2, <1>8, <2>2, <2>3, <2>5, <2>7, <2>8, PublishCalm
<1>9. /\ UNCHANGED status => Mark(t, status[t])
      /\ UNCHANGED age \/ age' = 0 => age' \in 0..2
    BY <1>2 DEF TypeOK, Mark
<1> QED
    BY <1>3, <1>6, <1>7, <1>8, <1>9

\* The sent row is looked up.
LEMMA ConfirmStep ==
    ASSUME AInv, Confirm
    PROVE  AInv'
<1> DEFINE t == pub.row
<1>1. At("confirm") /\ UNCHANGED <<rejected, head, boot, todo, netVars>>
    BY DEF Confirm
<1>2. /\ TypeOK /\ ChainFits /\ Busy /\ boot \notin {"running", "down"}
      /\ t \in Tx /\ Signed(t)
    BY <1>1, AtIs DEF OnRow
<1>3. UNCHANGED <<chain, mempool, rejected, head, boot, todo>>
    BY <1>1 DEF netVars
<1>4. PICK r \in Replies :
          /\ Lookup(t, r)
          /\ \/ Confirmed(r) /\ AnchoredOrReserve(t)
             \/ /\ ~Confirmed(r)
                /\ LET s == IF pub.kind \in Polled /\ Spent(r) THEN "replaced" ELSE "broadcast"
                   IN  /\ Rest(t, s)
                       /\ age' = IF pub.kind = "replacement" /\ r = "pool" THEN 0 ELSE AgeAfter(t, s)
             \/ r = "error" /\ pub.kind \notin Polled /\ Hold(t, "blocked")
    BY DEF Confirm
<1>5. /\ Confirmed(r) => Mined(t, TRUE)
      /\ Spent(r) => Consumed(t)
      /\ faults' \in 0..MaxFaults
    BY <1>2, <1>4, LookupSays
<1>6. {"broadcast", "blocked"} \subseteq Open
    BY Statuses
<1>7. CASE Confirmed(r) /\ AnchoredOrReserve(t)
    BY <1>1, <1>5, <1>7, AnchoredKeeps
<1>8. CASE Spent(r) /\ Rest(t, "replaced") /\ age' \in 0..2
    BY <1>2, <1>3, <1>5, <1>8, RestKeeps
<1>9. CASE Rest(t, "broadcast") /\ age' \in 0..2
    BY <1>2, <1>3, <1>5, <1>6, <1>9, RestKeeps
<1>10. CASE Hold(t, "blocked")
    BY <1>2, <1>3, <1>5, <1>6, <1>10, HoldKeeps
<1>11. \A s : AgeAfter(t, s) \in 0..2
    BY <1>2 DEF TypeOK, AgeAfter
<1> QED
    BY <1>4, <1>7, <1>8, <1>9, <1>10, <1>11

\* The block time is read: the head is anchored, or the row is opened again.
LEMMA ClockStep ==
    ASSUME AInv, Clock
    PROVE  AInv'
<1>1. /\ At("clock")
      /\ UNCHANGED <<unsigned, head, boot, todo, age, chain, mempool, netVars>>
    BY DEF Clock, netVars
<1>2. /\ TypeOK /\ RowInv /\ PubInv /\ Busy /\ pub.at = "clock"
      /\ boot \notin {"running", "down"}
    BY <1>1, AtIs
<1>3. pub.row \in Tx /\ Mined(pub.row, TRUE) /\ pub.root \in Roots
    BY <1>2, PubFields DEF PubInv
<1>4. CASE EndAnchored(pub.row) /\ UNCHANGED <<status, rejected, tracked, faults>>
  <2>1. /\ pub' = Idle /\ tip' = [root |-> pub.root, tx |-> pub.row]
        /\ heads' = [heads EXCEPT ![pub.root] = pub.row]
      BY <1>4 DEF EndAnchored
  <2>2. /\ heads' \in [Roots -> Tx \cup {NoTx}]
        /\ tip' \in [root : Roots \cup {0}, tx : Tx \cup {NoTx}]
        /\ \A r \in Roots : heads'[r] = heads[r] \/ heads'[r] = pub.row
      BY <1>2, <1>3, <2>1 DEF TypeOK
  <2>3. TypeOK'
      BY <1>1, <1>2, <1>4, <2>1, <2>2 DEF TypeOK
  <2>4. Calm
      BY <1>1, <1>4, StillCalm
  <2> QED
      BY <1>1, <1>2, <1>3, <1>4, <2>1, <2>2, <2>3, <2>4, PublishCalm
<1>5. CASE Fault /\ End /\ \E s \in {"broadcast", "replaced"} : Reopen(pub.root, pub.row, s)
  <2>1. /\ Calm
        /\ status' \in [Tx -> Open \cup Closed \cup {"none"}]
        /\ tracked' \in [Roots -> Tx \cup {NoTx}]
        /\ rejected' \subseteq Tx
        /\ \A r \in Roots : tracked'[r] = tracked[r] \/ tracked'[r] = NoTx
      BY <1>1, <1>2, <1>3, <1>5, ReopenDoes
  <2>2. /\ pub' = Idle /\ UNCHANGED heads /\ faults' \in 0..MaxFaults
        /\ tip' \in [root : Roots \cup {0}, tx : Tx \cup {NoTx}]
      BY <1>2, <1>5, EndDoes, FaultType
  <2>3. TypeOK'
      BY <1>1, <1>2, <2>1, <2>2 DEF TypeOK
  <2> QED
      BY <1>1, <1>2, <2>1, <2>2, <2>3, PublishCalm
<1> QED
    BY <1>4, <1>5 DEF Clock

\* A journal write throws.
LEMMA JournalFailsStep ==
    ASSUME AInv, JournalFails
    PROVE  AInv'
<1>1. /\ TypeOK /\ BootInv /\ Busy /\ boot # "running" /\ pub' = Idle /\ Fault
      /\ UNCHANGED <<status, unsigned, rejected, tracked, heads, tip, head, boot, todo, age,
                     chain, mempool>>
    BY DEF AInv, JournalFails, journalVars, headVars, netVars
<1>2. boot \notin {"running", "down"}
    BY <1>1 DEF BootInv
<1>3. TypeOK'
    BY <1>1, FaultType DEF TypeOK
<1>4. Calm
    BY <1>1, StillCalm
<1> QED
    BY <1>1, <1>2, <1>3, <1>4, PublishCalm

-----------------------------------------------------------------------------
(* Crash, boot and reconcile. *)

\* The process dies: its publish is gone, and its tracker may fall back to the heads.
LEMMA CrashStep ==
    ASSUME AInv, Crash
    PROVE  AInv'
<1>1. /\ TypeOK /\ RowInv /\ HeadInv /\ Fault /\ boot' = "down" /\ pub' = Idle /\ todo' = {}
      /\ tracked' \in {tracked, heads}
      /\ UNCHANGED <<status, unsigned, rejected, heads, tip, head, age, chain, mempool>>
    BY DEF AInv, Crash, headVars, netVars
<1>2. TypeOK'
    BY <1>1, FaultType DEF TypeOK
<1>3. RowInv'
    BY <1>1, <1>2, StillCalm, CalmRows
<1>4. HeadInv'
    BY <1>1 DEF HeadInv, Mined
<1>5. PubInv' /\ BootInv'
    BY <1>1 DEF PubInv, BootInv, Busy
<1> QED
    BY <1>2, <1>3, <1>4, <1>5 DEF AInv

\* The publish that waits for a reconcile keeps its books.
LEMMA WaitingPub ==
    ASSUME TypeOK, PubInv, Calm, Busy => pub.at \in {"sign", "replace", "send"},
           \A t \in Tx : status'[t] \in Open => Newest(t), pub' = pub
    PROVE  PubInv'
<1>1. CASE ~Busy
    BY <1>1 DEF PubInv, Busy
<1>2. CASE Busy
  <2>1. PICK p \in Publishes : p = pub
      BY <1>2, PubFields
  <2>2. PubOk(p)
    <3>1. p.at \in {"sign", "replace", "send"}
        BY <1>2, <2>1
    <3>2. p.at = "sign" => p.row \in Tx /\ FreshNonce(p.row)
        BY <1>2, <2>1 DEF PubInv, FreshNonce
    <3>3. /\ NoGapBelow(p.pend)
          /\ p.at \in OnRow => p.row \in Tx /\ Signed(p.row)
          /\ p.at \in Sending => Newest(p.row)
      <4> HIDE DEF Newest, Signed, NoGapBelow
      <4> QED
          BY <1>2, <2>1 DEF PubInv
    <3> QED
        BY <3>1, <3>2, <3>3 DEF PubOk
  <2> QED
      BY <2>1, <2>2, CalmPub
<1> QED
    BY <1>1, <1>2

\* A reconcile starts: older raws are superseded, and every row it has to look
\* up is the newest of its nonce.
LEMMA StartStep ==
    ASSUME AInv, StartReconcile, UNCHANGED faults,
           Busy => pub.at \in {"sign", "replace", "send"}
    PROVE  AInv'
<1>1. /\ TypeOK /\ RowInv /\ HeadInv /\ PubInv /\ BootInv
      /\ UNCHANGED <<rejected, tracked, heads, tip, head, pub, age, chain, mempool>>
      /\ status' = Superseded /\ unsigned' = {}
      /\ todo' = {t \in Tx : status'[t] \in Open \cup {"anchored"}}
      /\ boot' = IF todo' = {} THEN "done" ELSE "running"
    BY DEF AInv, StartReconcile, headVars, netVars
<1>2. /\ Calm
      /\ \A t \in Tx : status'[t] \in Open => Newest(t)
      /\ \A t \in Tx : status[t] = "anchored" <=> status'[t] = "anchored"
    BY <1>1, SupersedeCalm
<1>3. TypeOK'
    BY <1>1, SupersededType DEF TypeOK
<1>4. RowInv'
    BY <1>1, <1>2, <1>3, CalmRows
<1>5. HeadInv'
    BY <1>1 DEF HeadInv, Mined
<1>6. PubInv'
    BY <1>1, <1>2, WaitingPub
<1>7. ASSUME NEW t \in todo' PROVE Signed(t)' /\ Newest(t)'
  <2>1. t \in Tx /\ status'[t] \in Open \cup {"anchored"}
      BY <1>1
  <2>2. Signed(t)'
      BY <2>1, Statuses DEF Signed
  <2>3. Newest(t)
    <3>1. CASE status'[t] = "anchored"
      <4>1. Mined(t, TRUE)
          BY <1>1, <1>2, <2>1, <3>1 DEF RowInv, ClosedFits
      <4> QED
          BY <1>1, <2>1, <4>1, MinedSpent DEF RowInv, Newest
    <3> QED
        BY <1>2, <2>1, <3>1
  <2> QED
      BY <1>1, <1>2, <2>1, <2>2, <2>3, CalmFacts
<1>8. BootInv'
  <2>1. Busy' => pub'.at \in {"sign", "replace", "send"}
      BY <1>1 DEF Busy
  <2> HIDE DEF Newest, Signed
  <2> QED
      BY <1>1, <1>7, <2>1 DEF BootInv
<1> QED
    BY <1>3, <1>4, <1>5, <1>6, <1>8 DEF AInv

\* A boot reconciles.
LEMMA RestartStep ==
    ASSUME AInv, Restart
    PROVE  AInv'
<1>1. ~Busy /\ StartReconcile /\ UNCHANGED faults
    BY DEF AInv, BootInv, Restart
<1> QED
    BY <1>1, StartStep

\* A publish runs the reconcile its boot deferred.
LEMMA DeferredReconcileStep ==
    ASSUME AInv, DeferredReconcile
    PROVE  AInv'
<1>1. pub.at \in {"sign", "replace", "send"} /\ StartReconcile /\ UNCHANGED faults
    BY DEF DeferredReconcile
<1> QED
    BY <1>1, StartStep

\* A row is marked by the reconcile, with no more than a send of its own.
ReconcileMark(t) ==
    \E s \in Open \cup Closed :
        /\ \/ status' = status
           \/ /\ Mark(t, s)
              /\ \/ s \in Open
                 \/ s = "anchored" /\ Mined(t, TRUE)
                 \/ s = "replaced" /\ Consumed(t)
        /\ mempool' \subseteq mempool \cup {t}
        /\ \/ tracked' = tracked
           \/ tracked' = [tracked EXCEPT ![t.root] = t] /\ Mined(t, TRUE)
        /\ faults' \in 0..MaxFaults /\ age' \in 0..2

\* The reconcile of a row does no more than that.
LEMMA ReconcileMarks ==
    ASSUME TypeOK, ChainFits, NEW t \in Tx, Reconcile(t)
    PROVE  ReconcileMark(t)
<1>1. {"broadcast", "blocked"} \subseteq Open /\ {"anchored", "replaced"} \subseteq Closed
      /\ age \in 0..2 /\ 0 \in 0..2
    BY Statuses DEF TypeOK
<1>2. CASE Lookup(t, "mined") /\ Commit(t) /\ UNCHANGED <<age, mempool>>
  <2>1. Mined(t, TRUE) /\ faults' \in 0..MaxFaults
      BY <1>2, LookupSays
  <2>2. Mark(t, "anchored") /\ tracked' = [tracked EXCEPT ![t.root] = t]
      BY <1>2 DEF Commit
  <2> QED
      BY <1>1, <1>2, <2>1, <2>2 DEF ReconcileMark
<1>3. ASSUME NEW r \in Replies \ {"mined", "unused"}, Lookup(t, r),
             \/ Spent(r) /\ Mark(t, "replaced") /\ UNCHANGED age
             \/ r = "pool" /\ UNCHANGED <<status, age>>
             \/ r = "error" /\ Mark(t, "blocked") /\ age' = 0
             \/ r = "error" /\ status[t] = "anchored" /\ UNCHANGED <<status, age>>,
             UNCHANGED <<tracked, mempool>>
      PROVE  ReconcileMark(t)
  <2>1. (Spent(r) => Consumed(t)) /\ faults' \in 0..MaxFaults
      BY <1>3, LookupSays
  <2>2. CASE Spent(r) /\ Mark(t, "replaced") /\ UNCHANGED age
      BY <1>1, <1>3, <2>1, <2>2 DEF ReconcileMark
  <2>3. CASE UNCHANGED <<status, age>>
      BY <1>1, <1>3, <2>1, <2>3 DEF ReconcileMark
  <2>4. CASE Mark(t, "blocked") /\ age' = 0
    <3>1. "blocked" \in Open \cup Closed /\ age' \in 0..2 /\ mempool' \subseteq mempool \cup {t}
        BY <1>1, <1>3, <2>4
    <3> QED
        BY <1>1, <1>3, <2>1, <2>4, <3>1 DEF ReconcileMark
  <2> QED
      BY <1>3, <2>2, <2>3, <2>4
<1>4. ASSUME NEW r \in {"accepted", "transient", "permanent"}, Send(t, r),
             Mark(t, IF r = "accepted" THEN "broadcast" ELSE "blocked"),
             age' = IF r = "accepted" THEN AgeAfter(t, "broadcast") ELSE 0, UNCHANGED tracked
      PROVE  ReconcileMark(t)
  <2>1. mempool' \subseteq mempool \cup {t} /\ faults' \in 0..MaxFaults
      BY <1>4, SendDoes
  <2>2. PICK s \in {"broadcast", "blocked"} : Mark(t, s)
      BY <1>4
  <2>3. s \in Open /\ s \in Open \cup Closed /\ age' \in 0..2
      BY <1>1, <1>4 DEF AgeAfter
  <2> QED
      BY <1>4, <2>1, <2>2, <2>3 DEF ReconcileMark
<1>5. CASE Lookup(t, "unused") /\ Mark(t, "blocked") /\ age' = 0 /\ UNCHANGED <<tracked, mempool>>
  <2>1. faults' \in 0..MaxFaults
      BY <1>5, LookupSays
  <2>2. "blocked" \in Open \cup Closed /\ age' \in 0..2 /\ mempool' \subseteq mempool \cup {t}
      BY <1>1, <1>5
  <2> QED
      BY <1>1, <1>5, <2>1, <2>2 DEF ReconcileMark
<1> QED
    BY <1>2, <1>3, <1>4, <1>5 DEF Reconcile

\* One row of a reconcile.
LEMMA ReconcileOneStep ==
    ASSUME AInv, NEW t \in todo, Reconcile(t)
    PROVE  AInv'
<1>1. /\ TypeOK /\ RowInv /\ ChainFits /\ HeadInv /\ PubInv /\ BootInv
      /\ boot = "running" /\ todo' = todo \ {t}
      /\ boot' = IF todo' = {} THEN "done" ELSE "running"
      /\ UNCHANGED <<unsigned, rejected, heads, tip, head, pub, chain>>
    BY DEF AInv, RowInv, Reconcile, headVars
<1>2. t \in Tx /\ Signed(t) /\ Newest(t) /\ (Busy => pub.at \in {"sign", "replace", "send"})
    BY <1>1 DEF BootInv, TypeOK
<1>3. PICK s \in Open \cup Closed :
          /\ \/ status' = status
             \/ /\ Mark(t, s)
                /\ \/ s \in Open
                   \/ s = "anchored" /\ Mined(t, TRUE)
                   \/ s = "replaced" /\ Consumed(t)
          /\ mempool' \subseteq mempool \cup {t}
          /\ \/ tracked' = tracked
             \/ tracked' = [tracked EXCEPT ![t.root] = t] /\ Mined(t, TRUE)
          /\ faults' \in 0..MaxFaults /\ age' \in 0..2
    BY <1>1, <1>2, ReconcileMarks DEF ReconcileMark
<1>4. /\ Calm
      /\ status' \in [Tx -> Open \cup Closed \cup {"none"}]
      /\ \A u \in Tx : status'[u] \in Open => status[u] \in Open \/ u = t
  <2>1. CASE status' = status
    <3>1. Calm
        BY <1>1, <1>2, <1>3, <2>1 DEF Calm, Moves
    <3> QED
        BY <1>1, <2>1, <3>1 DEF TypeOK
  <2>2. CASE status' # status
      BY <1>1, <1>2, <1>3, <2>2, MarkCalm, MarkType
  <2> QED
      BY <2>1, <2>2
<1>5. ASSUME NEW u \in Tx, status'[u] \in Open PROVE Newest(u) \/ ~Busy
  <2>1. CASE u = t
      BY <1>2, <2>1
  <2>2. CASE u # t /\ Busy
    <3>1. pub.at \in Sorted /\ u \in Unresolved
        BY <1>2, <1>4, <1>5, <2>2 DEF Sorted, Unresolved
    <3> HIDE DEF Newest
    <3> QED
        BY <1>1, <2>2, <3>1 DEF PubInv
  <2> QED
      BY <2>1, <2>2
<1>6. /\ tracked' \in [Roots -> Tx \cup {NoTx}] /\ mempool' \subseteq Tx
      /\ \A r \in Roots : tracked'[r] = tracked[r] \/ (tracked'[r] = t /\ Mined(t, TRUE))
    BY <1>1, <1>2, <1>3, TxFields DEF TypeOK
<1>7. TypeOK'
    BY <1>1, <1>3, <1>4, <1>6 DEF TypeOK
<1>8. RowInv'
    BY <1>1, <1>4, <1>7, CalmRows
<1>9. HeadInv'
    BY <1>1, <1>6 DEF HeadInv, Mined
<1>10. PubInv'
  <2>1. CASE Busy
      BY <1>1, <1>2, <1>4, <1>5, <2>1, WaitingPub
  <2>2. CASE ~Busy
      BY <1>1, <2>2 DEF PubInv, Busy
  <2> QED
      BY <2>1, <2>2
<1>11. BootInv'
  <2>1. ASSUME NEW u \in todo' PROVE Signed(u)' /\ Newest(u)'
    <3>1. u \in Tx /\ Signed(u) /\ Newest(u)
        BY <1>1 DEF BootInv, TypeOK
    <3> QED
        BY <1>1, <1>4, <3>1, CalmFacts
  <2>2. Busy' <=> Busy
      BY <1>1 DEF Busy
  <2> HIDE DEF Newest, Signed
  <2> QED
      BY <1>1, <1>2, <2>1, <2>2 DEF BootInv
<1> QED
    BY <1>7, <1>8, <1>9, <1>10, <1>11 DEF AInv

-----------------------------------------------------------------------------
(* The other actors. *)

\* A step that leaves the journal, the chain and the publish alone.
LEMMA StillStep ==
    ASSUME AInv, TypeOK', UNCHANGED <<status, tracked, heads, pub, todo, chain>>,
           mempool' \subseteq mempool,
           boot' = boot \/ (boot = "down" /\ boot' = "deferred")
    PROVE  AInv'
<1>1. TypeOK /\ RowInv /\ HeadInv /\ PubInv /\ BootInv
    BY DEF AInv
<1>2. RowInv'
    BY <1>1, StillCalm, CalmRows
<1>3. HeadInv'
    BY <1>1 DEF HeadInv, Mined
<1>4. Taken' = Taken /\ Unresolved' = Unresolved
    BY DEF Taken, Unresolved
<1>5. PubInv'
    BY <1>1, <1>4 DEF PubInv, Busy, NoGapBelow, Mined, Signed, Newest, Consumed
<1>6. BootInv'
    BY <1>1 DEF BootInv, Busy, Signed, Newest, Consumed
<1> QED
    BY <1>2, <1>3, <1>5, <1>6 DEF AInv

\* A boot defers its reconcile, a receipt is appended, the row grows old.
LEMMA OtherSteps ==
    ASSUME AInv, RestartDeferred \/ NewHead \/ Age
    PROVE  AInv'
<1>1. /\ TypeOK
      /\ UNCHANGED <<status, unsigned, rejected, tracked, heads, tip, pub, todo, chain, mempool>>
    BY DEF AInv, RestartDeferred, NewHead, Age, journalVars, headVars, netVars
<1>2. /\ faults' = faults \/ Fault
      /\ boot' = boot \/ (boot = "down" /\ boot' = "deferred")
      /\ head' \in Roots /\ age' \in 0..2
  <2>1. CASE RestartDeferred \/ Age
      BY <1>1, <2>1 DEF RestartDeferred, Age, TypeOK
  <2>2. CASE NewHead
      BY <1>1, <2>2, AnchorAssumption DEF NewHead, TypeOK, Roots
  <2> QED
      BY <2>1, <2>2
<1>3. TypeOK'
    BY <1>1, <1>2, FaultType DEF TypeOK
<1> QED
    BY <1>1, <1>2, <1>3, StillStep

\* A block is mined, or a transaction is dropped from the pool.
LEMMA NetworkStep ==
    ASSUME AInv, Network
    PROVE  AInv'
<1>1. /\ TypeOK /\ RowInv /\ HeadInv /\ PubInv /\ BootInv
      /\ UNCHANGED <<status, unsigned, rejected, tracked, heads, tip, head, pub, boot, todo, age>>
    BY DEF AInv, Network, journalVars, headVars
<1>2. CASE \E t \in mempool : Drop(t)
  <2>1. mempool' \subseteq mempool /\ UNCHANGED chain /\ Fault
      BY <1>2 DEF Drop
  <2>2. TypeOK'
      BY <1>1, <2>1, FaultType DEF TypeOK
  <2> QED
      BY <1>1, <2>1, <2>2, StillStep
<1>3. CASE MineForeign \/ \E t \in mempool, ok \in BOOLEAN : Mine(t, ok)
  <2>1. Grows /\ faults' \in 0..MaxFaults /\ mempool' \subseteq mempool
    <3>1. CASE MineForeign
      <4> DEFINE e == [tx |-> NoTx, ok |-> TRUE]
      <4>1. e \in [tx : mempool \cup {NoTx}, ok : BOOLEAN] /\ e.tx = NoTx
          OBVIOUS
      <4>2. chain' = Append(chain, e) /\ mempool' \subseteq mempool /\ Fault
          BY <3>1 DEF MineForeign
      <4> QED
          BY <1>1, <4>1, <4>2, FaultType DEF Grows
    <3>2. ASSUME NEW t \in mempool, NEW ok \in BOOLEAN, Mine(t, ok)
          PROVE  Grows /\ faults' \in 0..MaxFaults /\ mempool' \subseteq mempool
      <4> DEFINE e == [tx |-> t, ok |-> ok]
      <4>1. e \in [tx : mempool \cup {NoTx}, ok : BOOLEAN] /\ e.tx = t
          OBVIOUS
      <4>2. /\ chain' = Append(chain, e) /\ mempool' \subseteq mempool
            /\ t.nonce = Len(chain) /\ (faults' = faults \/ Fault)
          BY <3>2 DEF Mine
      <4> QED
          BY <1>1, <4>1, <4>2, FaultType DEF Grows
    <3> QED
        BY <1>3, <3>1, <3>2
  <2>2. TypeOK'
    <3>1. PICK e \in [tx : mempool \cup {NoTx}, ok : BOOLEAN] : chain' = Append(chain, e)
        BY <2>1 DEF Grows
    <3>2. e \in [tx : Tx \cup {NoTx}, ok : BOOLEAN]
        BY <1>1 DEF TypeOK
    <3>3. chain' \in Seq([tx : Tx \cup {NoTx}, ok : BOOLEAN])
        BY <1>1, <3>1, <3>2 DEF TypeOK
    <3> QED
        BY <1>1, <2>1, <3>3 DEF TypeOK
  <2>3. /\ RowInv'
        /\ \A t \in Tx : Consumed(t) => Consumed(t)'
        /\ \A t, ok : Mined(t, ok) => Mined(t, ok)'
        /\ \A t \in Tx : Newest(t) => Newest(t)'
        /\ \A n \in Nat : NoGapBelow(n) => NoGapBelow(n)'
        /\ Taken' = Taken
      BY <1>1, <2>1, GrowsRows
  <2>4. HeadInv'
      BY <1>1, <2>3 DEF HeadInv
  <2>5. PubInv'
    <3>1. CASE ~Busy
        BY <1>1, <3>1 DEF PubInv, Busy
    <3>2. CASE Busy
      <4>1. PICK p \in Publishes : p = pub /\ pub' = p
          BY <1>1, <3>2, PubFields
      <4>2. p.pend \in Nat /\ p.row \in Tx \cup {NoTx}
          BY <4>1, TxFields DEF Publishes
      <4>3. NoGapBelow(p.pend)'
          BY <1>1, <2>3, <3>2, <4>1, <4>2 DEF PubInv
      <4>4. p.at \in {"recheck", "clock"} => p.row \in Tx /\ Mined(p.row, TRUE)'
          BY <1>1, <2>3, <3>2, <4>1 DEF PubInv
      <4>5. p.at \in OnRow => p.row \in Tx /\ Signed(p.row)'
          BY <1>1, <3>2, <4>1 DEF PubInv, Signed
      <4>6. p.at = "sign" => p.row \in Tx /\ p.row.nonce \notin Taken' /\ NoGapBelow(p.row.nonce)'
          BY <1>1, <2>3, <3>2, <4>1, TxFields DEF PubInv
      <4>7. p.at \in Sending => p.row \in Tx /\ Newest(p.row)'
        <5>1. p.at \in Sending => p.row \in Tx /\ Newest(p.row)
            BY <1>1, <3>2, <4>1 DEF PubInv, Sending, OnRow
        <5> QED
            BY <2>3, <5>1
      <4>8. Unresolved' = Unresolved
          BY <1>1 DEF Unresolved
      <4>9. \A t \in Unresolved : Newest(t) => Newest(t)'
          BY <2>3 DEF Unresolved
      <4>10. p.at \in Sorted => \A t \in Unresolved' : Newest(t)'
          BY <1>1, <3>2, <4>1, <4>8, <4>9 DEF PubInv
      <4>11. p.at = "supersede" =>
                /\ status'[p.row] = "signed"
                /\ \A t \in Unresolved' :
                      Newest(t)' \/ (t.nonce = p.row.nonce /\ t.fee + 1 = p.row.fee)
          BY <1>1, <3>2, <4>1, <4>8, <4>9 DEF PubInv
      <4> HIDE DEF Newest, Signed, NoGapBelow, Mined
      <4> QED
          BY <4>1, <4>3, <4>4, <4>5, <4>6, <4>7, <4>10, <4>11 DEF PubInv
    <3> QED
        BY <3>1, <3>2
  <2>6. BootInv'
    <3>1. ASSUME NEW t \in todo PROVE Signed(t)' /\ Newest(t)'
        BY <1>1, <2>3 DEF BootInv, Signed, TypeOK
    <3> HIDE DEF Newest, Signed
    <3> QED
        BY <1>1, <3>1 DEF BootInv, Busy
  <2> QED
      BY <2>2, <2>3, <2>4, <2>5, <2>6 DEF AInv
<1> QED
    BY <1>2, <1>3 DEF Network, MineOk

-----------------------------------------------------------------------------
(* The theorems. *)

\* The first state: nothing is signed, mined or in progress.
LEMMA InitAInv == Init => AInv
<1> SUFFICES ASSUME Init PROVE AInv
    OBVIOUS
<1>1. /\ status = [t \in Tx |-> "none"] /\ unsigned = {} /\ rejected = {}
      /\ tracked = [r \in Roots |-> NoTx] /\ heads = [r \in Roots |-> NoTx]
      /\ tip = [root |-> 0, tx |-> NoTx] /\ head = 1 /\ pub = Idle /\ boot = "done"
      /\ todo = {} /\ age = 0 /\ chain = <<>> /\ mempool = {} /\ faults = 0
    BY DEF Init
<1>2. \A t \in Tx : status[t] = "none"
    BY <1>1
<1>3. TypeOK
  <2>1. head \in Roots /\ faults \in 0..MaxFaults /\ age \in 0..2
      BY <1>1, AnchorAssumption DEF Roots
  <2>2. status \in [Tx -> Open \cup Closed \cup {"none"}]
      BY <1>1
  <2>3. chain \in Seq([tx : Tx \cup {NoTx}, ok : BOOLEAN])
      BY <1>1
  <2> QED
      BY <1>1, <2>1, <2>2, <2>3 DEF TypeOK
<1>4. RowInv
  <2>1. Len(chain) = 0
      BY <1>1
  <2> QED
      BY <1>1, <1>2, <2>1 DEF RowInv, ChainFits, ClosedFits, NoGap, OnePerFee, Signed
<1>5. HeadInv
    BY <1>1 DEF HeadInv
<1>6. PubInv /\ BootInv
    BY <1>1 DEF PubInv, BootInv, Busy
<1> QED
    BY <1>3, <1>4, <1>5, <1>6 DEF AInv

\* Every step keeps the invariant.
LEMMA NextAInv == AInv /\ [Next]_vars => AInv'
<1> SUFFICES ASSUME AInv, [Next]_vars PROVE AInv'
    OBVIOUS
<1>1. CASE Next
  <2>1. CASE Publish
      BY <2>1, PublishStarts
  <2>2. CASE PublishStep
      BY <2>2, RecheckStep, ReadNonceStep, AdoptStep, ResumeStep, SignStep, ReplaceStep,
         SupersedeOldStep, SendRawStep, ConfirmStep, ClockStep DEF PublishStep
  <2>3. CASE Look \/ Backoff \/ NonceUnknown \/ JournalFails
      BY <2>3, LookStep, BackoffStep, NonceUnknownStep, JournalFailsStep
  <2>4. CASE Crash \/ Restart \/ RestartDeferred
      BY <2>4, CrashStep, RestartStep, OtherSteps
  <2>5. CASE ReconcileStep
      BY <2>5, DeferredReconcileStep, ReconcileOneStep DEF ReconcileStep
  <2>6. CASE NewHead \/ Age
      BY <2>6, OtherSteps
  <2>7. CASE Network
      BY <2>7, NetworkStep
  <2> QED
      BY <1>1, <2>1, <2>2, <2>3, <2>4, <2>5, <2>6, <2>7 DEF Next
<1>2. CASE UNCHANGED vars
  <2>1. UNCHANGED <<status, unsigned, rejected, tracked, heads, tip, head, pub, boot, todo, age,
                    chain, mempool, faults>>
      BY <1>2 DEF vars, journalVars, headVars, netVars
  <2>2. TypeOK'
      BY <2>1 DEF AInv, TypeOK
  <2> QED
      BY <2>1, <2>2, StillStep
<1> QED
    BY <1>1, <1>2

\* The journal, the heads, the publish in progress and the reconcile of
\* receipt-merkle.js agree with the chain at every await.
THEOREM AnchorInvariant == Spec => []AInv
<1>1. Init => AInv
    BY InitAInv
<1>2. AInv /\ [Next]_vars => AInv'
    BY NextAInv
<1> QED
    BY <1>1, <1>2, PTL DEF Spec

\* Every variable keeps its type.
THEOREM AnchorTypeCorrect == Spec => []TypeOK
<1>1. AInv => TypeOK
    BY DEF AInv
<1> QED
    BY <1>1, AnchorInvariant, PTL

\* What the pool or the chain holds of the sender was journalled first, and what
\* the journal or a head calls anchored is mined: however lookups lag or fail,
\* writes throw and the process crashes between a send and its mark.
THEOREM AnchorJournalMatchesChain == Spec => []JournalMatchesChain
<1>1. ASSUME AInv PROVE JournalMatchesChain
  <2>1. ChainFits /\ ClosedFits /\ HeadInv
      BY <1>1 DEF AInv, RowInv
  <2> QED
      BY <2>1 DEF JournalMatchesChain, ChainFits, ClosedFits, HeadInv, Signed
<1> QED
    BY <1>1, AnchorInvariant, PTL

\* Below an open row every nonce the chain has not taken has an open row: no
\* crash, failed write or deferred boot leaves a nonce that blocks the later ones.
THEOREM AnchorNoNonceGap == Spec => []NoNonceGap
<1>1. ASSUME AInv PROVE NoNonceGap
  <2>1. TypeOK /\ ChainFits /\ ClosedFits /\ NoGap
      BY <1>1 DEF AInv, RowInv
  <2> SUFFICES ASSUME NEW t \in Unresolved, NEW n \in Len(chain)..t.nonce
               PROVE  \E s \in Unresolved : s.nonce = n
      BY DEF NoNonceGap
  <2>2. t \in Tx /\ Signed(t)
      BY Statuses DEF Unresolved, Signed
  <2>3. PICK s \in Tx : status[s] # "none" /\ s.nonce = n
      BY <2>1, <2>2 DEF NoGap, Taken
  <2>4. ~Consumed(s)
      BY <2>1, <2>2, <2>3, ChainType, TxFields DEF Consumed
  <2>5. status[s] \notin {"anchored", "replaced"}
      BY <2>1, <2>4, MinedSpent DEF ClosedFits
  <2>6. status[s] \in Open \/ status[s] = "superseded"
      BY <2>1, <2>3, <2>5 DEF TypeOK, Closed
  <2>7. CASE status[s] \in Open
      BY <2>3, <2>7 DEF Unresolved
  <2>8. CASE status[s] = "superseded"
      BY <2>1, <2>3, <2>4, <2>8 DEF ClosedFits
  <2> QED
      BY <2>6, <2>7, <2>8
<1> QED
    BY <1>1, AnchorInvariant, PTL

\* Only the send of a publish and the send of a reconcile add to the pool.
LEMMA OnlySends ==
    ASSUME AInv, [Next]_vars
    PROVE  mempool' \subseteq mempool \/ SendRaw \/ \E t \in todo : Reconcile(t)
<1>1. CASE Next
  <2>1. CASE Publish
      BY <2>1 DEF Publish, netVars
  <2>2. CASE PublishStep
      BY <2>2 DEF PublishStep, Recheck, ReadNonce, Adopt, Resume, Sign, Replace, SupersedeOld,
         Confirm, Clock, netVars
  <2>3. CASE Look \/ Backoff \/ NonceUnknown \/ JournalFails
      BY <2>3 DEF Look, Backoff, NonceUnknown, JournalFails, netVars
  <2>4. CASE Crash \/ Restart \/ RestartDeferred
      BY <2>4 DEF Crash, Restart, StartReconcile, RestartDeferred, netVars
  <2>5. CASE ReconcileStep
      BY <2>5 DEF ReconcileStep, DeferredReconcile, StartReconcile, netVars
  <2>6. CASE NewHead \/ Age
      BY <2>6 DEF NewHead, Age, netVars
  <2>7. CASE Network
      BY <2>7 DEF Network, MineOk, Mine, MineForeign, Drop
  <2> QED
      BY <1>1, <2>1, <2>2, <2>3, <2>4, <2>5, <2>6, <2>7 DEF Next
<1>2. CASE UNCHANGED vars
    BY <1>2 DEF vars, netVars
<1> QED
    BY <1>1, <1>2

\* A send of the newest raw of a nonce that is free on the chain.
LEMMA SentIsNewest ==
    ASSUME TypeOK, NEW t \in Tx, Newest(t), mempool' \subseteq mempool \cup {t},
           t \in mempool' /\ t \notin mempool => ~Consumed(t),
           NEW u \in mempool' \ mempool, NEW s \in Tx, s.nonce = u.nonce, status[s] # "none"
    PROVE  s.fee <= u.fee
    BY DEF Newest, Signed

\* Of the raws at one nonce only the newest is ever sent, by a publish that was
\* planned before it or by the reconcile of a boot that found both.
THEOREM AnchorNewestRawOnly == Spec => NewestRawOnly
<1> DEFINE A == \A t \in mempool' \ mempool :
                   \A s \in Tx : s.nonce = t.nonce /\ status[s] # "none" => s.fee <= t.fee
<1>1. ASSUME AInv, [Next]_vars PROVE A
  <2>0. TypeOK
      BY <1>1 DEF AInv
  <2>1. CASE mempool' \subseteq mempool
      BY <2>1
  <2>2. CASE SendRaw
    <3>1. At("send") /\ \E r : Send(pub.row, r)
        BY <2>2 DEF SendRaw
    <3>2. pub.row \in Tx /\ Newest(pub.row)
        BY <1>1, <3>1, AtIs DEF OnRow, Sending
    <3>3. /\ mempool' \subseteq mempool \cup {pub.row}
          /\ pub.row \in mempool' /\ pub.row \notin mempool => ~Consumed(pub.row)
        BY <2>0, <3>1, <3>2, SendDoes
    <3> QED
        BY <2>0, <3>2, <3>3, SentIsNewest
  <2>3. ASSUME NEW t \in todo, Reconcile(t) PROVE A
    <3>1. t \in Tx /\ Newest(t)
        BY <1>1 DEF AInv, BootInv, TypeOK
    <3>2. mempool' = mempool \/ \E r : Send(t, r)
        BY <2>3 DEF Reconcile
    <3>3. /\ mempool' \subseteq mempool \cup {t}
          /\ t \in mempool' /\ t \notin mempool => ~Consumed(t)
        BY <2>0, <3>1, <3>2, SendDoes
    <3> QED
        BY <2>0, <3>1, <3>3, SentIsNewest
  <2> QED
      BY <1>1, <2>1, <2>2, <2>3, OnlySends
<1> HIDE DEF A
<1>2. AInv /\ [Next]_vars => [A]_vars
    BY <1>1
<1>3. Spec => [][A]_vars
    BY <1>2, AnchorInvariant, PTL DEF Spec
<1> QED
    BY <1>3 DEF A, NewestRawOnly
=============================================================================
