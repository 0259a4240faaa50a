----------------------- MODULE ChallengeStoreLock_proofs -----------------------
(***************************************************************************)
(* The lock of the challenge store, for any number of processes and        *)
(* nonces: while no process has died it is a mutual exclusion, and claim   *)
(* answers ok once for a nonce.                                            *)
(***************************************************************************)
EXTENDS ChallengeStoreLock, TLAPS

Inside == {"stamp", "read", "write", "unlock"}

\* An operation that is under way has its nonce.
HasNonce == \A p \in Procs : pc[p] \notin {"idle", "down"} => seen[p] \in Nonces

\* Nobody died, so nobody was replaced and nobody finds the lock stale.
NobodyDied == \A p \in Procs : pc[p] \notin {"down", "rename"} /\ pid[p] = <<p, 0>>

\* The process inside is the one that created the file at the lock path, and
\* the file is there only while its creator is inside.
Exclusive ==
    /\ \A p \in Procs : mine[p] <=> pc[p] \in Inside
    /\ \A p \in Procs : mine[p] => lock # None /\ lock.by = p
    /\ lock # None => /\ mine[lock.by]
                      /\ lock.pid \in {NoPid, <<lock.by, 0>>}

\* What the process inside has read is still what the file says.
ReadIsFresh == \A p \in Procs : pc[p] = "write" => loaded[p] = store

\* A nonce was granted when, and only when, the store records its claim.
GrantIsRecorded == \A n \in Nonces : granted[n] = IF n \in store THEN 1 ELSE 0

LInv ==
    /\ TypeOK
    /\ HasNonce
    /\ crashes = 0 => NobodyDied /\ Exclusive /\ ReadIsFresh /\ GrantIsRecorded

-----------------------------------------------------------------------------
\* Types and nonces, whatever crashes happen.
LEMMA InitType == Init => TypeOK /\ HasNonce
BY ChallengeStoreLockAssumption DEF Init, TypeOK, HasNonce, Steps, Pids

\* Every step keeps them.
LEMMA NextType == TypeOK /\ HasNonce /\ [Next]_vars => TypeOK' /\ HasNonce'
<1> SUFFICES ASSUME TypeOK, HasNonce, [Next]_vars PROVE TypeOK' /\ HasNonce'
    OBVIOUS
<1> USE ChallengeStoreLockAssumption DEF TypeOK, HasNonce, Steps, Goto
<1>1. ASSUME NEW p \in Procs, NEW n \in Nonces, Start(p, n)
      PROVE  TypeOK' /\ HasNonce'
    BY <1>1 DEF Start
<1>2. ASSUME NEW p \in Procs, Open(p)
      PROVE  TypeOK' /\ HasNonce'
    <2>1. [by |-> p, pid |-> NoPid] \in LockFiles
        BY DEF LockFiles, Pids
    <2> QED BY <1>2, <2>1 DEF Open
<1>3. ASSUME NEW p \in Procs, Stamp(p)
      PROVE  TypeOK' /\ HasNonce'
    <2>1. lock' \in {None} \cup LockFiles
        BY <1>3 DEF Stamp, AtPath, LockFiles
    <2> QED BY <1>3, <2>1 DEF Stamp
<1>4. ASSUME NEW p \in Procs, Judge(p) \/ Rename(p) \/ Wait(p)
      PROVE  TypeOK' /\ HasNonce'
    BY <1>4 DEF Judge, Rename, Wait
<1>5. ASSUME NEW p \in Procs, Read(p) \/ Unlock(p)
      PROVE  TypeOK' /\ HasNonce'
    BY <1>5 DEF Read, Unlock
<1>6. ASSUME NEW p \in Procs, Write(p)
      PROVE  TypeOK' /\ HasNonce'
    <2>1. seen[p] \in Nonces
        BY <1>6 DEF Write
    <2>2. granted' \in [Nonces -> 0 .. 2]
        BY <1>6, <2>1 DEF Write
    <2> QED BY <1>6, <2>1, <2>2 DEF Write
<1>7. ASSUME NEW p \in Procs, Crash(p)
      PROVE  TypeOK' /\ HasNonce'
    BY <1>7 DEF Crash
<1>8. ASSUME NEW p \in Procs, Restart(p)
      PROVE  TypeOK' /\ HasNonce'
    <2>1. pid[p][2] \in Nat
        BY DEF Pids, NoPid
    <2>2. pid' \in [Procs -> Pids]
        BY <1>8, <2>1 DEF Restart, Pids
    <2> QED BY <1>8, <2>2 DEF Restart
<1>9. CASE UNCHANGED vars
    BY <1>9 DEF vars
<1> QED BY <1>1, <1>2, <1>3, <1>4, <1>5, <1>6, <1>7, <1>8, <1>9 DEF Next, Proceed

-----------------------------------------------------------------------------
\* With nobody dead, a lock that is there is not stale to a process outside.
LEMMA NotStale ==
    ASSUME LInv, crashes = 0, NEW p \in Procs, pc[p] = "judge"
    PROVE  ~Stale(p)
<1>1. NobodyDied /\ Exclusive /\ ~mine[p]
    BY DEF LInv, Exclusive, Inside
<1>2. ASSUME lock # None
      PROVE  ~Stale(p)
    <2>1. lock.by \in Procs /\ mine[lock.by]
        BY <1>1, <1>2 DEF LInv, TypeOK, LockFiles, Exclusive
    <2>2. lock.by # p
        BY <1>1, <2>1
    <2>3. CASE lock.pid = NoPid
        BY <2>1, <2>3 DEF Stale
    <2>4. CASE lock.pid # NoPid
        <3>1. lock.pid = <<lock.by, 0>>
            BY <1>1, <1>2, <2>4 DEF Exclusive
        <3>2. pid[p] = <<p, 0>> /\ pid[lock.by] = <<lock.by, 0>> /\ pc[lock.by] # "down"
            BY <1>1, <2>1 DEF NobodyDied
        <3>3. lock.pid # pid[p]
            BY <2>2, <3>1, <3>2
        <3>4. Alive(lock.pid)
            BY <2>1, <3>1, <3>2 DEF Alive
        <3> QED BY <2>4, <3>3, <3>4 DEF Stale
    <2> QED BY <2>3, <2>4
<1> QED BY <1>2 DEF Stale

\* Before the first crash every step keeps the exclusion.
LEMMA NextExclusive ==
    ASSUME LInv, TypeOK', HasNonce', [Next]_vars, crashes' = 0
    PROVE  NobodyDied' /\ Exclusive' /\ ReadIsFresh' /\ GrantIsRecorded'
<1> USE ChallengeStoreLockAssumption
<1>1. crashes = 0
    BY DEF LInv, TypeOK, Next, vars, Start, Proceed, Open, Stamp, Judge, Rename, Wait, Read, Write,
           Unlock, Crash, Restart
<1>2. NobodyDied /\ Exclusive /\ ReadIsFresh /\ GrantIsRecorded /\ TypeOK /\ HasNonce
    BY <1>1 DEF LInv
<1>3. ASSUME NEW p \in Procs, NEW n \in Nonces, Start(p, n)
      PROVE  NobodyDied' /\ Exclusive' /\ ReadIsFresh' /\ GrantIsRecorded'
    BY <1>2, <1>3
       DEF Start, Goto, TypeOK, NobodyDied, Exclusive, ReadIsFresh, GrantIsRecorded, Inside
<1>4. ASSUME NEW p \in Procs, Open(p)
      PROVE  NobodyDied' /\ Exclusive' /\ ReadIsFresh' /\ GrantIsRecorded'
    <2>1. CASE lock = None
        <3>1. \A q \in Procs : ~mine[q] /\ pc[q] \notin Inside
            BY <1>2, <2>1 DEF Exclusive
        <3>2. [by |-> p, pid |-> NoPid] \in LockFiles
            BY DEF LockFiles, Pids
        <3>3. /\ lock' = [by |-> p, pid |-> NoPid] /\ mine' = [mine EXCEPT ![p] = TRUE]
              /\ pc' = [pc EXCEPT ![p] = "stamp"] /\ UNCHANGED <<pid, loaded, store, granted>>
            BY <1>4, <2>1 DEF Open, Goto
        <3>4. lock' # None /\ lock'.by = p /\ lock'.pid = NoPid
            BY <3>2, <3>3
        <3>5. NobodyDied' /\ ReadIsFresh' /\ GrantIsRecorded'
            BY <1>2, <3>3 DEF TypeOK, NobodyDied, ReadIsFresh, GrantIsRecorded
        <3>6. Exclusive'
            BY <1>2, <3>1, <3>3, <3>4 DEF TypeOK, Exclusive, Inside
        <3> QED BY <3>5, <3>6
    <2>2. CASE lock # None
        BY <1>2, <1>4, <2>2
           DEF Open, Goto, TypeOK, NobodyDied, Exclusive, ReadIsFresh, GrantIsRecorded, Inside
    <2> QED BY <2>1, <2>2
<1>5. ASSUME NEW p \in Procs, Stamp(p)
      PROVE  NobodyDied' /\ Exclusive' /\ ReadIsFresh' /\ GrantIsRecorded'
    <2>1. mine[p] /\ lock # None /\ lock.by = p /\ lock \in LockFiles
        BY <1>2, <1>5 DEF Stamp, Exclusive, Inside, TypeOK
    <2>2. /\ lock' = [lock EXCEPT !.pid = pid[p]] /\ pc' = [pc EXCEPT ![p] = "read"]
          /\ UNCHANGED <<pid, mine, loaded, store, granted>>
        BY <1>5, <2>1 DEF Stamp, AtPath, Goto
    <2>3. lock'.by = p /\ lock'.pid = <<p, 0>> /\ lock' # None
        <3>1. pid[p] \in Pids /\ pid[p] = <<p, 0>>
            BY <1>2 DEF TypeOK, NobodyDied
        <3>2. lock' \in LockFiles
            BY <2>1, <2>2, <3>1 DEF LockFiles
        <3> QED BY <2>1, <2>2, <3>1, <3>2 DEF LockFiles
    <2>4. NobodyDied' /\ ReadIsFresh' /\ GrantIsRecorded'
        BY <1>2, <2>2 DEF TypeOK, NobodyDied, ReadIsFresh, GrantIsRecorded
    <2>5. Exclusive'
        BY <1>2, <1>5, <2>1, <2>2, <2>3 DEF Stamp, TypeOK, Exclusive, Inside
    <2> QED BY <2>4, <2>5
<1>6. ASSUME NEW p \in Procs, Judge(p)
      PROVE  NobodyDied' /\ Exclusive' /\ ReadIsFresh' /\ GrantIsRecorded'
    <2>1. pc' = [pc EXCEPT ![p] = "wait"]
        BY <1>1, <1>6, NotStale DEF Judge, Goto
    <2> QED BY <1>2, <1>6, <2>1
            DEF Judge, TypeOK, NobodyDied, Exclusive, ReadIsFresh, GrantIsRecorded, Inside
<1>7. ASSUME NEW p \in Procs, Rename(p)
      PROVE  FALSE
    BY <1>2, <1>7 DEF Rename, NobodyDied
<1>8. ASSUME NEW p \in Procs, Wait(p)
      PROVE  NobodyDied' /\ Exclusive' /\ ReadIsFresh' /\ GrantIsRecorded'
    BY <1>2, <1>8
       DEF Wait, Goto, TypeOK, NobodyDied, Exclusive, ReadIsFresh, GrantIsRecorded, Inside
<1>9. ASSUME NEW p \in Procs, Read(p)
      PROVE  NobodyDied' /\ Exclusive' /\ ReadIsFresh' /\ GrantIsRecorded'
    BY <1>2, <1>9
       DEF Read, Goto, TypeOK, NobodyDied, Exclusive, ReadIsFresh, GrantIsRecorded, Inside
<1>10. ASSUME NEW p \in Procs, Write(p)
       PROVE  NobodyDied' /\ Exclusive' /\ ReadIsFresh' /\ GrantIsRecorded'
    <2>1. seen[p] \in Nonces /\ loaded[p] = store
        BY <1>2, <1>10 DEF Write, HasNonce, ReadIsFresh
    <2>2. \A q \in Procs : q # p => pc[q] # "write"
        BY <1>2, <1>10 DEF Write, Exclusive, Inside
    <2>3. NobodyDied' /\ Exclusive'
        BY <1>2, <1>10 DEF Write, Goto, TypeOK, NobodyDied, Exclusive, Inside
    <2>4. ReadIsFresh'
        BY <1>2, <1>10, <2>2 DEF Write, Goto, TypeOK, ReadIsFresh
    <2>5. GrantIsRecorded'
        BY <1>2, <1>10, <2>1 DEF Write, TypeOK, GrantIsRecorded
    <2> QED BY <2>3, <2>4, <2>5
<1>11. ASSUME NEW p \in Procs, Unlock(p)
       PROVE  NobodyDied' /\ Exclusive' /\ ReadIsFresh' /\ GrantIsRecorded'
    <2>1. \A q \in Procs : q # p => ~mine[q]
        BY <1>2, <1>11 DEF Unlock, Exclusive, Inside
    <2> QED BY <1>2, <1>11, <2>1
            DEF Unlock, Goto, TypeOK, NobodyDied, Exclusive, ReadIsFresh, GrantIsRecorded, Inside
<1>12. ASSUME NEW p \in Procs, Crash(p) \/ Restart(p)
       PROVE  FALSE
    BY <1>1, <1>2, <1>12 DEF Crash, Restart, NobodyDied, TypeOK
<1>13. CASE UNCHANGED vars
    BY <1>2, <1>13 DEF vars, NobodyDied, Exclusive, ReadIsFresh, GrantIsRecorded
<1> QED BY <1>3, <1>4, <1>5, <1>6, <1>7, <1>8, <1>9, <1>10, <1>11, <1>12, <1>13 DEF Next, Proceed

\* The invariant holds at first, and every step keeps it.
LEMMA InitLInv == Init => LInv
<1> SUFFICES ASSUME Init PROVE LInv
    OBVIOUS
<1>1. NobodyDied /\ Exclusive /\ ReadIsFresh /\ GrantIsRecorded
    BY DEF Init, NobodyDied, Exclusive, ReadIsFresh, GrantIsRecorded, Inside
<1> QED BY <1>1, InitType DEF LInv

\* Every step keeps the types and the exclusion of the lock.
LEMMA NextLInv == LInv /\ [Next]_vars => LInv'
<1> SUFFICES ASSUME LInv, [Next]_vars PROVE LInv'
    OBVIOUS
<1>1. TypeOK' /\ HasNonce'
    BY NextType DEF LInv
<1> QED BY <1>1, NextExclusive DEF LInv

\* The inductive invariant of the lock.
THEOREM LockInvariant == Spec => []LInv
BY InitLInv, NextLInv, PTL DEF Spec

\* The lock file, the processes and the store keep their types, through any
\* number of crashes.
THEOREM LockTypeCorrect == Spec => []TypeOK
<1>1. LInv => TypeOK
    BY DEF LInv
<1> QED BY LockInvariant, <1>1, PTL

\* While no process has died a nonce is claimed at most once, for any number of
\* processes that contend for the store.
THEOREM ClaimedOnce == Spec => []ClaimedOnceWithoutCrash
<1>1. LInv => ClaimedOnceWithoutCrash
    BY DEF LInv, GrantIsRecorded, ClaimedOnceWithoutCrash
<1> QED BY LockInvariant, <1>1, PTL

\* While no process has died the holder keeps its lock: what HolderKeepsLock
\* states, which a crash and two waiters that judge the same file break.
THEOREM HolderKeepsLockWithoutCrash == Spec => [](crashes = 0 => HolderKeepsLock)
<1>1. LInv => (crashes = 0 => HolderKeepsLock)
    BY DEF LInv, Exclusive, HolderKeepsLock, AtPath, Inside
<1> QED BY LockInvariant, <1>1, PTL
=============================================================================
