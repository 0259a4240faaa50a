-------------------------- MODULE ChallengeStoreLock --------------------------
(***************************************************************************)
(* The lock of the durable x402 challenge store: withFileLock and          *)
(* reclaimDeadLock of services/gateway/src/x402-durable-store.js, and the  *)
(* read-change-write of DurableChallengeStore._load that runs under it,    *)
(* for the operation that must happen once: claim(nonce).                  *)
(*                                                                         *)
(* The lock is a file created exclusively that holds its owner's pid.  A   *)
(* waiter that finds a dead pid moves the file aside and tries again.  The *)
(* processes share the directory only, so each system call is a step.      *)
(*                                                                         *)
(* A file without a pid counts as stale when it is older than              *)
(* PIDLESS_LOCK_STALE_MS: long enough that its creator, if alive, has      *)
(* written its pid.                                                        *)
(***************************************************************************)
EXTENDS Naturals, FiniteSets

CONSTANTS
    Procs,       \* gateway processes on one store file
    Nonces,      \* challenges that were issued
    None,
    MaxCrashes   \* bound: crashes

NoPid == <<None, 0>>
Pids == (Procs \X Nat) \cup {NoPid}

\* The lock file: who created it, and the pid in it.
LockFiles == [by : Procs, pid : Pids]

ASSUME ChallengeStoreLockAssumption ==
    /\ IsFiniteSet(Procs)
    /\ None \notin Nonces
    /\ None \notin LockFiles
    /\ MaxCrashes \in Nat

VARIABLES
    lock,      \* the file at lockPath: [by, pid], who created it and the
               \* pid in it; None when there is no file
    pc,        \* where each process is in withFileLock
    pid,       \* process.pid, a pair <<process, incarnation>>
    mine,      \* whether the process has its lock file open
    seen,      \* the nonce the process wants to claim
    loaded,    \* the state it has read: the claimed nonces
    store,     \* the store file: the claimed nonces
    granted,   \* history: how often claim(nonce) answered ok, up to twice
    crashes

vars == <<lock, pc, pid, mine, seen, loaded, store, granted, crashes>>

Steps == {"down", "idle", "open", "stamp", "judge", "rename", "wait", "read", "write", "unlock"}

\* The lock file, the place of each process and the store.
TypeOK ==
    /\ lock \in {None} \cup LockFiles
    /\ pc \in [Procs -> Steps]
    /\ pid \in [Procs -> Pids]
    /\ mine \in [Procs -> BOOLEAN]
    /\ seen \in [Procs -> Nonces \cup {None}]
    /\ loaded \in [Procs -> SUBSET Nonces]
    /\ store \subseteq Nonces
    /\ granted \in [Nonces -> 0 .. 2]
    /\ crashes \in 0 .. MaxCrashes

Goto(p, step) == pc' = [pc EXCEPT ![p] = step]

Init ==
    /\ lock = None
    /\ pc = [p \in Procs |-> "idle"]
    /\ pid = [p \in Procs |-> <<p, 0>>]
    /\ mine = [p \in Procs |-> FALSE]
    /\ seen = [p \in Procs |-> None]
    /\ loaded = [p \in Procs |-> {}]
    /\ store = {}
    /\ granted = [n \in Nonces |-> 0]
    /\ crashes = 0

-----------------------------------------------------------------------------
\* A request asks the store to claim its nonce.
Start(p, n) ==
    /\ pc[p] = "idle"
    /\ seen' = [seen EXCEPT ![p] = n]
    /\ Goto(p, "open")
    /\ UNCHANGED <<lock, pid, mine, loaded, store, granted, crashes>>

\* openSync(lockPath, 'wx').
Open(p) ==
    /\ pc[p] = "open"
    /\ \/ /\ lock = None
          /\ lock' = [by |-> p, pid |-> NoPid]
          /\ mine' = [mine EXCEPT ![p] = TRUE]
          /\ Goto(p, "stamp")
       \/ /\ lock # None
          /\ Goto(p, "judge")
          /\ UNCHANGED <<lock, mine>>
    /\ UNCHANGED <<pid, seen, loaded, store, granted, crashes>>

\* The file p has open is the one at the lock path.
AtPath(p) == mine[p] /\ lock # None /\ lock.by = p

\* The pid goes to the file that was opened, wherever that file is now.
Stamp(p) ==
    /\ pc[p] = "stamp"
    /\ lock' = IF AtPath(p) THEN [lock EXCEPT !.pid = pid[p]] ELSE lock
    /\ Goto(p, "read")
    /\ UNCHANGED <<pid, mine, seen, loaded, store, granted, crashes>>

Alive(q) == \E p \in Procs : pc[p] # "down" /\ pid[p] = q

\* Mutant: a file without a pid is stale whatever its age.
StaleAtOnce(p) ==
    /\ lock # None
    /\ lock.pid = NoPid \/ lock.pid = pid[p] \/ ~Alive(lock.pid)

\* Mutant: a file without a pid is never stale.
StaleOnlyByPid(p) ==
    /\ lock # None
    /\ lock.pid # NoPid
    /\ lock.pid = pid[p] \/ ~Alive(lock.pid)

\* reclaimDeadLock's test.  A missing file is not stale.
Stale(p) ==
    /\ lock # None
    /\ IF lock.pid = NoPid
       THEN ~mine[lock.by]
       ELSE lock.pid = pid[p] \/ ~Alive(lock.pid)

Judge(p) ==
    /\ pc[p] = "judge"
    /\ Goto(p, IF Stale(p) THEN "rename" ELSE "wait")
    /\ UNCHANGED <<lock, pid, mine, seen, loaded, store, granted, crashes>>

\* renameSync moves whatever file is at the path by now; what it was is
\* looked at afterwards, and the answer is not used.
Rename(p) ==
    /\ pc[p] = "rename"
    /\ lock' = None
    /\ Goto(p, "wait")
    /\ UNCHANGED <<pid, mine, seen, loaded, store, granted, crashes>>

\* After lockWaitMs the operation fails (x402_unavailable).
Wait(p) ==
    /\ pc[p] = "wait"
    /\ \/ Goto(p, "open") /\ UNCHANGED seen
       \/ Goto(p, "idle") /\ seen' = [seen EXCEPT ![p] = None]
    /\ UNCHANGED <<lock, pid, mine, loaded, store, granted, crashes>>

\* readState.
Read(p) ==
    /\ pc[p] = "read"
    /\ loaded' = [loaded EXCEPT ![p] = store]
    /\ Goto(p, "write")
    /\ UNCHANGED <<lock, pid, mine, seen, store, granted, crashes>>

\* ChallengeStore.claim on the state read, and writeState.
Write(p) ==
    /\ pc[p] = "write"
    /\ store' = loaded[p] \cup {seen[p]}
    /\ granted' = IF seen[p] \in loaded[p] THEN granted
                  ELSE [granted EXCEPT ![seen[p]] = IF @ = 2 THEN 2 ELSE @ + 1]
    /\ loaded' = [loaded EXCEPT ![p] = {}]
    /\ Goto(p, "unlock")
    /\ UNCHANGED <<lock, pid, mine, seen, crashes>>

\* The lock path is unlinked, whatever file it names by now.
Unlock(p) ==
    /\ pc[p] = "unlock"
    /\ lock' = None
    /\ mine' = [mine EXCEPT ![p] = FALSE]
    /\ seen' = [seen EXCEPT ![p] = None]
    /\ Goto(p, "idle")
    /\ UNCHANGED <<pid, loaded, store, granted, crashes>>

-----------------------------------------------------------------------------
\* A process dies and leaves its lock file behind.
Crash(p) ==
    /\ pc[p] # "down"
    /\ crashes < MaxCrashes
    /\ crashes' = crashes + 1
    /\ mine' = [mine EXCEPT ![p] = FALSE]
    /\ seen' = [seen EXCEPT ![p] = None]
    /\ loaded' = [loaded EXCEPT ![p] = {}]
    /\ Goto(p, "down")
    /\ UNCHANGED <<lock, pid, store, granted>>

\* It comes back with a new pid, or with the old one (a container).
Restart(p) ==
    /\ pc[p] = "down"
    /\ pid' \in {pid, [pid EXCEPT ![p] = <<p, @[2] + 1>>]}
    /\ Goto(p, "idle")
    /\ UNCHANGED <<lock, mine, seen, loaded, store, granted, crashes>>

Proceed(p) ==
    \/ Open(p) \/ Stamp(p) \/ Judge(p) \/ Rename(p) \/ Wait(p)
    \/ Read(p) \/ Write(p) \/ Unlock(p)

Next ==
    \E p \in Procs :
        \/ \E n \in Nonces : Start(p, n)
        \/ Proceed(p)
        \/ Crash(p)
        \/ Restart(p)

Spec == Init /\ [][Next]_vars

-----------------------------------------------------------------------------
\* Compare-and-set: while no process has died, a challenge is claimed by one
\* request only, so that one payment is settled once.
ClaimedOnceWithoutCrash == crashes = 0 => \A n \in Nonces : granted[n] <= 1

\* "A live holder keeps the lock": nobody moves or unlinks the lock file of a
\* process that is inside its critical section.
HolderKeepsLock ==
    \A p \in Procs : pc[p] \in {"read", "write", "unlock"} => AtPath(p)

Orphaned == lock # None /\ ~mine[lock.by]

\* Requests keep coming, a stopped process is started again, and a process
\* that is up goes on.
FairSpec ==
    /\ Spec
    /\ \A p \in Procs :
          /\ WF_vars(Proceed(p)) /\ WF_vars(Restart(p))
          /\ WF_vars(\E n \in Nonces : Start(p, n))

\* A lock left behind is always removed: the store never stays unavailable.
OrphanIsReclaimed == Orphaned ~> ~Orphaned
=============================================================================
