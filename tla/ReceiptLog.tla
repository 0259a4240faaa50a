------------------------------ MODULE ReceiptLog ------------------------------
(***************************************************************************)
(* The durable receipt log: class ReceiptMerkleTree of                     *)
(* services/gateway/src/receipt-merkle.js over receipt-log-store.js and    *)
(* receipt-log-lock.js.                                                    *)
(*                                                                         *)
(* A receipt is a leaf.  Its journal line is written and fsynced before    *)
(* the tree in memory grows; a checkpoint follows.  A publish takes the    *)
(* root and the size, awaits its anchors and the signature, and then puts  *)
(* the head into memory and into the journal.  Appends are not behind the  *)
(* publish chain: they run inside its awaits.  One process at a time may   *)
(* write: it holds a flock, and compares the inode of the locked file with *)
(* the lock path before and after each line.  A boot replays the journal.  *)
(*                                                                         *)
(* Within a process a write is synchronous; between processes (and with    *)
(* whoever deletes the lock file) its system calls interleave, so each is  *)
(* a step.  The root of a tree is the sequence of its leaves: the hash is  *)
(* ideal.  There is one open epoch; a head of an unchanged root that is    *)
(* signed again on a later day is the same head.                           *)
(***************************************************************************)
EXTENDS Naturals, Sequences, FiniteSets

CONSTANTS
    Procs,            \* gateway processes on one log directory
    Tasks,            \* task ids, the genesis leaf's included
    InitialJournals,  \* the journals a first boot may find
    FaultPlans,       \* sets of "unlink", "torn", "failed": one holds in a run
    None,
    MaxInode,         \* bound: lock files ever created
    MaxJournal,       \* bound: lines of the journal
    MaxCrashes        \* bound: crashes

VARIABLES
    journal,      \* journal.jsonl
    checkpoint,   \* checkpoint.json: [size, root]
    lockFile,     \* the inode at the lock path, 0 for none
    inodes,       \* inodes handed out so far
    pc,           \* each process: "down", "locked" (booting) or "up"
    inode,        \* the inode each process has locked, 0 for none
    leaves,       \* this.leaves
    heads,        \* this.heads
    quarantined,  \* this.quarantinedHeads
    write,        \* the journal write in progress
    pub,          \* the head being published: what was taken before the awaits
    issued,       \* history: every head signed
    underLock,    \* history: a process loaded the log while it held the lock
    receipted,    \* history: [task, index] of each inclusion such a process handed out
    stray,        \* history: lines each process wrote after losing the lock
    crashes,
    faults        \* the fault plan of this run

diskVars == <<journal, checkpoint>>
lockVars == <<lockFile, inodes, inode>>
treeVars == <<leaves, heads, quarantined>>
history == <<issued, receipted, underLock, stray, crashes>>
logVars == <<diskVars, lockVars, pc, treeVars, write, pub, history>>
vars == <<logVars, faults>>

Leaf(index, task) == [op |-> "leaf", index |-> index, task |-> task]
TreeHead(size, root) == [op |-> "head", size |-> size, root |-> root]
Torn == [op |-> "torn"]      \* a line that does not parse
Queued == [op |-> "queued"]  \* a publish that waits in the chain

Roots == Seq(Tasks)
Heads == [op : {"head"}, size : Nat, root : Roots]
Records == [op : {"leaf"}, index : Nat, task : Tasks] \cup Heads \cup {Torn}

ASSUME ReceiptLogAssumption ==
    /\ IsFiniteSet(Procs)
    /\ None \notin Tasks \cup Heads \cup {Queued}
    /\ InitialJournals \subseteq Seq(Records)
    /\ FaultPlans \subseteq SUBSET {"unlink", "torn", "failed"}
    /\ {MaxInode, MaxJournal, MaxCrashes} \subseteq Nat

NoWrite == [stage |-> "idle"]
Writing(stage, rec) == [stage |-> stage, rec |-> rec]
Stages == {"checked", "written", "pushed", "snapshot"}

\* The files, the lock and the tree of each process.
TypeOK ==
    /\ journal \in Seq(Records)
    /\ checkpoint \in [size : Nat, root : Roots]
    /\ lockFile \in 0 .. inodes /\ inodes \in Nat
    /\ pc \in [Procs -> {"down", "locked", "up"}]
    /\ inode \in [Procs -> 0 .. inodes]
    /\ leaves \in [Procs -> Roots]
    /\ heads \in [Procs -> SUBSET Heads]
    /\ quarantined \in [Procs -> SUBSET Heads]
    /\ write \in [Procs -> {NoWrite} \cup [stage : Stages, rec : Records]]
    /\ pub \in [Procs -> {None, Queued} \cup Heads]
    /\ issued \in SUBSET Heads
    /\ underLock \in [Procs -> BOOLEAN]
    /\ receipted \in SUBSET [task : Tasks, index : Nat]
    /\ stray \in [Procs -> Nat]
    /\ crashes \in Nat /\ faults \in FaultPlans

Prefix(s, n) == SubSeq(s, 1, n)

-----------------------------------------------------------------------------
\* Replay of a journal (readReceiptLog)

IsLeaf(r) == r.op = "leaf"

\* The leaves among the first n lines.
LeafCount(j, n) == Cardinality({i \in 1 .. n : IsLeaf(j[i])})

\* The line of the k-th leaf.
LeafLine(j, k) == CHOOSE i \in 1 .. Len(j) : IsLeaf(j[i]) /\ LeafCount(j, i) = k

\* The leaves a replay pushes, in order.
LeavesOf(j) == [k \in 1 .. LeafCount(j, Len(j)) |-> j[LeafLine(j, k)].task]

HeadLines(j) == {i \in 1 .. Len(j) : j[i].op = "head"}

\* What the bucket holds when line i is read.
Before(j, i) == LeavesOf(Prefix(j, i - 1))

\* classifyStoredHead: the root is the prefix of its size, or it is the root
\* of a smaller prefix (a raced head), or the boot is refused.
TrueHead(h, known) == h.size <= Len(known) /\ h.root = Prefix(known, h.size)

RacedHead(h, known) ==
    /\ h.size <= Len(known)
    /\ ~TrueHead(h, known)
    /\ \E k \in 1 .. h.size - 1 : h.root = Prefix(known, k)

\* Mutant: every stored head is served, raced ones included.
StoredHeadsUnsorted(j) == {j[i] : i \in HeadLines(j)}

StoredHeads(j) == {j[i] : i \in {n \in HeadLines(j) : TrueHead(j[n], Before(j, n))}}
RacedHeads(j) == {j[i] : i \in {n \in HeadLines(j) : RacedHead(j[n], Before(j, n))}}

\* Every line parses, and every leaf has the next free index.
InOrder(j) ==
    \A i \in 1 .. Len(j) :
        j[i] # Torn /\ (IsLeaf(j[i]) => j[i].index = LeafCount(j, i) - 1)

Replays(j, cp) ==
    /\ InOrder(j)
    /\ \A i \in HeadLines(j) : TrueHead(j[i], Before(j, i)) \/ RacedHead(j[i], Before(j, i))
    /\ cp.size <= Len(LeavesOf(j))
    /\ cp.size = Len(LeavesOf(j)) => cp.root = LeavesOf(j)

NoCheckpoint == [size |-> 0, root |-> <<>>]

\* A log is started with its genesis leaf, and a first boot accepts it.
ASSUME FirstBootAssumption ==
    \A j \in InitialJournals : LeavesOf(j) # <<>> /\ Replays(j, NoCheckpoint)

-----------------------------------------------------------------------------
Init ==
    /\ journal \in InitialJournals
    /\ checkpoint = NoCheckpoint
    /\ lockFile = 0 /\ inodes = 0
    /\ pc = [p \in Procs |-> "down"]
    /\ inode = [p \in Procs |-> 0]
    /\ leaves = [p \in Procs |-> <<>>]
    /\ heads = [p \in Procs |-> {}]
    /\ quarantined = [p \in Procs |-> {}]
    /\ write = [p \in Procs |-> NoWrite]
    /\ pub = [p \in Procs |-> None]
    /\ issued = {} /\ receipted = {}
    /\ underLock = [p \in Procs |-> FALSE]
    /\ stray = [p \in Procs |-> 0]
    /\ crashes = 0 /\ faults \in FaultPlans

-----------------------------------------------------------------------------
\* The lock

\* verifyReceiptLogLock: the locked file is still the file at the lock path.
LockKept(p) == inode[p] # 0 /\ inode[p] = lockFile

\* Mutant: the boot does not ask for an exclusive lock.
BootLockShared(p) ==
    /\ pc[p] = "down"
    /\ inodes' = IF lockFile = 0 THEN inodes + 1 ELSE inodes
    /\ inodes' <= MaxInode
    /\ lockFile' = IF lockFile = 0 THEN inodes' ELSE lockFile
    /\ inode' = [inode EXCEPT ![p] = lockFile']
    /\ pc' = [pc EXCEPT ![p] = "locked"]
    /\ UNCHANGED <<diskVars, treeVars, write, pub, history>>

\* acquireReceiptLogLock.  A file locked by a living process refuses the
\* boot (log_locked); a missing one is created.
BootLock(p) ==
    /\ pc[p] = "down"
    /\ \A q \in Procs : lockFile # 0 => inode[q] # lockFile
    /\ inodes' = IF lockFile = 0 THEN inodes + 1 ELSE inodes
    /\ inodes' <= MaxInode
    /\ lockFile' = IF lockFile = 0 THEN inodes' ELSE lockFile
    /\ inode' = [inode EXCEPT ![p] = lockFile']
    /\ pc' = [pc EXCEPT ![p] = "locked"]
    /\ UNCHANGED <<diskVars, treeVars, write, pub, history>>

\* Someone deletes or renames the lock file.
UnlinkLock ==
    /\ "unlink" \in faults
    /\ lockFile # 0
    /\ lockFile' = 0
    /\ UNCHANGED <<diskVars, inodes, inode, pc, treeVars, write, pub, history>>

\* bootReceiptLog and _applyLoaded.
BootLoad(p) ==
    /\ pc[p] = "locked"
    /\ Replays(journal, checkpoint)
    /\ pc' = [pc EXCEPT ![p] = "up"]
    /\ leaves' = [leaves EXCEPT ![p] = LeavesOf(journal)]
    /\ heads' = [heads EXCEPT ![p] = StoredHeads(journal)]
    /\ quarantined' = [quarantined EXCEPT ![p] = RacedHeads(journal)]
    /\ stray' = [stray EXCEPT ![p] = 0]
    /\ underLock' = [underLock EXCEPT ![p] = LockKept(p)]
    /\ UNCHANGED <<diskVars, lockVars, write, pub, issued, receipted, crashes>>

\* ReceiptLogRefused ends the process.
BootRefused(p) ==
    /\ pc[p] = "locked"
    /\ ~Replays(journal, checkpoint)
    /\ crashes < MaxCrashes
    /\ crashes' = crashes + 1
    /\ pc' = [pc EXCEPT ![p] = "down"]
    /\ inode' = [inode EXCEPT ![p] = 0]
    /\ UNCHANGED <<diskVars, lockFile, inodes, treeVars, write, pub, issued, receipted, underLock, stray>>

\* The kernel drops the lock with the process.  Power lost during a write
\* may leave a part of its line.
Crash(p) ==
    /\ pc[p] # "down"
    /\ crashes < MaxCrashes
    /\ crashes' = crashes + 1
    /\ \/ UNCHANGED journal
       \/ /\ "torn" \in faults
          /\ write[p].stage = "checked"
          /\ journal' = Append(journal, Torn)
    /\ pc' = [pc EXCEPT ![p] = "down"]
    /\ inode' = [inode EXCEPT ![p] = 0]
    /\ leaves' = [leaves EXCEPT ![p] = <<>>]
    /\ heads' = [heads EXCEPT ![p] = {}]
    /\ quarantined' = [quarantined EXCEPT ![p] = {}]
    /\ write' = [write EXCEPT ![p] = NoWrite]
    /\ pub' = [pub EXCEPT ![p] = None]
    /\ underLock' = [underLock EXCEPT ![p] = FALSE]
    /\ UNCHANGED <<checkpoint, lockFile, inodes, issued, receipted, stray>>

-----------------------------------------------------------------------------
\* A journal write (_journal, _push, _writeSnapshot)

\* No synchronous section of the process is running.
Running(p) == pc[p] = "up" /\ write[p] = NoWrite

Stage(p, stage) == write' = [write EXCEPT ![p] = Writing(stage, write[p].rec)]

Abandon(p) == write' = [write EXCEPT ![p] = NoWrite]

InTree(p, t) == \E i \in 1 .. Len(leaves[p]) : leaves[p][i] = t

Inclusion(t, index) == [task |-> t, index |-> index]

IndexOf(p, t) == CHOOSE i \in 1 .. Len(leaves[p]) : leaves[p][i] = t

\* Mutant: the early return for a missing task id is gone.
AppendStartAnyTask(p, t) ==
    /\ Running(p)
    /\ ~InTree(p, t)
    /\ LockKept(p)
    /\ write' = [write EXCEPT ![p] = Writing("checked", Leaf(Len(leaves[p]), t))]
    /\ UNCHANGED <<diskVars, lockVars, pc, treeVars, pub, history>>

\* Mutant: the lock is not looked at before a write.
AppendStartUnchecked(p, t) ==
    /\ Running(p)
    /\ t # None
    /\ ~InTree(p, t)
    /\ write' = [write EXCEPT ![p] = Writing("checked", Leaf(Len(leaves[p]), t))]
    /\ UNCHANGED <<diskVars, lockVars, pc, treeVars, pub, history>>

\* Mutant: the checkpoint is replaced before the journal line is written.
AppendStartCheckpointFirst(p, t) ==
    /\ Running(p)
    /\ t # None
    /\ ~InTree(p, t)
    /\ LockKept(p)
    /\ checkpoint' = [size |-> Len(leaves[p]) + 1, root |-> Append(leaves[p], t)]
    /\ write' = [write EXCEPT ![p] = Writing("checked", Leaf(Len(leaves[p]), t))]
    /\ UNCHANGED <<journal, lockVars, pc, treeVars, pub, history>>

\* appendReceipt up to _assertWriter.  A lost lock refuses the write.
AppendStart(p, t) ==
    /\ Running(p)
    /\ t # None
    /\ ~InTree(p, t)
    /\ LockKept(p)
    /\ write' = [write EXCEPT ![p] = Writing("checked", Leaf(Len(leaves[p]), t))]
    /\ UNCHANGED <<diskVars, lockVars, pc, treeVars, pub, history>>

\* appendReceipt of a task that is in the tree returns its inclusion, lock or
\* no lock.
AppendKnown(p, t) ==
    /\ Running(p)
    /\ InTree(p, t)
    /\ receipted' = IF underLock[p]
                    THEN receipted \cup {Inclusion(t, IndexOf(p, t) - 1)} ELSE receipted
    /\ UNCHANGED <<diskVars, lockVars, pc, treeVars, write, pub, issued, underLock, stray, crashes>>

\* appendJournal: the line is written and fsynced.
JournalWrite(p) ==
    /\ write[p].stage = "checked"
    /\ Len(journal) < MaxJournal
    /\ journal' = Append(journal, write[p].rec)
    /\ stray' = [stray EXCEPT ![p] = @ + IF LockKept(p) THEN 0 ELSE 1]
    /\ Stage(p, "written")
    /\ UNCHANGED <<checkpoint, lockVars, pc, treeVars, pub, issued, receipted, underLock, crashes>>

\* appendJournal throws: nothing, a part or all of the line is in the file.
\* The process goes on without the record.
JournalFails(p) ==
    /\ "failed" \in faults
    /\ write[p].stage = "checked"
    /\ Len(journal) < MaxJournal
    /\ \/ UNCHANGED journal
       \/ journal' = Append(journal, Torn)
       \/ journal' = Append(journal, write[p].rec)
    /\ Abandon(p)
    /\ UNCHANGED <<checkpoint, lockVars, pc, treeVars, pub, history>>

\* Mutant: the lock is not looked at after a write.
PushUnchecked(p) ==
    /\ write[p].stage = "written"
    /\ leaves' = IF IsLeaf(write[p].rec)
                 THEN [leaves EXCEPT ![p] = Append(@, write[p].rec.task)] ELSE leaves
    /\ Stage(p, "pushed")
    /\ UNCHANGED <<diskVars, lockVars, pc, heads, quarantined, pub, history>>

\* _assertLockKeptAfterWrite.  Only then does the tree grow; otherwise the
\* writer stops.
Push(p) ==
    /\ write[p].stage = "written"
    /\ \/ /\ LockKept(p)
          /\ leaves' = IF IsLeaf(write[p].rec)
                       THEN [leaves EXCEPT ![p] = Append(@, write[p].rec.task)] ELSE leaves
          /\ Stage(p, "pushed")
       \/ /\ ~LockKept(p)
          /\ Abandon(p)
          /\ UNCHANGED leaves
    /\ UNCHANGED <<diskVars, lockVars, pc, heads, quarantined, pub, history>>

\* _writeSnapshot checks the lock, then replaces the checkpoint.
SnapshotCheck(p) ==
    /\ write[p].stage = "pushed"
    /\ IF LockKept(p) THEN Stage(p, "snapshot") ELSE Abandon(p)
    /\ UNCHANGED <<diskVars, lockVars, pc, treeVars, pub, history>>

Snapshot(p) ==
    /\ write[p].stage = "snapshot"
    /\ checkpoint' = [size |-> Len(leaves[p]), root |-> leaves[p]]
    /\ receipted' =
          IF IsLeaf(write[p].rec)
          THEN receipted \cup {Inclusion(write[p].rec.task, write[p].rec.index)}
          ELSE receipted
    /\ Abandon(p)
    /\ UNCHANGED <<journal, lockVars, pc, treeVars, pub, issued, underLock, stray, crashes>>

\* The checkpoint, or the anchor state after it, cannot be written: the leaf
\* stays, the call throws.
SnapshotFails(p) ==
    /\ "failed" \in faults
    /\ write[p].stage = "snapshot"
    /\ \/ UNCHANGED checkpoint
       \/ checkpoint' = [size |-> Len(leaves[p]), root |-> leaves[p]]
    /\ Abandon(p)
    /\ UNCHANGED <<journal, lockVars, pc, treeVars, pub, history>>

-----------------------------------------------------------------------------
\* Publishing (publishHead, _publishHeadUnlocked, _persistHead)

\* Mutant: the last leaf is taken to be covered.
UncoveredButOne(p) == \A h \in heads[p] : h.size + 1 < Len(leaves[p])

\* tailAnchorStatus: some leaf is past the largest head.
Uncovered(p) == \A h \in heads[p] : h.size < Len(leaves[p])

\* tickAnchors and publishHead: the lock is checked and the publish joins
\* the chain.
PublishCall(p) ==
    /\ Running(p)
    /\ pub[p] = None
    /\ LockKept(p)
    /\ Uncovered(p)
    /\ pub' = [pub EXCEPT ![p] = Queued]
    /\ UNCHANGED <<diskVars, lockVars, pc, treeVars, write, history>>

\* Root and size are taken together, before the first await.
PublishStart(p) ==
    /\ Running(p)
    /\ pub[p] = Queued
    /\ pub' = [pub EXCEPT ![p] = TreeHead(Len(leaves[p]), leaves[p])]
    /\ UNCHANGED <<diskVars, lockVars, pc, treeVars, write, history>>

\* Mutant: the size is read again after the awaits.
PublishSignRaced(p) ==
    /\ Running(p)
    /\ pub[p] \notin {None, Queued}
    /\ LET head == TreeHead(Len(leaves[p]), pub[p].root)
       IN  /\ issued' = issued \cup {head}
           /\ heads' = [heads EXCEPT ![p] = @ \cup {head}]
           /\ write' = IF LockKept(p)
                       THEN [write EXCEPT ![p] = Writing("checked", head)] ELSE write
    /\ pub' = [pub EXCEPT ![p] = None]
    /\ UNCHANGED <<diskVars, lockVars, pc, leaves, quarantined, receipted, underLock, stray, crashes>>

\* After the awaits: the head is signed and put into memory; then it is
\* journalled, unless the lock is lost.
PublishSign(p) ==
    /\ Running(p)
    /\ pub[p] \notin {None, Queued}
    /\ issued' = issued \cup {pub[p]}
    /\ heads' = [heads EXCEPT ![p] = @ \cup {pub[p]}]
    /\ write' = IF LockKept(p)
                THEN [write EXCEPT ![p] = Writing("checked", pub[p])] ELSE write
    /\ pub' = [pub EXCEPT ![p] = None]
    /\ UNCHANGED <<diskVars, lockVars, pc, leaves, quarantined, receipted, underLock, stray, crashes>>

\* An anchor call or the signature throws: the chain goes on without a head.
PublishFails(p) ==
    /\ Running(p)
    /\ pub[p] \notin {None, Queued}
    /\ crashes < MaxCrashes
    /\ crashes' = crashes + 1
    /\ pub' = [pub EXCEPT ![p] = None]
    /\ UNCHANGED <<diskVars, lockVars, pc, treeVars, write, issued, receipted, underLock, stray>>

-----------------------------------------------------------------------------
Writes(p) == JournalWrite(p) \/ Push(p) \/ SnapshotCheck(p) \/ Snapshot(p)

Step ==
    \/ UnlinkLock
    \/ \E p \in Procs :
          \/ BootLock(p)
          \/ BootLoad(p)
          \/ BootRefused(p)
          \/ Crash(p)
          \/ \E t \in Tasks \cup {None} : AppendStart(p, t) \/ AppendKnown(p, t)
          \/ Writes(p)
          \/ JournalFails(p)
          \/ SnapshotFails(p)
          \/ PublishCall(p)
          \/ PublishStart(p)
          \/ PublishSign(p)
          \/ PublishFails(p)

Next == Step /\ UNCHANGED faults

Spec == Init /\ [][Next]_vars

-----------------------------------------------------------------------------
\* No split view: any two heads the log ever signed agree, the smaller being
\* the prefix of the larger, whatever appends ran inside the awaits of a
\* publish, whatever crashed, and whoever took the directory over.
HeadsAgree ==
    \A a, b \in issued : a.size <= b.size => TrueHead(a, b.root)

\* What a process serves is true of its own tree: a head in memory, loaded
\* from the journal or just signed, is the root of that many leaves.  A raced
\* head an earlier version left in the journal is never among them.
ServedHeadsTrue ==
    \A p \in Procs : pc[p] = "up" => \A h \in heads[p] : TrueHead(h, leaves[p])

HasLeaf(s, r) == r.index < Len(s) /\ s[r.index + 1] = r.task

\* Receipts are kept: whoever holds the lock has every leaf for which any
\* process that loaded the log under its lock ever handed out an inclusion,
\* at the index it named, whether or not that process still held the lock.
ReceiptsKept ==
    \A p \in Procs : pc[p] = "up" /\ LockKept(p) =>
        \A r \in receipted : HasLeaf(leaves[p], r)

\* A writer whose lock file was replaced stops: at most one of its lines can
\* land behind the new writer's back.
AtMostOneStray == \A p \in Procs : stray[p] <= 1

\* Whatever instant a process dies at, the next boot accepts the files.
JournalReplays == Replays(journal, checkpoint)

\* Without a disk fault and with its lock file left alone, the log is one
\* append-only sequence, and what is signed are prefixes of it: the journal's
\* leaves are the sequence, the heads signed are the abstract heads.
Abstract == INSTANCE AppendOnlyLog WITH
    Entries <- Tasks,
    InitialLogs <- {LeavesOf(j) : j \in InitialJournals},
    log <- LeavesOf(journal),
    signed <- {[size |-> h.size, root |-> h.root] : h \in issued}

IsAppendOnlyLog == Abstract!LogSpec

-----------------------------------------------------------------------------
\* A process that is up keeps running; a stopped one is started again.
FairSpec ==
    /\ Spec
    /\ \A p \in Procs :
          /\ WF_logVars(BootLock(p)) /\ WF_logVars(BootLoad(p))
          /\ WF_logVars(Writes(p))
          /\ WF_logVars(PublishCall(p)) /\ WF_logVars(PublishStart(p)) /\ WF_logVars(PublishSign(p))

\* The tail is published: every leaf a receipt was handed out for is covered
\* by a signed head in the end (tickAnchors).
TailIsPublished ==
    \A t \in Tasks :
        (\E r \in receipted : r.task = t)
            ~> (\E h \in issued \cup UNION {heads[p] : p \in Procs} :
                   \E i \in 1 .. Len(h.root) : h.root[i] = t)
=============================================================================
