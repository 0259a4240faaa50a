----------------------------- MODULE SpendService -----------------------------
(***************************************************************************)
(* The external hold / settle API over the spend-hold store:               *)
(* createSpendHoldService of services/gateway/src/spend-hold-api.js.       *)
(*                                                                         *)
(* The service has a lock of its own, held across the awaits of place and  *)
(* settle, and a file of its own (spend-hold-external.json).  The store    *)
(* below it is shared with the chat door, whose operations run between the *)
(* awaits; they touch the external holds only by sweeping them.            *)
(***************************************************************************)
EXTENDS SpendHold

CONSTANTS
    PersistMayFail,   \* the write of spend-hold-external.json may throw
    MaxSigned         \* bound on the receipts signed

ASSUME SpendServiceAssumption ==
    /\ PersistMayFail \in BOOLEAN
    /\ MaxSigned \in Nat

VARIABLES
    entries,     \* request ids with entry metadata
    receipts,    \* request id -> number of the stored JWS, 0 for none
    file,        \* spend-hold-external.json: [entries, receipts]
    job,         \* the route that holds the service lock, and where it waits
    signed,      \* JWS signed so far; each signature is a different JWS
    delivered,   \* request id -> JWS numbers that a 200 response carried
    metaUnread   \* history: some boot could not read spend-hold-external.json

serviceVars == <<entries, receipts, file, job, signed, delivered, metaUnread>>
allVars == <<vars, serviceVars>>

Idle == [op |-> "idle"]
Placing(r) == [op |-> "place", request |-> r]
Snapped(r, state) == [op |-> "settle", request |-> r, seen |-> state]
Counted(r) == [op |-> "sign", request |-> r]

Jobs ==
    {Idle}
    \cup {Placing(r) : r \in Requests}
    \cup {Snapped(r, state) : r \in Requests, state \in {"open", "consumed"}}
    \cup {Counted(r) : r \in Requests}

\* The service maps and its file hold request ids and JWS numbers.
ServiceTypeOK ==
    /\ TypeOK
    /\ entries \in SUBSET Requests
    /\ receipts \in [Requests -> Nat]
    /\ file \in [entries : SUBSET Requests, receipts : [Requests -> Nat]]
    /\ job \in Jobs
    /\ signed \in Nat
    /\ delivered \in [Requests -> SUBSET Nat]
    /\ metaUnread \in BOOLEAN

ServiceInit ==
    /\ Init
    /\ entries = {}
    /\ receipts = [r \in Requests |-> 0]
    /\ file = [entries |-> {}, receipts |-> receipts]
    /\ job = Idle
    /\ signed = 0
    /\ delivered = [r \in Requests |-> {}]
    /\ metaUnread = FALSE

\* persist(): the file becomes the maps, or the write throws and the maps
\* keep what was just set.
Persisted == file' = [entries |-> entries', receipts |-> receipts']
PersistFailed == PersistMayFail /\ UNCHANGED file

-----------------------------------------------------------------------------
\* POST /holds, up to the await of store.reserve.  A refused or unsaved
\* reservation ends the route; a new or a live hold goes on to its metadata.
Place(r, amount, leg) ==
    /\ job = Idle
    /\ Reserve(r, amount, {leg})
    /\ job' = IF Live(mem'[r]) THEN Placing(r) ELSE Idle
    /\ UNCHANGED <<entries, receipts, file, signed, delivered, metaUnread>>

\* The first placement of an id stores its entry; a later one keeps it.
PlaceEntry ==
    /\ up
    /\ job.op = "place"
    /\ entries' = entries \cup {job.request}
    /\ receipts' = receipts
    /\ \/ job.request \in entries /\ UNCHANGED file
       \/ job.request \notin entries /\ (Persisted \/ PersistFailed)
    /\ job' = Idle
    /\ UNCHANGED <<vars, signed, delivered, metaUnread>>

\* POST /holds/:id/release takes the lock for one store operation.
ReleaseHold(r) ==
    /\ job = Idle
    /\ Release(r)
    /\ UNCHANGED serviceVars

\* POST /holds/:id/settle with a stored receipt returns that receipt.
SettleCached(r) ==
    /\ up
    /\ job = Idle
    /\ receipts[r] # 0
    /\ delivered' = [delivered EXCEPT ![r] = @ \cup {receipts[r]}]
    /\ UNCHANGED <<vars, entries, receipts, file, job, signed, metaUnread>>

\* Otherwise it reads a snapshot of the store.  No open or consumed hold: 404.
SettleSnapshot(r) ==
    /\ job = Idle
    /\ receipts[r] = 0
    /\ Sweep
    /\ job' = IF Live(mem'[r]) THEN Snapped(r, mem'[r].state) ELSE Idle
    /\ UNCHANGED <<entries, receipts, file, signed, delivered, metaUnread>>

\* Mutant: a consume that threw or was refused does not end the route.
SettleConsumeUnchecked ==
    /\ job.op = "settle"
    /\ Consume(job.request, mem[job.request].reserved)
    /\ job' = Counted(job.request)
    /\ UNCHANGED <<entries, receipts, file, signed, delivered, metaUnread>>

\* A hold seen open is consumed at what it reserved before anything is
\* signed.  It may have expired since the snapshot (409), and the save may
\* throw (500); the route ends in both cases.
SettleConsume ==
    /\ job.op = "settle"
    /\ LET r == job.request IN
       \/ /\ job.seen = "open"
          /\ Consume(r, mem[r].reserved)
          /\ job' = IF mem'[r].state = "consumed" THEN Counted(r) ELSE Idle
       \/ /\ job.seen = "consumed"
          /\ up
          /\ job' = Counted(r)
          /\ UNCHANGED vars
    /\ UNCHANGED <<entries, receipts, file, signed, delivered, metaUnread>>

\* issueReceipt: a bad body or a refused signature ends the route.
SettleRefused ==
    /\ up
    /\ job.op = "sign"
    /\ job' = Idle
    /\ UNCHANGED <<vars, entries, receipts, file, signed, delivered, metaUnread>>

\* issueReceipt: sign, store, persist.  The receipt is returned only when the
\* write did not throw, but it stays in the map either way.
SettleSign ==
    /\ up
    /\ job.op = "sign"
    /\ signed < MaxSigned
    /\ signed' = signed + 1
    /\ receipts' = [receipts EXCEPT ![job.request] = signed']
    /\ entries' = entries
    /\ \/ /\ Persisted
          /\ delivered' = [delivered EXCEPT ![job.request] = @ \cup {signed'}]
       \/ /\ PersistFailed
          /\ UNCHANGED delivered
    /\ job' = Idle
    /\ UNCHANGED <<vars, metaUnread>>

-----------------------------------------------------------------------------
\* Chat traffic sweeps the store; the clock ticks.
ChatSweep == Sweep /\ UNCHANGED serviceVars

ServiceTick == Tick /\ UNCHANGED serviceVars

ServiceCrash ==
    /\ Crash
    /\ entries' = {}
    /\ receipts' = [r \in Requests |-> 0]
    /\ job' = Idle
    /\ UNCHANGED <<file, signed, delivered, metaUnread>>

\* Mutant: the load drops the stored receipts.
LoadMetaWithoutReceipts ==
    /\ entries' = file.entries
    /\ receipts' = [r \in Requests |-> 0]
    /\ UNCHANGED metaUnread

\* The constructor reads the service's file.
LoadMeta ==
    /\ entries' = file.entries
    /\ receipts' = file.receipts
    /\ UNCHANGED metaUnread

\* The file cannot be read or parsed: a warning, and empty maps.
LoadMetaUnread ==
    /\ entries' = {}
    /\ receipts' = [r \in Requests |-> 0]
    /\ metaUnread' = TRUE

\* Each of the two files is read, or is not, on its own.
ServiceRestart ==
    /\ Restart \/ RestartUnread
    /\ LoadMeta \/ LoadMetaUnread
    /\ UNCHANGED <<file, job, signed, delivered>>

ServiceNext ==
    \/ \E r \in Requests, amount \in Amounts, leg \in Legs : Place(r, amount, leg)
    \/ PlaceEntry
    \/ \E r \in Requests : ReleaseHold(r)
    \/ \E r \in Requests : SettleCached(r)
    \/ \E r \in Requests : SettleSnapshot(r)
    \/ SettleConsume
    \/ SettleRefused
    \/ SettleSign
    \/ ChatSweep
    \/ ServiceTick
    \/ ServiceCrash
    \/ ServiceRestart

ServiceSpec == ServiceInit /\ [][ServiceNext]_allVars

-----------------------------------------------------------------------------
\* Every receipt is counted: a request id with a receipt, in memory or in the
\* service's file, has a consumed hold in the store's file, so a later reserve
\* cannot pass the lifetime cap ("Count the spend before signing"), as long as every
\* boot can read the store's file.
ReceiptIsCounted ==
    ~unread => \A r \in Requests :
        receipts[r] # 0 \/ file.receipts[r] # 0 => disk[r].state = "consumed"

\* A saved receipt is final: once a JWS is in the service's file it stays
\* there, and every later settle response of that request id carries it,
\* across retries, failed writes, crashes and restarts, as long as every boot can
\* read the service's file.
SavedReceiptIsFinal ==
    [][~metaUnread' => \A r \in Requests : file.receipts[r] # 0 =>
          /\ file'.receipts[r] = file.receipts[r]
          /\ delivered'[r] \subseteq delivered[r] \cup {file.receipts[r]}]_allVars
=============================================================================
