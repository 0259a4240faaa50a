---------------------------- MODULE AppendOnlyLog ----------------------------
(***************************************************************************)
(* What the receipt log promises to a holder of its signed heads: one      *)
(* growing sequence of distinct entries, and heads that are prefixes of    *)
(* it.  The concrete log is ReceiptLog.                                    *)
(***************************************************************************)
EXTENDS Naturals, Sequences

CONSTANTS
    Entries,
    InitialLogs

VARIABLES
    log,
    signed      \* the heads signed so far: [size, root]

logVars == <<log, signed>>

LogInit == log \in InitialLogs /\ signed = {}

Contains(e) == \E i \in 1 .. Len(log) : log[i] = e

Extend(e) ==
    /\ ~Contains(e)
    /\ log' = Append(log, e)
    /\ UNCHANGED signed

Sign(n) ==
    /\ signed' = signed \cup {[size |-> n, root |-> SubSeq(log, 1, n)]}
    /\ UNCHANGED log

LogNext ==
    \/ \E e \in Entries : Extend(e)
    \/ \E n \in 1 .. Len(log) : Sign(n)

LogSpec == LogInit /\ [][LogNext]_logVars
=============================================================================
