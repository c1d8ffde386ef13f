----------------------------- MODULE ScanService -----------------------------
(***************************************************************************)
(* What the rescan machinery promises, with every mechanism left out: a    *)
(* request made by anybody (the initial scan, the watcher, the poller,     *)
(* POST /admin/rescan) is answered by a scan that starts after it.  No     *)
(* scan starts that nobody asked for, and any number of requests may be    *)
(* answered by one scan.  RescanTrigger implements this with a channel.    *)
(***************************************************************************)
EXTENDS Naturals

CONSTANT MaxVersion      \* bound on the number of library states, at least 1

VARIABLES
    version,     \* the state the library folder is in, counted
    requested,   \* the library state at the last accepted request
    startedAt,   \* the library state when the last scan started
    pending,     \* is a scan owed?
    open         \* is there a scanner at all?

vars == <<version, requested, startedAt, pending, open>>

Init ==
    /\ version = 1
    /\ requested = 0
    /\ startedAt = 0
    /\ open \in BOOLEAN
    /\ pending = open          \* a starting process owes the initial scan

Change ==
    /\ version < MaxVersion
    /\ version' = version + 1
    /\ UNCHANGED <<requested, startedAt, pending, open>>

Request ==
    /\ open
    /\ requested' = version
    /\ pending' = TRUE
    /\ UNCHANGED <<version, startedAt, open>>

Scan ==
    /\ open
    /\ pending
    /\ pending' = FALSE
    /\ startedAt' = version
    /\ UNCHANGED <<version, requested, open>>

\* The scanner dies; what was owed stays owed.
Close ==
    /\ open
    /\ open' = FALSE
    /\ UNCHANGED <<version, requested, startedAt, pending>>

\* The process is started again: the initial scan is owed.
Reopen ==
    /\ open' = TRUE
    /\ pending' = TRUE
    /\ UNCHANGED <<version, requested, startedAt>>

Next == Change \/ Request \/ Scan \/ Close \/ Reopen

Fairness == WF_vars(Scan)

SafeSpec == Init /\ [][Next]_vars
Spec == SafeSpec /\ Fairness
------------------------------------------------------------------------------
TypeOK ==
    /\ version \in 1..MaxVersion
    /\ requested \in 0..MaxVersion
    /\ startedAt \in 0..MaxVersion
    /\ pending \in BOOLEAN
    /\ open \in BOOLEAN

\* A request that no scan has started after is still owed.
NoLostRequest == (open /\ requested > startedAt) => pending
==============================================================================
