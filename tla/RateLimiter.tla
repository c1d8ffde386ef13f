----------------------------- MODULE RateLimiter -----------------------------
(***************************************************************************)
(* The limiter of failed logins (rate_limit.rs) under the middleware that  *)
(* consults it (auth.rs: require_basic).                                   *)
(*                                                                         *)
(* A request asks the limiter, verifies its credentials and reports the    *)
(* outcome in separate steps, and check() and record_failure() read the    *)
(* clock before they wait for the lock: requests interleave between these  *)
(* steps, and the table may be handled in an order that is not the order   *)
(* of the times used.  How far a time may lag behind is Lag.               *)
(***************************************************************************)
EXTENDS Integers, Sequences, FiniteSets

CONSTANTS
    Requests,      \* requests in flight at once (--max-concurrent-requests)
    Clients,       \* client addresses, as client_ip finds them
    Buckets,       \* what addresses are limited under
    BucketOf,      \* an IPv4 address itself, the /64 of an IPv6 address
    MaxAttempts,   \* --rate-limit-attempts, at least 1 (rate_limit.rs:63)
    Window,        \* --rate-limit-window
    Block,         \* --rate-limit-block
    Lag,           \* the longest wait for the lock
    MaxTime        \* bound: the clock

ASSUME RequestsAssumption ==
    /\ Requests # {} /\ IsFiniteSet(Requests)
    /\ Clients # {} /\ BucketOf \in [Clients -> Buckets]
ASSUME LimitsAssumption ==
    /\ MaxAttempts \in Nat \ {0}
    /\ Window \in Nat
    /\ Block \in Nat
    /\ MaxTime \in Nat
ASSUME LagAssumption == Lag \in Nat /\ 2 * Lag < Block /\ 2 * Lag <= Window

Times == 0..MaxTime
Never == -1          \* blocked_until: None

VARIABLES
    clock,      \* Instant::now()
    table,      \* the state of each bucket that has one
    req,        \* the requests: pc, client, now
    kept,       \* history: the table as it would be if gc dropped nothing
    log,        \* history: the last failures of each bucket since it was cleared
    late        \* history: logins verified while their bucket was blocked

vars == <<clock, table, req, kept, log, late>>

Idle == [pc |-> "idle", client |-> CHOOSE c \in Clients : TRUE, now |-> 0]

Init ==
    /\ clock = 0
    /\ table = <<>>
    /\ req = [r \in Requests |-> Idle]
    /\ kept = <<>>
    /\ log = [b \in Buckets |-> <<>>]
    /\ late = [b \in Buckets |-> 0]
------------------------------------------------------------------------------
(* The operations on one entry: [start, count, until, seen].               *)

Active(e, now) == e.until # Never /\ e.until > now

\* Instant::duration_since is zero when the other instant is later.
Since(now, t) == IF now > t THEN now - t ELSE 0

NewEntry(now) == [start |-> now, count |-> 0, until |-> Never, seen |-> now]

\* An expired block, or a window that is over, starts the count again.
Rolled(e, now) ==
    IF e.until # Never \/ Since(now, e.start) > Window
    THEN [e EXCEPT !.until = Never, !.start = now, !.count = 0]
    ELSE e

\* mutant: a failure during a block prolongs it
Prolonged(e, now) ==
    IF Active(e, now) THEN [e EXCEPT !.until = now + Block, !.seen = now]
    ELSE LET n == Rolled(e, now).count + 1
         IN  [Rolled(e, now) EXCEPT
                !.count = n, !.seen = now,
                !.until = IF n >= MaxAttempts THEN now + Block ELSE Never]

\* mutant: the window never rolls
Unrolled(e, now) ==
    IF Active(e, now) THEN [e EXCEPT !.seen = now]
    ELSE [e EXCEPT !.count = @ + 1, !.seen = now,
                   !.until = IF e.count + 1 >= MaxAttempts THEN now + Block ELSE Never]

\* record_failure_at on the entry of the bucket
AfterFailure(e, now) ==
    IF Active(e, now) THEN [e EXCEPT !.seen = now]
    ELSE LET n == Rolled(e, now).count + 1
         IN  [Rolled(e, now) EXCEPT
                !.count = n, !.seen = now,
                !.until = IF n >= MaxAttempts THEN now + Block ELSE Never]

\* mutant: gc forgets that an entry may be blocking
StaleOrBlocking(e, now) == Since(now, e.seen) >= Window

\* mutant: gc drops an entry as soon as its window is over
StaleAfterWindow(e, now) == ~Active(e, now) /\ Since(now, e.seen) >= Window

\* What gc drops: not blocking, and untouched for window + block.
Stale(e, now) == ~Active(e, now) /\ Since(now, e.seen) >= Window + Block

Collected(t, now) ==
    [b \in {d \in DOMAIN t : ~Stale(t[d], now)} |-> t[b]]

Without(t, b) == [d \in DOMAIN t \ {b} |-> t[d]]

EntryAt(t, b, now) == IF b \in DOMAIN t THEN t[b] ELSE NewEntry(now)

\* mutant: a block is over one instant early
BlockedEarly(t, b, now) == b \in DOMAIN t /\ Active(t[b], now + 1)

\* The verdict of check_at.
Blocked(t, b, now) == b \in DOMAIN t /\ Active(t[b], now)

Failed(t, b, now) ==
    [d \in DOMAIN t \cup {b} |->
        IF d = b THEN AfterFailure(EntryAt(t, b, now), now) ELSE t[d]]
------------------------------------------------------------------------------
(* Requests and the clock.                                                 *)

\* History only: is there a block, whatever check makes of it?
InBlock(b, now) == b \in DOMAIN table /\ Active(table[b], now)

BucketOfReq(r) == BucketOf[req[r].client]

\* No request waits for the lock longer than Lag.
Tick ==
    /\ clock < MaxTime
    /\ \A r \in Requests : req[r].pc \in {"check", "failed"} => clock < req[r].now + Lag
    /\ clock' = clock + 1
    /\ UNCHANGED <<table, req, kept, log, late>>

\* A request arrives; check() reads the clock.
Arrive(r, c) ==
    /\ req[r].pc = "idle"
    /\ req' = [req EXCEPT ![r] = [pc |-> "check", client |-> c, now |-> clock]]
    /\ UNCHANGED <<clock, table, kept, log, late>>

\* check_at: gc, then the verdict; a blocked request is answered with 429
\* and its credentials are not looked at.
Check(r) ==
    LET now == req[r].now
        b   == BucketOfReq(r)
        t   == Collected(table, now)
    IN  /\ req[r].pc = "check"
        /\ table' = t
        /\ req' = [req EXCEPT ![r] = IF Blocked(t, b, now) THEN Idle
                                     ELSE [@ EXCEPT !.pc = "verify", !.now = 0]]
        /\ UNCHANGED <<clock, kept, log, late>>

\* verify: on a failure record_failure() reads the clock next.
Verify(r) ==
    /\ req[r].pc = "verify"
    /\ \/ req' = [req EXCEPT ![r].pc = "succeeded"]
       \/ req' = [req EXCEPT ![r].pc = "failed", ![r].now = clock]
    /\ late' = [late EXCEPT ![BucketOfReq(r)] =
                   IF InBlock(BucketOfReq(r), clock) THEN @ + 1 ELSE @]
    /\ UNCHANGED <<clock, table, kept, log>>

\* record_success removes the entry.
RecordSuccess(r) ==
    LET b == BucketOfReq(r)
    IN  /\ req[r].pc = "succeeded"
        /\ table' = Without(table, b)
        /\ kept' = Without(kept, b)
        /\ log' = [log EXCEPT ![b] = <<>>]
        /\ late' = [late EXCEPT ![b] = 0]
        /\ req' = [req EXCEPT ![r] = Idle]
        /\ UNCHANGED clock

\* record_failure_at; the request is answered with 401.
RecordFailure(r) ==
    LET now == req[r].now
        b   == BucketOfReq(r)
    IN  /\ req[r].pc = "failed"
        /\ table' = Failed(table, b, now)
        /\ kept' = Failed(kept, b, now)
        /\ log' = [log EXCEPT ![b] =
                      IF InBlock(b, now) THEN @
                      ELSE LET all == Append(@, now)
                           IN  IF Len(all) > MaxAttempts THEN Tail(all) ELSE all]
        /\ late' = [late EXCEPT ![b] = IF InBlock(b, now) THEN @ ELSE 0]
        /\ req' = [req EXCEPT ![r] = Idle]
        /\ UNCHANGED clock

Next ==
    \/ Tick
    \/ \E r \in Requests :
          \/ \E c \in Clients : Arrive(r, c)
          \/ Check(r) \/ Verify(r) \/ RecordSuccess(r) \/ RecordFailure(r)

Spec == Init /\ [][Next]_vars
------------------------------------------------------------------------------
Entry == [start : Times, count : 1..MaxAttempts,
          until : {Never} \cup 0..(MaxTime + Block), seen : Times]

(* The type of every variable; a count never passes the threshold.          *)
TypeOK ==
    /\ clock \in Times
    /\ DOMAIN table \subseteq Buckets
    /\ \A b \in DOMAIN table : table[b] \in Entry
    /\ \A r \in Requests :
          /\ req[r].pc \in {"idle", "check", "verify", "succeeded", "failed"}
          /\ req[r].client \in Clients
          /\ req[r].now \in Times

(* A block is earned: it was set by the last of MaxAttempts failed logins   *)
(* from the bucket with no success among them, all within one window (give  *)
(* or take the wait for the lock), and lasts --rate-limit-block from then.  *)
BlockIsEarned ==
    \A b \in DOMAIN table :
        table[b].until # Never =>
            /\ Len(log[b]) = MaxAttempts
            /\ table[b].until = log[b][MaxAttempts] + Block
            /\ \A i, j \in DOMAIN log[b] : log[b][i] - log[b][j] <= Window + Lag

(* Once set, a block stays until it is over or a login that was already     *)
(* being verified succeeds: no failure, no check and no gc for another      *)
(* bucket lifts or moves it.                                                *)
BlockStays ==
    [][\A b \in Buckets :
          InBlock(b, clock) =>
             \/ b \in DOMAIN table' /\ table'[b].until = table[b].until
             \/ clock' >= table[b].until
             \/ log'[b] = <<>>]_vars

(* Dropping entries changes nothing: no verdict and no count that any       *)
(* request, however late, will see differs from those of a limiter that     *)
(* forgets nothing.  It needs a wait below half a block and half a window.  *)
GcIsInvisible ==
    \A b \in Buckets : \A now \in Times :
        (clock - Lag <= now /\ now <= clock) =>
            /\ Blocked(table, b, now) = Blocked(kept, b, now)
            /\ AfterFailure(EntryAt(table, b, now), now)
                 = AfterFailure(EntryAt(kept, b, now), now)

(* Asking and reporting are separate steps, so logins may still be verified *)
(* while a block is on; but only those already past the check when it was   *)
(* set, fewer than there are requests at once.                              *)
LateLoginsBounded ==
    \A b \in Buckets : late[b] < Cardinality(Requests)
==============================================================================
