--------------------------- MODULE RateLimiterProofs ---------------------------
(***************************************************************************)
(* What TLAPS proves of RateLimiter, for any number of requests, addresses *)
(* and buckets and every setting of the limits: all that its run checks.   *)
(***************************************************************************)
EXTENDS RateLimiter, FiniteSetTheorems, TLAPS

States == {"idle", "check", "verify", "succeeded", "failed"}

\* An entry that nobody handled later than time, and by a clock that lags at
\* most Lag: the times in it are near one another.
EntryOK(e, time) ==
  /\ e \in [start : Times, count : 0..MaxAttempts,
            until : {Never} \cup 0..(MaxTime + Block), seen : Times]
  /\ e.start <= time
  /\ e.start <= e.seen + Lag
  /\ e.until # Never => e.until <= e.seen + Block + Lag /\ e.until <= time + Block
  /\ e.count = MaxAttempts <=> e.until # Never

\* No request that is still to come will find a block, or an open window.
Gone(e, time) ==
  IF e.until # Never THEN e.until + Lag <= time ELSE e.start + Window + Lag < time

\* The failures that e counts are the last ones in the log, within one window,
\* and a block was set by the last of them.
Fits(e, failures) ==
  /\ e.count <= Len(failures)
  /\ \A j \in 0..(e.count - 1) :
        LET t == failures[Len(failures) - j]
        IN  e.start <= t + Lag /\ t <= e.start + Window
  /\ e.until # Never => e.until = failures[Len(failures)] + Block

\* A request that waits for the lock has a time that is not far behind.
ReqInv ==
  /\ clock \in Times
  /\ req \in [Requests -> [pc : States, client : Clients, now : Times]]
  /\ \A r \in Requests :
        req[r].pc \in {"check", "failed"} => req[r].now <= clock /\ clock <= req[r].now + Lag

TableInv ==
  /\ DOMAIN kept \subseteq Buckets
  /\ DOMAIN table \subseteq DOMAIN kept
  /\ \A b \in DOMAIN kept : EntryOK(kept[b], clock) /\ kept[b].count >= 1
  /\ \A b \in DOMAIN table : table[b] = kept[b]
  /\ \A b \in DOMAIN kept \ DOMAIN table : Gone(kept[b], clock)

LogInv ==
  /\ log \in [Buckets -> Seq(Times)]
  /\ \A b \in Buckets : Len(log[b]) <= MaxAttempts
  /\ \A b \in DOMAIN table : Fits(table[b], log[b])

Inv == ReqInv /\ TableInv /\ LogInv
------------------------------------------------------------------------------
(* The operations on one entry.                                             *)

USE DEF Times, Never

\* A new entry counts nothing and blocks nobody.
LEMMA NewEntryOK ==
  ASSUME NEW now \in Times, NEW time \in Times, now <= time
  PROVE  EntryOK(NewEntry(now), time)
  BY LimitsAssumption, LagAssumption DEF NewEntry, EntryOK

\* A failure, by a clock that lags at most Lag, leaves a sound entry.
LEMMA FailureOK ==
  ASSUME NEW time \in Times, NEW now \in Times, now <= time, time <= now + Lag,
         NEW e, EntryOK(e, time)
  PROVE  LET f == AfterFailure(e, now)
         IN  EntryOK(f, time) /\ f.count >= 1
<1> USE LimitsAssumption, LagAssumption
<1> DEFINE f == AfterFailure(e, now)
<1>1. CASE Active(e, now)
  <2>1. f = [e EXCEPT !.seen = now]
    BY <1>1 DEF AfterFailure
  <2> QED BY <1>1, <2>1 DEF EntryOK, Active
<1>2. CASE ~Active(e, now)
  <2> DEFINE g == Rolled(e, now)
  <2>1. /\ g \in [start : Times, count : 0..(MaxAttempts - 1), until : {Never}, seen : Times]
        /\ g.start <= time /\ g.start <= now + Lag
    <3> e \in [start : Times, count : 0..MaxAttempts,
               until : {Never} \cup 0..(MaxTime + Block), seen : Times]
        /\ e.start <= time
        /\ (e.count = MaxAttempts <=> e.until # Never)
      BY DEF EntryOK
    <3>1. CASE e.until # Never \/ Since(now, e.start) > Window
      <4>1. g = [start |-> now, count |-> 0, until |-> Never, seen |-> e.seen]
        BY <3>1 DEF Rolled
      <4> QED BY <4>1
    <3>2. CASE ~(e.until # Never \/ Since(now, e.start) > Window)
      <4>1. g = e /\ e.until = Never /\ e.count # MaxAttempts
        BY <3>2 DEF Rolled
      <4>2. e.count \in 0..(MaxAttempts - 1)
        BY <4>1
      <4>3. e.start <= now + Lag
        OBVIOUS
      <4> QED BY <4>1, <4>2, <4>3
    <3> HIDE DEF g
    <3> QED BY <3>1, <3>2
  <2>2. f = [g EXCEPT !.count = g.count + 1, !.seen = now,
                      !.until = IF g.count + 1 >= MaxAttempts THEN now + Block ELSE Never]
    BY <1>2 DEF AfterFailure
  <2> HIDE DEF f, g
  <2>3. f.start = g.start /\ f.seen = now /\ f.count = g.count + 1
        /\ f.until = IF g.count + 1 >= MaxAttempts THEN now + Block ELSE Never
    BY <2>1, <2>2
  <2>4. f \in [start : Times, count : 0..MaxAttempts,
               until : {Never} \cup 0..(MaxTime + Block), seen : Times]
    <3>1. now + Block \in 0..(MaxTime + Block) /\ g.count + 1 \in 0..MaxAttempts
      BY <2>1
    <3> QED BY <2>1, <2>2, <3>1
  <2> QED BY <2>1, <2>3, <2>4 DEF EntryOK, f
<1> QED BY <1>1, <1>2

\* A sound entry stays sound, and a dead one dead.
LEMMA LaterOK ==
  ASSUME NEW time \in Times, NEW later \in Times, time <= later, NEW e
  PROVE  /\ EntryOK(e, time) => EntryOK(e, later)
         /\ EntryOK(e, time) /\ Gone(e, time) => Gone(e, later)
  BY LimitsAssumption, LagAssumption DEF EntryOK, Gone

\* What gc drops is dead for every request, however late.
LEMMA StaleIsGone ==
  ASSUME NEW time \in Times, NEW now \in Times, now <= time, NEW e,
         EntryOK(e, time), Stale(e, now)
  PROVE  Gone(e, time)
  BY LimitsAssumption, LagAssumption DEF EntryOK, Stale, Active, Since, Gone

\* A dead entry is as good as none.
LEMMA GoneIsNew ==
  ASSUME NEW time \in Times, NEW now \in Times, now <= time, time <= now + Lag, NEW e,
         EntryOK(e, time), Gone(e, time)
  PROVE  ~Active(e, now) /\ AfterFailure(e, now) = AfterFailure(NewEntry(now), now)
<1> USE LimitsAssumption, LagAssumption
<1>1. ~Active(e, now) /\ ~Active(NewEntry(now), now)
  BY DEF EntryOK, Gone, Active, NewEntry
<1>2. e.until # Never \/ Since(now, e.start) > Window
  BY DEF EntryOK, Gone, Since
<1>3. Rolled(e, now) = [start |-> now, count |-> 0, until |-> Never, seen |-> e.seen]
  BY <1>2 DEF Rolled, EntryOK
<1>4. Rolled(NewEntry(now), now) = [start |-> now, count |-> 0, until |-> Never, seen |-> now]
  BY DEF Rolled, NewEntry, Since
<1> DEFINE until == IF 1 >= MaxAttempts THEN now + Block ELSE Never
           new == [start |-> now, count |-> 1, until |-> until, seen |-> now]
<1>5. AfterFailure(e, now)
        = [Rolled(e, now) EXCEPT !.count = Rolled(e, now).count + 1, !.seen = now,
             !.until = IF Rolled(e, now).count + 1 >= MaxAttempts THEN now + Block ELSE Never]
  BY <1>1 DEF AfterFailure
<1>6. AfterFailure(NewEntry(now), now)
        = [Rolled(NewEntry(now), now) EXCEPT
             !.count = Rolled(NewEntry(now), now).count + 1, !.seen = now,
             !.until = IF Rolled(NewEntry(now), now).count + 1 >= MaxAttempts
                       THEN now + Block ELSE Never]
  BY <1>1 DEF AfterFailure
<1>7. ASSUME NEW seen, NEW g,
             g = [start |-> now, count |-> 0, until |-> Never, seen |-> seen]
      PROVE  [g EXCEPT !.count = g.count + 1, !.seen = now,
                !.until = IF g.count + 1 >= MaxAttempts THEN now + Block ELSE Never] = new
  <2>1. g.count + 1 = 1
    BY <1>7
  <2> HIDE DEF until
  <2>2. (IF g.count + 1 >= MaxAttempts THEN now + Block ELSE Never) = until
    BY <2>1 DEF until
  <2> DEFINE g1 == [g EXCEPT !.count = 1]
             g2 == [g1 EXCEPT !.seen = now]
  <2>3. g1 = [start |-> now, count |-> 1, until |-> Never, seen |-> seen]
    BY <1>7
  <2> HIDE DEF g1
  <2>4. g2 = [start |-> now, count |-> 1, until |-> Never, seen |-> now]
    BY <2>3
  <2> HIDE DEF g2
  <2>5. [g2 EXCEPT !.until = until] = [start |-> now, count |-> 1, until |-> until, seen |-> now]
    BY <2>4
  <2>6. [g EXCEPT !.count = 1, !.seen = now, !.until = until] = [g2 EXCEPT !.until = until]
    BY DEF g1, g2
  <2> QED BY <2>1, <2>2, <2>5, <2>6
<1> HIDE DEF new
<1>8. AfterFailure(e, now) = new
  BY <1>3, <1>5, <1>7
<1>9. AfterFailure(NewEntry(now), now) = new
  BY <1>4, <1>6, <1>7
<1> QED BY <1>1, <1>8, <1>9

\* Blocked, as long as no clock has passed the end.
LEMMA ActiveEarlier ==
  ASSUME NEW time \in Times, NEW now \in Times, now <= time, NEW e,
         EntryOK(e, time), Active(e, time)
  PROVE  Active(e, now)
  BY DEF EntryOK, Active

------------------------------------------------------------------------------
(* The log of failures keeps step with the count.                           *)

\* The last MaxAttempts failures when one more is logged.
Logged(failures, now) ==
  LET all == Append(failures, now)
  IN  IF Len(all) > MaxAttempts THEN Tail(all) ELSE all

\* One more failure pushes the oldest out of a full log.
LEMMA LoggedIsShifted ==
  ASSUME NEW now \in Times, NEW failures \in Seq(Times), Len(failures) <= MaxAttempts
  PROVE  LET l == Logged(failures, now)
         IN  /\ l \in Seq(Times)
             /\ Len(l) = IF Len(failures) = MaxAttempts THEN MaxAttempts ELSE Len(failures) + 1
             /\ l[Len(l)] = now
             /\ \A j \in 1..(Len(l) - 1) : l[Len(l) - j] = failures[Len(failures) - (j - 1)]
<1> USE LimitsAssumption
<1> DEFINE n == Len(failures)
           all == Append(failures, now)
           k == Logged(failures, now)
<1> SUFFICES /\ k \in Seq(Times)
             /\ Len(k) = IF n = MaxAttempts THEN MaxAttempts ELSE n + 1
             /\ k[Len(k)] = now
             /\ \A j \in 1..(Len(k) - 1) : k[Len(k) - j] = failures[n - (j - 1)]
  OBVIOUS
<1> HIDE DEF k
<1>1. /\ all \in Seq(Times) /\ Len(all) = n + 1 /\ n \in Nat
      /\ \A i \in 1..n : all[i] = failures[i]
      /\ all[n + 1] = now
  OBVIOUS
<1> HIDE DEF all
<1>2. CASE n = MaxAttempts
  <2>1. k = Tail(all)
    BY <1>1, <1>2 DEF Logged, all, k
  <2>2. /\ Tail(all) \in Seq(Times) /\ Len(Tail(all)) = n
        /\ \A i \in 1..n : Tail(all)[i] = all[i + 1]
    BY <1>1, <1>2
  <2> HIDE DEF n
  <2>3. Len(k) = n /\ k[n] = now
    BY <1>1, <1>2, <2>1, <2>2
  <2>4. ASSUME NEW j \in 1..(n - 1)
        PROVE  k[n - j] = failures[n - (j - 1)]
    <3>1. n - j \in 1..n /\ (n - j) + 1 \in 1..n /\ (n - j) + 1 = n - (j - 1)
      BY <1>1, <2>4
    <3> QED BY <1>1, <2>1, <2>2, <3>1
  <2> QED BY <1>2, <2>1, <2>2, <2>3, <2>4
<1>3. CASE n # MaxAttempts
  <2>1. k = all
    BY <1>1, <1>3 DEF Logged, all, k
  <2> HIDE DEF n
  <2>2. Len(k) = n + 1 /\ k[n + 1] = now
    BY <1>1, <2>1
  <2>3. ASSUME NEW j \in 1..n
        PROVE  k[(n + 1) - j] = failures[n - (j - 1)]
    <3>1. (n + 1) - j \in 1..n /\ (n + 1) - j = n - (j - 1)
      BY <1>1, <2>3
    <3> QED BY <1>1, <2>1, <3>1
  <2>4. (n + 1) - 1 = n
    BY <1>1
  <2> QED BY <1>1, <1>3, <2>1, <2>2, <2>3, <2>4
<1> QED BY <1>2, <1>3

\* A failure outside a block fits the log it is added to.
LEMMA FailureFits ==
  ASSUME NEW time \in Times, NEW now \in Times, now <= time, time <= now + Lag,
         NEW e, EntryOK(e, time), ~Active(e, now),
         NEW failures \in Seq(Times), Len(failures) <= MaxAttempts, Fits(e, failures)
  PROVE  Fits(AfterFailure(e, now), Logged(failures, now))
<1> USE LimitsAssumption, LagAssumption
<1> DEFINE f == AfterFailure(e, now)
           g == Rolled(e, now)
           l == Logged(failures, now)
           n == Len(failures)
           m == Len(l)
<1>1. /\ n \in Nat /\ m \in Nat /\ l \in Seq(Times)
      /\ m = IF n = MaxAttempts THEN MaxAttempts ELSE n + 1
      /\ l[m] = now
      /\ \A j \in 1..(m - 1) : l[m - j] = failures[n - (j - 1)]
  <2>1. n \in Nat
    OBVIOUS
  <2> HIDE DEF f, g
  <2>2. /\ l \in Seq(Times)
        /\ m = IF n = MaxAttempts THEN MaxAttempts ELSE n + 1
        /\ l[m] = now
        /\ \A j \in 1..(m - 1) : l[m - j] = failures[n - (j - 1)]
    BY LoggedIsShifted
  <2>3. m \in Nat
    BY <2>2
  <2> QED BY <2>1, <2>2, <2>3
<1>2. f = [g EXCEPT !.count = g.count + 1, !.seen = now,
                    !.until = IF g.count + 1 >= MaxAttempts THEN now + Block ELSE Never]
  BY DEF AfterFailure
<1>3. /\ g \in [start : Times, count : 0..(MaxAttempts - 1), until : {Never}, seen : Times]
      /\ g.start <= now + Lag /\ now <= g.start + Window
      /\ g.count <= n
      /\ \A j \in 0..(g.count - 1) :
            g.start <= failures[n - j] + Lag /\ failures[n - j] <= g.start + Window
  <2>1. /\ e \in [start : Times, count : 0..MaxAttempts,
                   until : {Never} \cup 0..(MaxTime + Block), seen : Times]
        /\ e.start <= time
        /\ (e.count = MaxAttempts <=> e.until # Never)
    BY DEF EntryOK
  <2>2. CASE e.until # Never \/ Since(now, e.start) > Window
    <3>1. g = [start |-> now, count |-> 0, until |-> Never, seen |-> e.seen]
      BY <2>1, <2>2 DEF Rolled
    <3> HIDE DEF g, n
    <3> QED BY <1>1, <2>1, <3>1
  <2>3. CASE ~(e.until # Never \/ Since(now, e.start) > Window)
    <3>1. g = e /\ e.until = Never /\ e.count # MaxAttempts /\ ~(now > e.start + Window)
      <4>1. g = e /\ e.until = Never /\ ~(Since(now, e.start) > Window)
        BY <2>3 DEF Rolled
      <4>2. now \in Nat /\ e.start \in Nat /\ Window \in Nat
        BY <2>1
      <4>3. ~(now > e.start + Window)
        BY <4>1, <4>2 DEF Since
      <4> QED BY <2>1, <4>1, <4>3
    <3>2. e.count \in 0..(MaxAttempts - 1)
      BY <2>1, <3>1
    <3>3. e.count <= n /\ \A j \in 0..(e.count - 1) :
            e.start <= failures[n - j] + Lag /\ failures[n - j] <= e.start + Window
      BY DEF Fits
    <3> HIDE DEF g, n
    <3>4. e \in [start : Times, count : 0..(MaxAttempts - 1), until : {Never}, seen : Times]
      BY <2>1, <3>1, <3>2
    <3>5. e.start <= now + Lag /\ now <= e.start + Window
      <4>1. now \in Nat /\ time \in Nat /\ e.start \in Nat /\ Window \in Nat /\ Lag \in Nat
        BY <2>1
      <4> QED BY <2>1, <3>1, <4>1
    <3> QED BY <3>1, <3>3, <3>4, <3>5
  <2> QED BY <2>2, <2>3
<1> HIDE DEF f, g, l, m, n
<1>4. /\ f.start = g.start /\ f.count = g.count + 1
      /\ f.until # Never => f.until = now + Block
  BY <1>2, <1>3
<1>5. f.count <= m
  <2>1. n \in Nat /\ m = IF n = MaxAttempts THEN MaxAttempts ELSE n + 1
    BY <1>1
  <2>2. g.count \in 0..(MaxAttempts - 1) /\ g.count <= n /\ f.count = g.count + 1
    BY <1>3, <1>4
  <2>3. g.count \in Nat /\ g.count <= MaxAttempts - 1
    BY <2>2
  <2> QED BY <2>1, <2>2, <2>3
<1>6. ASSUME NEW j \in 0..(f.count - 1)
      PROVE  f.start <= l[m - j] + Lag /\ l[m - j] <= f.start + Window
  <2>0. g.count \in 0..(MaxAttempts - 1)
    BY <1>3
  <2> g.count \in Nat
    BY <2>0
  <2> f.count \in Nat /\ j \in Nat
    BY <1>4
  <2> m \in Nat
    BY <1>1
  <2>1. CASE j = 0
    <3>1. m - j = m
      BY <1>1, <2>1
    <3>2. now <= f.start + Window /\ f.start <= now + Lag
      BY <1>3, <1>4
    <3> QED BY <1>1, <3>1, <3>2
  <2>2. CASE j # 0
    <3>1. j - 1 \in 0..(g.count - 1) /\ j \in 1..(m - 1)
      <4>1. f.count = g.count + 1
        BY <1>4
      <4>2. 1 <= j /\ j <= g.count /\ g.count + 1 <= m
        BY <1>5, <2>2, <4>1
      <4> QED BY <4>2
    <3>2. l[m - j] = failures[n - (j - 1)]
      BY <1>1, <3>1
    <3> QED BY <1>3, <1>4, <3>1, <3>2
  <2> QED BY <2>1, <2>2
<1> QED BY <1>1, <1>4, <1>5, <1>6 DEF Fits, f, l, m

------------------------------------------------------------------------------
(* Every step keeps the invariant.                                          *)

\* The invariant holds at the start.
LEMMA InitInv == Init => Inv
<1> SUFFICES ASSUME Init PROVE Inv
  OBVIOUS
<1> USE LimitsAssumption, RequestsAssumption DEF Init
<1>1. Idle \in [pc : States, client : Clients, now : Times] /\ Idle.pc = "idle"
  BY DEF Idle, States
<1>2. ReqInv
  BY <1>1 DEF ReqInv
<1>3. TableInv
  BY DEF TableInv
<1>4. LogInv
  BY DEF LogInv
<1> QED BY <1>2, <1>3, <1>4 DEF Inv

\* Time passes: what is gone stays gone, readings in hand grow no older than
\* the lag.
LEMMA TickInv == Inv /\ Tick => Inv'
<1> SUFFICES ASSUME Inv, Tick PROVE Inv'
  OBVIOUS
<1> USE LimitsAssumption, LagAssumption DEF Tick
<1>1. clock \in Times /\ clock' \in Times /\ clock <= clock'
  BY DEF Inv, ReqInv
<1>2. ReqInv'
  <2> DEFINE waiting(r) == req[r].pc \in {"check", "failed"}
  <2>1. ASSUME NEW r \in Requests, waiting(r)'
        PROVE  req'[r].now <= clock' /\ clock' <= req'[r].now + Lag
    <3>1. req' = req /\ waiting(r)
      BY <2>1
    <3>2. req[r].now \in Times /\ req[r].now <= clock /\ clock < req[r].now + Lag
      BY <3>1 DEF Inv, ReqInv
    <3> QED BY <1>1, <3>1, <3>2
  <2> QED BY <1>1, <2>1 DEF Inv, ReqInv
<1>3. TableInv'
  <2>1. \A b \in DOMAIN kept : EntryOK(kept[b], clock')
    BY <1>1, LaterOK DEF Inv, TableInv
  <2>2. \A b \in DOMAIN kept \ DOMAIN table : Gone(kept[b], clock')
    BY <1>1, LaterOK DEF Inv, TableInv
  <2> QED BY <2>1, <2>2 DEF Inv, TableInv
<1>4. LogInv'
  BY DEF Inv, LogInv
<1> QED BY <1>2, <1>3, <1>4 DEF Inv

\* A request arrives with a reading of the clock.
LEMMA ArriveInv ==
  ASSUME NEW r \in Requests, NEW c \in Clients
  PROVE  Inv /\ Arrive(r, c) => Inv'
<1> SUFFICES ASSUME Inv, Arrive(r, c) PROVE Inv'
  OBVIOUS
<1> USE LimitsAssumption, LagAssumption DEF Arrive
<1> DEFINE new == [pc |-> "check", client |-> c, now |-> clock]
<1>1. new \in [pc : States, client : Clients, now : Times] /\ new.now = clock
  BY DEF Inv, ReqInv, States
<1> HIDE DEF new
<1>2. req' = [req EXCEPT ![r] = new]
  BY DEF new
<1>3. ReqInv'
  BY <1>1, <1>2 DEF Inv, ReqInv
<1> QED BY <1>3 DEF Inv, TableInv, LogInv

\* What gc of a request that waited at most Lag leaves is the table or dead.
LEMMA CollectedInv ==
  ASSUME TableInv, clock \in Times, NEW now \in Times, now <= clock
  PROVE  /\ DOMAIN Collected(table, now) \subseteq DOMAIN table
         /\ \A b \in DOMAIN Collected(table, now) : Collected(table, now)[b] = table[b]
         /\ \A b \in DOMAIN table \ DOMAIN Collected(table, now) : Gone(table[b], clock)
<1>1. \A b \in DOMAIN table \ DOMAIN Collected(table, now) : Stale(table[b], now)
  BY DEF Collected
<1>2. \A b \in DOMAIN table : EntryOK(table[b], clock)
  BY DEF TableInv
<1>3. \A b \in DOMAIN table \ DOMAIN Collected(table, now) : Gone(table[b], clock)
  BY <1>1, <1>2, StaleIsGone
<1> QED BY <1>3 DEF Collected

\* check with its gc drops only entries that are gone.
LEMMA CheckInv ==
  ASSUME NEW r \in Requests
  PROVE  Inv /\ Check(r) => Inv'
<1> SUFFICES ASSUME Inv, Check(r) PROVE Inv'
  OBVIOUS
<1> USE LimitsAssumption, RequestsAssumption DEF Check
<1> DEFINE now == req[r].now
           t   == Collected(table, now)
<1>1. clock \in Times /\ now \in Times /\ now <= clock
  BY DEF Inv, ReqInv
<1>2. ReqInv'
  <2>1. PICK q : req' = [req EXCEPT ![r] = q] /\ q \in {Idle, [req[r] EXCEPT !.pc = "verify", !.now = 0]}
    OBVIOUS
  <2>2. q \in [pc : States, client : Clients, now : Times] /\ q.pc \notin {"check", "failed"}
    <3>1. req[r] \in [pc : States, client : Clients, now : Times]
      BY DEF Inv, ReqInv
    <3>2. CASE q = Idle
      BY <3>2 DEF Idle, States
    <3>3. CASE q = [req[r] EXCEPT !.pc = "verify", !.now = 0]
      <4> DEFINE v == [req[r] EXCEPT !.pc = "verify", !.now = 0]
      <4>1. v \in [pc : States, client : Clients, now : Times]
        <5>1. 0 \in Times /\ "verify" \in States
          BY DEF States
        <5> QED BY <3>1, <5>1
      <4>2. v.pc = "verify"
        BY <3>1
      <4> HIDE DEF v
      <4> QED BY <3>3, <4>1, <4>2 DEF v
    <3> QED BY <2>1, <3>2, <3>3
  <2> QED BY <2>1, <2>2 DEF Inv, ReqInv
<1>3. /\ DOMAIN t \subseteq DOMAIN table
      /\ \A b \in DOMAIN t : t[b] = table[b]
      /\ \A b \in DOMAIN table \ DOMAIN t : Gone(table[b], clock)
  BY <1>1, CollectedInv DEF Inv
<1>4. table' = t /\ clock' = clock /\ kept' = kept /\ log' = log
  OBVIOUS
<1> HIDE DEF t
<1>5. TableInv'
  BY <1>3, <1>4 DEF Inv, TableInv
<1>6. LogInv'
  BY <1>3, <1>4 DEF Inv, LogInv
<1> QED BY <1>2, <1>5, <1>6 DEF Inv

\* Credentials are verified without the limiter.
LEMMA VerifyInv ==
  ASSUME NEW r \in Requests
  PROVE  Inv /\ Verify(r) => Inv'
<1> SUFFICES ASSUME Inv, Verify(r) PROVE Inv'
  OBVIOUS
<1> USE LimitsAssumption, LagAssumption DEF Verify
<1>1. req[r] \in [pc : States, client : Clients, now : Times] /\ clock \in Times
  BY DEF Inv, ReqInv
<1>2. ReqInv'
  <2>1. CASE req' = [req EXCEPT ![r].pc = "succeeded"]
    <3>1. [req[r] EXCEPT !.pc = "succeeded"] \in [pc : States, client : Clients, now : Times]
      BY <1>1 DEF States
    <3> QED BY <2>1, <3>1 DEF Inv, ReqInv
  <2>2. CASE req' = [req EXCEPT ![r].pc = "failed", ![r].now = clock]
    <3> DEFINE q == [req[r] EXCEPT !.pc = "failed", !.now = clock]
    <3>1. q \in [pc : States, client : Clients, now : Times] /\ q.now = clock
      BY <1>1 DEF States
    <3>2. req' = [req EXCEPT ![r] = q]
      BY <2>2 DEF Inv, ReqInv
    <3> HIDE DEF q
    <3> QED BY <3>1, <3>2 DEF Inv, ReqInv
  <2> QED BY <2>1, <2>2
<1> QED BY <1>2 DEF Inv, TableInv, LogInv

\* A success forgets the bucket, in both maps.
LEMMA RecordSuccessInv ==
  ASSUME NEW r \in Requests
  PROVE  Inv /\ RecordSuccess(r) => Inv'
<1> SUFFICES ASSUME Inv, RecordSuccess(r) PROVE Inv'
  OBVIOUS
<1> USE LimitsAssumption, RequestsAssumption DEF RecordSuccess
<1>1. Idle \in [pc : States, client : Clients, now : Times] /\ Idle.pc = "idle"
  BY DEF Idle, States
<1>2. ReqInv'
  BY <1>1 DEF Inv, ReqInv
<1>3. TableInv'
  BY DEF Inv, TableInv, Without
<1>4. LogInv'
  <2> DEFINE b == BucketOfReq(r)
  <2>1. /\ log \in [Buckets -> Seq(Times)] /\ log' = [log EXCEPT ![b] = <<>>]
        /\ \A d \in Buckets : Len(log[d]) <= MaxAttempts
    BY DEF Inv, LogInv
  <2>2. DOMAIN table' = DOMAIN table \ {b} /\ \A d \in DOMAIN table' : table'[d] = table[d]
    BY DEF Without
  <2>3. DOMAIN table \subseteq Buckets
    BY DEF Inv, TableInv
  <2> HIDE DEF b
  <2>4. \A d \in DOMAIN table' : log'[d] = log[d]
    BY <2>1, <2>2, <2>3
  <2>5. \A d \in DOMAIN table' : Fits(table'[d], log'[d])
    BY <2>2, <2>4 DEF Inv, LogInv
  <2>6. log' \in [Buckets -> Seq(Times)]
    <3>1. <<>> \in Seq(Times)
      OBVIOUS
    <3> QED BY <2>1, <3>1, ZenonT(40)
  <2>7. \A d \in Buckets : Len(log'[d]) <= MaxAttempts
    BY <2>1
  <2> QED BY <2>5, <2>6, <2>7 DEF LogInv
<1> QED BY <1>2, <1>3, <1>4 DEF Inv

\* A failure is counted, and logged, unless the bucket is blocked.
LEMMA RecordFailureInv ==
  ASSUME NEW r \in Requests
  PROVE  Inv /\ RecordFailure(r) => Inv'
<1> SUFFICES ASSUME Inv, RecordFailure(r) PROVE Inv'
  OBVIOUS
<1> USE LimitsAssumption, RequestsAssumption, LagAssumption
<1> DEFINE now == req[r].now
           b   == BucketOfReq(r)
           e   == EntryAt(table, b, now)
           k   == EntryAt(kept, b, now)
<1>1. /\ clock \in Times /\ now \in Times /\ now <= clock /\ clock <= now + Lag
      /\ b \in Buckets
  BY DEF Inv, ReqInv, RecordFailure, BucketOfReq
<1>2. ReqInv'
  <2>1. Idle \in [pc : States, client : Clients, now : Times] /\ Idle.pc = "idle"
    BY DEF Idle, States
  <2> QED BY <2>1 DEF Inv, ReqInv, RecordFailure
<1>3. /\ table' = Failed(table, b, now) /\ kept' = Failed(kept, b, now) /\ clock' = clock
      /\ log' = [log EXCEPT ![b] = IF InBlock(b, now) THEN log[b] ELSE Logged(log[b], now)]
  BY DEF RecordFailure, Logged, Inv, LogInv
<1> HIDE DEF now, b
<1>4. /\ DOMAIN table' = DOMAIN table \cup {b}
      /\ table'[b] = AfterFailure(e, now)
      /\ \A d \in DOMAIN table' \ {b} : table'[d] = table[d]
  BY <1>3 DEF Failed
<1>5. /\ DOMAIN kept' = DOMAIN kept \cup {b}
      /\ kept'[b] = AfterFailure(k, now)
      /\ \A d \in DOMAIN kept' \ {b} : kept'[d] = kept[d]
  BY <1>3 DEF Failed
<1>6. EntryOK(e, clock) /\ EntryOK(k, clock)
  BY <1>1, NewEntryOK DEF Inv, TableInv, EntryAt
<1>7. TableInv'
  <2>1. EntryOK(kept'[b], clock) /\ kept'[b].count >= 1
    <3> HIDE DEF k
    <3> QED BY <1>1, <1>5, <1>6, FailureOK
  <2>2. table'[b] = kept'[b]
    <3>1. CASE b \in DOMAIN table
      <4>1. e = k
        BY <3>1 DEF Inv, TableInv, EntryAt
      <4> QED BY <1>4, <1>5, <4>1
    <3>2. CASE b \notin DOMAIN kept
      <4>1. e = k
        BY <3>2 DEF Inv, TableInv, EntryAt
      <4> QED BY <1>4, <1>5, <4>1
    <3>3. CASE b \in DOMAIN kept \ DOMAIN table
      <4>1. e = NewEntry(now) /\ Gone(k, clock)
        BY <3>3 DEF Inv, TableInv, EntryAt
      <4> HIDE DEF k
      <4>2. AfterFailure(k, now) = AfterFailure(NewEntry(now), now)
        BY <1>1, <1>6, <4>1, GoneIsNew
      <4> QED BY <1>4, <1>5, <4>1, <4>2
    <3> QED BY <3>1, <3>2, <3>3
  <2> HIDE DEF e, k
  <2> QED BY <1>1, <1>3, <1>4, <1>5, <2>1, <2>2 DEF Inv, TableInv
<1>8. LogInv'
  <2>1. /\ log \in [Buckets -> Seq(Times)]
        /\ \A d \in Buckets : Len(log[d]) <= MaxAttempts
        /\ \A d \in DOMAIN table : Fits(table[d], log[d])
        /\ DOMAIN table \subseteq Buckets
    BY DEF Inv, LogInv, TableInv
  <2>2. CASE InBlock(b, now)
    <3>1. log' = log
      BY <1>3, <2>1, <2>2
    <3>2. b \in DOMAIN table /\ e = table[b] /\ Active(e, now)
      BY <2>2 DEF InBlock, EntryAt
    <3>3. table'[b] = [e EXCEPT !.seen = now]
      BY <1>4, <3>2 DEF AfterFailure
    <3>4. Fits(table'[b], log[b])
      <4>1. Fits(e, log[b]) /\ EntryOK(e, clock)
        BY <1>6, <2>1, <3>2
      <4> HIDE DEF e
      <4>2. table'[b].start = e.start /\ table'[b].count = e.count /\ table'[b].until = e.until
        BY <3>3, <4>1 DEF EntryOK
      <4> QED BY <4>1, <4>2 DEF Fits
    <3> QED BY <1>4, <2>1, <3>1, <3>4 DEF LogInv
  <2>3. CASE ~InBlock(b, now)
    <3> DEFINE l == Logged(log[b], now)
    <3>1. log' = [log EXCEPT ![b] = l] /\ l \in Seq(Times) /\ Len(l) <= MaxAttempts
      BY <1>1, <1>3, <2>1, <2>3, LoggedIsShifted
    <3>2. ~Active(e, now) /\ Fits(e, log[b])
      <4>1. CASE b \in DOMAIN table
        BY <2>1, <2>3, <4>1 DEF InBlock, EntryAt
      <4>2. CASE b \notin DOMAIN table
        BY <1>1, <2>1, <4>2 DEF EntryAt, NewEntry, Fits, Active
      <4> QED BY <4>1, <4>2
    <3>3. Fits(table'[b], l)
      BY <1>1, <1>4, <1>6, <2>1, <3>2, FailureFits
    <3> HIDE DEF l
    <3>4. \A d \in Buckets : log'[d] = IF d = b THEN l ELSE log[d]
      BY <2>1, <3>1
    <3>5. log' \in [Buckets -> Seq(Times)] /\ \A d \in Buckets : Len(log'[d]) <= MaxAttempts
      BY <2>1, <3>1, <3>4
    <3>6. \A d \in DOMAIN table' : Fits(table'[d], log'[d])
      BY <1>1, <1>4, <2>1, <3>3, <3>4
    <3> QED BY <3>5, <3>6 DEF LogInv
  <2> QED BY <2>2, <2>3
<1> QED BY <1>2, <1>7, <1>8 DEF Inv

\* Every step keeps the invariant.
LEMMA InvPreserved == Inv /\ [Next]_vars => Inv'
<1> SUFFICES ASSUME Inv, [Next]_vars PROVE Inv'
  OBVIOUS
<1>1. CASE UNCHANGED vars
  BY <1>1 DEF vars, Inv, ReqInv, TableInv, LogInv
<1> QED
  BY <1>1, TickInv, ArriveInv, CheckInv, VerifyInv, RecordSuccessInv, RecordFailureInv DEF Next

\* The invariant holds always.
LEMMA Invariance == Spec => []Inv
  BY InitInv, InvPreserved, PTL DEF Spec
------------------------------------------------------------------------------
(* What the invariant is for.                                               *)

\* Every variable has its type, and no count passes the threshold.
THEOREM Typing == Spec => []TypeOK
<1>1. Inv => TypeOK
  <2> SUFFICES ASSUME Inv PROVE TypeOK
    OBVIOUS
  <2>1. \A b \in DOMAIN table : table[b] \in Entry
    <3> SUFFICES ASSUME NEW b \in DOMAIN table PROVE table[b] \in Entry
      OBVIOUS
    <3>1. EntryOK(table[b], clock) /\ table[b].count >= 1
      BY DEF Inv, TableInv
    <3> HIDE DEF Times
    <3> QED BY <3>1, LimitsAssumption DEF EntryOK, Entry
  <2> QED BY <2>1 DEF TypeOK, Inv, ReqInv, TableInv, States
<1> QED BY <1>1, Invariance, PTL

\* A block was set by the last of MaxAttempts failures in a row, all within a
\* window and the wait for the lock (record_failure_at).
THEOREM Earning == Spec => []BlockIsEarned
<1>1. Inv => BlockIsEarned
  <2> SUFFICES ASSUME Inv, NEW b \in DOMAIN table, table[b].until # Never
               PROVE  /\ Len(log[b]) = MaxAttempts
                      /\ table[b].until = log[b][MaxAttempts] + Block
                      /\ \A i, j \in DOMAIN log[b] : log[b][i] - log[b][j] <= Window + Lag
    BY DEF BlockIsEarned
  <2> USE LimitsAssumption, LagAssumption
  <2> DEFINE e == table[b]
             l == log[b]
  <2>1. EntryOK(e, clock) /\ Fits(e, l) /\ l \in Seq(Times) /\ Len(l) <= MaxAttempts
    BY DEF Inv, TableInv, LogInv
  <2> HIDE DEF e, l
  <2>2. e.count = MaxAttempts
    BY <2>1 DEF EntryOK, e
  <2>3. Len(l) = MaxAttempts
    BY <2>1, <2>2 DEF Fits
  <2>4. e.until = l[MaxAttempts] + Block
    BY <2>1, <2>3 DEF Fits, e
  <2>5. ASSUME NEW i \in DOMAIN l
        PROVE  l[i] \in Nat /\ e.start \in Nat /\ e.start <= l[i] + Lag /\ l[i] <= e.start + Window
    <3>1. i \in 1..MaxAttempts /\ l[i] \in Nat
      BY <2>1, <2>3
    <3>2. MaxAttempts - i \in 0..(e.count - 1) /\ MaxAttempts - (MaxAttempts - i) = i
      BY <2>2, <3>1
    <3>3. e.start <= l[i] + Lag /\ l[i] <= e.start + Window
      BY <2>1, <2>3, <3>2 DEF Fits
    <3>4. e.start \in Nat
      BY <2>1 DEF EntryOK
    <3> QED BY <3>1, <3>3, <3>4
  <2>6. \A i, j \in DOMAIN l : l[i] - l[j] <= Window + Lag
    BY <2>5
  <2> QED BY <2>3, <2>4, <2>6 DEF e, l
<1> QED BY <1>1, Invariance, PTL

\* Forgetting entries changes no verdict and no count, for any request that
\* waited at most Lag (gc).
THEOREM Collecting == Spec => []GcIsInvisible
<1>1. Inv => GcIsInvisible
  <2> SUFFICES ASSUME Inv, NEW b \in Buckets, NEW now \in Times, clock - Lag <= now, now <= clock
               PROVE  /\ Blocked(table, b, now) = Blocked(kept, b, now)
                      /\ AfterFailure(EntryAt(table, b, now), now)
                           = AfterFailure(EntryAt(kept, b, now), now)
    BY DEF GcIsInvisible
  <2>0. clock \in Times /\ clock <= now + Lag
    BY LagAssumption DEF Inv, ReqInv
  <2>1. CASE b \in DOMAIN table \/ b \notin DOMAIN kept
    BY <2>1 DEF Inv, TableInv, Blocked, EntryAt
  <2>2. CASE b \in DOMAIN kept \ DOMAIN table
    <3>1. EntryOK(kept[b], clock) /\ Gone(kept[b], clock)
      BY <2>2 DEF Inv, TableInv
    <3>2. /\ ~Active(kept[b], now)
          /\ AfterFailure(kept[b], now) = AfterFailure(NewEntry(now), now)
      BY <2>0, <3>1, GoneIsNew
    <3> QED BY <2>2, <3>2 DEF Blocked, EntryAt
  <2> QED BY <2>1, <2>2 DEF Inv, TableInv
<1> QED BY <1>1, Invariance, PTL

Stays(b) ==
  \/ b \in DOMAIN table' /\ table'[b].until = table[b].until
  \/ clock' >= table[b].until
  \/ log'[b] = <<>>

\* No failure, no check and no gc ends or moves a block.
LEMMA NextStays ==
  ASSUME Inv, [Next]_vars, NEW b \in Buckets, InBlock(b, clock)
  PROVE  Stays(b)
<1> USE LimitsAssumption, LagAssumption
<1>0. b \in DOMAIN table /\ EntryOK(table[b], clock) /\ Active(table[b], clock)
  BY DEF Inv, TableInv, InBlock
<1>1. ASSUME UNCHANGED table PROVE Stays(b)
  BY <1>0, <1>1 DEF Stays
<1>2. ASSUME NEW r \in Requests, Check(r) PROVE Stays(b)
  <2> DEFINE now == req[r].now
  <2>1. clock \in Times /\ now \in Times /\ now <= clock
    BY <1>2 DEF Inv, ReqInv, Check
  <2>2. Active(table[b], now)
    BY <1>0, <2>1, ActiveEarlier
  <2>3. table' = Collected(table, now)
    BY <1>2 DEF Check
  <2> HIDE DEF now
  <2> QED BY <1>0, <2>2, <2>3 DEF Collected, Stale, Stays
<1>3. ASSUME NEW r \in Requests, RecordSuccess(r) PROVE Stays(b)
  <2> DEFINE d == BucketOfReq(r)
  <2>1. table' = Without(table, d) /\ log' = [log EXCEPT ![d] = <<>>]
    BY <1>3 DEF RecordSuccess
  <2> HIDE DEF d
  <2>2. CASE b = d
    BY <2>1, <2>2 DEF Inv, LogInv, Stays
  <2>3. CASE b # d
    BY <1>0, <2>1, <2>3 DEF Without, Stays
  <2> QED BY <2>2, <2>3
<1>4. ASSUME NEW r \in Requests, RecordFailure(r) PROVE Stays(b)
  <2> DEFINE d == BucketOfReq(r)
             now == req[r].now
  <2>1. /\ clock \in Times /\ now \in Times /\ now <= clock
        /\ table' = Failed(table, d, now)
    BY <1>4 DEF Inv, ReqInv, RecordFailure
  <2> HIDE DEF d, now
  <2>2. CASE b = d
    <3>1. Active(table[b], now)
      BY <1>0, <2>1, ActiveEarlier
    <3>2. b \in DOMAIN table' /\ table'[b] = [table[b] EXCEPT !.seen = now]
      BY <1>0, <2>1, <2>2, <3>1 DEF Failed, EntryAt, AfterFailure
    <3> QED BY <1>0, <3>2 DEF EntryOK, Stays
  <2>3. CASE b # d
    BY <1>0, <2>1, <2>3 DEF Failed, Stays
  <2> QED BY <2>2, <2>3
<1>5. ASSUME NEW r \in Requests, NEW c \in Clients, Arrive(r, c) PROVE Stays(b)
  BY <1>1, <1>5 DEF Arrive
<1>6. ASSUME NEW r \in Requests, Verify(r) PROVE Stays(b)
  BY <1>1, <1>6 DEF Verify
<1>7. ASSUME Tick PROVE Stays(b)
  BY <1>1, <1>7 DEF Tick
<1>8. ASSUME UNCHANGED vars PROVE Stays(b)
  BY <1>1, <1>8 DEF vars
<1> QED BY <1>2, <1>3, <1>4, <1>5, <1>6, <1>7, <1>8 DEF Next

\* Once set, a block stays until it is over or a login succeeds.
THEOREM Staying == Spec => BlockStays
<1>1. Inv /\ [Next]_vars => \A b \in Buckets : InBlock(b, clock) => Stays(b)
  BY NextStays
<1>2. Inv /\ [Next]_vars =>
        [\A b \in Buckets : InBlock(b, clock) =>
           \/ b \in DOMAIN table' /\ table'[b].until = table[b].until
           \/ clock' >= table[b].until
           \/ log'[b] = <<>>]_vars
  BY <1>1 DEF Stays
<1> QED BY <1>2, Invariance, PTL DEF Spec, BlockStays
------------------------------------------------------------------------------
(* Logins that slip past a block.                                           *)

Verifying(b) == {r \in Requests : req[r].pc = "verify" /\ BucketOfReq(r) = b}

\* Every login that was late, and every one that may still be, belongs to a
\* request other than the one that set the block.
LateInv ==
  /\ late \in [Buckets -> Nat]
  /\ \A b \in Buckets :
        /\ late[b] < Cardinality(Requests)
        /\ InBlock(b, clock) => late[b] + Cardinality(Verifying(b)) < Cardinality(Requests)

\* There are only so many requests under way.
LEMMA VerifyingCounts ==
  ASSUME NEW b
  PROVE  /\ IsFiniteSet(Verifying(b)) /\ Cardinality(Verifying(b)) \in Nat
         /\ Cardinality(Requests) \in Nat \ {0}
         /\ \A r \in Requests \ Verifying(b) : Cardinality(Verifying(b)) < Cardinality(Requests)
         /\ \A r \in Verifying(b) :
               Cardinality(Verifying(b) \ {r}) = Cardinality(Verifying(b)) - 1
<1>1. IsFiniteSet(Verifying(b)) /\ Cardinality(Verifying(b)) \in Nat
  BY RequestsAssumption, FS_Subset, FS_CardinalityType DEF Verifying
<1>2. Cardinality(Requests) \in Nat \ {0}
  BY RequestsAssumption, FS_CardinalityType, FS_EmptySet
<1>3. ASSUME NEW r \in Requests \ Verifying(b)
      PROVE  Cardinality(Verifying(b)) < Cardinality(Requests)
  <2> DEFINE v == Verifying(b)
  <2>1. v \subseteq Requests /\ v # Requests /\ IsFiniteSet(Requests)
    BY <1>3, RequestsAssumption DEF Verifying
  <2> HIDE DEF v
  <2>2. Cardinality(v) <= Cardinality(Requests) /\ Cardinality(v) # Cardinality(Requests)
    BY <2>1, FS_Subset
  <2> QED BY <1>1, <1>2, <2>2 DEF v
<1>4. \A r \in Verifying(b) : Cardinality(Verifying(b) \ {r}) = Cardinality(Verifying(b)) - 1
  BY <1>1, FS_RemoveElement
<1> QED BY <1>1, <1>2, <1>3, <1>4

\* Nobody is late at the start.
LEMMA InitLate == Init => LateInv
<1> SUFFICES ASSUME Init PROVE LateInv
  OBVIOUS
<1>1. \A b \in Buckets : ~InBlock(b, clock)
  BY DEF Init, InBlock
<1> QED BY <1>1, VerifyingCounts DEF Init, LateInv

\* A step that blocks nobody, lets nobody past a block and counts nothing.
LEMMA QuietLate ==
  ASSUME LateInv, UNCHANGED late,
         \A b \in Buckets : InBlock(b, clock)' => InBlock(b, clock) /\ Verifying(b)' \subseteq Verifying(b)
  PROVE  LateInv'
<1>1. ASSUME NEW b \in Buckets, InBlock(b, clock)'
      PROVE  late[b] + Cardinality(Verifying(b)') < Cardinality(Requests)
  <2>1. /\ late[b] \in Nat /\ late[b] + Cardinality(Verifying(b)) < Cardinality(Requests)
        /\ Verifying(b)' \subseteq Verifying(b)
    BY <1>1 DEF LateInv
  <2> DEFINE before == Verifying(b)
             after  == Verifying(b)'
  <2>2. IsFiniteSet(before) /\ Cardinality(before) \in Nat /\ Cardinality(Requests) \in Nat
    BY VerifyingCounts
  <2> HIDE DEF before, after
  <2>3. Cardinality(after) \in Nat /\ Cardinality(after) <= Cardinality(before)
    BY <2>1, <2>2, FS_Subset, FS_CardinalityType DEF before, after
  <2> QED BY <2>1, <2>2, <2>3 DEF before, after
<1> QED BY <1>1 DEF LateInv

\* Time only ends blocks.
LEMMA TickLate ==
  ASSUME Inv, LateInv, Tick
  PROVE  LateInv'
<1>1. clock \in Times /\ clock' \in Times /\ clock <= clock' /\ table' = table /\ req' = req
  BY LimitsAssumption DEF Tick, Inv, ReqInv
<1>2. ASSUME NEW b \in Buckets, InBlock(b, clock)'
      PROVE  InBlock(b, clock)
  <2>1. EntryOK(table[b], clock) /\ b \in DOMAIN table /\ Active(table[b], clock')
    BY <1>1, <1>2 DEF InBlock, Inv, TableInv
  <2> QED BY <1>1, <2>1 DEF InBlock, Active, EntryOK
<1>3. \A b \in Buckets : Verifying(b)' = Verifying(b)
  BY <1>1 DEF Verifying, BucketOfReq
<1> QED BY <1>2, <1>3, QuietLate DEF Tick

\* A request that arrives is not yet let in.
LEMMA ArriveLate ==
  ASSUME Inv, LateInv, NEW r \in Requests, NEW c \in Clients, Arrive(r, c)
  PROVE  LateInv'
<1>1. \A b \in Buckets : Verifying(b)' \subseteq Verifying(b)
  BY DEF Verifying, BucketOfReq, Arrive, Inv, ReqInv
<1>2. \A b \in Buckets : InBlock(b, clock)' => InBlock(b, clock)
  BY DEF Arrive, InBlock
<1> QED BY <1>1, <1>2, QuietLate DEF Arrive

\* Nobody is let in during a block.
LEMMA CheckLate ==
  ASSUME Inv, LateInv, NEW r \in Requests, Check(r)
  PROVE  LateInv'
<1> DEFINE now == req[r].now
           d   == BucketOfReq(r)
           t   == Collected(table, now)
<1>1. /\ clock \in Times /\ now \in Times /\ now <= clock
      /\ clock' = clock /\ table' = t
      /\ DOMAIN t \subseteq DOMAIN table /\ \A b \in DOMAIN t : t[b] = table[b]
  BY DEF Inv, ReqInv, Check, Collected
<1>2. /\ req' = [req EXCEPT ![r] = IF Blocked(t, d, now) THEN Idle
                                  ELSE [req[r] EXCEPT !.pc = "verify", !.now = 0]]
      /\ req \in [Requests -> [pc : States, client : Clients, now : Times]]
  BY DEF Check, Inv, ReqInv
<1> HIDE DEF now, t
<1>3. ASSUME NEW b \in Buckets, InBlock(b, clock)'
      PROVE  InBlock(b, clock) /\ Verifying(b)' \subseteq Verifying(b)
  <2>1. b \in DOMAIN t /\ t[b] = table[b] /\ Active(table[b], clock) /\ EntryOK(table[b], clock)
    BY <1>1, <1>3 DEF InBlock, Inv, TableInv
  <2>2. Active(t[b], now)
    BY <1>1, <2>1, ActiveEarlier
  <2>3. b = d => req'[r] = Idle
    BY <1>2, <2>1, <2>2 DEF Blocked
  <2>4. r \notin Verifying(b)'
    <3>1. CASE b = d
      BY <2>3, <3>1 DEF Verifying, Idle
    <3>2. CASE b # d
      <4>1. CASE Blocked(t, d, now)
        BY <1>2, <4>1 DEF Verifying, Idle
      <4>2. CASE ~Blocked(t, d, now)
        <5>1. req'[r] = [req[r] EXCEPT !.pc = "verify", !.now = 0]
          BY <1>2, <4>2
        <5>2. req'[r].client = req[r].client
          BY <1>2, <5>1
        <5> QED BY <3>2, <5>2 DEF Verifying, BucketOfReq
      <4> QED BY <4>1, <4>2
    <3> QED BY <3>1, <3>2
  <2>5. \A q \in Requests \ {r} : req'[q] = req[q]
    BY <1>2
  <2>6. Verifying(b)' \subseteq Verifying(b)
    BY <2>4, <2>5 DEF Verifying, BucketOfReq
  <2> QED BY <1>1, <2>1, <2>6 DEF InBlock
<1> QED BY <1>3, QuietLate DEF Check

\* A late login is one of those that were let in before.
LEMMA VerifyLate ==
  ASSUME Inv, LateInv, NEW r \in Requests, Verify(r)
  PROVE  LateInv'
<1> DEFINE d == BucketOfReq(r)
<1>1. /\ clock' = clock /\ table' = table /\ d \in Buckets
      /\ late' = [late EXCEPT ![d] = IF InBlock(d, clock) THEN late[d] + 1 ELSE late[d]]
      /\ late \in [Buckets -> Nat]
  BY RequestsAssumption DEF Verify, BucketOfReq, Inv, ReqInv, LateInv
<1>2. /\ r \in Verifying(d)
      /\ \A b \in Buckets : Verifying(b)' = Verifying(b) \ {r}
  <2>1. /\ req[r].pc = "verify" /\ req'[r].pc # "verify"
        /\ \A q \in Requests \ {r} : req'[q] = req[q]
    BY DEF Verify, Inv, ReqInv
  <2> QED BY <2>1 DEF Verifying, BucketOfReq
<1>3. \A b \in Buckets : b # d => r \notin Verifying(b)
  BY DEF Verifying
<1> HIDE DEF d
<1>4. \A b \in Buckets : InBlock(b, clock)' <=> InBlock(b, clock)
  BY <1>1 DEF InBlock
<1>5. ASSUME NEW b \in Buckets
      PROVE  /\ late'[b] \in Nat /\ late'[b] < Cardinality(Requests)
             /\ InBlock(b, clock)' => late'[b] + Cardinality(Verifying(b)') < Cardinality(Requests)
  <2> DEFINE n == Cardinality(Requests)
             v == Cardinality(Verifying(b))
             w == Cardinality(Verifying(b)')
  <2>1. n \in Nat /\ v \in Nat
    BY VerifyingCounts
  <2>2. late[b] \in Nat /\ late[b] < n /\ (InBlock(b, clock) => late[b] + v < n)
    BY DEF LateInv
  <2>3. CASE b = d
    <3>1. w = v - 1
      BY <1>2, <2>3, VerifyingCounts
    <3>2. w \in Nat
      <4>1. IsFiniteSet(Verifying(b) \ {r})
        BY VerifyingCounts, FS_Subset
      <4> QED BY <1>2, <4>1, FS_CardinalityType
    <3>3. late'[b] = IF InBlock(b, clock) THEN late[b] + 1 ELSE late[b]
      BY <1>1, <2>3
    <3> HIDE DEF n, v, w
    <3> QED BY <1>4, <2>1, <2>2, <3>1, <3>2, <3>3 DEF n, w
  <2>4. CASE b # d
    <3>1. w = v
      <4>1. Verifying(b)' = Verifying(b)
        BY <1>2, <1>3, <2>4
      <4> QED BY <4>1
    <3>2. late'[b] = late[b]
      BY <1>1, <2>4
    <3> HIDE DEF n, v, w
    <3> QED BY <1>4, <2>1, <2>2, <3>1, <3>2 DEF n, w
  <2> QED BY <2>3, <2>4
<1>6. late' \in [Buckets -> Nat]
  BY <1>1, <1>5
<1> QED BY <1>5, <1>6 DEF LateInv

\* A success removes the entry, and with it the block.
LEMMA RecordSuccessLate ==
  ASSUME Inv, LateInv, NEW r \in Requests, RecordSuccess(r)
  PROVE  LateInv'
<1> DEFINE d == BucketOfReq(r)
<1>1. /\ clock' = clock /\ table' = Without(table, d) /\ late' = [late EXCEPT ![d] = 0]
      /\ late \in [Buckets -> Nat]
  BY DEF RecordSuccess, LateInv
<1>2. \A b \in Buckets : Verifying(b)' \subseteq Verifying(b)
  BY DEF Verifying, BucketOfReq, RecordSuccess, Idle, Inv, ReqInv
<1> HIDE DEF d
<1>3. \A b \in Buckets : InBlock(b, clock)' => InBlock(b, clock) /\ b # d
  BY <1>1 DEF Without, InBlock
<1>4. ASSUME NEW b \in Buckets
      PROVE  /\ late'[b] \in Nat /\ late'[b] < Cardinality(Requests)
             /\ InBlock(b, clock)' => late'[b] + Cardinality(Verifying(b)') < Cardinality(Requests)
  <2>1. CASE b = d
    <3>1. late'[b] = 0 /\ Cardinality(Requests) \in Nat \ {0}
      BY <1>1, <2>1, VerifyingCounts
    <3> QED BY <1>3, <2>1, <3>1
  <2>2. CASE b # d
    <3> DEFINE before == Verifying(b)
               after  == Verifying(b)'
    <3>1. late'[b] = late[b] /\ late[b] \in Nat /\ late[b] < Cardinality(Requests)
          /\ (InBlock(b, clock)' => late[b] + Cardinality(before) < Cardinality(Requests))
      BY <1>1, <1>3, <2>2 DEF LateInv
    <3>2. IsFiniteSet(before) /\ Cardinality(before) \in Nat /\ Cardinality(Requests) \in Nat
      BY VerifyingCounts
    <3>3. after \subseteq before
      BY <1>2
    <3> HIDE DEF before, after
    <3>4. Cardinality(after) \in Nat /\ Cardinality(after) <= Cardinality(before)
      BY <3>2, <3>3, FS_Subset, FS_CardinalityType
    <3> QED BY <3>1, <3>2, <3>4 DEF after
  <2> QED BY <2>1, <2>2
<1>5. late' \in [Buckets -> Nat]
  BY <1>1, <1>4
<1> QED BY <1>4, <1>5 DEF LateInv

\* The failure that sets a block is itself no longer under way.
LEMMA RecordFailureLate ==
  ASSUME Inv, LateInv, NEW r \in Requests, RecordFailure(r)
  PROVE  LateInv'
<1> DEFINE d   == BucketOfReq(r)
           now == req[r].now
<1>1. /\ clock \in Times /\ now \in Times /\ now <= clock
      /\ clock' = clock /\ table' = Failed(table, d, now)
      /\ late' = [late EXCEPT ![d] = IF InBlock(d, now) THEN late[d] ELSE 0]
      /\ late \in [Buckets -> Nat]
  BY DEF RecordFailure, LateInv, Inv, ReqInv
<1>2. \A b \in Buckets : Verifying(b)' \subseteq Verifying(b) /\ r \notin Verifying(b)
  BY DEF Verifying, BucketOfReq, RecordFailure, Idle, Inv, ReqInv
<1> HIDE DEF d, now
<1>3. ASSUME NEW b \in Buckets, b = d => InBlock(b, now)
      PROVE  late'[b] = late[b] /\ (InBlock(b, clock)' => InBlock(b, clock))
  <2>1. late'[b] = late[b]
    BY <1>1, <1>3
  <2>2. CASE b = d
    <3>1. b \in DOMAIN table /\ Active(table[b], now) /\ EntryOK(table[b], clock)
      BY <1>3, <2>2 DEF InBlock, Inv, TableInv
    <3>2. table'[b] = [table[b] EXCEPT !.seen = now]
      BY <1>1, <2>2, <3>1 DEF Failed, EntryAt, AfterFailure
    <3>3. table'[b].until = table[b].until
      BY <3>1, <3>2 DEF EntryOK
    <3> QED BY <1>1, <2>1, <3>1, <3>3 DEF InBlock, Active
  <2>3. CASE b # d
    BY <1>1, <2>1, <2>3 DEF Failed, InBlock
  <2> QED BY <2>2, <2>3
<1>4. ASSUME NEW b \in Buckets
      PROVE  /\ late'[b] \in Nat /\ late'[b] < Cardinality(Requests)
             /\ InBlock(b, clock)' => late'[b] + Cardinality(Verifying(b)') < Cardinality(Requests)
  <2> DEFINE before == Verifying(b)
             after  == Verifying(b)'
  <2>1. /\ IsFiniteSet(before) /\ Cardinality(before) \in Nat
        /\ Cardinality(Requests) \in Nat \ {0}
        /\ Cardinality(before) < Cardinality(Requests)
    BY <1>2, VerifyingCounts
  <2>2. after \subseteq before
    BY <1>2
  <2> HIDE DEF before, after
  <2>3. Cardinality(after) \in Nat /\ Cardinality(after) <= Cardinality(before)
    BY <2>1, <2>2, FS_Subset, FS_CardinalityType
  <2>4. CASE b = d => InBlock(b, now)
    <3>1. late'[b] = late[b] /\ (InBlock(b, clock)' => InBlock(b, clock))
      BY <1>3, <2>4
    <3>2. late[b] \in Nat /\ late[b] < Cardinality(Requests)
          /\ (InBlock(b, clock) => late[b] + Cardinality(before) < Cardinality(Requests))
      BY DEF LateInv, before
    <3> QED BY <2>1, <2>3, <3>1, <3>2 DEF after
  <2>5. CASE b = d /\ ~InBlock(b, now)
    <3>1. late'[b] = 0
      BY <1>1, <2>5
    <3> QED BY <2>1, <2>3, <3>1 DEF after
  <2> QED BY <2>4, <2>5
<1>5. late' \in [Buckets -> Nat]
  BY <1>1, <1>4
<1> QED BY <1>4, <1>5 DEF LateInv

\* Every step keeps the count of late logins.
LEMMA LatePreserved == Inv /\ LateInv /\ [Next]_vars => LateInv'
<1> SUFFICES ASSUME Inv, LateInv, [Next]_vars PROVE LateInv'
  OBVIOUS
<1>1. CASE UNCHANGED vars
  <2>1. \A b \in Buckets : Verifying(b)' = Verifying(b) /\ (InBlock(b, clock)' <=> InBlock(b, clock))
    BY <1>1 DEF vars, Verifying, BucketOfReq, InBlock
  <2> QED BY <1>1, <2>1, QuietLate DEF vars
<1> QED
  BY <1>1, TickLate, ArriveLate, CheckLate, VerifyLate, RecordSuccessLate, RecordFailureLate DEF Next

\* Fewer logins than there are requests at once slip past a block, since the
\* request that set it is not among them (auth.rs: require_basic).
THEOREM LateLogins == Spec => []LateLoginsBounded
<1>1. LateInv => LateLoginsBounded
  BY DEF LateInv, LateLoginsBounded
<1> QED BY <1>1, InitLate, LatePreserved, Invariance, PTL DEF Spec
==============================================================================
