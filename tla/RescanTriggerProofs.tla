------------------------- MODULE RescanTriggerProofs -------------------------
(***************************************************************************)
(* What TLAPS proves of RescanTrigger, for every capacity of the channel   *)
(* and every value of the bounds.  Liveness is left to TLC.                *)
(***************************************************************************)
EXTENDS RescanTrigger, TLAPS

USE CapacityAssumption, BoundsAssumption

\* The initial values have the right types.
LEMMA TypingInit == Init => TypeOK
<1> SUFFICES ASSUME Init PROVE TypeOK
  OBVIOUS
<1>1. inbox \in Seq(Results) /\ Len(inbox) <= MaxInbox
  BY DEF Init
<1>2. main \in {"watcher", "poller", "serve", "serving"}
  BY DEF Init
<1>3. loop \in {"starting", "idle", "draining", "scanning", "gone"}
  BY DEF Init
<1>4. /\ chan \in 0..Capacity /\ faults \in 0..MaxFaults
      /\ version \in 1..MaxVersion /\ noticed \in 0..MaxVersion
      /\ requested \in 0..MaxVersion /\ startedAt \in 0..MaxVersion
  BY DEF Init
<1> QED BY <1>1, <1>2, <1>3, <1>4 DEF Init, TypeOK

\* try_send keeps the channel within its capacity, whatever it answers.
LEMMA SendTyping ==
  ASSUME TypeOK, Sent \/ Full \/ Closed
  PROVE  chan' \in 0..Capacity /\ requested' \in 0..MaxVersion
  BY DEF TypeOK, Sent, Full, Closed

\* No step of any thread or task leaves the types.
LEMMA TypingStep == TypeOK /\ [Next]_vars => TypeOK'
<1> SUFFICES ASSUME TypeOK, [Next]_vars PROVE TypeOK'
  OBVIOUS
<1> USE DEF process, events, history
<1>1. CASE LibraryChange
  <2>1. version' \in 1..MaxVersion
    BY <1>1 DEF LibraryChange, TypeOK
  <2>2. noticed' \in 0..MaxVersion
    BY <1>1, <2>1 DEF LibraryChange, TypeOK
  <2>3. unreported' \in BOOLEAN
    BY <1>1 DEF LibraryChange, TypeOK
  <2> QED BY <1>1, <2>1, <2>2, <2>3 DEF LibraryChange, TypeOK
<1>2. CASE DebouncerDelivers
  <2>1. inbox' \in Seq(Results) /\ Len(inbox') <= MaxInbox
    BY <1>2 DEF DebouncerDelivers, TypeOK, Results
  <2> QED BY <1>2, <2>1 DEF DebouncerDelivers, TypeOK
<1>3. CASE DebouncerDeliversNothing
  <2>1. inbox' \in Seq(Results) /\ Len(inbox') <= MaxInbox
    BY <1>3 DEF DebouncerDeliversNothing, TypeOK, Results
  <2> QED BY <1>3, <2>1 DEF DebouncerDeliversNothing, TypeOK
<1>4. CASE DebouncerFails
  <2>1. inbox' \in Seq(Results) /\ Len(inbox') <= MaxInbox
    BY <1>4 DEF DebouncerFails, TypeOK, Results
  <2>2. faults' \in 0..MaxFaults
    BY <1>4 DEF DebouncerFails, TypeOK
  <2> QED BY <1>4, <2>1, <2>2 DEF DebouncerFails, TypeOK
<1>5. CASE StartWatcher
  BY <1>5 DEF StartWatcher, TypeOK
<1>6. CASE StartPoller
  BY <1>6 DEF StartPoller, TypeOK
<1>7. CASE StartServing
  BY <1>7 DEF StartServing, TypeOK
<1>8. CASE WatcherStep
  <2>1. inbox' \in Seq(Results) /\ Len(inbox') <= MaxInbox
    BY <1>8 DEF WatcherStep, TypeOK
  <2>2. chan' \in 0..Capacity /\ requested' \in 0..MaxVersion
    BY <1>8, SendTyping DEF WatcherStep, TypeOK
  <2> QED BY <1>8, <2>1, <2>2 DEF WatcherStep, TypeOK
<1>9. CASE PollerTick
  BY <1>9, SendTyping DEF PollerTick, TypeOK
<1>10. CASE AdminRescan
  BY <1>10, SendTyping DEF AdminRescan, TypeOK
<1>11. CASE LoopStart
  BY <1>11, SendTyping DEF LoopStart, TypeOK
<1>12. CASE Recv
  BY <1>12 DEF Recv, TypeOK
<1>13. CASE Drain
  BY <1>13 DEF Drain, TypeOK
<1>14. CASE StartScan
  BY <1>14 DEF StartScan, TypeOK
<1>15. CASE FinishScan
  BY <1>15 DEF FinishScan, TypeOK
<1>16. CASE ScanPanics
  BY <1>16 DEF ScanPanics, TypeOK
<1>17. CASE Restart
  <2>1. inbox' \in Seq(Results) /\ Len(inbox') <= MaxInbox
    BY <1>17 DEF Restart
  <2>2. faults' \in 0..MaxFaults
    BY <1>17 DEF Restart, TypeOK
  <2>3. chan' \in 0..Capacity
    BY <1>17 DEF Restart
  <2> QED BY <1>17, <2>1, <2>2, <2>3 DEF Restart, TypeOK
<1>18. CASE UNCHANGED vars
  BY <1>18 DEF vars, TypeOK
<1> QED
  BY <1>1, <1>2, <1>3, <1>4, <1>5, <1>6, <1>7, <1>8, <1>9, <1>10, <1>11,
     <1>12, <1>13, <1>14, <1>15, <1>16, <1>17, <1>18 DEF Next

(* In every state of every behaviour the variables have their types; in    *)
(* particular the channel holds at most Capacity tokens (scan.rs:51).      *)
THEOREM Typing == SafeSpec => []TypeOK
<1> QED BY TypingInit, TypingStep, PTL DEF SafeSpec
------------------------------------------------------------------------------
\* An accepted request leaves a token behind and touches nothing else.
LEMMA SendOwes ==
  ASSUME TypeOK, Sent \/ Full
  PROVE  Receiving /\ chan' > 0 /\ requested' = version
  BY DEF TypeOK, Sent, Full

\* The invariant is inductive: the history counters never run ahead of the
\* library, so starting a scan answers every request made so far.  It also
\* needs to know that a library nobody watches has no undelivered events and
\* that the thread that watches is gone only when the loop is.
NoLostInv ==
  /\ requested <= version
  /\ noticed <= version
  /\ NoLostRequest
  /\ NoLostNotice

\* Every step keeps the two parts of NoLostInv.
LEMMA NoLostStep ==
  ASSUME TypeOK, NoLostInv, [Next]_vars
  PROVE  NoLostInv'
<1> USE DEF process, events, history, NoLostInv, NoLostRequest, NoLostNotice,
            Owed, Receiving
<1>1. CASE LibraryChange
  BY <1>1 DEF LibraryChange, TypeOK
<1>2. CASE DebouncerDelivers
  <2>1. inbox' = Append(inbox, "events") /\ UNCHANGED <<process, history, lost>>
    BY <1>2 DEF DebouncerDelivers
  <2>2. Len(inbox) + 1 \in DOMAIN inbox' /\ inbox'[Len(inbox) + 1] = "events"
    BY <2>1 DEF TypeOK
  <2>3. \E i \in DOMAIN inbox' : inbox'[i] = "events"
    BY <2>2
  <2>4. (noticed' > startedAt' /\ ~lost' /\ Receiving') => watcher' = "on" \/ Owed'
    BY <2>1
  <2> QED BY <2>1, <2>3, <2>4
<1>3. CASE DebouncerDeliversNothing
  <2>1. inbox' = Append(inbox, "empty")
        /\ UNCHANGED <<process, history, lost, unreported>>
    BY <1>3 DEF DebouncerDeliversNothing
  <2>2. \A i \in DOMAIN inbox : i \in DOMAIN inbox' /\ inbox'[i] = inbox[i]
    BY <2>1 DEF TypeOK
  <2> QED BY <2>1, <2>2
<1>4. CASE DebouncerFails
  BY <1>4 DEF DebouncerFails
<1>5. CASE StartWatcher
  BY <1>5 DEF StartWatcher
<1>6. CASE StartPoller
  BY <1>6 DEF StartPoller
<1>7. CASE StartServing
  BY <1>7 DEF StartServing
<1>8. CASE WatcherStep
  <2>1. CASE Head(inbox) = "events" /\ (Sent \/ Full)
    <3>1. chan' > 0 /\ requested' = version
      BY <2>1, SendOwes
    <3> QED BY <1>8, <3>1 DEF WatcherStep, TypeOK
  <2>2. CASE Head(inbox) = "events" /\ Closed
    BY <1>8, <2>2 DEF WatcherStep, Closed
  <2>3. CASE Head(inbox) # "events" /\ UNCHANGED <<chan, requested, watcher>>
    <3>1. \A i \in DOMAIN inbox : inbox[i] = "events" =>
             i - 1 \in DOMAIN inbox' /\ inbox'[i - 1] = "events"
      BY <1>8, <2>3 DEF WatcherStep, TypeOK
    <3> QED BY <1>8, <2>3, <3>1 DEF WatcherStep
  <2> QED BY <1>8, <2>1, <2>2, <2>3 DEF WatcherStep
<1>9. CASE PollerTick
  BY <1>9, SendOwes DEF PollerTick, TypeOK, Closed
<1>10. CASE AdminRescan
  BY <1>10, SendOwes DEF AdminRescan, TypeOK, Closed
<1>11. CASE LoopStart
  BY <1>11, SendOwes DEF LoopStart, TypeOK
<1>12. CASE Recv
  BY <1>12 DEF Recv
<1>13. CASE Drain
  BY <1>13 DEF Drain
<1>14. CASE StartScan
  BY <1>14 DEF StartScan, TypeOK
<1>15. CASE FinishScan
  BY <1>15 DEF FinishScan
<1>16. CASE ScanPanics
  BY <1>16 DEF ScanPanics
<1>17. CASE Restart
  BY <1>17 DEF Restart
<1>18. CASE UNCHANGED vars
  BY <1>18 DEF vars
<1> QED
  BY <1>1, <1>2, <1>3, <1>4, <1>5, <1>6, <1>7, <1>8, <1>9, <1>10, <1>11,
     <1>12, <1>13, <1>14, <1>15, <1>16, <1>17, <1>18 DEF Next

\* So NoLostInv holds throughout.
LEMMA NoLostAlways == SafeSpec => []NoLostInv
<1>1. Init => NoLostInv
  BY DEF Init, NoLostInv, NoLostRequest, NoLostNotice, Owed, Receiving
<1> QED BY <1>1, NoLostStep, Typing, PTL DEF SafeSpec

(* However senders, drain loop and scans interleave, and however often the *)
(* process is restarted, an accepted request ("queued" or "already         *)
(* pending", routes.rs:86) is followed by the start of a scan or a scan is *)
(* still owed.                                                             *)
THEOREM RequestsAreKept == SafeSpec => []NoLostRequest
<1>1. NoLostInv => NoLostRequest
  BY DEF NoLostInv
<1> QED BY <1>1, NoLostAlways, PTL

(* A change noticed by the watcher is on its way to a scan until a scan    *)
(* has started after it.                                                   *)
THEOREM NoticesAreKept == SafeSpec => []NoLostNotice
<1>1. NoLostInv => NoLostNotice
  BY DEF NoLostInv
<1> QED BY <1>1, NoLostAlways, PTL
------------------------------------------------------------------------------
(* Refinement: each step of the trigger is a step of ScanService or none.  *)

\* A starting process owes the initial scan, one with --no-scan has no scanner.
LEMMA ServiceInit == Init => Service!Init
  BY DEF Init, Service!Init, Owed, Receiving

\* Sending is Service!Request: accepted means owed, full channel or not.
LEMMA SendRequests ==
  ASSUME TypeOK, Sent \/ Full, UNCHANGED <<version, startedAt>>,
         loop' = loop \/ loop' = "idle"
  PROVE  Service!Request
  BY SendOwes DEF Service!Request, Owed, Receiving

\* Every step is a step of the service, or changes nothing it can see.
LEMMA ServiceStep ==
  ASSUME TypeOK, [Next]_vars
  PROVE  [Service!Next]_(Service!vars)
<1> USE DEF process, events, history, Service!vars, Service!Next, Owed, Receiving
<1>1. CASE LibraryChange
  BY <1>1 DEF LibraryChange, Service!Change
<1>2. CASE \/ DebouncerDelivers \/ DebouncerDeliversNothing \/ DebouncerFails
           \/ StartWatcher \/ StartPoller \/ StartServing
  BY <1>2 DEF DebouncerDelivers, DebouncerDeliversNothing, DebouncerFails,
              StartWatcher, StartPoller, StartServing
<1>3. CASE WatcherStep
  BY <1>3, SendRequests DEF WatcherStep, Closed
<1>4. CASE PollerTick
  BY <1>4, SendRequests DEF PollerTick, Closed
<1>5. CASE AdminRescan
  BY <1>5, SendRequests DEF AdminRescan, Closed
<1>6. CASE LoopStart
  BY <1>6, SendRequests DEF LoopStart
<1>7. CASE Recv
  BY <1>7 DEF Recv, TypeOK
<1>8. CASE Drain
  BY <1>8 DEF Drain, TypeOK
<1>9. CASE StartScan
  BY <1>9 DEF StartScan, Service!Scan
<1>10. CASE FinishScan
  BY <1>10 DEF FinishScan
<1>11. CASE ScanPanics
  BY <1>11 DEF ScanPanics, Service!Close
<1>12. CASE Restart
  BY <1>12 DEF Restart, Service!Reopen
<1>13. CASE UNCHANGED vars
  BY <1>13 DEF vars
<1> QED
  BY <1>1, <1>2, <1>3, <1>4, <1>5, <1>6, <1>7, <1>8, <1>9, <1>10, <1>11,
     <1>12, <1>13 DEF Next

(* The safety part of Promise: the channel of capacity Capacity, its drain *)
(* loop and try_send together behave like one flag that a request raises   *)
(* and the start of a scan lowers; no scan starts without a request.       *)
THEOREM TriggerImplementsService == SafeSpec => Service!SafeSpec
<1> QED BY ServiceInit, ServiceStep, Typing, PTL DEF SafeSpec, Service!SafeSpec
==============================================================================
