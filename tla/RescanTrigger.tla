---------------------------- MODULE RescanTrigger ----------------------------
(***************************************************************************)
(* How a scan of the library comes to be started: the scan loop of         *)
(* scan.rs with its bounded channel, the watcher thread, the poller task,  *)
(* POST /admin/rescan, and the order in which main.rs starts them.         *)
(*                                                                         *)
(* The content of a scan is LibraryScan's business; here a scan is the     *)
(* interval between StartScan and FinishScan, and the library is a         *)
(* counter of the states it has been in.  Every sender uses try_send, so   *)
(* a request met by a full channel is dropped and reported as "already     *)
(* pending": the module is about whether that answer is ever wrong.        *)
(***************************************************************************)
EXTENDS Naturals, Sequences

CONSTANTS
    Capacity,      \* capacity of the scan channel (1 in scan.rs)
    MaxVersion,    \* bound: states the library goes through
    MaxInbox,      \* bound: debouncer results waiting for the watcher thread
    MaxFaults      \* bound: restarts, panics, watcher failures

ASSUME CapacityAssumption == Capacity \in Nat \ {0}
ASSUME BoundsAssumption ==
    /\ MaxVersion \in Nat \ {0}
    /\ MaxInbox \in Nat
    /\ MaxFaults \in Nat

VARIABLES
    options,     \* the command line: --no-scan, --no-watch, --scan-interval
    main,        \* how far main() has come: "watcher", "poller", "serve", "serving"
    loop,        \* the scan loop: "starting", "idle", "draining", "scanning", "gone"
    chan,        \* number of tokens in the scan channel
    watcher,     \* the watcher thread: "off", "on"
    poller,      \* the poller task: "off", "on"
    unreported,  \* the debouncer holds file system events it has not delivered
    inbox,       \* debouncer results sent to the watcher thread, in order
    lost,        \* the debouncer reported an error in place of events
    faults,      \* faults so far
    version,     \* history: the state the library is in
    noticed,     \* history: the last library state made while it was watched
    requested,   \* history: the library state at the last accepted request
    startedAt    \* history: the library state when the last scan started

process == <<main, loop, chan, watcher, poller>>
events  == <<unreported, inbox, lost>>
history == <<version, noticed, requested, startedAt>>
vars    == <<options, process, events, faults, history>>

Results == {"events", "empty", "errors"}

Receiving == loop # "gone"      \* the receiver half of the channel exists

Init ==
    /\ options \in [scan : BOOLEAN, watch : BOOLEAN, poll : BOOLEAN]
    /\ main = IF options.scan THEN "watcher" ELSE "serve"
    /\ loop = IF options.scan THEN "starting" ELSE "gone"
    /\ chan = 0
    /\ watcher = "off"
    /\ poller = "off"
    /\ unreported = FALSE
    /\ inbox = <<>>
    /\ lost = FALSE
    /\ faults = 0
    /\ version = 1
    /\ noticed = 0
    /\ requested = 0
    /\ startedAt = 0
------------------------------------------------------------------------------
(* tx.try_send(()): a request is accepted when a token is put in the       *)
(* channel or one is already there.                                        *)

\* mutant: an unbounded channel
SentPastCapacity ==
    /\ Receiving
    /\ chan' = chan + 1
    /\ requested' = version

Sent ==
    /\ Receiving
    /\ chan < Capacity
    /\ chan' = chan + 1
    /\ requested' = version

Full ==
    /\ Receiving
    /\ chan = Capacity
    /\ requested' = version
    /\ UNCHANGED chan

Closed ==
    /\ ~Receiving
    /\ UNCHANGED <<chan, requested>>
------------------------------------------------------------------------------
(* The library folder and the debouncer.                                   *)

LibraryChange ==
    /\ version < MaxVersion
    /\ version' = version + 1
    /\ IF watcher = "on"
       THEN noticed' = version' /\ unreported' = TRUE
       ELSE UNCHANGED <<noticed, unreported>>
    /\ UNCHANGED <<options, process, inbox, lost, faults, requested, startedAt>>

\* mutant: what happens during a scan is left to that scan
DeliversUnlessScanning ==
    /\ unreported
    /\ Len(inbox) < MaxInbox
    /\ unreported' = FALSE
    /\ inbox' = IF loop = "scanning" THEN inbox ELSE Append(inbox, "events")
    /\ UNCHANGED <<options, process, lost, faults, history>>

DebouncerDelivers ==
    /\ unreported
    /\ Len(inbox) < MaxInbox
    /\ unreported' = FALSE
    /\ inbox' = Append(inbox, "events")
    /\ UNCHANGED <<options, process, lost, faults, history>>

\* Events that cancel out within the debounce time leave an empty batch
\* (a file created and removed again); the library is as it was.
DebouncerDeliversNothing ==
    /\ watcher = "on"
    /\ ~unreported
    /\ Len(inbox) < MaxInbox
    /\ inbox' = Append(inbox, "empty")
    /\ UNCHANGED <<options, process, unreported, lost, faults, history>>

\* An error is delivered in place of the events it concerns.
DebouncerFails ==
    /\ unreported
    /\ faults < MaxFaults
    /\ Len(inbox) < MaxInbox
    /\ faults' = faults + 1
    /\ unreported' = FALSE
    /\ lost' = TRUE
    /\ inbox' = Append(inbox, "errors")
    /\ UNCHANGED <<options, process, history>>
------------------------------------------------------------------------------
(* main(): the scan loop is spawned first, then the watcher, the poller    *)
(* and the HTTP server.                                                    *)

\* watcher::spawn; a failure is logged and the program goes on without it.
StartWatcher ==
    /\ main = "watcher"
    /\ main' = "poller"
    /\ \/ /\ options.watch
          /\ watcher' = "on"
          /\ UNCHANGED faults
       \/ /\ options.watch
          /\ faults < MaxFaults
          /\ faults' = faults + 1
          /\ UNCHANGED watcher
       \/ /\ ~options.watch
          /\ UNCHANGED <<watcher, faults>>
    /\ UNCHANGED <<options, loop, chan, poller, events, history>>

StartPoller ==
    /\ main = "poller"
    /\ main' = "serve"
    /\ poller' = IF options.poll THEN "on" ELSE "off"
    /\ UNCHANGED <<options, loop, chan, watcher, events, faults, history>>

StartServing ==
    /\ main = "serve"
    /\ main' = "serving"
    /\ UNCHANGED <<options, loop, chan, watcher, poller, events, faults, history>>
------------------------------------------------------------------------------
(* The senders.                                                            *)

\* mutant: an empty batch ends the thread
WatcherEndsOnEmpty ==
    /\ watcher = "on"
    /\ inbox # <<>>
    /\ inbox' = Tail(inbox)
    /\ \/ /\ Head(inbox) = "events"
          /\ Sent \/ Full
          /\ UNCHANGED watcher
       \/ /\ Head(inbox) # "events"
          /\ watcher' = IF Head(inbox) = "empty" THEN "off" ELSE watcher
          /\ UNCHANGED <<chan, requested>>
    /\ UNCHANGED <<options, main, loop, poller, unreported, lost, faults,
                   version, noticed, startedAt>>

\* One result taken from the debouncer's channel; only a batch of events
\* asks for a scan, and only a closed channel ends the thread.
WatcherStep ==
    /\ watcher = "on"
    /\ inbox # <<>>
    /\ inbox' = Tail(inbox)
    /\ \/ /\ Head(inbox) = "events"
          /\ Sent \/ Full
          /\ UNCHANGED watcher
       \/ /\ Head(inbox) = "events"
          /\ Closed
          /\ watcher' = "off"
       \/ /\ Head(inbox) # "events"
          /\ UNCHANGED <<chan, requested, watcher>>
    /\ UNCHANGED <<options, main, loop, poller, unreported, lost, faults,
                   version, noticed, startedAt>>

\* mutant: a full channel ends the poller
PollerEndsOnFull ==
    /\ poller = "on"
    /\ \/ Sent /\ UNCHANGED poller
       \/ (Full \/ Closed) /\ poller' = "off"
    /\ UNCHANGED <<options, main, loop, watcher, events, faults,
                   version, noticed, startedAt>>

PollerTick ==
    /\ poller = "on"
    /\ \/ /\ Sent \/ Full
          /\ UNCHANGED poller
       \/ /\ Closed
          /\ poller' = "off"
    /\ UNCHANGED <<options, main, loop, watcher, events, faults,
                   version, noticed, startedAt>>

\* POST /admin/rescan: 202 for Sent and Full, 503 for Closed.
AdminRescan ==
    /\ main = "serving"
    /\ Sent \/ Full \/ Closed
    /\ UNCHANGED <<options, main, loop, watcher, poller, events, faults,
                   version, noticed, startedAt>>
------------------------------------------------------------------------------
(* The scan loop.                                                          *)

\* mutant: the loop waits for its first trigger
LoopStartsUnasked ==
    /\ loop = "starting"
    /\ loop' = "idle"
    /\ UNCHANGED <<options, main, chan, watcher, poller, events, faults, history>>

\* The task's first act: a token for the initial scan.
LoopStart ==
    /\ loop = "starting"
    /\ loop' = "idle"
    /\ Sent \/ Full
    /\ UNCHANGED <<options, main, watcher, poller, events, faults,
                   version, noticed, startedAt>>

Recv ==
    /\ loop = "idle"
    /\ chan > 0
    /\ chan' = chan - 1
    /\ loop' = "draining"
    /\ UNCHANGED <<options, main, watcher, poller, events, faults, history>>

\* while rx.try_recv().is_ok() {}
Drain ==
    /\ loop = "draining"
    /\ chan > 0
    /\ chan' = chan - 1
    /\ UNCHANGED <<options, main, loop, watcher, poller, events, faults, history>>

StartScan ==
    /\ loop = "draining"
    /\ chan = 0
    /\ loop' = "scanning"
    /\ startedAt' = version
    /\ UNCHANGED <<options, main, chan, watcher, poller, events, faults,
                   version, noticed, requested>>

\* mutant: the channel is drained after the scan
FinishScanDrains ==
    /\ loop = "scanning"
    /\ loop' = "idle"
    /\ chan' = 0
    /\ UNCHANGED <<options, main, watcher, poller, events, faults, history>>

\* scan() returned; an Err is logged and nothing else follows from it.
FinishScan ==
    /\ loop = "scanning"
    /\ loop' = "idle"
    /\ UNCHANGED <<options, main, chan, watcher, poller, events, faults, history>>

\* A panic inside scan() ends the task and drops the receiver.
ScanPanics ==
    /\ loop = "scanning"
    /\ faults < MaxFaults
    /\ faults' = faults + 1
    /\ loop' = "gone"
    /\ UNCHANGED <<options, main, chan, watcher, poller, events, history>>

\* The process dies and is started again with the same options.
Restart ==
    /\ options.scan
    /\ faults < MaxFaults
    /\ faults' = faults + 1
    /\ main' = "watcher"
    /\ loop' = "starting"
    /\ chan' = 0
    /\ watcher' = "off"
    /\ poller' = "off"
    /\ unreported' = FALSE
    /\ inbox' = <<>>
    /\ lost' = FALSE
    /\ UNCHANGED <<options, history>>

Next ==
    \/ LibraryChange \/ DebouncerDelivers \/ DebouncerDeliversNothing
    \/ DebouncerFails
    \/ StartWatcher \/ StartPoller \/ StartServing
    \/ WatcherStep \/ PollerTick \/ AdminRescan
    \/ LoopStart \/ Recv \/ Drain \/ StartScan \/ FinishScan \/ ScanPanics
    \/ Restart

(* Threads and tasks that can run do run, and a scan ends.  The drain loop *)
(* is a handful of instructions, far shorter than the time between two     *)
(* sends, so it is not starved for ever by senders that refill the         *)
(* channel: it sees it empty if it is empty again and again.  Nothing      *)
(* obliges the user: no fairness on LibraryChange or AdminRescan.          *)
Fairness ==
    /\ WF_vars(StartWatcher) /\ WF_vars(StartPoller) /\ WF_vars(StartServing)
    /\ WF_vars(DebouncerDelivers \/ DebouncerFails)
    /\ WF_vars(WatcherStep)
    /\ WF_vars(PollerTick)
    /\ WF_vars(LoopStart) /\ WF_vars(Recv) /\ WF_vars(Drain)
    /\ SF_vars(StartScan)
    /\ WF_vars(FinishScan \/ ScanPanics)

SafeSpec == Init /\ [][Next]_vars
Spec == SafeSpec /\ Fairness
------------------------------------------------------------------------------
\* A scan is owed: a token is in the channel, or one has been taken out of
\* it (or is about to be put in) for a scan that has not started.
Owed == chan > 0 \/ loop \in {"starting", "draining"}

(* The type of every variable.  The channel never holds more than its      *)
(* capacity (scan.rs:51).                                                  *)
TypeOK ==
    /\ options \in [scan : BOOLEAN, watch : BOOLEAN, poll : BOOLEAN]
    /\ main \in {"watcher", "poller", "serve", "serving"}
    /\ loop \in {"starting", "idle", "draining", "scanning", "gone"}
    /\ chan \in 0..Capacity
    /\ watcher \in {"off", "on"}
    /\ poller \in {"off", "on"}
    /\ unreported \in BOOLEAN
    /\ inbox \in Seq(Results)
    /\ Len(inbox) <= MaxInbox
    /\ lost \in BOOLEAN
    /\ faults \in 0..MaxFaults
    /\ version \in 1..MaxVersion
    /\ noticed \in 0..MaxVersion
    /\ requested \in 0..MaxVersion
    /\ startedAt \in 0..MaxVersion

(* A request that was accepted, with a token or with "already pending", is *)
(* never forgotten: as long as there is a scan loop, either a scan started *)
(* after it or one is still owed.  It is what makes it safe to drop a      *)
(* request on a full channel and to drain the channel before a scan.       *)
NoLostRequest ==
    (Receiving /\ requested > startedAt) => Owed

(* The same for the watcher: a change made while the library was watched,  *)
(* whose events the debouncer did not lose, is somewhere on its way to a   *)
(* scan until a scan has started after it, restarts included.              *)
NoLostNotice ==
    (Receiving /\ noticed > startedAt /\ ~lost) =>
        \/ Owed
        \/ watcher = "on" /\ unreported
        \/ watcher = "on" /\ \E i \in DOMAIN inbox : inbox[i] = "events"

\* The channel and its drain loop implement a flag: a request raises it,
\* starting a scan lowers it.
Service == INSTANCE ScanService WITH pending <- Owed, open <- Receiving

(* The scan loop keeps the promise of ScanService, fairness included:      *)
(* every owed scan starts, unless the loop is gone.                        *)
Promise == Service!Spec

(* A change made while the library is watched is scanned, unless the       *)
(* debouncer lost events or there is no scan loop any more.                *)
NoticedChangeScanned ==
    \A v \in 1..MaxVersion :
        (noticed >= v) ~> (startedAt >= v \/ lost \/ ~Receiving)

(* With --scan-interval every change is scanned, watched or not, whatever  *)
(* the watcher missed.                                                     *)
PolledChangeScanned ==
    \A v \in 1..MaxVersion :
        (options.poll /\ version >= v) ~> (startedAt >= v \/ ~Receiving)

(* README, "Detecting new comics": "ComicStream watches your library       *)
(* folder and refreshes the catalog as you add or remove files."  Read as: *)
(* once the watcher runs and has lost nothing, what changes is scanned.    *)
WatchedLibraryIsRefreshed ==
    \A v \in 1..MaxVersion :
        (watcher = "on" /\ version >= v)
            ~> (startedAt >= v \/ lost \/ ~Receiving \/ watcher = "off")
==============================================================================
