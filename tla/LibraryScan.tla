---------------------------- MODULE LibraryScan ------------------------------
(***************************************************************************)
(* One scan of the library (scan.rs: scan, upsert_folder, upsert_book)     *)
(* against a file system that changes while it is walked, into a database  *)
(* that survives crashes.                                                  *)
(*                                                                         *)
(* Every SQL statement commits by itself, so the catalogue that a crash,   *)
(* an error or a concurrent reader meets is whatever the statements so far *)
(* have left.  A path stands for itself; a file is a content and a         *)
(* modification time in whole seconds; the hash of a file is the content   *)
(* that was hashed, its pages the content that was opened.                 *)
(***************************************************************************)
EXTENDS Integers, FiniteSets

CONSTANTS
    Folders,      \* directory paths
    Books,        \* paths with the extension of a comic archive
    Parent,       \* the directory a path is in; Nowhere for a top directory
    Nowhere,
    Hidden,       \* paths with an ignored or dotted name (scan.rs:40, 129, 133)
    Roots,        \* directories the program may be started on (--library)
    Contents,     \* what a file may contain
    SizeOf,       \* its size
    Oversize,     \* contents above MAX_ARCHIVE_BYTES (scan.rs:34)
    Readable,     \* archives with between 1 and MAX_PAGES pages
    Absent,       \* no file at this path
    MaxTime,      \* bound: the clock, in seconds
    MaxChanges,   \* bound: changes of the file system
    MaxScans,     \* bound: scans started
    MaxFaults,    \* bound: I/O and database errors, crashes
    ClockSteps,   \* may the wall clock be set back?
    Restamped     \* may a path show a modification time it has shown before?

Paths    == Folders \cup Books
Times    == 1..MaxTime
NoParent == 0            \* parent_id IS NULL; row ids start at 1
NoTime   == 0            \* what mtime_secs returns for an error

ASSUME TreeAssumption ==
    /\ Folders \cap Books = {}
    /\ Nowhere \notin Folders
    /\ Parent \in [Paths -> Folders \cup {Nowhere}]
    /\ \A b \in Books : Parent[b] \in Folders
    /\ Hidden \subseteq Paths
    /\ Roots \subseteq Folders /\ Roots # {}
\* No folder is below itself: what holds its parents is empty.
ASSUME GroundAssumption ==
    \A S \in SUBSET Folders : (\A f \in S : Parent[f] \in S) => S = {}
ASSUME ContentAssumption ==
    /\ SizeOf \in [Contents -> Nat]
    /\ Oversize \subseteq Contents
    /\ Readable \subseteq Contents
    /\ Absent \notin [content : Contents, mtime : Times]
ASSUME BoundsAssumption ==
    /\ MaxTime \in Nat \ {0} /\ MaxChanges \in Nat
    /\ MaxScans \in Nat /\ MaxFaults \in Nat
    /\ ClockSteps \in BOOLEAN /\ Restamped \in BOOLEAN

VARIABLES
    clock,       \* SystemTime::now(), in seconds
    dirs,        \* the directories that exist
    file,        \* the file at each book path
    stamps,      \* history: the modification times each book path has shown
    changes,     \* changes so far
    root,        \* the canonical --library of the running process
    folderDb,    \* table folder: path -> [id, parent, seen]
    bookDb,      \* table book: path -> [folder, hash, pages, size, mtime, added, seen]
    nextId,      \* sqlite_sequence of table folder (AUTOINCREMENT)
    pc,          \* where scan() is
    started,     \* its start time, the seen_at of everything it meets
    pathToId,    \* path_to_id: the row of every folder upserted by this scan
    todo,        \* entries the walker has listed and not yet returned
    cur,         \* the entry in hand
    listing,     \* the children of cur, listed when the walker opened it
    stat,        \* size, mtime and hash that upsert_book has read of cur
    faults, scans,
    touched,     \* history: the paths this scan has upserted
    quiet,       \* history: no change of the files since the scan started
    complete,    \* history: the scan met no error and was not cut short
    fresh        \* history: every row was older than the scan when it started

disk    == <<dirs, file, stamps, changes>>
db      == <<folderDb, bookDb, nextId>>
walk    == <<started, pathToId, todo, cur, listing, stat>>
history == <<touched, quiet, complete, fresh>>
vars    == <<clock, disk, root, db, pc, walk, faults, scans, history>>

NoStat == [size |-> 0, mtime |-> NoTime, hash |-> Absent]

Init ==
    /\ clock = 1
    /\ dirs \in SUBSET Folders
    /\ Roots \subseteq dirs
    /\ \A f \in dirs : Parent[f] \in dirs \cup {Nowhere}
    /\ \E c \in Contents, present \in SUBSET Books :
          /\ \A b \in present : Parent[b] \in dirs
          /\ file = [b \in Books |-> IF b \in present
                                     THEN [content |-> c, mtime |-> 1] ELSE Absent]
          /\ stamps = [b \in Books |-> IF b \in present THEN {1} ELSE {}]
    /\ changes = 0
    /\ root \in Roots
    /\ folderDb = <<>>
    /\ bookDb = <<>>
    /\ nextId = 1
    /\ pc = "idle"
    /\ started = 0
    /\ pathToId = <<>>
    /\ todo = {}
    /\ cur = Nowhere
    /\ listing = {}
    /\ stat = NoStat
    /\ faults = 0
    /\ scans = 0
    /\ touched = {}
    /\ quiet = FALSE
    /\ complete = FALSE
    /\ fresh = FALSE
------------------------------------------------------------------------------
(* The file system and the clock.                                          *)

Tick ==
    /\ IF ClockSteps THEN clock' \in Times \ {clock}
                     ELSE clock' \in Times /\ clock' = clock + 1
    /\ UNCHANGED <<disk, root, db, pc, walk, faults, scans, history>>

Changing ==
    /\ changes < MaxChanges
    /\ changes' = changes + 1
    /\ quiet' = FALSE
    /\ UNCHANGED <<clock, root, db, pc, walk, faults, scans,
                   touched, complete, fresh>>

\* A file is created or overwritten, and stamped with the clock.
WriteFile(b, c) ==
    /\ Parent[b] \in dirs
    /\ Restamped \/ clock \notin stamps[b]
    /\ file' = [file EXCEPT ![b] = [content |-> c, mtime |-> clock]]
    /\ stamps' = [stamps EXCEPT ![b] = @ \cup {clock}]
    /\ Changing
    /\ UNCHANGED dirs

RemoveFile(b) ==
    /\ file[b] # Absent
    /\ file' = [file EXCEPT ![b] = Absent]
    /\ Changing
    /\ UNCHANGED <<dirs, stamps>>

\* rename(2) keeps the modification time.
MoveFile(b, to) ==
    /\ b # to
    /\ file[b] # Absent
    /\ Parent[to] \in dirs
    /\ Restamped \/ file[b].mtime \notin stamps[to]
    /\ file' = [file EXCEPT ![to] = file[b], ![b] = Absent]
    /\ stamps' = [stamps EXCEPT ![to] = @ \cup {file[b].mtime}]
    /\ Changing
    /\ UNCHANGED dirs

MakeDir(f) ==
    /\ f \notin dirs
    /\ Parent[f] \in dirs
    /\ dirs' = dirs \cup {f}
    /\ Changing
    /\ UNCHANGED <<file, stamps>>

\* A directory is removed with the files in it, innermost first.
RemoveDir(f) ==
    /\ f \in dirs
    /\ \A g \in dirs : Parent[g] # f
    /\ dirs' = dirs \ {f}
    /\ file' = [b \in Books |-> IF Parent[b] = f THEN Absent ELSE file[b]]
    /\ Changing
    /\ UNCHANGED stamps

Environment ==
    \/ Tick
    \/ \E b \in Books, c \in Contents : WriteFile(b, c)
    \/ \E b \in Books : RemoveFile(b)
    \/ \E b, to \in Books : MoveFile(b, to)
    \/ \E f \in Folders : MakeDir(f) \/ RemoveDir(f)
------------------------------------------------------------------------------
(* The tables.                                                             *)

Without(table, gone) == [p \in DOMAIN table \ gone |-> table[p]]

Put(table, p, row) ==
    [q \in DOMAIN table \cup {p} |-> IF q = p THEN row ELSE table[q]]

\* mutant: DELETE spares the rows of the second before the scan
UnseenButLast(table) == {p \in DOMAIN table : table[p].seen < started - 1}

\* WHERE seen_at < started
Unseen(table) == {p \in DOMAIN table : table[p].seen < started}

\* mutant: foreign keys are not enforced, rows below a folder stay
NoCascade(D) == D

\* What SQLite's ON DELETE CASCADE removes with the folder rows D: the least
\* set that holds D and the folders whose parent_id is the id of a member.
Cascade(D) ==
    LET Closed(S) ==
            \A f \in DOMAIN folderDb : \A g \in S :
                folderDb[f].parent = folderDb[g].id => f \in S
    IN  {f \in DOMAIN folderDb :
            \A S \in SUBSET DOMAIN folderDb : D \subseteq S /\ Closed(S) => f \in S}

\* mutant: UPDATE folder leaves seen_at alone
KeptFolderRow(f, parentId) ==
    IF f \in DOMAIN folderDb
    THEN [folderDb[f] EXCEPT !.parent = parentId]
    ELSE [id |-> nextId, parent |-> parentId, seen |-> started]

\* mutant: the table has no AUTOINCREMENT
ReusedIdRow(f, parentId) ==
    LET ids == {folderDb[g].id : g \in DOMAIN folderDb}
    IN  [id     |-> IF f \in DOMAIN folderDb THEN folderDb[f].id
                    ELSE CHOOSE i \in 1..nextId :
                            (\A j \in ids : i > j) /\ (i = 1 \/ i - 1 \in ids),
         parent |-> parentId,
         seen   |-> started]

\* UPDATE or INSERT of upsert_folder: an existing row keeps its id.
NewFolderRow(f, parentId) ==
    [id     |-> IF f \in DOMAIN folderDb THEN folderDb[f].id ELSE nextId,
     parent |-> parentId,
     seen   |-> started]

UpsertFolder(f, parentId) ==
    LET row == NewFolderRow(f, parentId)
    IN  /\ folderDb' = Put(folderDb, f, row)
        /\ nextId' = IF f \in DOMAIN folderDb THEN nextId ELSE nextId + 1
        /\ pathToId' = Put(pathToId, f, row.id)
        /\ touched' = touched \cup {f}
        /\ UNCHANGED bookDb

\* mutant: mtime_secs returns -1 for an error
MtimeOrMinusOne(b) == IF file[b] = Absent THEN -1 ELSE file[b].mtime

\* mtime_secs
Mtime(b) == IF file[b] = Absent THEN NoTime ELSE file[b].mtime

\* mutant: the unchanged branch of upsert_book forgets seen_at
RefiledRow(b) == [bookDb[b] EXCEPT !.folder = pathToId[Parent[b]]]

\* The unchanged branch of upsert_book: UPDATE book SET seen_at=?, folder_id=?
SeenRow(b) == [bookDb[b] EXCEPT !.folder = pathToId[Parent[b]], !.seen = started]

\* mutant: the modification time is read again when the row is written
LateBookRow(b) ==
    [folder |-> pathToId[Parent[b]],
     hash   |-> stat.hash,
     pages  |-> file[b].content,
     size   |-> stat.size,
     mtime  |-> Mtime(b),
     added  |-> IF b \in DOMAIN bookDb THEN bookDb[b].added ELSE started,
     seen   |-> started]

\* UPDATE or INSERT of upsert_book
NewBookRow(b) ==
    [folder |-> pathToId[Parent[b]],
     hash   |-> stat.hash,
     pages  |-> file[b].content,
     size   |-> stat.size,
     mtime  |-> stat.mtime,
     added  |-> IF b \in DOMAIN bookDb THEN bookDb[b].added ELSE started,
     seen   |-> started]

\* mutant: the walker meets an entry again and again
Unwalked(p) == todo

\* What is left to walk once p was returned.
Rest(p) == todo \ {p}
------------------------------------------------------------------------------
(* scan().                                                                 *)

StartScan ==
    /\ pc = "idle"
    /\ scans < MaxScans
    /\ scans' = scans + 1
    /\ pc' = "root"
    /\ started' = clock
    /\ pathToId' = <<>>
    /\ todo' = {}
    /\ touched' = {}
    /\ quiet' = TRUE
    /\ complete' = TRUE
    /\ fresh' = /\ \A f \in DOMAIN folderDb : folderDb[f].seen < clock
                /\ \A b \in DOMAIN bookDb : bookDb[b].seen < clock
    /\ UNCHANGED <<clock, disk, root, db, cur, listing, stat, faults>>

UpsertRoot ==
    /\ pc = "root"
    /\ pc' = "list"
    /\ UpsertFolder(root, NoParent)
    /\ UNCHANGED <<clock, disk, root, started, todo, cur, listing, stat, faults,
                   scans, quiet, complete, fresh>>

\* The entries of directory f that the scan does not pass over.
Entries(f) ==
    {p \in Paths \ Hidden :
        /\ Parent[p] = f
        /\ p \in dirs \/ (p \in Books /\ file[p] # Absent)}

\* The walker opens the root when it is first asked for an entry.  A
\* directory that is gone lists nothing: a walk error is logged.
ListRoot ==
    /\ pc = "list"
    /\ pc' = "walk"
    /\ todo' = Entries(root)
    /\ UNCHANGED <<clock, disk, root, db, started, pathToId, cur, listing, stat,
                   faults, scans, history>>

\* The walker reads a directory before it returns it (WalkDir with sort_by).
VisitFolder(f) ==
    /\ pc = "walk"
    /\ f \in todo
    /\ todo' = Rest(f)
    /\ cur' = f
    /\ listing' = Entries(f)
    /\ pc' = "folder"
    /\ UNCHANGED <<clock, disk, root, db, started, pathToId, stat, faults, scans,
                   history>>

FolderDone ==
    /\ pc = "folder"
    /\ UpsertFolder(cur, pathToId[Parent[cur]])
    /\ todo' = todo \cup listing
    /\ listing' = {}
    /\ cur' = Nowhere
    /\ pc' = "walk"
    /\ UNCHANGED <<clock, disk, root, started, stat, faults, scans,
                   quiet, complete, fresh>>

\* upsert_book, metadata(): a file that is gone is an error, an oversized
\* one is skipped; either way its row is not touched.
VisitBook(b) ==
    /\ pc = "walk"
    /\ b \in todo
    /\ todo' = Rest(b)
    /\ IF file[b] # Absent /\ file[b].content \notin Oversize
       THEN /\ stat' = [NoStat EXCEPT !.size = SizeOf[file[b].content]]
            /\ cur' = b
            /\ pc' = "compare"
       ELSE UNCHANGED <<stat, cur, pc>>
    /\ UNCHANGED <<clock, disk, root, db, started, pathToId, listing, faults,
                   scans, history>>

\* mtime_secs() is a second stat; then the row at this path is compared.  A
\* row with the same time and size is only marked as seen.
CompareBook ==
    LET same == /\ cur \in DOMAIN bookDb
                /\ bookDb[cur].mtime = Mtime(cur)
                /\ bookDb[cur].size = stat.size
    IN  /\ pc = "compare"
        /\ IF same
           THEN /\ bookDb' = [bookDb EXCEPT ![cur] = SeenRow(cur)]
                /\ touched' = touched \cup {cur}
                /\ cur' = Nowhere
                /\ stat' = NoStat
                /\ pc' = "walk"
           ELSE /\ stat' = [stat EXCEPT !.mtime = Mtime(cur)]
                /\ pc' = "hash"
                /\ UNCHANGED <<bookDb, touched, cur>>
        /\ UNCHANGED <<clock, disk, root, folderDb, nextId, started, pathToId,
                       todo, listing, faults, scans, quiet, complete, fresh>>

\* upsert_book gives up on cur: Err is logged by the caller, Ok is not.
GiveUp ==
    /\ cur' = Nowhere
    /\ stat' = NoStat
    /\ pc' = "walk"

HashBook ==
    /\ pc = "hash"
    /\ IF file[cur] # Absent
       THEN /\ stat' = [stat EXCEPT !.hash = file[cur].content]
            /\ pc' = "open"
            /\ UNCHANGED cur
       ELSE GiveUp
    /\ UNCHANGED <<clock, disk, root, db, started, pathToId, todo, listing,
                   faults, scans, history>>

\* The archive is opened after it was hashed; then the row is written.
OpenBook ==
    /\ pc = "open"
    /\ GiveUp
    /\ IF file[cur] # Absent /\ file[cur].content \in Readable
       THEN /\ bookDb' = Put(bookDb, cur, NewBookRow(cur))
            /\ touched' = touched \cup {cur}
       ELSE UNCHANGED <<bookDb, touched>>
    /\ UNCHANGED <<clock, disk, root, folderDb, nextId, started, pathToId, todo,
                   listing, faults, scans, quiet, complete, fresh>>

\* mutant: books are pruned while the walk goes on
PruneBooksEarly ==
    /\ pc = "walk"
    /\ pc' = IF todo = {} THEN "pruneFolders" ELSE "walk"
    /\ bookDb' = Without(bookDb, Unseen(bookDb))
    /\ UNCHANGED <<clock, disk, root, folderDb, nextId, walk, faults, scans, history>>

\* DELETE FROM book WHERE seen_at < started
PruneBooks ==
    /\ pc = "walk"
    /\ todo = {}
    /\ pc' = "pruneFolders"
    /\ bookDb' = Without(bookDb, Unseen(bookDb))
    /\ UNCHANGED <<clock, disk, root, folderDb, nextId, walk, faults, scans, history>>

\* DELETE FROM folder WHERE seen_at < started, with everything below them
PruneFolders ==
    LET gone == Cascade(Unseen(folderDb))
        ids  == {folderDb[f].id : f \in gone}
    IN  /\ pc = "pruneFolders"
        /\ pc' = "refresh"
        /\ folderDb' = Without(folderDb, gone)
        /\ bookDb' = Without(bookDb, {b \in DOMAIN bookDb : bookDb[b].folder \in ids})
        /\ UNCHANGED <<clock, disk, root, nextId, walk, faults, scans, history>>

\* refresh_cover_versions fills a column this module leaves out.
FinishScan ==
    /\ pc = "refresh"
    /\ pc' = "idle"
    /\ pathToId' = <<>>
    /\ UNCHANGED <<clock, disk, root, db, started, todo, cur, listing, stat,
                   faults, scans, history>>
------------------------------------------------------------------------------
(* Errors.                                                                 *)

Fault ==
    /\ faults < MaxFaults
    /\ faults' = faults + 1
    /\ complete' = FALSE
    /\ UNCHANGED <<clock, disk, db, scans, quiet, fresh, touched>>

\* read_dir fails: the directory itself is still returned.
ListingFails ==
    /\ Fault
    /\ \/ pc = "folder" /\ listing # {} /\ listing' = {} /\ UNCHANGED <<pc, todo>>
       \/ pc = "list" /\ pc' = "walk" /\ todo' = {} /\ UNCHANGED listing
    /\ UNCHANGED <<root, started, pathToId, cur, stat>>

\* mutant: a folder whose upsert failed is walked all the same
FolderFailsWalksOn ==
    /\ pc = "folder"
    /\ Fault
    /\ todo' = todo \cup listing
    /\ listing' = {}
    /\ cur' = Nowhere
    /\ pc' = "walk"
    /\ UNCHANGED <<root, started, pathToId, stat>>

\* upsert_folder fails: logged, and the walker skips what is below it.
FolderFails ==
    /\ pc = "folder"
    /\ Fault
    /\ listing' = {}
    /\ cur' = Nowhere
    /\ pc' = "walk"
    /\ UNCHANGED <<root, started, pathToId, todo, stat>>

\* upsert_book fails: logged, and the walk goes on.
BookFails ==
    /\ pc \in {"compare", "hash", "open"}
    /\ Fault
    /\ GiveUp
    /\ UNCHANGED <<root, started, pathToId, todo, listing>>

\* What is lost when scan() ends early.
Forget ==
    /\ pc' = "idle"
    /\ pathToId' = <<>>
    /\ todo' = {}
    /\ cur' = Nowhere
    /\ listing' = {}
    /\ stat' = NoStat
    /\ UNCHANGED started

\* The `?` after a statement outside the two upserts of the walk: scan()
\* returns Err and spawn_loop waits for the next trigger.
ScanFails ==
    /\ pc = "root" \/ (pc = "walk" /\ todo = {}) \/ pc \in {"pruneFolders", "refresh"}
    /\ Fault
    /\ Forget
    /\ UNCHANGED root

\* The process ends, at any point, and starts again, perhaps on another
\* directory.
Restart ==
    /\ Fault
    /\ Forget
    /\ root' \in Roots

Scanner ==
    \/ StartScan \/ UpsertRoot \/ ListRoot
    \/ \E f \in Folders : VisitFolder(f)
    \/ FolderDone
    \/ \E b \in Books : VisitBook(b)
    \/ CompareBook \/ HashBook \/ OpenBook
    \/ PruneBooks \/ PruneFolders \/ FinishScan

Failure == ListingFails \/ FolderFails \/ BookFails \/ ScanFails \/ Restart

Next == Environment \/ Scanner \/ Failure

SafeSpec == Init /\ [][Next]_vars

(* A scan that has started is executed to its end.  Nothing obliges anybody *)
(* to start one: that is RescanTrigger's business.                          *)
Spec == SafeSpec /\ WF_vars(Scanner /\ pc # "idle")
------------------------------------------------------------------------------
FolderRow == [id : Nat, parent : Nat, seen : Times]
BookRow   == [folder : Nat, hash : Contents, pages : Contents, size : Nat,
              mtime : Times \cup {NoTime}, added : Times, seen : Times]
Stamped   == [content : Contents, mtime : Times]

(* The type of every variable.  Tables are partial functions on paths.      *)
TypeOK ==
    /\ clock \in Times
    /\ dirs \subseteq Folders
    /\ file \in [Books -> Stamped \cup {Absent}]
    /\ stamps \in [Books -> SUBSET Times]
    /\ changes \in 0..MaxChanges
    /\ root \in Roots
    /\ DOMAIN folderDb \subseteq Folders
    /\ folderDb \in [DOMAIN folderDb -> FolderRow]
    /\ DOMAIN bookDb \subseteq Books
    /\ bookDb \in [DOMAIN bookDb -> BookRow]
    /\ nextId \in Nat \ {0}
    /\ pc \in {"idle", "root", "list", "walk", "folder", "compare", "hash",
               "open", "pruneFolders", "refresh"}
    /\ started \in Times \cup {0}
    /\ DOMAIN pathToId \subseteq Folders
    /\ pathToId \in [DOMAIN pathToId -> Nat]
    /\ todo \subseteq Paths
    /\ cur \in Paths \cup {Nowhere}
    /\ listing \subseteq Paths
    /\ stat \in [size : Nat, mtime : Times \cup {NoTime}, hash : Contents \cup {Absent}]
    /\ faults \in 0..MaxFaults
    /\ scans \in 0..MaxScans
    /\ touched \subseteq Paths
    /\ quiet \in BOOLEAN /\ complete \in BOOLEAN /\ fresh \in BOOLEAN

(* Every row hangs from the row of the directory its path is in, whatever   *)
(* crashed scans, failed upserts, cascades and changes of library left      *)
(* behind: no book is filed in another folder and no foreign key dangles.   *)
RowsFollowPaths ==
    /\ \A f \in DOMAIN folderDb :
          folderDb[f].parent # NoParent =>
             /\ Parent[f] \in DOMAIN folderDb
             /\ folderDb[f].parent = folderDb[Parent[f]].id
    /\ \A b \in DOMAIN bookDb :
          /\ Parent[b] \in DOMAIN folderDb
          /\ bookDb[b].folder = folderDb[Parent[b]].id

(* path_to_id never sends a row below a folder that is gone, and the walker *)
(* never returns an entry whose directory was not upserted: the branches    *)
(* "orphan folder" and "orphan book" (scan.rs:144, 170) are dead code.      *)
WalkHasParents ==
    /\ \A f \in DOMAIN pathToId :
          f \in DOMAIN folderDb /\ pathToId[f] = folderDb[f].id
    /\ \A p \in todo : Parent[p] \in DOMAIN pathToId
    /\ cur # Nowhere => Parent[cur] \in DOMAIN pathToId

(* What a scan has met is in the catalogue when the scan ends, for any      *)
(* clock: neither DELETE nor the cascade behind it removes a row that this  *)
(* very scan has upserted.                                                  *)
SeenSurvives == touched \subseteq DOMAIN folderDb \cup DOMAIN bookDb

(* The stamps of a row are never newer than its hash: if they still fit the *)
(* file, skipping it (scan.rs:428) is right, because hash and pages are     *)
(* those of the file.  It is why the time is read before the content, and   *)
(* it needs a path never to show the same modification time twice.          *)
StampsAreSound ==
    \A b \in DOMAIN bookDb :
        (/\ file[b] # Absent
         /\ bookDb[b].mtime = file[b].mtime
         /\ bookDb[b].size = SizeOf[file[b].content])
        => /\ bookDb[b].hash = file[b].content
           /\ bookDb[b].pages = file[b].content

\* The directories a scan of root reaches: the least set that holds the root
\* and the directories, not passed over, in a member.
Reachable ==
    {f \in Folders :
        \A S \in SUBSET Folders :
            (root \in S /\ \A g \in dirs \ Hidden : Parent[g] \in S => g \in S)
            => f \in S}

\* The books a scan of root can put in the catalogue.
Indexable ==
    {b \in Books \ Hidden :
        /\ Parent[b] \in Reachable
        /\ file[b] # Absent
        /\ file[b].content \in Readable \ Oversize}

\* The last scan went through and the files are still those it saw.
Settled == pc = "idle" /\ complete /\ quiet

\* Every folder and book that can be in the catalogue is, with its content.
NothingMissing ==
    /\ Reachable \subseteq DOMAIN folderDb
    /\ \A b \in Indexable :
          b \in DOMAIN bookDb /\ bookDb[b].hash = file[b].content
                             /\ bookDb[b].pages = file[b].content

\* Nothing else is, and the library has one root.
NothingExtra ==
    /\ DOMAIN folderDb \subseteq Reachable
    /\ DOMAIN bookDb \subseteq Indexable
    /\ \A f \in DOMAIN folderDb : folderDb[f].parent = NoParent <=> f = root

(* A scan that met no error brings every readable comic of a library that   *)
(* kept still into the catalogue, with its present content, whatever an     *)
(* earlier crash, error, clock or library left in the database.             *)
ScanFindsAll == Settled => NothingMissing

(* If no row was as new as the scan when it started, the scan also clears   *)
(* away everything else.                                                    *)
ScanRemovesRest == (Settled /\ fresh) => NothingExtra

(* Every scan ends.                                                         *)
ScanEnds == (pc # "idle") ~> (pc = "idle")

(* README, "To force a refresh at any time": a rescan that met no error     *)
(* leaves no book in the catalogue that is not in the library.              *)
RefreshAtAnyTime == Settled => NothingExtra
==============================================================================
