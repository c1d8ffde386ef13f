--------------------------- MODULE LibraryScanProofs ---------------------------
(***************************************************************************)
(* What TLAPS proves of LibraryScan, for every tree of folders and books   *)
(* and every value of the bounds.                                          *)
(***************************************************************************)
EXTENDS LibraryScan, TLAPS

------------------------------------------------------------------------------
(* Tables are functions whose domain is the set of paths that have a row.  *)

Table(T, K, R) == DOMAIN T \subseteq K /\ T \in [DOMAIN T -> R]

\* Writing a row puts its path in the table and leaves the other rows alone.
LEMMA PutRow ==
  ASSUME NEW T, NEW p, NEW row
  PROVE  /\ DOMAIN Put(T, p, row) = DOMAIN T \cup {p}
         /\ Put(T, p, row)[p] = row
         /\ \A q \in DOMAIN T : q # p => Put(T, p, row)[q] = T[q]
  BY DEF Put

\* A table stays one when a row of the right type is written.
LEMMA PutTable ==
  ASSUME NEW K, NEW R, NEW T, Table(T, K, R), NEW p \in K, NEW row \in R
  PROVE  Table(Put(T, p, row), K, R)
  BY DEF Put, Table

\* Deleting rows leaves the others alone.
LEMMA WithoutRows ==
  ASSUME NEW T, NEW gone
  PROVE  /\ DOMAIN Without(T, gone) = DOMAIN T \ gone
         /\ \A q \in DOMAIN T \ gone : Without(T, gone)[q] = T[q]
  BY DEF Without

\* A table stays one when rows are deleted.
LEMMA WithoutTable ==
  ASSUME NEW K, NEW R, NEW T, Table(T, K, R), NEW gone
  PROVE  Table(Without(T, gone), K, R)
  BY DEF Without, Table
------------------------------------------------------------------------------
(* Typing.  The types depend on where the scan is: what it has in hand, and *)
(* that the directory of everything it still has to visit has a row.        *)

Position ==
  /\ pc # "idle" => started \in Times
  /\ pc = "folder" => cur \in Folders
  /\ pc \in {"compare", "hash", "open"} => cur \in Books
  /\ IF pc \in {"folder", "compare", "hash", "open"}
     THEN Parent[cur] \in DOMAIN pathToId
     ELSE cur = Nowhere
  /\ pc = "list" => root \in DOMAIN pathToId
  /\ pc \notin {"walk", "folder", "compare", "hash", "open"} => todo = {}
  /\ \A p \in todo : Parent[p] \in DOMAIN pathToId
  /\ pc # "folder" => listing = {}
  /\ \A p \in listing : Parent[p] = cur
  /\ pc = "open" => stat.hash \in Contents

TypeInv == TypeOK /\ Position

\* The initial values have the right types.
LEMMA TypingInit == Init => TypeInv
<1> SUFFICES ASSUME Init PROVE TypeInv
  OBVIOUS
<1> USE BoundsAssumption DEF Init
<1>1. file \in [Books -> Stamped \cup {Absent}] /\ stamps \in [Books -> SUBSET Times]
  BY DEF Stamped, Times
<1>2. stat \in [size : Nat, mtime : Times \cup {NoTime}, hash : Contents \cup {Absent}]
  BY DEF NoStat, NoTime
<1>3. /\ DOMAIN folderDb = {} /\ DOMAIN bookDb = {} /\ DOMAIN pathToId = {}
      /\ folderDb \in [DOMAIN folderDb -> FolderRow]
      /\ bookDb \in [DOMAIN bookDb -> BookRow]
      /\ pathToId \in [DOMAIN pathToId -> Nat]
  OBVIOUS
<1>4. Position
  BY DEF Position
<1>5. /\ clock \in Times /\ dirs \subseteq Folders /\ changes \in 0..MaxChanges
      /\ root \in Roots /\ nextId \in Nat \ {0} /\ started \in Times \cup {0}
  BY DEF Times
<1>6. faults \in 0..MaxFaults /\ scans \in 0..MaxScans
  OBVIOUS
<1>7. /\ pc \in {"idle", "root", "list", "walk", "folder", "compare", "hash",
                 "open", "pruneFolders", "refresh"}
      /\ todo \subseteq Paths /\ cur \in Paths \cup {Nowhere} /\ listing \subseteq Paths
      /\ touched \subseteq Paths
  OBVIOUS
<1>8. quiet \in BOOLEAN /\ complete \in BOOLEAN /\ fresh \in BOOLEAN
  OBVIOUS
<1> QED BY <1>1, <1>2, <1>3, <1>4, <1>5, <1>6, <1>7, <1>8 DEF TypeInv, TypeOK
------------------------------------------------------------------------------
(* The parts of the type invariant that steps leave alone together.         *)

DiskType ==
  /\ dirs \subseteq Folders
  /\ file \in [Books -> Stamped \cup {Absent}]
  /\ stamps \in [Books -> SUBSET Times]
  /\ changes \in 0..MaxChanges

DbType ==
  /\ Table(folderDb, Folders, FolderRow)
  /\ Table(bookDb, Books, BookRow)
  /\ nextId \in Nat \ {0}

WalkType ==
  /\ started \in Times \cup {0}
  /\ Table(pathToId, Folders, Nat)
  /\ todo \subseteq Paths
  /\ cur \in Paths \cup {Nowhere}
  /\ listing \subseteq Paths
  /\ stat \in [size : Nat, mtime : Times \cup {NoTime}, hash : Contents \cup {Absent}]

HistoryType ==
  /\ touched \subseteq Paths
  /\ quiet \in BOOLEAN /\ complete \in BOOLEAN /\ fresh \in BOOLEAN

ControlType ==
  /\ clock \in Times
  /\ root \in Roots
  /\ pc \in {"idle", "root", "list", "walk", "folder", "compare", "hash",
             "open", "pruneFolders", "refresh"}
  /\ faults \in 0..MaxFaults
  /\ scans \in 0..MaxScans

Parts == DiskType /\ DbType /\ WalkType /\ HistoryType /\ ControlType

\* Together they are the type invariant, before a step and after it.
LEMMA TypeParts == (TypeOK <=> Parts) /\ (TypeOK' <=> Parts')
  BY DEF TypeOK, Parts, DiskType, DbType, WalkType, HistoryType, ControlType, Table

\* Modification times read from a typed disk are typed.
LEMMA MtimeTyping ==
  ASSUME DiskType, NEW b \in Books
  PROVE  Mtime(b) \in Times \cup {NoTime}
  BY ContentAssumption DEF Mtime, DiskType, Stamped

\* What every change of the file system leaves alone.
LEMMA ChangingTyping ==
  ASSUME Parts, Changing
  PROVE  /\ changes' \in 0..MaxChanges /\ clock' \in Times /\ quiet' \in BOOLEAN
         /\ UNCHANGED <<root, db, pc, walk, faults, scans, touched, complete, fresh>>
<1>1. changes' \in 0..MaxChanges
  BY BoundsAssumption DEF Parts, DiskType, Changing
<1>2. clock' \in Times
  BY DEF Parts, ControlType, Changing
<1>3. quiet' \in BOOLEAN
  BY DEF Changing
<1>4. UNCHANGED <<root, db, pc, walk, faults, scans, touched, complete, fresh>>
  BY DEF Changing
<1> QED BY <1>1, <1>2, <1>3, <1>4

\* The file system and the clock change nothing of the scanner.
LEMMA EnvironmentTyping ==
  ASSUME Parts, Environment
  PROVE  /\ DiskType' /\ clock' \in Times /\ quiet' \in BOOLEAN
         /\ UNCHANGED <<root, db, pc, walk, faults, scans, touched, complete, fresh>>
<1> DEFINE Others ==
      /\ clock' \in Times /\ quiet' \in BOOLEAN
      /\ UNCHANGED <<root, db, pc, walk, faults, scans, touched, complete, fresh>>
<1>1. CASE Tick
  <2>1. clock' \in Times
    BY <1>1 DEF Tick
  <2>2. DiskType'
    BY <1>1 DEF Tick, disk, Parts, DiskType
  <2>3. quiet' \in BOOLEAN
    BY <1>1 DEF Tick, history, Parts, HistoryType
  <2>4. UNCHANGED <<root, db, pc, walk, faults, scans, touched, complete, fresh>>
    BY <1>1 DEF Tick, history
  <2> QED BY <2>1, <2>2, <2>3, <2>4
<1>2. ASSUME NEW b \in Books, NEW c \in Contents, WriteFile(b, c)
      PROVE  DiskType' /\ Others
  <2>1. [content |-> c, mtime |-> clock] \in Stamped
    BY DEF Stamped, ControlType, Parts
  <2>2. stamps[b] \cup {clock} \in SUBSET Times
    BY DEF DiskType, ControlType, Parts
  <2>3. file' \in [Books -> Stamped \cup {Absent}]
    BY <1>2, <2>1 DEF WriteFile, Parts, DiskType
  <2>4. stamps' \in [Books -> SUBSET Times]
    BY <1>2, <2>2 DEF WriteFile, Parts, DiskType
  <2>5. dirs' \subseteq Folders /\ Changing
    BY <1>2 DEF WriteFile, Parts, DiskType
  <2> QED BY <2>3, <2>4, <2>5, ChangingTyping DEF DiskType
<1>3. ASSUME NEW b \in Books, RemoveFile(b)
      PROVE  DiskType' /\ Others
  <2>1. file' \in [Books -> Stamped \cup {Absent}]
    BY <1>3 DEF RemoveFile, Parts, DiskType
  <2>2. dirs' \subseteq Folders /\ stamps' \in [Books -> SUBSET Times] /\ Changing
    BY <1>3 DEF RemoveFile, Parts, DiskType
  <2> QED BY <2>1, <2>2, ChangingTyping DEF DiskType
<1>4. ASSUME NEW b \in Books, NEW to \in Books, MoveFile(b, to)
      PROVE  DiskType' /\ Others
  <2>1. file[b] \in Stamped
    BY <1>4 DEF MoveFile, Parts, DiskType
  <2>2. stamps[to] \cup {file[b].mtime} \in SUBSET Times
    BY <2>1 DEF Parts, DiskType, Stamped
  <2>3. file' \in [Books -> Stamped \cup {Absent}]
    BY <1>4, <2>1 DEF MoveFile, Parts, DiskType
  <2>4. stamps' \in [Books -> SUBSET Times]
    BY <1>4, <2>2 DEF MoveFile, Parts, DiskType
  <2>5. dirs' \subseteq Folders /\ Changing
    BY <1>4 DEF MoveFile, Parts, DiskType
  <2> QED BY <2>3, <2>4, <2>5, ChangingTyping DEF DiskType
<1>5. ASSUME NEW f \in Folders, MakeDir(f)
      PROVE  DiskType' /\ Others
  <2>1. dirs' \subseteq Folders /\ Changing
    BY <1>5 DEF MakeDir, Parts, DiskType
  <2>2. file' \in [Books -> Stamped \cup {Absent}] /\ stamps' \in [Books -> SUBSET Times]
    BY <1>5 DEF MakeDir, Parts, DiskType
  <2> QED BY <2>1, <2>2, ChangingTyping DEF DiskType
<1>6. ASSUME NEW f \in Folders, RemoveDir(f)
      PROVE  DiskType' /\ Others
  <2>1. dirs' \subseteq Folders /\ Changing
    BY <1>6 DEF RemoveDir, Parts, DiskType
  <2>2. file' \in [Books -> Stamped \cup {Absent}]
    BY <1>6 DEF RemoveDir, Parts, DiskType
  <2>3. stamps' \in [Books -> SUBSET Times]
    BY <1>6 DEF RemoveDir, Parts, DiskType
  <2> QED BY <2>1, <2>2, <2>3, ChangingTyping DEF DiskType
<1> QED BY <1>1, <1>2, <1>3, <1>4, <1>5, <1>6 DEF Environment

\* UPDATE or INSERT of a folder keeps the types, and path_to_id learns its row.
LEMMA UpsertTyping ==
  ASSUME Parts, NEW f \in Folders, NEW parentId \in Nat, started \in Times,
         UpsertFolder(f, parentId)
  PROVE  /\ DbType' /\ touched' \subseteq Paths
         /\ Table(pathToId', Folders, Nat)
         /\ DOMAIN pathToId' = DOMAIN pathToId \cup {f}
<1> DEFINE row == NewFolderRow(f, parentId)
<1>1. row \in FolderRow /\ row.id \in Nat
  BY DEF NewFolderRow, FolderRow, Parts, DbType, Table
<1>2. Table(Put(folderDb, f, row), Folders, FolderRow)
  BY <1>1, PutTable DEF Parts, DbType
<1>3. Table(Put(pathToId, f, row.id), Folders, Nat)
  BY <1>1, PutTable DEF Parts, WalkType
<1>4. DOMAIN Put(pathToId, f, row.id) = DOMAIN pathToId \cup {f}
  BY PutRow
<1>5. /\ folderDb' = Put(folderDb, f, row) /\ pathToId' = Put(pathToId, f, row.id)
      /\ bookDb' = bookDb /\ touched' = touched \cup {f}
  BY DEF UpsertFolder
<1>6. nextId' \in Nat \ {0}
  BY DEF UpsertFolder, Parts, DbType
<1>7. DbType'
  BY <1>2, <1>5, <1>6 DEF DbType, Parts
<1>8. touched' \subseteq Paths
  BY <1>5 DEF Parts, HistoryType, Paths
<1> HIDE DEF row
<1> QED BY <1>3, <1>4, <1>5, <1>7, <1>8

\* The entries of a directory are paths in it.
LEMMA EntriesTyping ==
  \A f : Entries(f) \subseteq Paths /\ \A p \in Entries(f) : Parent[p] = f
  BY DEF Entries

\* Starting a scan, its root and its first listing.
LEMMA StartTyping ==
  ASSUME Parts, Position, StartScan \/ UpsertRoot \/ ListRoot
  PROVE  Parts' /\ Position'
<1> USE DEF Parts
<1>1. CASE StartScan
  <2>1. DiskType' /\ DbType'
    BY <1>1 DEF StartScan, disk, db, DiskType, DbType
  <2>2. WalkType'
    BY <1>1 DEF StartScan, WalkType, ControlType, Table
  <2>3. ControlType' /\ HistoryType'
    BY <1>1, BoundsAssumption DEF StartScan, ControlType, HistoryType
  <2>4. Position'
    BY <1>1 DEF StartScan, Position, ControlType, WalkType
  <2> QED BY <2>1, <2>2, <2>3, <2>4
<1>2. CASE UpsertRoot
  <2>1. root \in Folders /\ started \in Times /\ NoParent \in Nat
    BY <1>2, TreeAssumption DEF UpsertRoot, ControlType, Position, NoParent
  <2>2. /\ DbType' /\ touched' \subseteq Paths
        /\ Table(pathToId', Folders, Nat)
        /\ DOMAIN pathToId' = DOMAIN pathToId \cup {root}
    BY <1>2, <2>1, UpsertTyping DEF UpsertRoot
  <2>3. DiskType' /\ ControlType'
    BY <1>2 DEF UpsertRoot, disk, DiskType, ControlType
  <2>4. WalkType' /\ HistoryType'
    BY <1>2, <2>2 DEF UpsertRoot, WalkType, HistoryType
  <2>5. Position'
    BY <1>2, <2>2, <2>1 DEF UpsertRoot, Position
  <2> QED BY <2>2, <2>3, <2>4, <2>5
<1>3. CASE ListRoot
  <2>1. DiskType' /\ DbType' /\ ControlType'
    BY <1>3 DEF ListRoot, disk, db, DiskType, DbType, ControlType
  <2>2. WalkType' /\ HistoryType'
    BY <1>3, EntriesTyping DEF ListRoot, history, WalkType, HistoryType
  <2>3. Position'
    BY <1>3, EntriesTyping DEF ListRoot, Position
  <2> QED BY <2>1, <2>2, <2>3
<1> QED BY <1>1, <1>2, <1>3

\* Visiting a directory and recording it.
LEMMA FolderTyping ==
  ASSUME Parts, Position, (\E f \in Folders : VisitFolder(f)) \/ FolderDone
  PROVE  Parts' /\ Position'
<1> USE DEF Parts
<1>1. ASSUME NEW f \in Folders, VisitFolder(f)
      PROVE  Parts' /\ Position'
  <2>1. DiskType' /\ DbType' /\ ControlType'
    BY <1>1 DEF VisitFolder, disk, db, DiskType, DbType, ControlType
  <2>2. WalkType' /\ HistoryType'
    BY <1>1, EntriesTyping DEF VisitFolder, Rest, history, WalkType, HistoryType, Paths
  <2>3. Position'
    BY <1>1, EntriesTyping DEF VisitFolder, Rest, Position
  <2> QED BY <2>1, <2>2, <2>3
<1>2. CASE FolderDone
  <2>1. cur \in Folders /\ started \in Times /\ pathToId[Parent[cur]] \in Nat
    BY <1>2 DEF FolderDone, Position, WalkType, Table
  <2>2. /\ DbType' /\ touched' \subseteq Paths
        /\ Table(pathToId', Folders, Nat)
        /\ DOMAIN pathToId' = DOMAIN pathToId \cup {cur}
    BY <1>2, <2>1, UpsertTyping DEF FolderDone
  <2>3. DiskType' /\ ControlType'
    BY <1>2 DEF FolderDone, disk, DiskType, ControlType
  <2>4. WalkType' /\ HistoryType'
    BY <1>2, <2>2 DEF FolderDone, WalkType, HistoryType
  <2>5. Position'
    BY <1>2, <2>2 DEF FolderDone, Position
  <2> QED BY <2>2, <2>3, <2>4, <2>5
<1> QED BY <1>1, <1>2

\* Visiting a file, up to its hash.
LEMMA BookTyping ==
  ASSUME Parts, Position, (\E b \in Books : VisitBook(b)) \/ CompareBook \/ HashBook
  PROVE  Parts' /\ Position'
<1> USE DEF Parts
<1>0. NoStat \in [size : Nat, mtime : Times \cup {NoTime}, hash : Contents \cup {Absent}]
  BY DEF NoStat
<1>1. ASSUME NEW b \in Books, VisitBook(b)
      PROVE  Parts' /\ Position'
  <2>1. DiskType' /\ DbType' /\ ControlType'
    BY <1>1 DEF VisitBook, disk, db, DiskType, DbType, ControlType
  <2>2. stat' \in [size : Nat, mtime : Times \cup {NoTime}, hash : Contents \cup {Absent}]
    <3>1. file[b] # Absent => SizeOf[file[b].content] \in Nat
      BY ContentAssumption DEF DiskType, Stamped
    <3> QED BY <1>0, <1>1, <3>1 DEF VisitBook, WalkType
  <2>3. WalkType' /\ HistoryType'
    BY <1>1, <2>2 DEF VisitBook, Rest, history, WalkType, HistoryType, Paths
  <2>4. Position'
    BY <1>1 DEF VisitBook, Rest, Position
  <2> QED BY <2>1, <2>3, <2>4
<1>2. CASE CompareBook
  <2>1. cur \in Books /\ started \in Times /\ pathToId[Parent[cur]] \in Nat
    BY <1>2 DEF CompareBook, Position, WalkType, Table
  <2>2. cur \in DOMAIN bookDb => SeenRow(cur) \in BookRow
    BY <2>1 DEF SeenRow, BookRow, DbType, Table
  <2>3. DbType'
    BY <1>2, <2>1, <2>2 DEF CompareBook, DbType, Table
  <2>4. DiskType' /\ ControlType'
    BY <1>2 DEF CompareBook, disk, DiskType, ControlType
  <2>5. stat' \in [size : Nat, mtime : Times \cup {NoTime}, hash : Contents \cup {Absent}]
    BY <1>0, <1>2, <2>1, MtimeTyping DEF CompareBook, WalkType
  <2>6. WalkType' /\ HistoryType'
    BY <1>2, <2>1, <2>5 DEF CompareBook, WalkType, HistoryType, Paths
  <2>7. Position'
    BY <1>2, <2>1 DEF CompareBook, Position
  <2> QED BY <2>3, <2>4, <2>6, <2>7
<1>3. CASE HashBook
  <2>1. cur \in Books
    BY <1>3 DEF HashBook, Position
  <2>2. DiskType' /\ DbType' /\ ControlType'
    BY <1>3 DEF HashBook, GiveUp, disk, db, DiskType, DbType, ControlType
  <2>3. /\ stat' \in [size : Nat, mtime : Times \cup {NoTime}, hash : Contents \cup {Absent}]
        /\ pc' = "open" => stat'.hash \in Contents
    <3>1. file[cur] # Absent => file[cur].content \in Contents
      BY <2>1, ContentAssumption DEF DiskType, Stamped
    <3> QED BY <1>0, <1>3, <3>1 DEF HashBook, GiveUp, WalkType
  <2>4. WalkType' /\ HistoryType'
    BY <1>3, <2>3 DEF HashBook, GiveUp, history, WalkType, HistoryType
  <2>5. Position'
    BY <1>3, <2>1, <2>3 DEF HashBook, GiveUp, Position
  <2> QED BY <2>2, <2>4, <2>5
<1> QED BY <1>1, <1>2, <1>3

\* Opening a book and writing its row.
LEMMA OpenTyping ==
  ASSUME Parts, Position, OpenBook
  PROVE  Parts' /\ Position'
<1> USE DEF Parts
<1>1. cur \in Books /\ started \in Times /\ pathToId[Parent[cur]] \in Nat
      /\ stat.hash \in Contents /\ pc = "open"
  BY DEF OpenBook, Position, WalkType, Table
<1>2. ASSUME file[cur] # Absent
      PROVE  NewBookRow(cur) \in BookRow
  <2>1. file[cur].content \in Contents
    BY <1>1, <1>2 DEF DiskType, Stamped
  <2>2. cur \in DOMAIN bookDb => bookDb[cur].added \in Times
    BY DEF DbType, Table, BookRow
  <2> QED BY <1>1, <2>1, <2>2 DEF NewBookRow, BookRow, WalkType
<1>3. Table(bookDb', Books, BookRow)
  <2>1. CASE bookDb' = bookDb
    BY <2>1 DEF DbType
  <2>2. CASE file[cur] # Absent /\ bookDb' = Put(bookDb, cur, NewBookRow(cur))
    BY <1>1, <1>2, <2>2, PutTable DEF DbType
  <2> QED BY <2>1, <2>2 DEF OpenBook
<1>4. DbType'
  BY <1>3 DEF OpenBook, DbType
<1>5. DiskType' /\ ControlType'
  BY DEF OpenBook, GiveUp, disk, DiskType, ControlType
<1>6. WalkType'
  BY DEF OpenBook, GiveUp, NoStat, WalkType
<1>7. HistoryType'
  BY <1>1 DEF OpenBook, HistoryType, Paths
<1>8. Position'
  BY <1>1 DEF OpenBook, GiveUp, Position
<1> QED BY <1>4, <1>5, <1>6, <1>7, <1>8

\* The end of a scan.
LEMMA EndTyping ==
  ASSUME Parts, Position, PruneBooks \/ PruneFolders \/ FinishScan
  PROVE  Parts' /\ Position'
<1> USE DEF Parts
<1>1. CASE PruneBooks
  <2>1. DbType'
    BY <1>1, WithoutTable DEF PruneBooks, DbType
  <2>2. DiskType' /\ ControlType'
    BY <1>1 DEF PruneBooks, disk, DiskType, ControlType
  <2>3. WalkType' /\ HistoryType'
    BY <1>1 DEF PruneBooks, walk, history, WalkType, HistoryType
  <2>4. Position'
    BY <1>1 DEF PruneBooks, walk, Position
  <2> QED BY <2>1, <2>2, <2>3, <2>4
<1>2. CASE PruneFolders
  <2>1. DbType'
    BY <1>2, WithoutTable DEF PruneFolders, DbType
  <2>2. DiskType' /\ ControlType'
    BY <1>2 DEF PruneFolders, disk, DiskType, ControlType
  <2>3. WalkType' /\ HistoryType'
    BY <1>2 DEF PruneFolders, walk, history, WalkType, HistoryType
  <2>4. Position'
    BY <1>2 DEF PruneFolders, walk, Position
  <2> QED BY <2>1, <2>2, <2>3, <2>4
<1>3. CASE FinishScan
  <2>1. DiskType' /\ DbType' /\ ControlType'
    BY <1>3 DEF FinishScan, disk, db, DiskType, DbType, ControlType
  <2>2. WalkType' /\ HistoryType'
    BY <1>3 DEF FinishScan, history, WalkType, HistoryType, Table
  <2>3. Position'
    BY <1>3 DEF FinishScan, Position
  <2> QED BY <2>1, <2>2, <2>3
<1> QED BY <1>1, <1>2, <1>3

\* What every error leaves alone.
LEMMA FaultTyping ==
  ASSUME Parts, Fault
  PROVE  /\ DiskType' /\ DbType' /\ HistoryType'
         /\ faults' \in 0..MaxFaults /\ clock' \in Times /\ scans' \in 0..MaxScans
<1>1. DiskType' /\ DbType'
  BY DEF Parts, Fault, disk, db, DiskType, DbType
<1>2. HistoryType'
  BY DEF Parts, Fault, HistoryType
<1>3. faults' \in 0..MaxFaults /\ clock' \in Times /\ scans' \in 0..MaxScans
  BY BoundsAssumption DEF Parts, Fault, ControlType
<1> QED BY <1>1, <1>2, <1>3

\* Errors and crashes.
LEMMA FailureTyping ==
  ASSUME Parts, Position, Failure
  PROVE  Parts' /\ Position'
<1> USE FaultTyping DEF Parts
<1>0. NoStat \in [size : Nat, mtime : Times \cup {NoTime}, hash : Contents \cup {Absent}]
  BY DEF NoStat
<1>1. CASE ListingFails
  <2>1. WalkType' /\ ControlType'
    BY <1>1 DEF ListingFails, WalkType, ControlType
  <2>2. Position'
    BY <1>1 DEF ListingFails, Position
  <2> QED BY <1>1, <2>1, <2>2 DEF ListingFails
<1>2. CASE FolderFails
  <2>1. WalkType' /\ ControlType'
    BY <1>2 DEF FolderFails, WalkType, ControlType
  <2>2. Position'
    BY <1>2 DEF FolderFails, Position
  <2> QED BY <1>2, <2>1, <2>2 DEF FolderFails
<1>3. CASE BookFails
  <2>1. WalkType' /\ ControlType'
    BY <1>0, <1>3 DEF BookFails, GiveUp, WalkType, ControlType
  <2>2. Position'
    BY <1>3 DEF BookFails, GiveUp, Position
  <2> QED BY <1>3, <2>1, <2>2 DEF BookFails
<1>4. CASE ScanFails \/ Restart
  <2>1. Fault /\ Forget /\ root' \in Roots
    BY <1>4 DEF ScanFails, Restart, ControlType
  <2>2. WalkType' /\ ControlType'
    BY <1>0, <2>1 DEF Forget, WalkType, ControlType, Table
  <2>3. Position'
    BY <2>1 DEF Forget, Position
  <2> QED BY <2>1, <2>2, <2>3
<1> QED BY <1>1, <1>2, <1>3, <1>4 DEF Failure

\* No step leaves the types.
LEMMA TypingStep == TypeInv /\ [Next]_vars => TypeInv'
<1> SUFFICES ASSUME Parts, Position, [Next]_vars PROVE Parts' /\ Position'
  BY TypeParts DEF TypeInv
<1>1. CASE Environment
  <2>1. DbType'
    BY <1>1, EnvironmentTyping DEF Parts, DbType, db
  <2>2. WalkType' /\ HistoryType' /\ ControlType'
    BY <1>1, EnvironmentTyping DEF Parts, WalkType, HistoryType, ControlType, walk
  <2>3. Position'
    BY <1>1, EnvironmentTyping DEF Position, walk
  <2> QED BY <1>1, <2>1, <2>2, <2>3, EnvironmentTyping DEF Parts
<1>2. CASE Scanner
  BY <1>2, StartTyping, FolderTyping, BookTyping, OpenTyping, EndTyping DEF Scanner
<1>3. CASE Failure
  BY <1>3, FailureTyping
<1>4. CASE UNCHANGED vars
  BY <1>4 DEF vars, disk, db, walk, history, Parts, Position,
              DiskType, DbType, WalkType, HistoryType, ControlType
<1> QED BY <1>1, <1>2, <1>3, <1>4 DEF Next

\* So the types hold throughout.
LEMMA TypingAlways == SafeSpec => []TypeInv
  BY TypingInit, TypingStep, PTL DEF SafeSpec

(* In every state the variables have their types: times of rows are times   *)
(* of the clock, the catalogue holds only paths of the library, and what    *)
(* upsert_book writes of a file is a hash and a page count it has read of   *)
(* an existing one (scan.rs:436-470), however the file changes meanwhile.   *)
THEOREM Typing == SafeSpec => []TypeOK
  BY TypingAlways, PTL DEF TypeInv
------------------------------------------------------------------------------
(* The catalogue.  The invariant ties the tables to what the scan under way *)
(* has done: rows it has upserted carry its start time and hang from rows   *)
(* it has upserted, so that neither DELETE nor the cascade can reach them.  *)

Ids ==
  /\ \A f \in DOMAIN folderDb : folderDb[f].id \in 1..(nextId - 1)
  /\ \A f, g \in DOMAIN folderDb : folderDb[f].id = folderDb[g].id => f = g

Known ==
  \A f \in DOMAIN pathToId :
      f \in touched /\ f \in DOMAIN folderDb /\ pathToId[f] = folderDb[f].id

TouchedFolders ==
  \A f \in touched \cap Folders :
      /\ f \in DOMAIN folderDb
      /\ folderDb[f].seen = started
      /\ folderDb[f].parent # NoParent => Parent[f] \in touched

TouchedBooks ==
  \A b \in touched \cap Books :
      /\ b \in DOMAIN bookDb
      /\ bookDb[b].seen = started
      /\ Parent[b] \in touched

CatalogueInv == Ids /\ RowsFollowPaths /\ Known /\ TouchedFolders /\ TouchedBooks

\* An empty catalogue is in order.
LEMMA CatalogueInit == Init => CatalogueInv
  BY DEF Init, CatalogueInv, Ids, RowsFollowPaths, Known, TouchedFolders, TouchedBooks

\* Upserting a folder below one that this scan knows keeps the catalogue in
\* order, since an existing row keeps its id and a new one has a fresh id.
LEMMA UpsertCatalogue ==
  ASSUME Parts, CatalogueInv, NEW f \in Folders, NEW parentId \in Nat,
         UpsertFolder(f, parentId), started' = started,
         parentId # NoParent =>
             Parent[f] \in DOMAIN pathToId /\ parentId = pathToId[Parent[f]]
  PROVE  CatalogueInv'
<1> DEFINE row == NewFolderRow(f, parentId)
<1> USE DEF CatalogueInv
<1>1. /\ folderDb' = Put(folderDb, f, row) /\ pathToId' = Put(pathToId, f, row.id)
      /\ bookDb' = bookDb /\ touched' = touched \cup {f}
  BY DEF UpsertFolder
<1>2. /\ row.parent = parentId /\ row.seen = started
      /\ row.id = IF f \in DOMAIN folderDb THEN folderDb[f].id ELSE nextId
  BY DEF NewFolderRow
<1>3. /\ DOMAIN folderDb' = DOMAIN folderDb \cup {f}
      /\ folderDb'[f] = row
      /\ \A q \in DOMAIN folderDb : q # f => folderDb'[q] = folderDb[q]
  BY <1>1 DEF Put
<1>4. /\ DOMAIN pathToId' = DOMAIN pathToId \cup {f}
      /\ pathToId'[f] = row.id
      /\ \A q \in DOMAIN pathToId : q # f => pathToId'[q] = pathToId[q]
  BY <1>1 DEF Put
<1> HIDE DEF row
<1>5. \A g \in DOMAIN folderDb : folderDb'[g].id = folderDb[g].id
  BY <1>2, <1>3
<1>6. nextId' = (IF f \in DOMAIN folderDb THEN nextId ELSE nextId + 1) /\ nextId \in Nat \ {0}
  BY DEF UpsertFolder, Parts, DbType
<1>7. Ids'
  <2>1. \A g \in DOMAIN folderDb' : folderDb'[g].id \in 1..(nextId' - 1)
    BY <1>2, <1>3, <1>5, <1>6 DEF Ids
  <2>2. ASSUME NEW g \in DOMAIN folderDb', NEW h \in DOMAIN folderDb',
               folderDb'[g].id = folderDb'[h].id
        PROVE  g = h
    BY <1>2, <1>3, <1>5, <1>6, <2>2 DEF Ids
  <2> QED BY <2>1, <2>2 DEF Ids
<1>8. RowsFollowPaths'
  <2>1. ASSUME NEW g \in DOMAIN folderDb', folderDb'[g].parent # NoParent
        PROVE  Parent[g] \in DOMAIN folderDb' /\ folderDb'[g].parent = folderDb'[Parent[g]].id
    <3>1. CASE g = f
      BY <1>2, <1>3, <1>5, <2>1, <3>1 DEF Known
    <3>2. CASE g # f
      BY <1>3, <1>5, <2>1, <3>2 DEF RowsFollowPaths
    <3> QED BY <3>1, <3>2
  <2>2. ASSUME NEW b \in DOMAIN bookDb'
        PROVE  Parent[b] \in DOMAIN folderDb' /\ bookDb'[b].folder = folderDb'[Parent[b]].id
    BY <1>1, <1>3, <1>5 DEF RowsFollowPaths
  <2> QED BY <2>1, <2>2 DEF RowsFollowPaths
<1>9. Known'
  BY <1>1, <1>3, <1>4, <1>5 DEF Known
<1>10. TouchedFolders'
  BY <1>1, <1>2, <1>3 DEF TouchedFolders, Known
<1>11. TouchedBooks'
  BY <1>1, TreeAssumption DEF TouchedBooks
<1> QED BY <1>7, <1>8, <1>9, <1>10, <1>11

\* Writing the row of a book below a folder that this scan knows.
LEMMA BookCatalogue ==
  ASSUME Parts, CatalogueInv, NEW b \in Books, NEW row,
         Parent[b] \in DOMAIN pathToId,
         row.folder = pathToId[Parent[b]], row.seen = started,
         b \in DOMAIN bookDb', bookDb'[b] = row,
         DOMAIN bookDb' = DOMAIN bookDb \cup {b},
         \A q \in DOMAIN bookDb : q # b => bookDb'[q] = bookDb[q],
         touched' = touched \cup {b},
         UNCHANGED <<folderDb, nextId, pathToId, started>>
  PROVE  CatalogueInv'
<1> USE DEF CatalogueInv
<1>1. Ids' /\ Known'
  BY DEF Ids, Known
<1>2. RowsFollowPaths'
  BY DEF RowsFollowPaths, Known
<1>3. TouchedFolders'
  BY TreeAssumption DEF TouchedFolders
<1>4. TouchedBooks'
  BY DEF TouchedBooks, Known
<1> QED BY <1>1, <1>2, <1>3, <1>4

\* A step that leaves tables, start time and upserted paths alone.
LEMMA QuietCatalogue ==
  ASSUME CatalogueInv, UNCHANGED <<folderDb, bookDb, nextId, touched, started>>,
         pathToId' = pathToId \/ DOMAIN pathToId' = {}
  PROVE  CatalogueInv'
<1> USE DEF CatalogueInv
<1>1. Ids' /\ RowsFollowPaths'
  BY DEF Ids, RowsFollowPaths
<1>2. Known'
  BY DEF Known
<1>3. TouchedFolders' /\ TouchedBooks'
  BY DEF TouchedFolders, TouchedBooks
<1> QED BY <1>1, <1>2, <1>3

\* DELETE FROM book WHERE seen_at < started.
LEMMA PruneBooksCatalogue ==
  ASSUME Parts, Position, CatalogueInv, PruneBooks
  PROVE  CatalogueInv'
<1> USE DEF CatalogueInv
<1>1. /\ DOMAIN bookDb' = DOMAIN bookDb \ Unseen(bookDb)
      /\ \A b \in DOMAIN bookDb' : bookDb'[b] = bookDb[b]
  BY DEF PruneBooks, Without
<1>2. UNCHANGED <<folderDb, nextId, pathToId, started, touched>>
  BY DEF PruneBooks, walk, history
<1>3. Ids' /\ Known' /\ TouchedFolders'
  BY <1>2 DEF Ids, Known, TouchedFolders
<1>4. RowsFollowPaths'
  BY <1>1, <1>2 DEF RowsFollowPaths
<1>5. TouchedBooks'
  <2>1. started \in Int
    BY DEF Position, Times, PruneBooks
  <2>2. \A b \in touched \cap Books : b \notin Unseen(bookDb)
    BY <2>1 DEF TouchedBooks, Unseen
  <2> QED BY <1>1, <1>2, <2>2 DEF TouchedBooks
<1> QED BY <1>3, <1>4, <1>5

\* The cascade is closed under parent_id, and it stays within any set of rows
\* that is closed and holds what is deleted.
LEMMA CascadeClosed ==
  ASSUME NEW D \in SUBSET DOMAIN folderDb
  PROVE  /\ Cascade(D) \subseteq DOMAIN folderDb
         /\ D \subseteq Cascade(D)
         /\ \A f \in DOMAIN folderDb : \A g \in Cascade(D) :
               folderDb[f].parent = folderDb[g].id => f \in Cascade(D)
  BY DEF Cascade

\* It is the least such set.
LEMMA CascadeLeast ==
  ASSUME NEW D \in SUBSET DOMAIN folderDb, NEW S \in SUBSET DOMAIN folderDb,
         D \subseteq S,
         \A f \in DOMAIN folderDb : \A g \in S :
             folderDb[f].parent = folderDb[g].id => f \in S
  PROVE  Cascade(D) \subseteq S
  BY DEF Cascade

\* DELETE FROM folder WHERE seen_at < started, cascading: what this scan has
\* upserted is out of reach, because the rows it has not upserted are closed
\* under parent_id.
LEMMA PruneFoldersCatalogue ==
  ASSUME Parts, Position, CatalogueInv, PruneFolders
  PROVE  CatalogueInv'
<1> USE DEF CatalogueInv
<1> DEFINE old  == Unseen(folderDb)
           gone == Cascade(old)
           ids  == {folderDb[f].id : f \in gone}
<1>1. /\ folderDb' = Without(folderDb, gone)
      /\ bookDb' = Without(bookDb, {b \in DOMAIN bookDb : bookDb[b].folder \in ids})
      /\ UNCHANGED <<nextId, pathToId, started, touched>>
  BY DEF PruneFolders, walk, history
<1>2. /\ DOMAIN folderDb' = DOMAIN folderDb \ gone
      /\ \A f \in DOMAIN folderDb' : folderDb'[f] = folderDb[f]
  BY <1>1 DEF Without
<1>3. /\ DOMAIN bookDb' = {b \in DOMAIN bookDb : bookDb[b].folder \notin ids}
      /\ \A b \in DOMAIN bookDb' : bookDb'[b] = bookDb[b]
  BY <1>1 DEF Without
<1>4. old \in SUBSET DOMAIN folderDb
  BY DEF Unseen
<1>5. /\ gone \subseteq DOMAIN folderDb
      /\ \A f \in DOMAIN folderDb : \A g \in gone :
            folderDb[f].parent = folderDb[g].id => f \in gone
  BY <1>4, CascadeClosed
<1>6. gone \cap touched = {}
  <2> DEFINE S == DOMAIN folderDb \ touched
  <2>1. old \subseteq S
    <3>1. started \in Int
      BY DEF Position, Times, PruneFolders
    <3>2. DOMAIN folderDb \subseteq Folders
      BY DEF Parts, DbType, Table
    <3> QED BY <3>1, <3>2 DEF TouchedFolders, Unseen
  <2>2. ASSUME NEW f \in DOMAIN folderDb, NEW g \in S, folderDb[f].parent = folderDb[g].id
        PROVE  f \in S
    <3>1. folderDb[f].parent # NoParent
      BY <2>2 DEF Ids, NoParent, Parts, DbType
    <3>2. Parent[f] = g
      BY <2>2, <3>1 DEF RowsFollowPaths, Ids
    <3>3. f \in Folders
      BY DEF Parts, DbType, Table
    <3> QED BY <3>1, <3>2, <3>3 DEF TouchedFolders
  <2> HIDE DEF gone, old
  <2>3. Cascade(old) \subseteq S
    BY <1>4, <2>1, <2>2, CascadeLeast
  <2> QED BY <2>3 DEF gone
<1> HIDE DEF gone, old
<1>7. Ids'
  BY <1>1, <1>2 DEF Ids
<1>8. Known'
  BY <1>1, <1>2, <1>6 DEF Known
<1>9. TouchedFolders'
  BY <1>1, <1>2, <1>6 DEF TouchedFolders
<1>10. TouchedBooks'
  <2>1. ASSUME NEW b \in touched \cap Books
        PROVE  bookDb[b].folder \notin ids
    <3>1. /\ b \in DOMAIN bookDb /\ Parent[b] \in touched
          /\ Parent[b] \in DOMAIN folderDb
          /\ bookDb[b].folder = folderDb[Parent[b]].id
      BY DEF TouchedBooks, RowsFollowPaths
    <3> QED BY <1>5, <1>6, <3>1 DEF Ids
  <2> QED BY <1>1, <1>3, <2>1 DEF TouchedBooks
<1>11. RowsFollowPaths'
  <2>1. ASSUME NEW f \in DOMAIN folderDb', folderDb'[f].parent # NoParent
        PROVE  Parent[f] \in DOMAIN folderDb' /\ folderDb'[f].parent = folderDb'[Parent[f]].id
    BY <1>2, <1>5, <2>1 DEF RowsFollowPaths
  <2>2. ASSUME NEW b \in DOMAIN bookDb'
        PROVE  Parent[b] \in DOMAIN folderDb' /\ bookDb'[b].folder = folderDb'[Parent[b]].id
    BY <1>2, <1>3, <1>5 DEF RowsFollowPaths
  <2> QED BY <2>1, <2>2 DEF RowsFollowPaths
<1> QED BY <1>7, <1>8, <1>9, <1>10, <1>11

\* No step disturbs the catalogue.
LEMMA CatalogueStep ==
  ASSUME Parts, Position, CatalogueInv, [Next]_vars
  PROVE  CatalogueInv'
<1>1. CASE Environment
  BY <1>1, EnvironmentTyping, QuietCatalogue DEF db, walk, history
<1>2. CASE Scanner
  <2>1. CASE StartScan
    <3>1. /\ UNCHANGED <<folderDb, bookDb, nextId>>
          /\ touched' = {} /\ DOMAIN pathToId' = {}
      BY <2>1 DEF StartScan, db
    <3> QED BY <3>1 DEF CatalogueInv, Ids, RowsFollowPaths, Known, TouchedFolders, TouchedBooks
  <2>2. CASE UpsertRoot
    <3>1. root \in Folders /\ NoParent \in Nat
      BY TreeAssumption DEF Parts, ControlType, NoParent
    <3>2. UpsertFolder(root, NoParent) /\ started' = started
      BY <2>2 DEF UpsertRoot
    <3> QED BY <3>1, <3>2, UpsertCatalogue
  <2>3. CASE FolderDone
    <3>1. cur \in Folders /\ Parent[cur] \in DOMAIN pathToId
      BY <2>3 DEF FolderDone, Position
    <3>2. pathToId[Parent[cur]] \in Nat
      BY <3>1 DEF Parts, WalkType, Table
    <3>3. UpsertFolder(cur, pathToId[Parent[cur]]) /\ started' = started
      BY <2>3 DEF FolderDone
    <3> QED BY <3>1, <3>2, <3>3, UpsertCatalogue
  <2>4. CASE CompareBook
    <3>1. cur \in Books /\ Parent[cur] \in DOMAIN pathToId
      BY <2>4 DEF CompareBook, Position
    <3>2. UNCHANGED <<folderDb, nextId, pathToId, started>>
      BY <2>4 DEF CompareBook
    <3>3. CASE /\ cur \in DOMAIN bookDb
               /\ bookDb' = [bookDb EXCEPT ![cur] = SeenRow(cur)]
               /\ touched' = touched \cup {cur}
      <4>1. /\ SeenRow(cur).folder = pathToId[Parent[cur]]
            /\ SeenRow(cur).seen = started
        BY <3>3 DEF SeenRow, Parts, DbType, Table, BookRow
      <4>2. /\ cur \in DOMAIN bookDb' /\ bookDb'[cur] = SeenRow(cur)
            /\ DOMAIN bookDb' = DOMAIN bookDb \cup {cur}
            /\ \A q \in DOMAIN bookDb : q # cur => bookDb'[q] = bookDb[q]
        BY <3>3
      <4> QED BY <3>1, <3>2, <3>3, <4>1, <4>2, BookCatalogue
    <3>4. CASE UNCHANGED <<bookDb, touched>>
      BY <3>2, <3>4, QuietCatalogue
    <3> QED BY <2>4, <3>3, <3>4 DEF CompareBook
  <2>5. CASE OpenBook
    <3>1. cur \in Books /\ Parent[cur] \in DOMAIN pathToId
      BY <2>5 DEF OpenBook, Position
    <3>2. UNCHANGED <<folderDb, nextId, pathToId, started>>
      BY <2>5 DEF OpenBook
    <3>3. CASE /\ bookDb' = Put(bookDb, cur, NewBookRow(cur))
               /\ touched' = touched \cup {cur}
      <4>1. /\ NewBookRow(cur).folder = pathToId[Parent[cur]]
            /\ NewBookRow(cur).seen = started
        BY DEF NewBookRow
      <4>2. /\ cur \in DOMAIN bookDb' /\ bookDb'[cur] = NewBookRow(cur)
            /\ DOMAIN bookDb' = DOMAIN bookDb \cup {cur}
            /\ \A q \in DOMAIN bookDb : q # cur => bookDb'[q] = bookDb[q]
        BY <3>3 DEF Put
      <4> QED BY <3>1, <3>2, <3>3, <4>1, <4>2, BookCatalogue
    <3>4. CASE UNCHANGED <<bookDb, touched>>
      BY <3>2, <3>4, QuietCatalogue
    <3> QED BY <2>5, <3>3, <3>4 DEF OpenBook
  <2>6. CASE PruneBooks
    BY <2>6, PruneBooksCatalogue
  <2>7. CASE PruneFolders
    BY <2>7, PruneFoldersCatalogue
  <2>8. CASE \/ ListRoot \/ HashBook \/ FinishScan
             \/ \E f \in Folders : VisitFolder(f)
             \/ \E b \in Books : VisitBook(b)
    <3>1. /\ UNCHANGED <<folderDb, bookDb, nextId, touched, started>>
          /\ pathToId' = pathToId \/ DOMAIN pathToId' = {}
      BY <2>8 DEF ListRoot, HashBook, FinishScan, VisitFolder, VisitBook, db, history
    <3> QED BY <3>1, QuietCatalogue
  <2> QED BY <1>2, <2>1, <2>2, <2>3, <2>4, <2>5, <2>6, <2>7, <2>8 DEF Scanner
<1>3. CASE Failure
  <2>1. UNCHANGED <<folderDb, bookDb, nextId, touched>>
    BY <1>3 DEF Failure, ListingFails, FolderFails, BookFails, ScanFails, Restart, Fault, db
  <2>2. started' = started /\ (pathToId' = pathToId \/ DOMAIN pathToId' = {})
    BY <1>3 DEF Failure, ListingFails, FolderFails, BookFails, ScanFails, Restart, Forget
  <2> QED BY <2>1, <2>2, QuietCatalogue
<1>4. CASE UNCHANGED vars
  BY <1>4, QuietCatalogue DEF vars, db, walk, history
<1> QED BY <1>1, <1>2, <1>3, <1>4 DEF Next

\* So the catalogue is always in order.
LEMMA CatalogueAlways == SafeSpec => [](TypeInv /\ CatalogueInv)
<1>1. Init => TypeInv /\ CatalogueInv
  BY TypingInit, CatalogueInit
<1>2. TypeInv /\ CatalogueInv /\ [Next]_vars => (TypeInv /\ CatalogueInv)'
  BY TypingStep, CatalogueStep, TypeParts DEF TypeInv
<1> QED BY <1>1, <1>2, PTL DEF SafeSpec

(* Every row hangs from the row of the directory its path is in, for every  *)
(* tree, any number of scans, and wherever earlier scans failed or crashed  *)
(* (the upserts and DELETEs of scan.rs, the foreign keys of schema.sql).    *)
THEOREM Filing == SafeSpec => []RowsFollowPaths
  BY CatalogueAlways, PTL DEF CatalogueInv

(* No DELETE and no cascade of a scan removes a row that this scan has      *)
(* upserted: the rows it has not met are closed under parent_id.            *)
THEOREM Survival == SafeSpec => []SeenSurvives
<1>1. TypeInv /\ CatalogueInv => SeenSurvives
  <2> SUFFICES ASSUME TypeInv, CatalogueInv PROVE SeenSurvives
    OBVIOUS
  <2>1. touched \subseteq Folders \cup Books
    BY DEF TypeInv, TypeOK, Paths
  <2> QED BY <2>1 DEF CatalogueInv, TouchedFolders, TouchedBooks, SeenSurvives
<1> QED BY <1>1, CatalogueAlways, PTL

(* path_to_id always leads to the row of the folder it was asked for, and   *)
(* knows the directory of everything the walk still has to return: the      *)
(* "orphan" branches of scan.rs:144 and 170 cannot be reached.              *)
THEOREM Parenthood == SafeSpec => []WalkHasParents
<1>1. TypeInv /\ CatalogueInv => WalkHasParents
  BY DEF TypeInv, Position, CatalogueInv, Known, WalkHasParents
<1> QED BY <1>1, CatalogueAlways, PTL
------------------------------------------------------------------------------
(* Stamps.  A path that never shows one modification time twice cannot get  *)
(* back to a time that was read of it before it changed.  The size has no   *)
(* part in it.                                                              *)

FileStamped == \A b \in Books : file[b] # Absent => file[b].mtime \in stamps[b]

RowStamped == \A b \in DOMAIN bookDb : bookDb[b].mtime \in stamps[b] \cup {NoTime}

RowFits ==
  \A b \in DOMAIN bookDb :
      file[b] # Absent /\ bookDb[b].mtime = file[b].mtime
      => bookDb[b].hash = file[b].content /\ bookDb[b].pages = file[b].content

ReadStamped == pc \in {"hash", "open"} => stat.mtime \in stamps[cur] \cup {NoTime}

HashFits ==
  pc = "open" /\ file[cur] # Absent /\ stat.mtime = file[cur].mtime
  => stat.hash = file[cur].content

StampInv == FileStamped /\ RowStamped /\ RowFits /\ ReadStamped /\ HashFits

\* Nothing is hashed or stamped at first.
LEMMA StampInit == Init => StampInv
<1> SUFFICES ASSUME Init PROVE StampInv
  OBVIOUS
<1>1. FileStamped
  BY DEF Init, FileStamped
<1>2. DOMAIN bookDb = {} /\ pc = "idle"
  BY DEF Init
<1> QED BY <1>1, <1>2 DEF StampInv, RowStamped, RowFits, ReadStamped, HashFits

\* A change of the library leaves a file alone, removes it, or stamps it with
\* a time its path has not shown.
LEMMA LibraryStamps ==
  ASSUME ~Restamped, Parts, FileStamped, Environment
  PROVE  /\ FileStamped'
         /\ \A b \in Books :
               /\ stamps[b] \subseteq stamps'[b]
               /\ file'[b] # Absent => file'[b] = file[b] \/ file'[b].mtime \notin stamps[b]
<1> USE DEF FileStamped
<1>0. file \in [Books -> Stamped \cup {Absent}] /\ stamps \in [Books -> SUBSET Times]
  BY DEF Parts, DiskType
<1>1. CASE Tick
  BY <1>1 DEF Tick, disk
<1>2. ASSUME NEW b \in Books, NEW c \in Contents, WriteFile(b, c)
      PROVE  /\ FileStamped'
             /\ \A d \in Books :
                   /\ stamps[d] \subseteq stamps'[d]
                   /\ file'[d] # Absent => file'[d] = file[d] \/ file'[d].mtime \notin stamps[d]
  BY <1>0, <1>2 DEF WriteFile
<1>3. ASSUME NEW b \in Books, RemoveFile(b)
      PROVE  /\ FileStamped'
             /\ \A d \in Books :
                   /\ stamps[d] \subseteq stamps'[d]
                   /\ file'[d] # Absent => file'[d] = file[d] \/ file'[d].mtime \notin stamps[d]
  BY <1>0, <1>3 DEF RemoveFile
<1>4. ASSUME NEW b \in Books, NEW to \in Books, MoveFile(b, to)
      PROVE  /\ FileStamped'
             /\ \A d \in Books :
                   /\ stamps[d] \subseteq stamps'[d]
                   /\ file'[d] # Absent => file'[d] = file[d] \/ file'[d].mtime \notin stamps[d]
  <2>1. \A d \in Books : /\ file'[d] = IF d = b THEN Absent ELSE IF d = to THEN file[b] ELSE file[d]
                         /\ stamps'[d] = IF d = to THEN stamps[d] \cup {file[b].mtime} ELSE stamps[d]
    BY <1>0, <1>4 DEF MoveFile
  <2>2. file[b].mtime \notin stamps[to]
    BY <1>4 DEF MoveFile
  <2>3. FileStamped'
    BY <2>1
  <2> QED BY <2>1, <2>2, <2>3
<1>5. ASSUME NEW f \in Folders, MakeDir(f) \/ RemoveDir(f)
      PROVE  /\ FileStamped'
             /\ \A d \in Books :
                   /\ stamps[d] \subseteq stamps'[d]
                   /\ file'[d] # Absent => file'[d] = file[d] \/ file'[d].mtime \notin stamps[d]
  BY <1>0, <1>5 DEF MakeDir, RemoveDir
<1> QED BY <1>1, <1>2, <1>3, <1>4, <1>5 DEF Environment

\* No step makes a stamp fit other contents than those it was read of.
LEMMA StampStep ==
  ASSUME ~Restamped, Parts, Position, StampInv, [Next]_vars
  PROVE  StampInv'
<1> USE DEF StampInv
<1>0. /\ NoTime \notin Times
      /\ file \in [Books -> Stamped \cup {Absent}] /\ stamps \in [Books -> SUBSET Times]
      /\ Table(bookDb, Books, BookRow)
  BY DEF Parts, DiskType, DbType, NoTime, Times
<1>1. CASE Environment
  <2>1. UNCHANGED <<bookDb, pc, cur, stat>>
    BY <1>1, EnvironmentTyping DEF db, walk
  <2>2. /\ FileStamped'
        /\ \A b \in Books :
              /\ stamps[b] \subseteq stamps'[b]
              /\ file'[b] # Absent => file'[b] = file[b] \/ file'[b].mtime \notin stamps[b]
    BY <1>1, LibraryStamps
  <2>3. \A b \in Books : file'[b] # Absent => file'[b].mtime \in Times
    BY <1>1, EnvironmentTyping DEF DiskType, Stamped
  <2>4. RowStamped'
    BY <1>0, <2>1, <2>2 DEF RowStamped, Table
  <2>5. RowFits'
    <3> SUFFICES ASSUME NEW b \in DOMAIN bookDb, file'[b] # Absent,
                        bookDb[b].mtime = file'[b].mtime
                 PROVE  bookDb[b].hash = file'[b].content /\ bookDb[b].pages = file'[b].content
      BY <2>1 DEF RowFits
    <3>1. b \in Books /\ bookDb[b].mtime \in stamps[b]
      BY <1>0, <2>3 DEF RowStamped, Table
    <3>2. file'[b] = file[b]
      BY <2>2, <3>1
    <3> QED BY <3>2 DEF RowFits
  <2>6. ReadStamped'
    BY <2>1, <2>2 DEF ReadStamped, Position
  <2>7. HashFits'
    <3> SUFFICES ASSUME pc = "open", file'[cur] # Absent, stat.mtime = file'[cur].mtime
                 PROVE  stat.hash = file'[cur].content
      BY <2>1 DEF HashFits
    <3>1. cur \in Books /\ stat.mtime \in stamps[cur]
      BY <1>0, <2>3 DEF ReadStamped, Position
    <3>2. file'[cur] = file[cur]
      BY <2>2, <3>1
    <3> QED BY <3>2 DEF HashFits
  <2> QED BY <2>2, <2>4, <2>5, <2>6, <2>7
<1>2. ASSUME UNCHANGED <<file, stamps, bookDb>>, pc' \notin {"hash", "open"}
      PROVE  StampInv'
  BY <1>2 DEF FileStamped, RowStamped, RowFits, ReadStamped, HashFits
<1>3. CASE CompareBook
  <2>1. cur \in Books /\ UNCHANGED <<file, stamps>>
    BY <1>3 DEF CompareBook, Position, disk
  <2>2. CASE /\ cur \in DOMAIN bookDb
             /\ bookDb' = [bookDb EXCEPT ![cur] = SeenRow(cur)]
             /\ pc' = "walk"
    <3>1. \A b \in DOMAIN bookDb : bookDb[b] \in BookRow
      BY <1>0 DEF Table
    <3>2. /\ DOMAIN bookDb' = DOMAIN bookDb
          /\ \A b \in DOMAIN bookDb : /\ bookDb'[b].mtime = bookDb[b].mtime
                                      /\ bookDb'[b].hash = bookDb[b].hash
                                      /\ bookDb'[b].pages = bookDb[b].pages
      BY <2>2, <3>1 DEF SeenRow, BookRow
    <3> QED BY <2>1, <2>2, <3>2 DEF FileStamped, RowStamped, RowFits, ReadStamped, HashFits
  <2>3. CASE /\ stat' = [stat EXCEPT !.mtime = Mtime(cur)]
             /\ pc' = "hash"
             /\ UNCHANGED <<bookDb, cur>>
    <3>1. stat'.mtime = Mtime(cur)
      BY <2>3 DEF Parts, WalkType
    <3>2. Mtime(cur) \in stamps[cur] \cup {NoTime}
      BY <2>1 DEF Mtime, FileStamped
    <3> QED BY <2>1, <2>3, <3>1, <3>2
            DEF FileStamped, RowStamped, RowFits, ReadStamped, HashFits
  <2> QED BY <1>3, <2>2, <2>3 DEF CompareBook
<1>4. CASE HashBook
  <2>1. cur \in Books /\ UNCHANGED <<file, stamps, bookDb>>
    BY <1>4 DEF HashBook, Position, disk, db
  <2>2. CASE pc' = "open" /\ cur' = cur /\ stat' = [stat EXCEPT !.hash = file[cur].content]
    <3>1. stat'.hash = file[cur].content /\ stat'.mtime = stat.mtime
      BY <2>2 DEF Parts, WalkType
    <3> QED BY <1>4, <2>1, <2>2, <3>1
            DEF HashBook, FileStamped, RowStamped, RowFits, ReadStamped, HashFits
  <2>3. CASE GiveUp
    BY <1>2, <2>1, <2>3 DEF GiveUp
  <2> QED BY <1>4, <2>2, <2>3 DEF HashBook
<1>5. CASE OpenBook
  <2>1. cur \in Books /\ pc' = "walk" /\ UNCHANGED <<file, stamps>>
    BY <1>5 DEF OpenBook, GiveUp, Position, disk
  <2>2. CASE bookDb' = Put(bookDb, cur, NewBookRow(cur))
    <3>1. /\ DOMAIN bookDb' = DOMAIN bookDb \cup {cur}
          /\ bookDb'[cur] = NewBookRow(cur)
          /\ \A q \in DOMAIN bookDb : q # cur => bookDb'[q] = bookDb[q]
      BY <2>2 DEF Put
    <3>2. /\ NewBookRow(cur).mtime = stat.mtime
          /\ NewBookRow(cur).hash = stat.hash
          /\ NewBookRow(cur).pages = file[cur].content
      BY DEF NewBookRow
    <3>3. RowStamped'
      BY <1>5, <2>1, <3>1, <3>2 DEF OpenBook, RowStamped, ReadStamped
    <3>4. RowFits'
      BY <1>5, <2>1, <3>1, <3>2 DEF OpenBook, RowFits, HashFits
    <3> QED BY <2>1, <3>3, <3>4 DEF FileStamped, ReadStamped, HashFits
  <2>3. CASE UNCHANGED bookDb
    BY <1>2, <2>1, <2>3
  <2> QED BY <1>5, <2>2, <2>3 DEF OpenBook
<1>6. ASSUME UNCHANGED <<file, stamps>>, pc' \notin {"hash", "open"},
             NEW gone, bookDb' = Without(bookDb, gone)
      PROVE  StampInv'
  <2>1. DOMAIN bookDb' \subseteq DOMAIN bookDb /\ \A b \in DOMAIN bookDb' : bookDb'[b] = bookDb[b]
    BY <1>6 DEF Without
  <2> QED BY <1>6, <2>1 DEF FileStamped, RowStamped, RowFits, ReadStamped, HashFits
<1>7. CASE PruneBooks \/ PruneFolders
  BY <1>6, <1>7 DEF PruneBooks, PruneFolders, disk
<1>8. CASE \/ StartScan \/ UpsertRoot \/ ListRoot \/ FolderDone \/ FinishScan
           \/ \E f \in Folders : VisitFolder(f)
           \/ \E b \in Books : VisitBook(b)
  BY <1>2, <1>8 DEF StartScan, UpsertRoot, UpsertFolder, ListRoot, FolderDone, FinishScan,
                    VisitFolder, VisitBook, disk, db
<1>9. CASE Failure
  <2>1. UNCHANGED <<file, stamps, bookDb>>
    BY <1>9 DEF Failure, ListingFails, FolderFails, BookFails, ScanFails, Restart, Fault, disk, db
  <2>2. pc' \notin {"hash", "open"}
    BY <1>9 DEF Failure, ListingFails, FolderFails, BookFails, GiveUp, ScanFails, Restart, Forget
  <2> QED BY <1>2, <2>1, <2>2
<1>10. CASE UNCHANGED vars
  BY <1>10 DEF vars, disk, db, walk, FileStamped, RowStamped, RowFits, ReadStamped, HashFits
<1> QED BY <1>1, <1>3, <1>4, <1>5, <1>7, <1>8, <1>9, <1>10 DEF Next, Scanner

(* If no path shows one modification time twice, a row whose stamps still   *)
(* fit the file at its path has that file's hash and page count, so the     *)
(* early return of upsert_book (scan.rs:428-437) is right however files     *)
(* change between the stat, the hash and the open, and wherever scans fail. *)
THEOREM Stamping == ~Restamped => (SafeSpec => []StampsAreSound)
<1> SUFFICES ASSUME ~Restamped PROVE SafeSpec => []StampsAreSound
  OBVIOUS
<1>1. Init => TypeInv /\ StampInv
  BY TypingInit, StampInit
<1>2. TypeInv /\ StampInv /\ [Next]_vars => (TypeInv /\ StampInv)'
  BY TypingStep, StampStep, TypeParts DEF TypeInv
<1>3. StampInv => StampsAreSound
  BY DEF StampInv, RowFits, StampsAreSound
<1> QED BY <1>1, <1>2, <1>3, PTL DEF SafeSpec
==============================================================================
