--------------------------- MODULE LibraryWalkProofs ---------------------------
(***************************************************************************)
(* What a scan that nothing disturbed has done when it ends: the catalogue *)
(* is the library.  The invariant follows the walk.                        *)
(***************************************************************************)
EXTENDS LibraryScanProofs

\* Rows are only made of archives that could be opened.
ReadableRows == \A b \in DOMAIN bookDb : bookDb[b].pages \in Readable

\* The scan under way, or the last one, met no error and no change.
Undisturbed == quiet /\ complete

\* What the walker has given to scan() and scan() is not done with.
InHand == pc \in {"folder", "compare", "hash", "open"}

\* A file that upsert_book can make a row of.
Fileable(b) == file[b] # Absent /\ file[b].content \in Readable \ Oversize

\* The walk begins at the root.
FromRoot ==
  /\ pc = "root" => touched = {}
  /\ pc = "list" => touched = {root}
  /\ pc # "root" => root \in touched

\* Whatever is in a directory that was walked has been upserted, is in hand,
\* is still to be returned, or is a book that cannot be filed.
Walked ==
  pc \notin {"root", "list"} =>
      \A f \in touched \cap Folders : \A p \in Entries(f) :
          \/ p \in touched \cup todo
          \/ InHand /\ p = cur
          \/ p \in Books /\ ~Fileable(p)

\* What was read of the entry in hand is still so.
ReadRight ==
  /\ pc = "folder" => listing = Entries(cur)
  /\ pc \in {"compare", "hash", "open"} =>
        /\ file[cur] # Absent
        /\ file[cur].content \notin Oversize
        /\ stat.size = SizeOf[file[cur].content]
  /\ pc = "open" => stat.hash = file[cur].content

\* What was upserted is in the library, with its content.
RowsRight ==
  /\ \A f \in touched \cap Folders :
        /\ f \in Reachable
        /\ folderDb[f].parent = NoParent <=> f = root
  /\ \A b \in touched \cap Books :
        /\ b \in Indexable
        /\ bookDb[b].hash = file[b].content
        /\ bookDb[b].pages = file[b].content

\* An entry that is not passed over, of a directory that is reached.
OnWay(p) ==
  /\ p \notin Hidden
  /\ Parent[p] \in Reachable
  /\ p \in dirs \/ (p \in Books /\ file[p] # Absent)

Ahead ==
  /\ \A p \in todo \cup listing : OnWay(p)
  /\ InHand => OnWay(cur)

\* If no row was as new as the scan, those it has not upserted are older until
\* they are pruned, and then they are gone.
OldRows ==
  fresh =>
    /\ \A f \in DOMAIN folderDb \ touched :
          pc \notin {"idle", "refresh"} /\ folderDb[f].seen < started
    /\ \A b \in DOMAIN bookDb \ touched :
          pc \notin {"idle", "pruneFolders", "refresh"} /\ bookDb[b].seen < started

Progress == FromRoot /\ Walked /\ ReadRight /\ RowsRight /\ Ahead /\ OldRows

WalkInv == ReadableRows /\ (Undisturbed => Progress)
------------------------------------------------------------------------------
(* What a scan reaches.                                                    *)

\* The root is reached, and so is every directory in one that is reached.
LEMMA ReachableClosed ==
  ASSUME Parts
  PROVE  /\ Reachable \subseteq Folders
         /\ root \in Reachable
         /\ \A g \in dirs \ Hidden : Parent[g] \in Reachable => g \in Reachable
<1>1. root \in Folders /\ dirs \subseteq Folders
  BY TreeAssumption DEF Parts, ControlType, DiskType
<1> QED BY <1>1 DEF Reachable

\* Nothing else is.
LEMMA ReachableLeast ==
  ASSUME NEW S \in SUBSET Folders, root \in S,
         \A g \in dirs \ Hidden : Parent[g] \in S => g \in S
  PROVE  Reachable \subseteq S
  BY DEF Reachable

\* A scan does not come back to the root from below.
LEMMA RootIsTop ==
  ASSUME Parts
  PROVE  Parent[root] \notin Reachable
<1> SUFFICES ASSUME Parent[root] \in Reachable PROVE FALSE
  OBVIOUS
<1>1. root \in Reachable /\ Reachable \subseteq Folders /\ root \in Folders
  BY ReachableClosed
<1> DEFINE S == {f \in Reachable : f = root \/ Parent[f] \in Reachable}
<1>2. root \in S /\ S \in SUBSET Folders
  BY <1>1
<1>3. \A g \in dirs \ Hidden : Parent[g] \in S => g \in S
  BY ReachableClosed
<1>4. Reachable \subseteq S
  <2> HIDE DEF S
  <2> QED BY <1>2, <1>3, ReachableLeast
<1>5. \A f \in Reachable : Parent[f] \in Reachable
  BY <1>4
<1> QED BY <1>1, <1>5, GroundAssumption

\* A folder on the way is reached, and what a reached directory lists is on
\* the way.
LEMMA OnTheWay ==
  ASSUME Parts
  PROVE  /\ \A p \in Folders : OnWay(p) => p \in Reachable /\ p # root
         /\ \A f \in Reachable : \A p \in Entries(f) : OnWay(p) /\ p \in Paths
<1>1. ASSUME NEW p \in Folders, OnWay(p)
      PROVE  p \in Reachable /\ p # root
  BY <1>1, ReachableClosed, RootIsTop, TreeAssumption DEF OnWay
<1>2. ASSUME NEW f \in Reachable, NEW p \in Entries(f)
      PROVE  OnWay(p) /\ p \in Paths
  BY <1>2 DEF Entries, OnWay
<1> QED BY <1>1, <1>2

\* All this is a matter of the files and the root.
LEMMA SameLibrary ==
  ASSUME UNCHANGED <<dirs, file, root>>
  PROVE  /\ Reachable' = Reachable
         /\ Indexable' = Indexable
         /\ \A f : Entries(f)' = Entries(f)
         /\ \A p : OnWay(p)' <=> OnWay(p)
         /\ \A b : Fileable(b)' <=> Fileable(b)
<1>1. Reachable' = Reachable
  BY DEF Reachable
<1>2. Indexable' = Indexable
  BY <1>1 DEF Indexable
<1>3. ASSUME NEW f PROVE Entries(f)' = Entries(f)
  BY DEF Entries
<1>4. ASSUME NEW p PROVE OnWay(p)' <=> OnWay(p)
  BY <1>1 DEF OnWay
<1>5. ASSUME NEW b PROVE Fileable(b)' <=> Fileable(b)
  BY DEF Fileable
<1> QED BY <1>1, <1>2, <1>3, <1>4, <1>5
------------------------------------------------------------------------------
(* The steps of a scan that nothing disturbs.                              *)

\* A scan begins.
LEMMA StartProgress ==
  ASSUME Parts, Position, StartScan
  PROVE  Progress'
<1>1. /\ pc' = "root" /\ touched' = {} /\ todo' = {} /\ started' = clock
      /\ UNCHANGED <<folderDb, bookDb, listing>>
      /\ fresh' = /\ \A f \in DOMAIN folderDb : folderDb[f].seen < clock
                  /\ \A b \in DOMAIN bookDb : bookDb[b].seen < clock
  BY DEF StartScan, db
<1>2. listing = {}
  BY DEF Position, StartScan
<1>3. FromRoot' /\ Walked' /\ ReadRight' /\ RowsRight' /\ Ahead'
  BY <1>1, <1>2 DEF FromRoot, Walked, ReadRight, RowsRight, Ahead, InHand
<1>4. OldRows'
  BY <1>1 DEF OldRows
<1> QED BY <1>3, <1>4 DEF Progress

\* The row of a folder that was just upserted.
LEMMA UpsertedFolder ==
  ASSUME NEW f, NEW parentId, UpsertFolder(f, parentId)
  PROVE  /\ touched' = touched \cup {f}
         /\ bookDb' = bookDb
         /\ DOMAIN folderDb' = DOMAIN folderDb \cup {f}
         /\ folderDb'[f].parent = parentId
         /\ \A g \in DOMAIN folderDb : g # f => folderDb'[g] = folderDb[g]
<1> DEFINE row == NewFolderRow(f, parentId)
<1>1. row.parent = parentId
  BY DEF NewFolderRow
<1>2. folderDb' = Put(folderDb, f, row) /\ touched' = touched \cup {f} /\ bookDb' = bookDb
  BY DEF UpsertFolder
<1> HIDE DEF row
<1> QED BY <1>1, <1>2 DEF Put

\* The row of the root is written first.
LEMMA RootProgress ==
  ASSUME Parts, Position, CatalogueInv, Progress, UpsertRoot
  PROVE  Progress'
<1>1. /\ pc = "root" /\ pc' = "list" /\ touched = {}
      /\ UNCHANGED <<dirs, file, root, todo, listing, started, fresh>>
  BY DEF UpsertRoot, Progress, FromRoot, disk
<1>2. /\ touched' = {root} /\ bookDb' = bookDb
      /\ DOMAIN folderDb' = DOMAIN folderDb \cup {root}
      /\ folderDb'[root].parent = NoParent
      /\ \A g \in DOMAIN folderDb : g # root => folderDb'[g] = folderDb[g]
  BY <1>1, UpsertedFolder DEF UpsertRoot
<1>3. root \in Reachable /\ root \in Folders /\ root \notin Books
  BY ReachableClosed, TreeAssumption
<1>4. todo = {} /\ listing = {}
  BY <1>1 DEF Position
<1>5. FromRoot' /\ Walked' /\ ReadRight' /\ Ahead'
  BY <1>1, <1>2, <1>4 DEF FromRoot, Walked, ReadRight, Ahead, InHand
<1>6. RowsRight'
  BY <1>1, <1>2, <1>3, SameLibrary DEF RowsRight
<1>7. OldRows'
  BY <1>1, <1>2 DEF OldRows, Progress
<1> QED BY <1>5, <1>6, <1>7 DEF Progress

\* The catalogue, as far as it is right, stays so while it is left alone.
LEMMA RowsStay ==
  ASSUME RowsRight, UNCHANGED <<dirs, file, root, folderDb, bookDb, touched>>
  PROVE  RowsRight'
  BY SameLibrary DEF RowsRight

\* What is old stays old while the rows stay.
LEMMA OldStay ==
  ASSUME OldRows, UNCHANGED <<folderDb, bookDb, touched, started, fresh>>,
         pc' \notin {"idle", "pruneFolders", "refresh"}
  PROVE  OldRows'
  BY DEF OldRows

\* The entries of the root are what is to be visited.
LEMMA ListProgress ==
  ASSUME Parts, Position, CatalogueInv, Progress, ListRoot
  PROVE  Progress'
<1>1. /\ pc = "list" /\ pc' = "walk" /\ touched = {root} /\ todo' = Entries(root)
      /\ UNCHANGED <<dirs, file, root, folderDb, bookDb, touched, listing, started, fresh>>
  BY DEF ListRoot, Progress, FromRoot, disk, db, history
<1>2. root \in Reachable /\ listing = {}
  BY <1>1, ReachableClosed DEF Position
<1>3. Entries(root)' = Entries(root)
  BY <1>1, SameLibrary
<1>4. FromRoot' /\ ReadRight'
  BY <1>1 DEF FromRoot, ReadRight
<1>5. Walked'
  BY <1>1, <1>3 DEF Walked
<1>6. Ahead'
  <2>1. \A p \in Entries(root) : OnWay(p)
    BY <1>2, OnTheWay
  <2> QED BY <1>1, <1>2, <2>1, SameLibrary DEF Ahead, InHand
<1>7. RowsRight' /\ OldRows'
  BY <1>1, RowsStay, OldStay DEF Progress
<1> QED BY <1>4, <1>5, <1>6, <1>7 DEF Progress

\* A folder that is visited is filed, and its entries are read.
LEMMA VisitFolderProgress ==
  ASSUME Parts, Position, CatalogueInv, Progress, NEW f \in Folders, VisitFolder(f)
  PROVE  Progress'
<1>1. /\ pc = "walk" /\ pc' = "folder" /\ f \in todo /\ todo' = todo \ {f}
      /\ cur' = f /\ listing' = Entries(f)
      /\ UNCHANGED <<dirs, file, root, folderDb, bookDb, touched, started, fresh>>
  BY DEF VisitFolder, Rest, disk, db, history
<1>2. OnWay(f) /\ f \in Reachable
  BY <1>1, OnTheWay DEF Progress, Ahead
<1>3. FromRoot'
  BY <1>1 DEF Progress, FromRoot
<1>4. Walked'
  <2> SUFFICES ASSUME NEW g \in touched \cap Folders, NEW p \in Entries(g)
               PROVE  p \in touched \cup todo' \/ p = f \/ (p \in Books /\ ~Fileable(p))
    BY <1>1, SameLibrary DEF Walked, InHand
  <2>1. p \in touched \cup todo \/ (p \in Books /\ ~Fileable(p))
    BY <1>1 DEF Progress, Walked, InHand
  <2> QED BY <1>1, <2>1
<1>5. ReadRight'
  BY <1>1, SameLibrary DEF ReadRight
<1>6. Ahead'
  <2>1. \A p \in Entries(f) : OnWay(p)
    BY <1>2, OnTheWay
  <2> QED BY <1>1, <1>2, <2>1, SameLibrary DEF Progress, Ahead
<1>7. RowsRight' /\ OldRows'
  BY <1>1, RowsStay, OldStay DEF Progress
<1> QED BY <1>3, <1>4, <1>5, <1>6, <1>7 DEF Progress

\* The entries of a folder join what is to be visited.
LEMMA FolderDoneProgress ==
  ASSUME Parts, Position, CatalogueInv, Progress, FolderDone
  PROVE  Progress'
<1>1. /\ pc = "folder" /\ pc' = "walk" /\ todo' = todo \cup listing /\ listing' = {}
      /\ cur \in Folders /\ Parent[cur] \in DOMAIN pathToId
      /\ UNCHANGED <<dirs, file, root, started, fresh>>
  BY DEF FolderDone, Position, disk
<1>2. /\ touched' = touched \cup {cur} /\ bookDb' = bookDb
      /\ DOMAIN folderDb' = DOMAIN folderDb \cup {cur}
      /\ folderDb'[cur].parent = pathToId[Parent[cur]]
      /\ \A g \in DOMAIN folderDb : g # cur => folderDb'[g] = folderDb[g]
  BY UpsertedFolder DEF FolderDone
<1>3. OnWay(cur) /\ cur \in Reachable /\ cur # root /\ cur \notin Books
  BY <1>1, OnTheWay, TreeAssumption DEF Progress, Ahead, InHand
<1>4. folderDb'[cur].parent # NoParent
  BY <1>1, <1>2 DEF CatalogueInv, Known, Ids, NoParent, Parts, DbType
<1>5. FromRoot' /\ ReadRight'
  BY <1>1, <1>2 DEF Progress, FromRoot, ReadRight
<1>6. Walked'
  <2> SUFFICES ASSUME NEW g \in touched' \cap Folders, NEW p \in Entries(g)
               PROVE  p \in touched' \cup todo' \/ (p \in Books /\ ~Fileable(p))
    BY <1>1, SameLibrary DEF Walked
  <2>1. CASE g = cur
    BY <1>1, <2>1 DEF Progress, ReadRight
  <2>2. CASE g # cur
    <3>1. p \in touched \cup todo \/ p = cur \/ (p \in Books /\ ~Fileable(p))
      BY <1>1, <1>2, <2>2 DEF Progress, Walked
    <3> QED BY <1>1, <1>2, <3>1
  <2> QED BY <2>1, <2>2
<1>7. RowsRight'
  <2>1. \A g \in touched \cap Folders : g \in DOMAIN folderDb
    BY DEF CatalogueInv, TouchedFolders
  <2>2. ASSUME NEW g \in touched' \cap Folders
        PROVE  g \in Reachable /\ (folderDb'[g].parent = NoParent <=> g = root)
    <3>1. CASE g = cur
      BY <1>3, <1>4, <3>1
    <3>2. CASE g # cur
      BY <1>2, <2>1, <3>2 DEF Progress, RowsRight
    <3> QED BY <3>1, <3>2
  <2>3. ASSUME NEW b \in touched' \cap Books
        PROVE  b \in Indexable /\ bookDb'[b].hash = file[b].content
                              /\ bookDb'[b].pages = file[b].content
    BY <1>2, <1>3 DEF Progress, RowsRight
  <2> QED BY <1>1, <2>2, <2>3, SameLibrary DEF RowsRight
<1>8. Ahead'
  <2>1. \A p \in todo' \cup listing' : OnWay(p)
    BY <1>1 DEF Progress, Ahead
  <2> QED BY <1>1, <2>1, SameLibrary DEF Ahead, InHand
<1>9. OldRows'
  BY <1>1, <1>2 DEF Progress, OldRows
<1> QED BY <1>5, <1>6, <1>7, <1>8, <1>9 DEF Progress

\* A book that was upserted as it is in the library.
LEMMA UpsertedBook ==
  ASSUME Parts, Position, CatalogueInv, Progress, pc \in {"compare", "open"},
         pc' = "walk", todo' = todo, listing' = listing, touched' = touched \cup {cur},
         UNCHANGED <<dirs, file, root, folderDb, started, fresh>>,
         DOMAIN bookDb' = DOMAIN bookDb \cup {cur},
         \A b \in DOMAIN bookDb : b # cur => bookDb'[b] = bookDb[b],
         file[cur].content \in Readable,
         bookDb'[cur].hash = file[cur].content,
         bookDb'[cur].pages = file[cur].content
  PROVE  Progress'
<1>1. cur \in Books /\ cur \notin Folders
  BY TreeAssumption DEF Position
<1>2. OnWay(cur) /\ cur \in Indexable
  BY <1>1 DEF Progress, Ahead, InHand, OnWay, ReadRight, Indexable
<1>3. FromRoot' /\ ReadRight'
  BY DEF Progress, FromRoot, ReadRight
<1>4. Walked'
  <2> SUFFICES ASSUME NEW g \in touched' \cap Folders, NEW p \in Entries(g)
               PROVE  p \in touched' \cup todo \/ (p \in Books /\ ~Fileable(p))
    BY SameLibrary DEF Walked
  <2>1. p \in touched \cup todo \/ p = cur \/ (p \in Books /\ ~Fileable(p))
    BY <1>1 DEF Progress, Walked
  <2> QED BY <2>1
<1>5. RowsRight'
  <2>1. ASSUME NEW g \in touched' \cap Folders
        PROVE  g \in Reachable /\ (folderDb'[g].parent = NoParent <=> g = root)
    BY <1>1 DEF Progress, RowsRight
  <2>2. ASSUME NEW b \in touched' \cap Books
        PROVE  b \in Indexable /\ bookDb'[b].hash = file[b].content
                              /\ bookDb'[b].pages = file[b].content
    <3>1. CASE b = cur
      BY <1>2, <3>1
    <3>2. CASE b # cur
      <4>1. b \in touched \cap Books /\ b \in DOMAIN bookDb
        BY <3>2 DEF CatalogueInv, TouchedBooks
      <4> QED BY <3>2, <4>1 DEF Progress, RowsRight
    <3> QED BY <3>1, <3>2
  <2> QED BY <2>1, <2>2, SameLibrary DEF RowsRight
<1>6. Ahead'
  BY SameLibrary DEF Progress, Ahead, InHand
<1>7. OldRows'
  BY DEF Progress, OldRows
<1> QED BY <1>3, <1>4, <1>5, <1>6, <1>7 DEF Progress

\* What is done with a book that is in hand or is given up, as long as no row
\* is written: one that is given up cannot be filed.
LEMMA BookInHand ==
  ASSUME Parts, Progress, pc' \in {"walk", "compare", "hash", "open"}, listing' = listing,
         pc \in {"walk", "compare", "hash", "open"},
         UNCHANGED <<dirs, file, root, folderDb, bookDb, touched, started, fresh>>,
         NEW b \in Books, OnWay(b),
         IF InHand THEN b = cur /\ todo' = todo ELSE todo' = todo \ {b},
         IF pc' = "walk" THEN ~Fileable(b) ELSE cur' = b,
         ReadRight'
  PROVE  Progress'
<1>1. FromRoot'
  BY DEF Progress, FromRoot
<1>2. Walked'
  <2> SUFFICES ASSUME NEW g \in touched \cap Folders, NEW p \in Entries(g)
               PROVE  \/ p \in touched \cup todo'
                      \/ pc' # "walk" /\ p = cur'
                      \/ p \in Books /\ ~Fileable(p)
    BY SameLibrary DEF Walked, InHand
  <2>1. \/ p \in touched \cup todo
        \/ InHand /\ p = cur
        \/ p \in Books /\ ~Fileable(p)
    BY DEF Progress, Walked
  <2> QED BY <2>1
<1>3. Ahead'
  BY SameLibrary DEF Progress, Ahead, InHand
<1>4. RowsRight' /\ OldRows'
  BY RowsStay, OldStay DEF Progress
<1> QED BY <1>1, <1>2, <1>3, <1>4 DEF Progress

\* A book that is visited is in hand.
LEMMA VisitBookProgress ==
  ASSUME Parts, Position, Progress, NEW b \in Books, VisitBook(b)
  PROVE  Progress'
<1>1. /\ pc = "walk" /\ b \in todo /\ todo' = todo \ {b} /\ listing' = listing
      /\ UNCHANGED <<dirs, file, root, folderDb, bookDb, touched, started, fresh>>
  BY DEF VisitBook, Rest, disk, db, history
<1>2. OnWay(b)
  BY <1>1 DEF Progress, Ahead
<1>3. CASE file[b] # Absent /\ file[b].content \notin Oversize
  <2>1. pc' = "compare" /\ cur' = b /\ stat'.size = SizeOf[file[b].content]
    BY <1>3 DEF VisitBook, NoStat
  <2>2. ReadRight'
    BY <1>1, <1>3, <2>1 DEF ReadRight
  <2> QED BY <1>1, <1>2, <2>1, <2>2, BookInHand DEF InHand
<1>4. CASE ~(file[b] # Absent /\ file[b].content \notin Oversize)
  <2>1. pc' = "walk" /\ ~Fileable(b)
    BY <1>1, <1>4 DEF VisitBook, Fileable
  <2>2. ReadRight'
    BY <2>1 DEF ReadRight
  <2> QED BY <1>1, <1>2, <2>1, <2>2, BookInHand DEF InHand
<1> QED BY <1>3, <1>4

\* A row with the time and the size of the file has its content.
LEMMA CompareProgress ==
  ASSUME Parts, Position, CatalogueInv, StampInv, ReadableRows, Progress, CompareBook
  PROVE  Progress'
<1>1. /\ pc = "compare" /\ cur \in Books /\ todo' = todo /\ listing' = listing
      /\ UNCHANGED <<dirs, file, root, folderDb, started, fresh>>
  BY DEF CompareBook, Position, disk
<1>2. OnWay(cur) /\ file[cur] # Absent
  BY <1>1 DEF Progress, Ahead, InHand, ReadRight
<1>3. CASE /\ cur \in DOMAIN bookDb /\ bookDb[cur].mtime = Mtime(cur)
           /\ bookDb' = [bookDb EXCEPT ![cur] = SeenRow(cur)]
           /\ touched' = touched \cup {cur}
           /\ pc' = "walk"
  <2>1. /\ bookDb[cur].hash = file[cur].content
        /\ bookDb[cur].pages = file[cur].content
    BY <1>2, <1>3 DEF StampInv, RowFits, Mtime
  <2>2. bookDb[cur] \in BookRow
    BY <1>3 DEF Parts, DbType, Table
  <2>3. /\ SeenRow(cur).hash = bookDb[cur].hash
        /\ SeenRow(cur).pages = bookDb[cur].pages
    BY <2>2 DEF SeenRow, BookRow
  <2>4. /\ DOMAIN bookDb' = DOMAIN bookDb \cup {cur}
        /\ bookDb'[cur] = SeenRow(cur)
        /\ \A b \in DOMAIN bookDb : b # cur => bookDb'[b] = bookDb[b]
    BY <1>3
  <2>5. file[cur].content \in Readable
    BY <1>3, <2>1 DEF ReadableRows
  <2> QED BY <1>1, <1>3, <2>1, <2>3, <2>4, <2>5, UpsertedBook
<1>4. CASE /\ stat' = [stat EXCEPT !.mtime = Mtime(cur)]
           /\ pc' = "hash"
           /\ UNCHANGED <<bookDb, touched, cur>>
  <2>1. stat'.size = stat.size
    BY <1>4 DEF Parts, WalkType
  <2>2. ReadRight'
    BY <1>1, <1>4, <2>1 DEF Progress, ReadRight
  <2> QED BY <1>1, <1>2, <1>4, <2>2, BookInHand DEF InHand
<1> QED BY <1>3, <1>4 DEF CompareBook

\* The hash is that of the file as it is.
LEMMA HashProgress ==
  ASSUME Parts, Position, Progress, HashBook
  PROVE  Progress'
<1>1. /\ pc = "hash" /\ cur \in Books /\ todo' = todo /\ listing' = listing
      /\ UNCHANGED <<dirs, file, root, folderDb, bookDb, touched, started, fresh>>
  BY DEF HashBook, Position, disk, db, history
<1>2. OnWay(cur) /\ file[cur] # Absent
  BY <1>1 DEF Progress, Ahead, InHand, ReadRight
<1>3. pc' = "open" /\ cur' = cur /\ stat' = [stat EXCEPT !.hash = file[cur].content]
  BY <1>2 DEF HashBook
<1>4. stat'.hash = file[cur].content /\ stat'.size = stat.size
  BY <1>3 DEF Parts, WalkType
<1>5. ReadRight'
  BY <1>1, <1>3, <1>4 DEF Progress, ReadRight
<1> QED BY <1>1, <1>2, <1>3, <1>5, BookInHand DEF InHand

\* A book that was opened is filed with its content.
LEMMA OpenProgress ==
  ASSUME Parts, Position, CatalogueInv, Progress, OpenBook
  PROVE  Progress'
<1>1. /\ pc = "open" /\ pc' = "walk" /\ cur \in Books /\ todo' = todo /\ listing' = listing
      /\ UNCHANGED <<dirs, file, root, folderDb, started, fresh>>
  BY DEF OpenBook, GiveUp, Position, disk
<1>2. OnWay(cur) /\ file[cur] # Absent /\ stat.hash = file[cur].content
  BY <1>1 DEF Progress, Ahead, InHand, ReadRight
<1>3. CASE file[cur].content \in Readable
  <2>1. /\ bookDb' = Put(bookDb, cur, NewBookRow(cur))
        /\ touched' = touched \cup {cur}
    BY <1>2, <1>3 DEF OpenBook
  <2>2. /\ NewBookRow(cur).hash = stat.hash
        /\ NewBookRow(cur).pages = file[cur].content
    BY DEF NewBookRow
  <2>3. /\ DOMAIN bookDb' = DOMAIN bookDb \cup {cur}
        /\ bookDb'[cur] = NewBookRow(cur)
        /\ \A b \in DOMAIN bookDb : b # cur => bookDb'[b] = bookDb[b]
    BY <2>1 DEF Put
  <2> QED BY <1>1, <1>2, <1>3, <2>1, <2>2, <2>3, UpsertedBook
<1>4. CASE file[cur].content \notin Readable
  <2>1. UNCHANGED <<bookDb, touched>> /\ ~Fileable(cur)
    BY <1>4 DEF OpenBook, Fileable
  <2>2. ReadRight'
    BY <1>1 DEF ReadRight
  <2> QED BY <1>1, <1>2, <2>1, <2>2, BookInHand DEF InHand
<1> QED BY <1>3, <1>4
------------------------------------------------------------------------------
(* The end of a scan.                                                      *)

\* Pruning leaves the upserted rows as they are.
LEMMA PruneProgress ==
  ASSUME Parts, Progress, CatalogueInv',
         ~InHand, pc \notin {"root", "list"},
         pc' \in {"idle", "pruneFolders", "refresh"},
         UNCHANGED <<dirs, file, root, todo, listing, touched>>,
         DOMAIN folderDb' \subseteq DOMAIN folderDb,
         \A f \in DOMAIN folderDb' : folderDb'[f] = folderDb[f],
         DOMAIN bookDb' \subseteq DOMAIN bookDb,
         \A b \in DOMAIN bookDb' : bookDb'[b] = bookDb[b],
         OldRows'
  PROVE  Progress'
<1>1. FromRoot' /\ ReadRight'
  BY DEF Progress, FromRoot, ReadRight
<1>2. Walked'
  BY SameLibrary DEF Progress, Walked, InHand
<1>3. RowsRight'
  <2>1. \A f \in touched \cap Folders : f \in DOMAIN folderDb'
    BY DEF CatalogueInv, TouchedFolders
  <2>2. \A b \in touched \cap Books : b \in DOMAIN bookDb'
    BY DEF CatalogueInv, TouchedBooks
  <2> QED BY <2>1, <2>2, SameLibrary DEF Progress, RowsRight
<1>4. Ahead'
  BY SameLibrary DEF Progress, Ahead, InHand
<1> QED BY <1>1, <1>2, <1>3, <1>4 DEF Progress

\* When nothing is to be visited, every book is touched, and the others go.
LEMMA PruneBooksProgress ==
  ASSUME Parts, Position, CatalogueInv, Progress, PruneBooks
  PROVE  Progress'
<1>1. /\ pc = "walk" /\ pc' = "pruneFolders" /\ bookDb' = Without(bookDb, Unseen(bookDb))
      /\ UNCHANGED <<dirs, file, root, folderDb, todo, listing, touched, started, fresh>>
  BY DEF PruneBooks, disk, walk, history
<1>2. /\ DOMAIN bookDb' = DOMAIN bookDb \ Unseen(bookDb)
      /\ \A b \in DOMAIN bookDb' : bookDb'[b] = bookDb[b]
  BY <1>1 DEF Without
<1>3. CatalogueInv'
  BY PruneBooksCatalogue
<1>4. OldRows'
  BY <1>1, <1>2 DEF Progress, OldRows, Unseen
<1> QED BY <1>1, <1>2, <1>3, <1>4, PruneProgress DEF InHand

\* Every folder is touched too, and the rest goes.
LEMMA PruneFoldersProgress ==
  ASSUME Parts, Position, CatalogueInv, Progress, PruneFolders
  PROVE  Progress'
<1> DEFINE old  == Unseen(folderDb)
           gone == Cascade(old)
           lost == {b \in DOMAIN bookDb : bookDb[b].folder \in {folderDb[f].id : f \in gone}}
<1>1. /\ pc = "pruneFolders" /\ pc' = "refresh"
      /\ folderDb' = Without(folderDb, gone)
      /\ bookDb' = Without(bookDb, lost)
      /\ UNCHANGED <<dirs, file, root, todo, listing, touched, started, fresh>>
  BY DEF PruneFolders, disk, walk, history
<1>2. old \subseteq gone
  <2>1. old \in SUBSET DOMAIN folderDb
    BY DEF Unseen
  <2> HIDE DEF old
  <2> QED BY <2>1, CascadeClosed
<1> HIDE DEF gone, lost
<1>3. /\ DOMAIN folderDb' = DOMAIN folderDb \ gone
      /\ \A f \in DOMAIN folderDb' : folderDb'[f] = folderDb[f]
      /\ DOMAIN bookDb' = DOMAIN bookDb \ lost
      /\ \A b \in DOMAIN bookDb' : bookDb'[b] = bookDb[b]
  BY <1>1 DEF Without
<1>4. CatalogueInv'
  BY PruneFoldersCatalogue
<1>5. OldRows'
  <2> SUFFICES ASSUME fresh
               PROVE  DOMAIN folderDb' \subseteq touched /\ DOMAIN bookDb' \subseteq touched
    BY <1>1 DEF OldRows
  <2>1. DOMAIN folderDb \ touched \subseteq old
    BY DEF Progress, OldRows, Unseen
  <2>2. DOMAIN bookDb \subseteq touched
    BY <1>1 DEF Progress, OldRows
  <2> QED BY <1>2, <1>3, <2>1, <2>2
<1> QED BY <1>1, <1>3, <1>4, <1>5, PruneProgress DEF InHand

\* A scan that ends has left what it found.
LEMMA FinishProgress ==
  ASSUME Parts, Position, CatalogueInv, Progress, FinishScan
  PROVE  Progress'
<1>1. /\ pc = "refresh" /\ pc' = "idle"
      /\ UNCHANGED <<dirs, file, root, folderDb, bookDb, todo, listing, touched, started, fresh>>
  BY DEF FinishScan, disk, db, history
<1>2. FromRoot' /\ ReadRight' /\ Walked' /\ Ahead'
  BY <1>1, SameLibrary DEF Progress, FromRoot, ReadRight, Walked, Ahead, InHand
<1>3. RowsRight'
  BY <1>1, RowsStay DEF Progress
<1>4. OldRows'
  BY <1>1 DEF Progress, OldRows
<1> QED BY <1>2, <1>3, <1>4 DEF Progress
------------------------------------------------------------------------------
(* All steps together.                                                     *)

\* A change or an error ends what the invariant speaks of.
LEMMA Disturbing ==
  ASSUME Parts, Environment \/ Failure, Undisturbed'
  PROVE  Undisturbed /\ UNCHANGED <<disk, root, db, pc, walk, history>>
<1>1. CASE Tick
  BY <1>1 DEF Tick, Undisturbed, history
<1>2. CASE Environment /\ ~Tick
  <2>1. quiet' = FALSE
    BY <1>2 DEF Environment, WriteFile, RemoveFile, MoveFile, MakeDir, RemoveDir, Changing
  <2> QED BY <2>1 DEF Undisturbed
<1>3. CASE Failure
  <2>1. complete' = FALSE
    BY <1>3 DEF Failure, ListingFails, FolderFails, BookFails, ScanFails, Restart, Fault
  <2> QED BY <2>1 DEF Undisturbed
<1> QED BY <1>1, <1>2, <1>3

\* The steps of a scan leave the files and the histories of errors alone.
LEMMA Undisturbing ==
  ASSUME Scanner, ~StartScan, Undisturbed'
  PROVE  Undisturbed
  BY DEF Scanner, UpsertRoot, ListRoot, VisitFolder, FolderDone, VisitBook, CompareBook,
         HashBook, OpenBook, PruneBooks, PruneFolders, FinishScan, history, Undisturbed

\* What touches none of this changes none of it.
LEMMA StillProgress ==
  ASSUME Progress, UNCHANGED <<disk, root, db, pc, walk, history>>
  PROVE  Progress'
<1>1. /\ UNCHANGED <<dirs, file, root, folderDb, bookDb, touched, started, fresh>>
      /\ UNCHANGED <<pc, todo, cur, listing, stat>>
  BY DEF disk, db, walk, history
<1>2. FromRoot' /\ ReadRight' /\ Walked' /\ Ahead'
  BY <1>1, SameLibrary DEF Progress, FromRoot, ReadRight, Walked, Ahead, InHand
<1>3. RowsRight' /\ OldRows'
  BY <1>1, RowsStay DEF Progress, OldRows
<1> QED BY <1>2, <1>3 DEF Progress

\* Rows are of books that could be read.
LEMMA ReadableStep ==
  ASSUME Parts, Position, ReadableRows, [Next]_vars
  PROVE  ReadableRows'
<1>1. CASE CompareBook
  <2>1. \A b \in DOMAIN bookDb : bookDb[b] \in BookRow
    BY DEF Parts, DbType, Table
  <2>2. CASE bookDb' = [bookDb EXCEPT ![cur] = SeenRow(cur)] /\ cur \in DOMAIN bookDb
    <3>1. SeenRow(cur).pages = bookDb[cur].pages
      BY <2>1, <2>2 DEF SeenRow, BookRow
    <3> QED BY <2>2, <3>1 DEF ReadableRows
  <2>3. CASE bookDb' = bookDb
    BY <2>3 DEF ReadableRows
  <2> QED BY <1>1, <2>2, <2>3 DEF CompareBook
<1>2. CASE OpenBook
  <2>1. CASE bookDb' = Put(bookDb, cur, NewBookRow(cur)) /\ file[cur].content \in Readable
    <3>1. NewBookRow(cur).pages = file[cur].content
      BY DEF NewBookRow
    <3> HIDE DEF NewBookRow
    <3> QED BY <2>1, <3>1 DEF Put, ReadableRows
  <2>2. CASE bookDb' = bookDb
    BY <2>2 DEF ReadableRows
  <2> QED BY <1>2, <2>1, <2>2 DEF OpenBook
<1>3. CASE PruneBooks \/ PruneFolders
  BY <1>3 DEF PruneBooks, PruneFolders, Without, ReadableRows
<1>4. CASE bookDb' = bookDb
  BY <1>4 DEF ReadableRows
<1>5. CASE Environment
  BY <1>4, <1>5, EnvironmentTyping DEF db
<1>6. CASE Failure
  BY <1>4, <1>6 DEF Failure, ListingFails, FolderFails, BookFails, ScanFails, Restart, Fault, db
<1>7. CASE \/ StartScan \/ UpsertRoot \/ ListRoot \/ FolderDone \/ HashBook \/ FinishScan
           \/ \E f \in Folders : VisitFolder(f)
           \/ \E b \in Books : VisitBook(b)
  BY <1>4, <1>7 DEF StartScan, UpsertRoot, UpsertFolder, ListRoot, FolderDone, HashBook,
                    FinishScan, VisitFolder, VisitBook, db
<1>8. CASE UNCHANGED vars
  BY <1>4, <1>8 DEF vars, db
<1> QED BY <1>1, <1>2, <1>3, <1>5, <1>6, <1>7, <1>8 DEF Next, Scanner

\* Every step keeps what is known of the walk.
LEMMA WalkInvStep ==
  ASSUME Parts, Position, CatalogueInv, StampInv, WalkInv, [Next]_vars
  PROVE  WalkInv'
<1>1. ReadableRows'
  BY ReadableStep DEF WalkInv
<1> SUFFICES ASSUME Undisturbed' PROVE Progress'
  BY <1>1 DEF WalkInv
<1>2. CASE StartScan
  BY <1>2, StartProgress
<1>3. CASE UNCHANGED vars
  BY <1>3, StillProgress DEF vars, history, WalkInv, Undisturbed
<1>4. CASE Environment \/ Failure
  BY <1>4, Disturbing, StillProgress DEF WalkInv
<1>5. CASE Scanner /\ ~StartScan
  <2>1. Progress /\ ReadableRows
    BY <1>5, Undisturbing DEF WalkInv
  <2>2. CASE UpsertRoot
    BY <2>1, <2>2, RootProgress
  <2>3. CASE ListRoot
    BY <2>1, <2>3, ListProgress
  <2>4. CASE \E f \in Folders : VisitFolder(f)
    BY <2>1, <2>4, VisitFolderProgress
  <2>5. CASE FolderDone
    BY <2>1, <2>5, FolderDoneProgress
  <2>6. CASE \E b \in Books : VisitBook(b)
    BY <2>1, <2>6, VisitBookProgress
  <2>7. CASE CompareBook
    BY <2>1, <2>7, CompareProgress
  <2>8. CASE HashBook
    BY <2>1, <2>8, HashProgress
  <2>9. CASE OpenBook
    BY <2>1, <2>9, OpenProgress
  <2>10. CASE PruneBooks
    BY <2>1, <2>10, PruneBooksProgress
  <2>11. CASE PruneFolders
    BY <2>1, <2>11, PruneFoldersProgress
  <2>12. CASE FinishScan
    BY <2>1, <2>12, FinishProgress
  <2> QED BY <1>5, <2>2, <2>3, <2>4, <2>5, <2>6, <2>7, <2>8, <2>9, <2>10, <2>11, <2>12 DEF Scanner
<1> QED BY <1>2, <1>3, <1>4, <1>5 DEF Next

\* What is known of the walk is so always, without restamped files.
LEMMA WalkAlways ==
  ~Restamped => (SafeSpec => [](TypeInv /\ CatalogueInv /\ StampInv /\ WalkInv))
<1> SUFFICES ASSUME ~Restamped
             PROVE  SafeSpec => [](TypeInv /\ CatalogueInv /\ StampInv /\ WalkInv)
  OBVIOUS
<1>1. Init => WalkInv
  BY DEF Init, WalkInv, ReadableRows, Undisturbed
<1>2. Init => TypeInv /\ CatalogueInv /\ StampInv /\ WalkInv
  BY <1>1, TypingInit, CatalogueInit, StampInit
<1>3. TypeInv /\ CatalogueInv /\ StampInv /\ WalkInv /\ [Next]_vars
          => (TypeInv /\ CatalogueInv /\ StampInv /\ WalkInv)'
  BY TypingStep, CatalogueStep, StampStep, WalkInvStep, TypeParts DEF TypeInv
<1> QED BY <1>2, <1>3, PTL DEF SafeSpec
------------------------------------------------------------------------------
(* At the end.                                                             *)

\* When nothing is left to walk, all that can be upserted has been.
LEMMA AllTouched ==
  ASSUME Parts, Progress, ~InHand, todo = {}, pc \notin {"root", "list"}
  PROVE  Reachable \subseteq touched /\ Indexable \subseteq touched
<1>1. ASSUME NEW f \in touched \cap Folders, NEW p \in Entries(f)
      PROVE  p \in touched \/ (p \in Books /\ ~Fileable(p))
  BY DEF Progress, Walked
<1>2. Reachable \subseteq touched
  <2> DEFINE S == touched \cap Folders
  <2>1. S \in SUBSET Folders /\ root \in S
    BY TreeAssumption DEF Progress, FromRoot, Parts, ControlType
  <2>2. ASSUME NEW g \in dirs \ Hidden, Parent[g] \in S
        PROVE  g \in S
    <3>1. g \in Folders /\ g \notin Books
      BY TreeAssumption DEF Parts, DiskType
    <3>2. g \in Entries(Parent[g])
      BY <3>1 DEF Entries, Paths
    <3> QED BY <1>1, <2>2, <3>1, <3>2
  <2>3. Reachable \subseteq S
    <3> HIDE DEF S
    <3> QED BY <2>1, <2>2, ReachableLeast
  <2> QED BY <2>3
<1>3. ASSUME NEW b \in Indexable PROVE b \in touched
  <2>1. /\ b \in Books \ Hidden /\ Parent[b] \in Reachable
        /\ file[b] # Absent /\ Fileable(b)
    BY DEF Indexable, Fileable
  <2>2. b \in Entries(Parent[b]) /\ Parent[b] \in touched \cap Folders
    BY <1>2, <2>1, ReachableClosed DEF Entries, Paths
  <2> QED BY <1>1, <2>1, <2>2
<1> QED BY <1>2, <1>3

\* So the catalogue has it.
LEMMA AllFound ==
  ASSUME Parts, CatalogueInv, Progress, ~InHand, todo = {}, pc \notin {"root", "list"}
  PROVE  NothingMissing
<1>1. Reachable \subseteq touched /\ Indexable \subseteq touched
  BY AllTouched
<1>2. Reachable \subseteq Folders /\ Indexable \subseteq Books
  BY ReachableClosed DEF Indexable
<1>3. Reachable \subseteq DOMAIN folderDb
  BY <1>1, <1>2 DEF CatalogueInv, TouchedFolders
<1>4. ASSUME NEW b \in Indexable
      PROVE  b \in DOMAIN bookDb /\ bookDb[b].hash = file[b].content
                                /\ bookDb[b].pages = file[b].content
  BY <1>1, <1>2 DEF CatalogueInv, TouchedBooks, Progress, RowsRight
<1> QED BY <1>3, <1>4 DEF NothingMissing

(* A scan that met no error brings every folder and readable comic of a     *)
(* library that kept still into the catalogue, with its present content, in *)
(* every tree and from every catalogue that crashed, failed or misdated     *)
(* scans of any library may have left (scan.rs:82-190), if no path shows    *)
(* one modification time twice.                                             *)
THEOREM Finding == ~Restamped => (SafeSpec => []ScanFindsAll)
<1> SUFFICES ASSUME ~Restamped PROVE SafeSpec => []ScanFindsAll
  OBVIOUS
<1>1. TypeInv /\ CatalogueInv /\ StampInv /\ WalkInv => ScanFindsAll
  <2> SUFFICES ASSUME TypeInv, CatalogueInv, WalkInv, Settled PROVE NothingMissing
    BY DEF ScanFindsAll
  <2>1. pc = "idle" /\ todo = {} /\ Progress /\ ~InHand
    BY DEF Settled, TypeInv, Position, WalkInv, Undisturbed, InHand
  <2> QED BY <2>1, AllFound, TypeParts DEF TypeInv
<1> QED BY <1>1, WalkAlways, PTL

(* If no row was as new as the scan when it started, nothing else is left:  *)
(* the DELETE by seen_at and its cascade (scan.rs:190-206) take every row   *)
(* the scan has not met, and the library has one root.                      *)
THEOREM Removing == ~Restamped => (SafeSpec => []ScanRemovesRest)
<1> SUFFICES ASSUME ~Restamped PROVE SafeSpec => []ScanRemovesRest
  OBVIOUS
<1>1. TypeInv /\ CatalogueInv /\ StampInv /\ WalkInv => ScanRemovesRest
  <2> SUFFICES ASSUME TypeInv, CatalogueInv, WalkInv, Settled, fresh PROVE NothingExtra
    BY DEF ScanRemovesRest
  <2>1. pc = "idle" /\ RowsRight /\ OldRows
    BY DEF Settled, WalkInv, Undisturbed, Progress
  <2>2. DOMAIN folderDb \subseteq touched \cap Folders /\ DOMAIN bookDb \subseteq touched \cap Books
    BY <2>1 DEF OldRows, TypeInv, TypeOK
  <2> QED BY <2>1, <2>2 DEF RowsRight, NothingExtra
<1> QED BY <1>1, WalkAlways, PTL
==============================================================================
