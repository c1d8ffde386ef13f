-------------------------- MODULE FolderFeedsProofs ----------------------------
(***************************************************************************)
(* What TLAPS proves of FolderFeeds, for every tree, every order of books  *)
(* and all bounds: it is a library that is scanned, and what a client gets *)
(* through ids it read earlier is what it asked for.                       *)
(***************************************************************************)
EXTENDS FolderFeeds, LibraryWalkProofs, WellFoundedInduction, FiniteSetTheorems

------------------------------------------------------------------------------
(* The library and the scan are those of LibraryScan.                      *)

\* Every step of the composition is a step of LibraryScan or a stutter.
LEMMA FeedStep == [FeedNext]_feedVars => [Next]_vars
<1> SUFFICES ASSUME [FeedNext]_feedVars PROVE [Next]_vars
  OBVIOUS
<1>1. CASE Library
  BY <1>1 DEF Library, Next
<1>2. ASSUME NEW f \in Folders, Paint(f) PROVE UNCHANGED vars
  BY <1>2 DEF Paint
<1>3. CASE FeedScan
  <2>1. CASE FeedStartScan
    BY <2>1 DEF FeedStartScan, Next, Scanner
  <2>2. CASE UpsertRootCover
    BY <2>2 DEF UpsertRootCover, Next, Scanner
  <2>3. CASE FolderCoverDone
    BY <2>3 DEF FolderCoverDone, Next, Scanner
  <2>4. CASE WalkStep
    BY <2>4 DEF WalkStep, Next, Scanner
  <2>5. CASE PruneAndRefresh
    BY <2>5 DEF PruneAndRefresh, Next, Scanner
  <2>6. ASSUME NEW f \in Folders, RefreshCover(f) PROVE UNCHANGED vars
    BY <2>6 DEF RefreshCover
  <2>7. CASE FeedFinishScan
    BY <2>7 DEF FeedFinishScan, Next, Scanner
  <2> QED BY <1>3, <2>1, <2>2, <2>3, <2>4, <2>5, <2>6, <2>7 DEF FeedScan
<1>4. CASE FeedFault
  BY <1>4 DEF FeedFault, Next, Failure
<1>5. CASE FeedRestart
  BY <1>5 DEF FeedRestart, Next, Failure
<1>6. CASE UNCHANGED feedVars
  BY <1>6 DEF feedVars
<1>7. CASE (Asking \/ Reading) /\ UNCHANGED vars
  BY <1>7
<1> QED BY <1>1, <1>2, <1>3, <1>4, <1>5, <1>6, <1>7 DEF FeedNext

(* FolderFeeds adds columns, images and a client to LibraryScan and takes   *)
(* nothing from it: what is proved of scans holds while feeds are read.     *)
THEOREM FeedsImplementScans == FeedSpec => SafeSpec
<1>1. FeedInit => Init
  BY DEF FeedInit
<1> QED BY <1>1, FeedStep, PTL DEF FeedSpec, SafeSpec

\* What is known of the catalogue holds while feeds are read.
LEMMA CatalogueOfFeeds == FeedSpec => [](TypeInv /\ CatalogueInv)
  BY FeedsImplementScans, CatalogueAlways, PTL
------------------------------------------------------------------------------
(* The choice of a book.                                                   *)

\* A set of books that is not empty has a first one.
LEMMA FirstIsOne ==
  ASSUME NEW S \in SUBSET Books, S # {}
  PROVE  First(S) \in S
<1> DEFINE T == {Rank[b] : b \in S}
<1>1. T \in SUBSET Nat /\ T # {} /\ \A b \in S : Rank[b] \in Nat
  <2>1. \A b \in S : Rank[b] \in Nat
    BY RankAssumption DEF Paths
  <2>2. \E b \in S : TRUE
    OBVIOUS
  <2> QED BY <2>1, <2>2, Zenon
<1>2. PICK R : R = {ss \in Nat \X Nat : ss[1] < ss[2]}
  OBVIOUS
<1>3. IsWellFoundedOn(R, Nat)
  <2>1. OpToRel(<, Nat) = R
    BY <1>2, Zenon DEF OpToRel
  <2> QED BY <2>1, NatLessThanWellFounded, Zenon
<1>4. PICK x \in T : \A y \in T : ~ (<<y, x>> \in R)
  <2> HIDE DEF T
  <2> QED BY <1>1, <1>3, WFMin, Zenon
<1>5. PICK b \in S : x = Rank[b]
  BY <1>4
<1>6. ASSUME NEW c \in S PROVE Rank[b] <= Rank[c]
  <2>1. ~ (<<Rank[c], Rank[b]>> \in R)
    BY <1>4, <1>5, Zenon
  <2>2. Rank[c] < Rank[b] => <<Rank[c], Rank[b]>> \in R
    BY <1>1, <1>2
  <2> QED BY <1>1, <2>1, <2>2
<1> QED BY <1>6 DEF First

\* The books of a folder, and below it, are books of the catalogue.
LEMMA FiledBooks ==
  \A id : /\ Filed(id) \subseteq DOMAIN bookDb
          /\ FiledBelow(id) \subseteq DOMAIN bookDb
  BY DEF Filed, FiledBelow
------------------------------------------------------------------------------
(* Typing.                                                                 *)

Links == UNION {[S -> Version] : S \in SUBSET Folders}

\* A function on folders to versions is a table of links.
LEMMA LinksOf ==
  ASSUME NEW S \in SUBSET Folders, NEW F \in [S -> Version]
  PROVE  F \in Links
  BY Zenon DEF Links

ClientType == {Away} \cup Request \cup Hits \cup Errand \cup Picture

CoversType ==
  /\ image \in [Folders -> Times \cup {NoTime}]
  /\ coverDb \in [DOMAIN folderDb -> CoverRow]
  /\ refreshing \subseteq DOMAIN folderDb
  /\ pc # "refresh" => refreshing = {}

HistoriesType ==
  /\ paints \in 0..MaxPaints
  /\ still \in BOOLEAN /\ found \in BOOLEAN /\ clean \in BOOLEAN

FeedParts == CoversType /\ client \in ClientType /\ HistoriesType

\* The program point of a request says which of its fields there are.
LEMMA ClientShape ==
  ASSUME client \in ClientType
  PROVE  /\ client.at \in {"subfolders", "books", "up", "shown"} => client \in Request
         /\ client.at \in {"search", "hits"} => client \in Hits
         /\ client.at \in {"image", "open", "direct", "below"} => client \in Errand
         /\ client.at = "seen" => client \in Picture
  BY DEF ClientType, Away, Request, Hits, Errand, Picture

\* What folder_cover and cover_version_for call a cover is a version.
LEMMA CoverTyping ==
  ASSUME Parts, CoversType
  PROVE  /\ NoVersion \in Version
         /\ \A f \in Folders : image[f] # NoTime => Painted(image[f]) \in Version
         /\ \A b \in DOMAIN bookDb : Hashed(b) \in Version
         /\ \A S \in SUBSET DOMAIN bookDb : S # {} => Hashed(First(S)) \in Version
<1>1. \A b \in DOMAIN bookDb : bookDb[b].hash \in Contents /\ b \in Books
  BY DEF Parts, DbType, Table, BookRow
<1>2. \A b \in DOMAIN bookDb : Hashed(b) \in Version
  BY <1>1 DEF Hashed, Version
<1>3. ASSUME NEW S \in SUBSET DOMAIN bookDb, S # {} PROVE Hashed(First(S)) \in Version
  BY <1>1, <1>2, <1>3, FirstIsOne
<1>4. \A f \in Folders : image[f] # NoTime => Painted(image[f]) \in Version
  BY DEF CoversType, Painted, Version
<1> QED BY <1>2, <1>3, <1>4 DEF Version

\* The version of a cover is a version.
LEMMA VersionTyping ==
  ASSUME Parts, CoversType, NEW f \in Folders
  PROVE  CoverVersionFor(f) \in Version
  BY CoverTyping, FiledBooks DEF CoverVersionFor

\* A folder's columns are written with its row.
LEMMA UpsertCoverTyping ==
  ASSUME Parts, CoversType, NEW f \in Folders, NEW parentId \in Nat,
         UpsertFolder(f, parentId), UpsertCover(f)
  PROVE  coverDb' \in [DOMAIN folderDb' -> CoverRow]
<1>1. DOMAIN folderDb' = DOMAIN folderDb \cup {f}
  BY DEF UpsertFolder, Put
<1> DEFINE row == [path    |-> image[f] # NoTime,
                   version |-> IF f \in DOMAIN coverDb THEN coverDb[f].version
                                                       ELSE NoVersion]
<1>2. row \in CoverRow
  BY DEF CoversType, CoverRow, Version
<1>3. coverDb' = Put(coverDb, f, row)
  BY DEF UpsertCover
<1> HIDE DEF row
<1> QED BY <1>1, <1>2, <1>3 DEF Put, CoversType

\* The scan and the library keep the columns typed, one row for each folder.
LEMMA CoversStep ==
  ASSUME Parts, Position, FeedParts, [FeedNext]_feedVars
  PROVE  CoversType'
<1> USE DEF FeedParts
<1>1. CASE Library
  <2>1. UNCHANGED <<folderDb, pc>> /\ clock' \in Times
    BY <1>1, EnvironmentTyping DEF Library, db
  <2>2. image' \in [Folders -> Times \cup {NoTime}]
    BY <1>1 DEF Library, CoversType
  <2> QED BY <1>1, <2>1, <2>2 DEF Library, CoversType
<1>2. ASSUME NEW f \in Folders, Paint(f) PROVE CoversType'
  <2>1. clock \in Times
    BY DEF Parts, ControlType
  <2> QED BY <1>2, <2>1 DEF Paint, CoversType, vars, db
<1>3. CASE FeedStartScan
  BY <1>3 DEF FeedStartScan, StartScan, db, CoversType
<1>4. CASE UpsertRootCover
  <2>1. root \in Folders /\ NoParent \in Nat
    BY TreeAssumption DEF Parts, ControlType, NoParent
  <2>2. coverDb' \in [DOMAIN folderDb' -> CoverRow]
    BY <1>4, <2>1, UpsertCoverTyping DEF UpsertRootCover, UpsertRoot
  <2> QED BY <1>4, <2>2 DEF UpsertRootCover, UpsertRoot, CoversType
<1>5. CASE FolderCoverDone
  <2>1. cur \in Folders /\ pathToId[Parent[cur]] \in Nat
    BY <1>5 DEF FolderCoverDone, FolderDone, Position, Parts, WalkType, Table
  <2>2. coverDb' \in [DOMAIN folderDb' -> CoverRow]
    BY <1>5, <2>1, UpsertCoverTyping DEF FolderCoverDone, FolderDone
  <2> QED BY <1>5, <2>2 DEF FolderCoverDone, FolderDone, CoversType
<1>6. CASE WalkStep
  <2>1. pc # "refresh" /\ folderDb' = folderDb
    BY <1>6 DEF WalkStep, ListRoot, VisitFolder, VisitBook, CompareBook, HashBook,
                OpenBook, PruneBooks, db
  <2> QED BY <1>6, <2>1 DEF WalkStep, covers, CoversType
<1>7. CASE PruneAndRefresh
  <2>1. DOMAIN folderDb' \subseteq DOMAIN folderDb /\ pc' = "refresh"
    BY <1>7 DEF PruneAndRefresh, PruneFolders, Without
  <2> QED BY <1>7, <2>1 DEF PruneAndRefresh, CoversType
<1>8. ASSUME NEW f \in Folders, RefreshCover(f) PROVE CoversType'
  <2>1. CoverVersionFor(f) \in Version
    BY VersionTyping
  <2>2. coverDb' \in [DOMAIN folderDb -> CoverRow]
    BY <1>8, <2>1 DEF RefreshCover, CoversType, CoverRow
  <2> QED BY <1>8, <2>2 DEF RefreshCover, CoversType, vars, db
<1>9. CASE FeedFinishScan
  BY <1>9 DEF FeedFinishScan, FinishScan, covers, db, CoversType
<1>10. CASE FeedFault
  <2>1. folderDb' = folderDb
    BY <1>10 DEF FeedFault, ListingFails, FolderFails, BookFails, ScanFails, Fault, db
  <2>2. pc' = "idle" \/ pc' # "refresh"
    BY <1>10 DEF FeedFault, ListingFails, FolderFails, BookFails, ScanFails, Forget, GiveUp
  <2>3. pc # "refresh" \/ pc' = "idle"
    BY <1>10 DEF FeedFault, ListingFails, FolderFails, BookFails, ScanFails, Forget
  <2> QED BY <1>10, <2>1, <2>2, <2>3 DEF FeedFault, CoversType
<1>11. CASE FeedRestart
  BY <1>11 DEF FeedRestart, Restart, Forget, Fault, db, CoversType
<1>12. CASE UNCHANGED <<vars, covers>>
  BY <1>12 DEF vars, db, covers, CoversType
<1> QED BY <1>1, <1>2, <1>3, <1>4, <1>5, <1>6, <1>7, <1>8, <1>9, <1>10, <1>11, <1>12
        DEF FeedNext, FeedScan, feedVars

\* A request, an answer or an errand has the fields of its kind.
LEMMA ClientStep ==
  ASSUME Parts, FeedParts, [FeedNext]_feedVars
  PROVE  client' \in ClientType
<1> USE DEF FeedParts
<1>1. \A f \in DOMAIN folderDb : f \in Folders /\ folderDb[f].id \in Nat
                                   /\ folderDb[f].parent \in Nat
  BY DEF Parts, DbType, Table, FolderRow
<1>2. \A g \in DOMAIN folderDb : coverDb[g].path \in BOOLEAN /\ coverDb[g].version \in Version
  BY DEF CoversType, CoverRow
<1>3. DOMAIN bookDb \subseteq Books
  BY DEF Parts, DbType, Table
<1>4. \A S \in SUBSET DOMAIN folderDb : [g \in S |-> CoverLink(g)] \in Links
  <2>1. ASSUME NEW S \in SUBSET DOMAIN folderDb PROVE [g \in S |-> CoverLink(g)] \in Links
    <3>1. S \in SUBSET Folders /\ [g \in S |-> CoverLink(g)] \in [S -> Version]
      BY <1>1, <1>2 DEF CoverLink
    <3> QED BY <3>1, LinksOf
  <2> QED BY <2>1
<1>5. <<>> \in Links /\ Request = [at : {"subfolders", "books", "up", "shown"},
         path : Folders, id : Nat, parent : Nat, subs : Links, books : SUBSET Books,
         up : Folders \cup {Nowhere}]
      /\ Hits = [at : {"search", "hits"}, query : Searches \cup {{}}, subs : Links, books : SUBSET Books]
  <2>1. <<>> \in [{} -> Version]
    OBVIOUS
  <2> QED BY <2>1, LinksOf DEF Request, Hits, Links
<1>6. Away \in ClientType
  BY DEF ClientType
<1>7. ASSUME NEW f \in DOMAIN folderDb, ReadRow(f) PROVE client' \in ClientType
  BY <1>1, <1>5, <1>7 DEF ReadRow, ClientType
<1>8. ASSUME Asking PROVE client' \in ClientType
  <2>1. ASSUME NEW q \in Searches, AskSearch(q) PROVE client' \in ClientType
    <3>1. PICK hits \in FirstRows(q \cap DOMAIN folderDb, FolderLimit) :
             client' = [at |-> "search", query |-> q, books |-> {},
                        subs |-> [g \in hits |-> CoverLink(g)]]
      BY <2>1 DEF AskSearch
    <3>2. [g \in hits |-> CoverLink(g)] \in Links
      <4>1. hits \in SUBSET DOMAIN folderDb
        BY <3>1 DEF FirstRows
      <4> QED BY <1>4, <4>1
    <3> QED BY <1>5, <3>1, <3>2 DEF ClientType
  <2>2. ASSUME AskNothing PROVE client' \in ClientType
    BY <1>5, <2>2 DEF AskNothing, ClientType
  <2> QED BY <1>7, <1>8, <2>1, <2>2 DEF Asking, AskFeed, AskRootFeed
<1>9. ASSUME Reading PROVE client' \in ClientType
  <2>1. CASE ReadSubfolders
    <3> DEFINE subs == {g \in DOMAIN folderDb : folderDb[g].parent = client.id}
               links == [g \in subs |-> CoverLink(g)]
    <3>1. links \in Links
      BY <1>4
    <3>2. client \in Request /\ client' = [client EXCEPT !.at = "books", !.subs = links]
      BY <2>1, ClientShape DEF ReadSubfolders
    <3> HIDE DEF links
    <3> QED BY <1>5, <3>1, <3>2 DEF ClientType
  <2>2. CASE ReadBooks
    <3>1. client \in Request /\ Filed(client.id) \subseteq Books
      BY <1>3, <2>2, ClientShape, FiledBooks DEF ReadBooks
    <3> QED BY <1>5, <2>2, <3>1 DEF ReadBooks, ClientType
  <2>3. CASE ReadUp
    <3>1. PICK up \in Folders \cup {Nowhere} : BuildFeed(up)
      BY <1>1, <2>3 DEF ReadUp
    <3>2. client \in Request
      BY <2>3, ClientShape DEF ReadUp
    <3> QED BY <1>5, <3>1, <3>2 DEF BuildFeed, ClientType
  <2>4. CASE SearchBooks
    <3>1. client \in Hits
      BY <2>4, ClientShape DEF SearchBooks
    <3>2. PICK hits \in SUBSET Books : client' = [client EXCEPT !.at = "hits", !.books = hits]
      BY <1>3, <2>4 DEF SearchBooks, FirstRows
    <3> QED BY <1>5, <3>1, <3>2 DEF ClientType
  <2>5. ASSUME NEW g \in Folders, AskCover(g) PROVE client' \in ClientType
    <3>1. client.subs[g] \in Version
      <4>1. client.subs \in Links /\ g \in DOMAIN client.subs
        BY <1>5, <2>5, ClientShape DEF AskCover
      <4> QED BY <4>1 DEF Links
    <3> QED BY <1>1, <1>6, <2>5, <3>1 DEF AskCover, Errand, ClientType
  <2>6. CASE FindImage
    <3>1. client \in Errand
      BY <2>6, ClientShape DEF FindImage
    <3> QED BY <2>6, <3>1 DEF FindImage, Errand, ClientType
  <2>7. ASSUME NEW token \in Version, NEW from \in Paths, client \in Errand, Serve(token, from)
        PROVE  client' \in ClientType
    BY <2>7 DEF Serve, Errand, Picture, ClientType
  <2>8. CASE OpenImage
    <3>1. client \in Errand /\ client.path \in Folders
      BY <2>8, ClientShape DEF OpenImage, Errand
    <3>2. client.path \in Paths
      BY <3>1 DEF Paths
    <3> QED BY <1>6, <2>7, <2>8, <3>1, <3>2, CoverTyping DEF OpenImage
  <2>9. ASSUME NEW S \in SUBSET DOMAIN bookDb, S # {}
        PROVE  Hashed(First(S)) \in Version /\ First(S) \in Paths
    BY <1>3, <2>9, CoverTyping, FirstIsOne DEF Paths
  <2>10. CASE ServeDirect
    <3>1. client \in Errand
      BY <2>10, ClientShape DEF ServeDirect
    <3>2. CASE Filed(client.id) # {}
      BY <2>7, <2>9, <2>10, <3>1, <3>2, FiledBooks DEF ServeDirect
    <3>3. CASE Filed(client.id) = {}
      BY <2>10, <3>1, <3>3 DEF ServeDirect, Errand, ClientType
    <3> QED BY <3>2, <3>3
  <2>11. CASE ServeBelow
    <3>1. client \in Errand
      BY <2>11, ClientShape DEF ServeBelow
    <3>2. CASE FiledBelow(client.id) # {}
      BY <2>7, <2>9, <2>11, <3>1, <3>2, FiledBooks DEF ServeBelow
    <3>3. CASE FiledBelow(client.id) = {}
      BY <1>6, <2>11, <3>3 DEF ServeBelow
    <3> QED BY <3>2, <3>3
  <2> QED BY <1>9, <2>1, <2>2, <2>3, <2>4, <2>5, <2>6, <2>8, <2>10, <2>11 DEF Reading
<1>10. ASSUME UNCHANGED client PROVE client' \in ClientType
  BY <1>10
<1>11. CASE FeedRestart
  BY <1>6, <1>11 DEF FeedRestart
<1> QED BY <1>8, <1>9, <1>10, <1>11 DEF FeedNext, FeedScan, feedVars, reader, Library,
        Paint, FeedStartScan, UpsertRootCover, FolderCoverDone, WalkStep, PruneAndRefresh,
        RefreshCover, FeedFinishScan, FeedFault

\* What the model remembers is a count and three truth values.
LEMMA HistoriesStep ==
  ASSUME Parts, HistoriesType, [FeedNext]_feedVars
  PROVE  HistoriesType'
<1> USE DEF HistoriesType
<1>1. paints' \in 0..MaxPaints
  BY FeedBounds DEF FeedNext, FeedScan, feedVars, covers, Library, Paint, FeedStartScan,
     UpsertRootCover, FolderCoverDone, WalkStep, PruneAndRefresh, RefreshCover,
     FeedFinishScan, FeedFault, FeedRestart
<1>2. still' \in BOOLEAN
  BY DEF FeedNext, FeedScan, feedVars, covers, Library, Paint, FeedStartScan,
     UpsertRootCover, FolderCoverDone, WalkStep, PruneAndRefresh, RefreshCover,
     FeedFinishScan, FeedFault, FeedRestart
<1>3. found' \in BOOLEAN
  <2>1. CASE Library
    BY <2>1 DEF Library
  <2>2. CASE FeedFinishScan
    BY <2>2 DEF FeedFinishScan
  <2>3. CASE ~Library /\ ~FeedFinishScan
    BY <2>3 DEF FeedNext, FeedScan, feedVars, Paint, FeedStartScan, UpsertRootCover,
       FolderCoverDone, WalkStep, PruneAndRefresh, RefreshCover, FeedFault, FeedRestart
  <2> QED BY <2>1, <2>2, <2>3
<1>4. clean' \in BOOLEAN
  BY <1>3 DEF FeedNext, feedVars, reader
<1> QED BY <1>1, <1>2, <1>3, <1>4
------------------------------------------------------------------------------
FeedTypeInv == TypeInv /\ FeedParts

\* Types and catalogue are right always.
LEMMA FeedTypingAlways == FeedSpec => [](FeedTypeInv /\ CatalogueInv)
<1>1. FeedInit => FeedTypeInv
  <2> SUFFICES ASSUME FeedInit PROVE FeedTypeInv
    OBVIOUS
  <2>1. TypeInv
    BY TypingInit DEF FeedInit
  <2>2. CoversType
    BY BoundsAssumption DEF FeedInit, Init, CoversType, Times, NoTime
  <2>3. client \in ClientType
    BY DEF FeedInit, ClientType
  <2>4. HistoriesType
    <3>1. paints = 0 /\ still = FALSE /\ found = FALSE /\ clean = FALSE
      BY DEF FeedInit
    <3>2. 0 \in 0..MaxPaints
      BY FeedBounds
    <3> QED BY <3>1, <3>2 DEF HistoriesType
  <2> QED BY <2>1, <2>2, <2>3, <2>4 DEF FeedTypeInv, FeedParts
<1>2. FeedTypeInv /\ [FeedNext]_feedVars => FeedTypeInv'
  <2> SUFFICES ASSUME FeedTypeInv, [FeedNext]_feedVars PROVE FeedTypeInv'
    OBVIOUS
  <2>1. Parts /\ Position /\ FeedParts
    BY TypeParts DEF FeedTypeInv, TypeInv
  <2>2. TypeInv'
    BY FeedStep, TypingStep DEF FeedTypeInv
  <2> QED BY <2>1, <2>2, CoversStep, ClientStep, HistoriesStep DEF FeedTypeInv, FeedParts
<1> QED BY <1>1, <1>2, CatalogueOfFeeds, PTL DEF FeedSpec

(* Every folder row has its two columns, the rows still to refresh exist,   *)
(* and a request has the fields of its kind, for every library and however  *)
(* requests, scans and faults interleave (scan.rs:395, routes.rs:118).      *)
THEOREM FeedTyping == FeedSpec => []FeedTypeOK
<1>1. FeedTypeInv => FeedTypeOK
  BY DEF FeedTypeInv, FeedParts, CoversType, ClientType, HistoriesType, FeedTypeOK
<1> QED BY <1>1, FeedTypingAlways, PTL
------------------------------------------------------------------------------
(* What an id that was read earlier leads to.                              *)

\* A row keeps its id for as long as it is there, and no id is given twice.
LEMMA IdsStay ==
  ASSUME Parts, Position, CatalogueInv, [Next]_vars
  PROVE  /\ nextId \in Nat /\ nextId' \in Nat /\ nextId' >= nextId
         /\ \A f \in DOMAIN folderDb' :
               \/ folderDb'[f].id >= nextId
               \/ f \in DOMAIN folderDb /\ folderDb'[f].id = folderDb[f].id
<1> DEFINE Stay == /\ nextId' \in Nat /\ nextId' >= nextId
                   /\ \A f \in DOMAIN folderDb' :
                         \/ folderDb'[f].id >= nextId
                         \/ f \in DOMAIN folderDb /\ folderDb'[f].id = folderDb[f].id
<1>1. nextId \in Nat
  BY DEF Parts, DbType
<1>2. ASSUME UNCHANGED <<folderDb, nextId>> PROVE Stay
  BY <1>1, <1>2
<1>3. ASSUME NEW f, NEW parentId, UpsertFolder(f, parentId) PROVE Stay
  <2>1. nextId' = IF f \in DOMAIN folderDb THEN nextId ELSE nextId + 1
    BY <1>3 DEF UpsertFolder
  <2>2. ASSUME NEW g \in DOMAIN folderDb'
        PROVE  \/ folderDb'[g].id >= nextId
               \/ g \in DOMAIN folderDb /\ folderDb'[g].id = folderDb[g].id
    <3>1. folderDb' = Put(folderDb, f, NewFolderRow(f, parentId))
      BY <1>3 DEF UpsertFolder
    <3>2. CASE g = f
      <4>1. folderDb'[g] = NewFolderRow(f, parentId)
        BY <3>1, <3>2 DEF Put
      <4> QED BY <1>1, <3>2, <4>1 DEF NewFolderRow
    <3>3. CASE g # f
      BY <3>1, <3>3 DEF Put
    <3> QED BY <3>2, <3>3
  <2> QED BY <1>1, <2>1, <2>2
<1>4. CASE Environment
  BY <1>2, <1>4, EnvironmentTyping DEF db
<1>5. CASE Scanner
  <2>1. CASE PruneFolders
    BY <1>1, <2>1 DEF PruneFolders, Without
  <2>2. CASE UpsertRoot \/ FolderDone
    BY <1>1, <1>3, <2>2 DEF UpsertRoot, FolderDone
  <2>3. CASE ~PruneFolders /\ ~UpsertRoot /\ ~FolderDone
    BY <1>2, <1>5, <2>3 DEF Scanner, StartScan, ListRoot, VisitFolder, VisitBook,
       CompareBook, HashBook, OpenBook, PruneBooks, FinishScan, db
  <2> QED BY <2>1, <2>2, <2>3
<1>6. CASE Failure
  BY <1>2, <1>6 DEF Failure, ListingFails, FolderFails, BookFails, ScanFails, Restart,
     Fault, db
<1>7. CASE UNCHANGED vars
  BY <1>2, <1>7 DEF vars, db
<1> QED BY <1>1, <1>4, <1>5, <1>6, <1>7 DEF Next

\* An id that has been given names p, or nothing any more.
Names(id, p) == /\ id \in 1..(nextId - 1)
                /\ \A f \in DOMAIN folderDb : folderDb[f].id = id => f = p

\* An id goes by one folder, or by none, for ever.
LEMMA NamesStay ==
  ASSUME Parts, Position, CatalogueInv, [Next]_vars, NEW id, NEW p, Names(id, p)
  PROVE  Names(id, p)'
<1>1. id \in 1..(nextId' - 1)
  BY IdsStay DEF Names
<1>2. ASSUME NEW f \in DOMAIN folderDb', folderDb'[f].id = id PROVE f = p
  <2>1. ~(id >= nextId)
    BY IdsStay DEF Names
  <2> QED BY <1>2, <2>1, IdsStay DEF Names
<1> QED BY <1>1, <1>2 DEF Names

ReadingFeed == {"subfolders", "books", "up"}
OnErrand    == {"image", "open", "direct", "below"}

\* The rows that a request read first still name what it is about.
ReaderInv ==
  /\ client.at \in ReadingFeed \cup OnErrand => Names(client.id, client.path)
  /\ (client.at \in ReadingFeed /\ client.parent # NoParent) =>
        Names(client.parent, Parent[client.path])
  /\ client.at = "subfolders" => client.books = {} /\ client.up = Nowhere
  /\ FeedIsOfOneFolder
  /\ CoverIsBelow

\* The row of a folder names it, and the row above it the folder above.
LEMMA RowNames ==
  ASSUME Parts, CatalogueInv, NEW f \in DOMAIN folderDb
  PROVE  /\ Names(folderDb[f].id, f)
         /\ folderDb[f].parent # NoParent => Names(folderDb[f].parent, Parent[f])
<1>1. Names(folderDb[f].id, f)
  BY DEF CatalogueInv, Ids, Names
<1>2. ASSUME folderDb[f].parent # NoParent PROVE Names(folderDb[f].parent, Parent[f])
  <2>1. Parent[f] \in DOMAIN folderDb /\ folderDb[f].parent = folderDb[Parent[f]].id
    BY <1>2 DEF CatalogueInv, RowsFollowPaths
  <2> QED BY <2>1 DEF CatalogueInv, Ids, Names
<1> QED BY <1>1, <1>2

\* A book filed below a folder has that folder above it: the rows reached
\* from it lie within the rows of folders that are below it on the disk.
LEMMA BelowIsBelow ==
  ASSUME Parts, CatalogueInv, NEW id, NEW p \in Folders, Names(id, p),
         NEW b \in FiledBelow(id)
  PROVE  p \in Above(Parent[b])
<1> DEFINE D == {g \in DOMAIN folderDb : folderDb[g].id = id}
           U == {h \in DOMAIN folderDb : p \in Above(h)}
<1>1. \A f \in Folders : f \in Above(f)
  BY DEF Above
<1>2. D \subseteq U
  BY <1>1 DEF Names
<1>3. ASSUME NEW f \in DOMAIN folderDb, NEW g \in U, folderDb[f].parent = folderDb[g].id
      PROVE  f \in U
  <2>1. folderDb[f].parent # NoParent
    BY <1>3 DEF CatalogueInv, Ids, NoParent, Parts, DbType
  <2>2. Parent[f] = g
    BY <1>3, <2>1 DEF CatalogueInv, RowsFollowPaths, Ids
  <2>3. g \in Folders /\ g # Nowhere
    BY TreeAssumption DEF Parts, DbType, Table
  <2>4. \A S \in SUBSET Folders :
           (f \in S /\ \A h \in S : Parent[h] \in S \cup {Nowhere}) => g \in S
    BY <2>2, <2>3
  <2>5. p \in Above(f)
    BY <1>3, <2>4 DEF Above
  <2> QED BY <2>5
<1>4. Cascade(D) \subseteq U
  <2> HIDE DEF D, U
  <2>1. D \in SUBSET DOMAIN folderDb /\ U \in SUBSET DOMAIN folderDb
    BY DEF D, U
  <2> QED BY <1>2, <1>3, <2>1, CascadeLeast
<1>5. PICK f \in Cascade(D) : b \in Filed(folderDb[f].id)
  BY DEF FiledBelow
<1>6. f \in DOMAIN folderDb /\ p \in Above(f)
  BY <1>4
<1>7. Parent[b] = f
  BY <1>5, <1>6 DEF Filed, CatalogueInv, RowsFollowPaths, Ids
<1> QED BY <1>6, <1>7

\* Requests read rows by the ids that they read before.
LEMMA ReaderStep ==
  ASSUME Parts, Position, CatalogueInv, FeedParts, ReaderInv, [FeedNext]_feedVars
  PROVE  ReaderInv'
<1> USE DEF ReaderInv, ReadingFeed, OnErrand
<1>1. [Next]_vars
  BY FeedStep
<1>2. \A id, p : Names(id, p) => Names(id, p)'
  BY <1>1, NamesStay
<1>3. ASSUME UNCHANGED client PROVE ReaderInv'
  BY <1>2, <1>3 DEF FeedIsOfOneFolder, CoverIsBelow
<1>4. ASSUME client'.at \notin ReadingFeed \cup OnErrand \cup {"shown", "seen"}
      PROVE  ReaderInv'
  BY <1>4 DEF FeedIsOfOneFolder, CoverIsBelow
<1>5. client \in ClientType
  BY DEF FeedParts
<1>6. ASSUME NEW f \in DOMAIN folderDb, ReadRow(f), UNCHANGED vars PROVE ReaderInv'
  <2>1. /\ Names(folderDb[f].id, f)
        /\ folderDb[f].parent # NoParent => Names(folderDb[f].parent, Parent[f])
    BY RowNames
  <2>2. /\ client'.at = "subfolders" /\ client'.path = f
        /\ client'.id = folderDb[f].id /\ client'.parent = folderDb[f].parent
        /\ client'.books = {} /\ client'.up = Nowhere
    BY <1>6 DEF ReadRow
  <2> QED BY <1>2, <2>1, <2>2 DEF FeedIsOfOneFolder, CoverIsBelow
<1>7. ASSUME Asking, UNCHANGED vars PROVE ReaderInv'
  <2>1. ASSUME NEW q \in Searches, AskSearch(q) PROVE ReaderInv'
    <3>1. client'.at = "search"
      BY <2>1 DEF AskSearch
    <3> QED BY <1>4, <3>1
  <2>2. ASSUME AskNothing PROVE ReaderInv'
    <3>1. client'.at = "hits"
      BY <2>2 DEF AskNothing
    <3> QED BY <1>4, <3>1
  <2> QED BY <1>6, <1>7, <2>1, <2>2 DEF Asking, AskFeed, AskRootFeed
<1>8. ASSUME Reading, UNCHANGED vars PROVE ReaderInv'
  <2>1. CASE ReadSubfolders
    <3> DEFINE subs == {g \in DOMAIN folderDb : folderDb[g].parent = client.id}
               links == [g \in subs |-> CoverLink(g)]
    <3>1. client \in Request /\ client' = [client EXCEPT !.at = "books", !.subs = links]
      BY <1>5, <2>1, ClientShape DEF ReadSubfolders
    <3>2. /\ client'.at = "books" /\ DOMAIN client'.subs = subs /\ client'.id = client.id
          /\ client'.path = client.path /\ client'.parent = client.parent
          /\ client'.books = client.books /\ client'.up = client.up
      BY <3>1 DEF Request
    <3>3. \A g \in subs : Parent[g] = client.path
      <4>1. Names(client.id, client.path)
        BY <2>1 DEF ReadSubfolders
      <4>2. \A g \in subs : folderDb[g].parent # NoParent
        BY <4>1 DEF Names, NoParent, Parts, DbType
      <4> QED BY <4>1, <4>2 DEF Names, CatalogueInv, RowsFollowPaths
    <3>4. FeedIsOfOneFolder'
      BY <2>1, <3>2, <3>3 DEF FeedIsOfOneFolder, ReadSubfolders
    <3> QED BY <1>2, <2>1, <3>2, <3>4 DEF CoverIsBelow, ReadSubfolders
  <2>2. CASE ReadBooks
    <3>1. client \in Request
      BY <1>5, <2>2, ClientShape DEF ReadBooks
    <3>2. /\ client'.at = "up" /\ client'.books = Filed(client.id)
          /\ client'.id = client.id /\ client'.subs = client.subs
          /\ client'.path = client.path /\ client'.parent = client.parent
          /\ client'.up = client.up
      BY <2>2, <3>1 DEF ReadBooks, Request
    <3>3. \A b \in Filed(client.id) : Parent[b] = client.path
      BY <2>2 DEF ReadBooks, Names, Filed, CatalogueInv, RowsFollowPaths
    <3>4. FeedIsOfOneFolder'
      BY <2>2, <3>2, <3>3 DEF FeedIsOfOneFolder, ReadBooks
    <3> QED BY <1>2, <2>2, <3>2, <3>4 DEF CoverIsBelow, ReadBooks
  <2>3. CASE ReadUp
    <3> DEFINE above == {f \in DOMAIN folderDb : folderDb[f].id = client.parent}
    <3>1. PICK up \in IF above = {} THEN {Nowhere} ELSE above : BuildFeed(up)
      BY <2>3 DEF ReadUp
    <3>2. client \in Request
      BY <1>5, <2>3, ClientShape DEF ReadUp
    <3>3. /\ client'.at = "shown" /\ client'.up = up
          /\ client'.books = client.books /\ client'.subs = client.subs
          /\ client'.path = client.path
      BY <3>1, <3>2 DEF BuildFeed, Request
    <3>4. \A f \in above : f = Parent[client.path]
      <4>1. ASSUME NEW f \in above PROVE client.parent # NoParent
        BY DEF NoParent, CatalogueInv, Ids, Parts, DbType
      <4> QED BY <2>3, <4>1 DEF ReadUp, Names
    <3>5. up # Nowhere => up = Parent[client.path]
      BY <3>4
    <3>6. FeedIsOfOneFolder'
      BY <2>3, <3>3, <3>5 DEF FeedIsOfOneFolder, ReadUp
    <3> QED BY <3>3, <3>6 DEF CoverIsBelow
  <2>4. CASE SearchBooks
    <3>1. client \in Hits
      BY <1>5, <2>4, ClientShape DEF SearchBooks
    <3> QED BY <1>4, <2>4, <3>1 DEF SearchBooks, Hits
  <2>5. ASSUME NEW g \in Folders, AskCover(g) PROVE ReaderInv'
    <3>1. CASE g \in DOMAIN folderDb
      <4>1. /\ client'.at \in {"image", "direct"}
            /\ client'.id = folderDb[g].id /\ client'.path = g
        BY <2>5, <3>1 DEF AskCover
      <4>2. Names(folderDb[g].id, g)
        BY <3>1, RowNames
      <4> QED BY <1>2, <4>1, <4>2 DEF FeedIsOfOneFolder, CoverIsBelow
    <3>2. CASE g \notin DOMAIN folderDb
      BY <1>4, <2>5, <3>2 DEF AskCover, Away
    <3> QED BY <3>1, <3>2
  <2>6. CASE FindImage
    <3>1. client \in Errand
      BY <1>5, <2>6, ClientShape DEF FindImage
    <3>2. /\ client'.at \in {"open", "direct"} /\ client'.id = client.id
          /\ client'.path = client.path
      BY <2>6, <3>1 DEF FindImage, Errand
    <3> QED BY <1>2, <2>6, <3>2 DEF FeedIsOfOneFolder, CoverIsBelow, FindImage
  <2>7. ASSUME NEW token, NEW from, Serve(token, from),
               from \in Books => client.path \in Above(Parent[from])
        PROVE  ReaderInv'
    BY <2>7 DEF Serve, FeedIsOfOneFolder, CoverIsBelow
  <2>8. CASE OpenImage
    <3>1. client.path \notin Books
      BY <1>5, <2>8, ClientShape, TreeAssumption DEF OpenImage, Errand
    <3> QED BY <1>4, <2>7, <2>8, <3>1 DEF OpenImage, Away
  <2>9. DOMAIN bookDb \subseteq Books
    BY DEF Parts, DbType, Table
  <2>10. CASE ServeDirect
    <3>1. client \in Errand /\ client.path \in Folders
      BY <1>5, <2>10, ClientShape DEF ServeDirect, Errand
    <3>2. CASE Filed(client.id) # {}
      <4>1. First(Filed(client.id)) \in Filed(client.id)
        BY <2>9, <3>2, FiledBooks, FirstIsOne
      <4>2. Parent[First(Filed(client.id))] = client.path
        BY <2>10, <4>1 DEF ServeDirect, Names, Filed, CatalogueInv, RowsFollowPaths
      <4>3. client.path \in Above(client.path)
        BY <3>1 DEF Above
      <4> QED BY <2>7, <2>10, <3>2, <4>2, <4>3 DEF ServeDirect
    <3>3. CASE Filed(client.id) = {}
      <4>1. /\ client'.at = "below" /\ client'.id = client.id /\ client'.path = client.path
        BY <2>10, <3>1, <3>3 DEF ServeDirect, Errand
      <4> QED BY <1>2, <2>10, <4>1 DEF FeedIsOfOneFolder, CoverIsBelow, ServeDirect
    <3> QED BY <3>2, <3>3
  <2>11. CASE ServeBelow
    <3>1. client \in Errand /\ client.path \in Folders /\ Names(client.id, client.path)
      BY <1>5, <2>11, ClientShape DEF ServeBelow, Errand
    <3>2. CASE FiledBelow(client.id) # {}
      <4>1. First(FiledBelow(client.id)) \in FiledBelow(client.id)
        BY <2>9, <3>2, FiledBooks, FirstIsOne
      <4>2. client.path \in Above(Parent[First(FiledBelow(client.id))])
        BY <3>1, <4>1, BelowIsBelow
      <4> QED BY <2>7, <2>11, <3>2, <4>2 DEF ServeBelow
    <3>3. CASE FiledBelow(client.id) = {}
      BY <1>4, <2>11, <3>3 DEF ServeBelow, Away
    <3> QED BY <3>2, <3>3
  <2> QED BY <1>8, <2>1, <2>2, <2>3, <2>4, <2>5, <2>6, <2>8, <2>10, <2>11 DEF Reading
<1>9. CASE FeedRestart
  BY <1>3, <1>4, <1>9 DEF FeedRestart, Away
<1> QED BY <1>3, <1>7, <1>8, <1>9 DEF FeedNext, FeedScan, feedVars, reader, Library,
        Paint, FeedStartScan, UpsertRootCover, FolderCoverDone, WalkStep, PruneAndRefresh,
        RefreshCover, FeedFinishScan, FeedFault

\* What a client has in hand is of the folder it asked for, always.
LEMMA ReaderAlways == FeedSpec => []ReaderInv
<1>1. FeedInit => ReaderInv
  BY DEF FeedInit, Away, ReaderInv, ReadingFeed, OnErrand, FeedIsOfOneFolder, CoverIsBelow
<1>2. FeedTypeInv /\ CatalogueInv /\ ReaderInv /\ [FeedNext]_feedVars => ReaderInv'
  BY ReaderStep, TypeParts DEF FeedTypeInv, TypeInv
<1> QED BY <1>1, <1>2, FeedTypingAlways, PTL DEF FeedSpec

(* A feed is of one folder, although its three queries run between the      *)
(* statements of scans, prunes and restarts (serve_folder_feed): the id     *)
(* that was read first names that folder or none, since AUTOINCREMENT does  *)
(* not give it again and an update keeps it.                                *)
THEOREM OneFolder == FeedSpec => []FeedIsOfOneFolder
  BY ReaderAlways, PTL DEF ReaderInv

(* The book whose first page stands for a folder (folder_cover) lies in or  *)
(* below it, for every tree: the recursive join follows parent_id, and      *)
(* parent_id follows the paths.                                             *)
THEOREM CoversAreBelow == FeedSpec => []CoverIsBelow
  BY ReaderAlways, PTL DEF ReaderInv
------------------------------------------------------------------------------
(* A catalogue that was found.                                             *)

\* The catalogue is the library, with one root.
Exact ==
  /\ DOMAIN folderDb = Reachable
  /\ DOMAIN bookDb = Indexable
  /\ \A f \in DOMAIN folderDb : folderDb[f].parent = NoParent <=> f = root
  /\ \A b \in DOMAIN bookDb : bookDb[b].hash = file[b].content
                              /\ bookDb[b].pages = file[b].content

\* A folder's columns are as the next scan would make them.
CoverKnown(f)   == coverDb[f].path <=> image[f] # NoTime
VersionKnown(f) == coverDb[f].version = CoverVersionFor(f)

\* An image is in a directory.
ImageInv == \A f \in Folders \ dirs : image[f] = NoTime

\* While no image changes, a scan gets the columns right row by row.
RefreshInv ==
  still =>
    /\ Undisturbed => \A f \in touched \cap Folders : CoverKnown(f)
    /\ (quiet /\ pc = "refresh") =>
          \A f \in DOMAIN folderDb \ refreshing : VersionKnown(f)

\* Once the library was found, the catalogue and the columns stay right.
FoundInv ==
  found =>
    /\ Undisturbed
    /\ Exact
    /\ \A f \in DOMAIN folderDb : CoverKnown(f) /\ VersionKnown(f)

\* What a request has read of such a catalogue is so.
Listed(books, up) ==
  /\ client.path \in DOMAIN folderDb
  /\ DOMAIN client.subs = {g \in Reachable \ {root} : Parent[g] = client.path}
  /\ \A g \in DOMAIN client.subs : client.subs[g] = CoverVersionFor(g)
  /\ books => client.books = {b \in Indexable : Parent[b] = client.path}
  /\ up => client.up = IF client.path = root THEN Nowhere ELSE Parent[client.path]

Found(books) ==
  /\ AreFirst(DOMAIN client.subs, client.query \cap Reachable, FolderLimit)
  /\ \A g \in DOMAIN client.subs : client.subs[g] = CoverVersionFor(g)
  /\ books => AreFirst(client.books, client.query \cap Indexable, BookLimit)

RowRead ==
  /\ client.path \in DOMAIN folderDb
  /\ client.id = folderDb[client.path].id

ClientRight ==
  /\ client.at \in ReadingFeed => RowRead /\ client.parent = folderDb[client.path].parent
  /\ client.at \in {"books", "up", "shown"} =>
        Listed(client.at # "books", client.at = "shown")
  /\ client.at \in {"search", "hits"} => Found(client.at = "hits")
  /\ client.at \in OnErrand => RowRead /\ client.version = CoverVersionFor(client.path)
  /\ client.at \in {"image", "open"} => coverDb[client.path].path
  /\ client.at \in {"direct", "below"} => image[client.path] = NoTime
  /\ client.at = "below" => Filed(client.id) = {}
  /\ client.at = "seen" => client.token = client.version

CleanInv == clean => found /\ ClientRight

\* Together with what is known of scans.
ScanInv == Parts /\ Position /\ CatalogueInv /\ WalkInv

\* The step leaves the catalogue as it is, but for the times in it.
SameFiling ==
  /\ DOMAIN folderDb' = DOMAIN folderDb
  /\ DOMAIN bookDb' = DOMAIN bookDb
  /\ \A f \in DOMAIN folderDb : folderDb'[f].id = folderDb[f].id
                              /\ folderDb'[f].parent = folderDb[f].parent
  /\ \A b \in DOMAIN bookDb : bookDb'[b].folder = bookDb[b].folder
                              /\ bookDb'[b].hash = bookDb[b].hash
                              /\ bookDb'[b].pages = bookDb[b].pages

\* Then every query for books has the same result.
LEMMA FilingSame ==
  ASSUME SameFiling, NEW id
  PROVE  Filed(id)' = Filed(id) /\ FiledBelow(id)' = FiledBelow(id)
<1> DEFINE D == {g \in DOMAIN folderDb : folderDb[g].id = id}
           C == Cascade(D)
<1>1. \A i : {b \in DOMAIN bookDb : bookDb[b].folder = i}'
                = {b \in DOMAIN bookDb : bookDb[b].folder = i}
  BY DEF SameFiling
<1>2. D' = D
  BY DEF SameFiling
<1>3. C' = C
  <2> DEFINE Closed(S) == \A f \in DOMAIN folderDb : \A g \in S :
                 folderDb[f].parent = folderDb[g].id => f \in S
  <2>1. \A S \in SUBSET DOMAIN folderDb : Closed(S)' <=> Closed(S)
    BY DEF SameFiling
  <2>2. C = {f \in DOMAIN folderDb :
                \A S \in SUBSET DOMAIN folderDb : D \subseteq S /\ Closed(S) => f \in S}
    BY DEF Cascade
  <2>3. C' = {f \in DOMAIN folderDb' :
                \A S \in SUBSET DOMAIN folderDb' : D' \subseteq S /\ Closed(S)' => f \in S}
    BY DEF Cascade
  <2>4. DOMAIN folderDb' = DOMAIN folderDb
    BY DEF SameFiling
  <2> HIDE DEF C, D, Closed
  <2> QED BY <1>2, <2>1, <2>2, <2>3, <2>4
<1>4. C \subseteq DOMAIN folderDb
  BY DEF Cascade
<1>5. Filed(id)' = Filed(id)
  BY <1>1 DEF Filed
<1>6. FiledBelow(id) = UNION {Filed(folderDb[f].id) : f \in C}
  BY DEF FiledBelow
<1>7. FiledBelow(id)' = UNION {{b \in DOMAIN bookDb' : bookDb'[b].folder = folderDb'[f].id}
                                 : f \in C'}
  BY DEF FiledBelow, Filed
<1>8. \A f \in C : {b \in DOMAIN bookDb' : bookDb'[b].folder = folderDb'[f].id}
                    = Filed(folderDb[f].id)
  BY <1>4 DEF SameFiling, Filed
<1> HIDE DEF C
<1>9. FiledBelow(id)' = FiledBelow(id)
  BY <1>3, <1>6, <1>7, <1>8
<1> QED BY <1>5, <1>9

\* And every folder has the same cover.
LEMMA VersionSame ==
  ASSUME Parts, SameFiling, NEW f \in DOMAIN folderDb,
         image'[f] = image[f], coverDb'[f].path <=> coverDb[f].path
  PROVE  CoverVersionFor(f)' = CoverVersionFor(f)
<1> DEFINE Choice(own, below) ==
             IF coverDb[f].path /\ image[f] # NoTime THEN Painted(image[f])
             ELSE IF own # {} THEN Hashed(First(own))
             ELSE IF below # {} THEN Hashed(First(below))
             ELSE NoVersion
<1>1. PICK j : j = folderDb[f].id
  OBVIOUS
<1>2. folderDb'[f].id = j
  BY <1>1 DEF SameFiling
<1>3. Filed(j)' = Filed(j) /\ FiledBelow(j)' = FiledBelow(j)
  BY FilingSame
<1>4. CoverVersionFor(f) = Choice(Filed(j), FiledBelow(j))
  BY <1>1 DEF CoverVersionFor
<1>5. CoverVersionFor(f)' = Choice(Filed(j), FiledBelow(j))'
  BY <1>2 DEF CoverVersionFor, Filed, FiledBelow, Cascade
<1>6. \A S \in SUBSET DOMAIN bookDb : S # {} => Hashed(First(S))' = Hashed(First(S))
  <2>1. ASSUME NEW S \in SUBSET DOMAIN bookDb, S # {}
        PROVE  Hashed(First(S))' = Hashed(First(S))
    <3>1. First(S) \in S
      BY <2>1, FirstIsOne DEF Parts, DbType, Table
    <3> QED BY <3>1 DEF SameFiling, Hashed
  <2> QED BY <2>1
<1>7. Filed(j) \in SUBSET DOMAIN bookDb /\ FiledBelow(j) \in SUBSET DOMAIN bookDb
  BY FiledBooks
<1> QED BY <1>3, <1>4, <1>5, <1>6, <1>7

\* A step that leaves the tables alone.
LEMMA SameTables ==
  ASSUME UNCHANGED <<folderDb, bookDb>>
  PROVE  SameFiling
  BY DEF SameFiling

\* Time passes, or the files change.
LEMMA LibraryChanges ==
  ASSUME Parts, Library
  PROVE  Tick \/ (quiet' = FALSE /\ found' = FALSE)
<1>1. ASSUME Changing PROVE quiet' = FALSE /\ found' = FALSE
  <2>1. changes \in Nat /\ changes' = changes + 1 /\ quiet' = FALSE
    BY <1>1 DEF Changing, Parts, DiskType
  <2>2. changes' # changes
    BY <2>1
  <2> QED BY <2>1, <2>2 DEF Library
<1> QED BY <1>1 DEF Library, Environment, WriteFile, RemoveFile, MoveFile, MakeDir, RemoveDir

\* When time passes, nothing that a request reads changes.
LEMMA TickSame ==
  ASSUME Parts, CoversType, HistoriesType, ImageInv, Library, Tick
  PROVE  /\ UNCHANGED <<image, coverDb, refreshing, still, client, found>>
         /\ UNCHANGED <<dirs, file, root, folderDb, bookDb, nextId, pc, walk, history>>
<1>1. UNCHANGED <<dirs, file, root, folderDb, bookDb, nextId, pc, walk, history, changes>>
  BY DEF Tick, disk, db
<1>2. image' = image
  <2>1. image' = [f \in Folders |-> IF f \in dirs THEN image[f] ELSE NoTime]
    BY <1>1 DEF Library
  <2>2. \A f \in Folders : (IF f \in dirs THEN image[f] ELSE NoTime) = image[f]
    BY DEF ImageInv
  <2>3. image = [f \in Folders |-> image[f]]
    BY DEF CoversType
  <2> QED BY <2>1, <2>2, <2>3
<1>3. UNCHANGED <<coverDb, refreshing, still, client>>
  BY DEF Library
<1>4. found' = (found /\ changes' = changes)
  BY DEF Library
<1>5. found' = found
  BY <1>1, <1>4, Zenon DEF HistoriesType
<1> QED BY <1>1, <1>2, <1>3, <1>5

\* A directory takes its image with it.
LEMMA ImageStep ==
  ASSUME CoversType, ImageInv, [FeedNext]_feedVars
  PROVE  ImageInv'
<1>1. CASE Library
  BY <1>1 DEF Library, ImageInv
<1>2. ASSUME NEW f \in Folders, Paint(f) PROVE ImageInv'
  BY <1>2 DEF Paint, ImageInv, CoversType, vars, disk
<1>3. CASE UNCHANGED <<dirs, image>>
  BY <1>3 DEF ImageInv
<1>4. CASE FeedScan
  BY <1>3, <1>4 DEF FeedScan, FeedStartScan, StartScan, UpsertRootCover, UpsertRoot,
     FolderCoverDone, FolderDone, WalkStep, ListRoot, VisitFolder, VisitBook, CompareBook,
     HashBook, OpenBook, PruneBooks, PruneAndRefresh, PruneFolders, RefreshCover,
     FeedFinishScan, FinishScan, covers, vars, disk
<1>5. CASE FeedFault \/ FeedRestart
  BY <1>3, <1>5 DEF FeedFault, FeedRestart, ListingFails, FolderFails, BookFails, ScanFails,
     Restart, Fault, disk
<1> QED BY <1>1, <1>2, <1>3, <1>4, <1>5 DEF FeedNext, feedVars, covers, vars, disk

\* The columns that an upsert writes.
LEMMA UpsertedCover ==
  ASSUME NEW f, UpsertCover(f)
  PROVE  /\ DOMAIN coverDb' = DOMAIN coverDb \cup {f}
         /\ coverDb'[f].path <=> image[f] # NoTime
         /\ f \in DOMAIN coverDb => coverDb'[f].version = coverDb[f].version
         /\ \A g \in DOMAIN coverDb : g # f => coverDb'[g] = coverDb[g]
  BY DEF UpsertCover, Put

\* An upsert of a folder also gets its first column right, and a row of
\* refresh_cover_versions the second.
LEMMA RefreshStep ==
  ASSUME ScanInv, CatalogueInv', FeedParts, ImageInv, RefreshInv, [FeedNext]_feedVars
  PROVE  RefreshInv'
<1> USE DEF ScanInv
<1>0. CoversType /\ DOMAIN coverDb = DOMAIN folderDb
      /\ \A f \in touched \cap Folders : f \in DOMAIN folderDb
  BY DEF FeedParts, CoversType, CatalogueInv, TouchedFolders
<1>1. ASSUME UNCHANGED <<image, coverDb, refreshing, folderDb, bookDb, pc>>,
             still' => still, quiet' => quiet, Undisturbed' => Undisturbed,
             touched' \cap Folders \subseteq touched
      PROVE  RefreshInv'
  <2>1. \A f \in DOMAIN folderDb : CoverVersionFor(f)' = CoverVersionFor(f)
    BY <1>1, SameTables, VersionSame
  <2> QED BY <1>1, <2>1 DEF RefreshInv, CoverKnown, VersionKnown
<1>2. ASSUME UNCHANGED <<image, coverDb>>, pc' # "refresh",
             still' => still, Undisturbed' => Undisturbed,
             touched' \cap Folders \subseteq touched
      PROVE  RefreshInv'
  BY <1>2 DEF RefreshInv, CoverKnown
<1>3. ASSUME ~still' \/ (~Undisturbed' /\ (~quiet' \/ pc' # "refresh")) PROVE RefreshInv'
  BY <1>3 DEF RefreshInv
<1>4. CASE Library
  <2>1. CASE Tick
    BY <1>1, <1>4, <2>1, TickSame DEF Undisturbed, history, FeedParts
  <2>2. CASE ~Tick
    BY <1>3, <1>4, <2>2, LibraryChanges DEF Undisturbed
  <2> QED BY <2>1, <2>2
<1>5. ASSUME NEW f \in Folders, Paint(f) PROVE RefreshInv'
  BY <1>3, <1>5 DEF Paint
<1>6. CASE FeedStartScan
  BY <1>6 DEF FeedStartScan, StartScan, RefreshInv
<1>7. ASSUME NEW f \in Folders, UpsertCover(f), touched' = touched \cup {f},
             pc' # "refresh", UNCHANGED <<image, still>>, Undisturbed' => Undisturbed
      PROVE  RefreshInv'
  <2> SUFFICES ASSUME still', Undisturbed', NEW g \in touched' \cap Folders
               PROVE  CoverKnown(g)'
    BY <1>7 DEF RefreshInv
  <2>1. CASE g = f
    BY <1>7, <2>1, UpsertedCover DEF CoverKnown
  <2>2. CASE g # f
    BY <1>0, <1>7, <2>2, UpsertedCover DEF CoverKnown, RefreshInv
  <2> QED BY <2>1, <2>2
<1>8. CASE UpsertRootCover
  <2>1. root \in Folders
    BY TreeAssumption DEF Parts, ControlType
  <2> QED BY <1>7, <1>8, <2>1 DEF UpsertRootCover, UpsertRoot, UpsertFolder, Undisturbed
<1>9. CASE FolderCoverDone
  <2>1. cur \in Folders
    BY <1>9 DEF FolderCoverDone, FolderDone, Position
  <2> QED BY <1>7, <1>9, <2>1 DEF FolderCoverDone, FolderDone, UpsertFolder, Undisturbed
<1>10. CASE WalkStep
  <2>1. UNCHANGED <<image, coverDb, still, quiet, complete>> /\ pc' # "refresh"
    BY <1>10 DEF WalkStep, covers, ListRoot, VisitFolder, VisitBook, CompareBook, HashBook,
       OpenBook, GiveUp, PruneBooks, history
  <2>2. touched' \cap Folders \subseteq touched
    <3>1. CASE CompareBook \/ OpenBook
      <4>1. cur \notin Folders /\ touched' \subseteq touched \cup {cur}
        BY <3>1, TreeAssumption DEF CompareBook, OpenBook, Position
      <4> QED BY <4>1
    <3>2. CASE ~(CompareBook \/ OpenBook)
      BY <1>10, <3>2 DEF WalkStep, ListRoot, VisitFolder, VisitBook, HashBook, PruneBooks, history
    <3> QED BY <3>1, <3>2
  <2> QED BY <1>2, <2>1, <2>2 DEF Undisturbed
<1>11. CASE PruneAndRefresh
  <2>1. /\ coverDb' = [f \in DOMAIN folderDb' |-> coverDb[f]]
        /\ refreshing' = DOMAIN folderDb'
        /\ UNCHANGED <<image, still, quiet, complete, touched>>
    BY <1>11 DEF PruneAndRefresh, PruneFolders, history
  <2>2. \A f \in touched \cap Folders : f \in DOMAIN folderDb'
    BY <2>1 DEF CatalogueInv, TouchedFolders
  <2> QED BY <2>1, <2>2 DEF RefreshInv, CoverKnown, Undisturbed
<1>12. ASSUME NEW f \in Folders, RefreshCover(f) PROVE RefreshInv'
  <2> DEFINE new == CoverVersionFor(f)
  <2>1. /\ f \in DOMAIN folderDb /\ refreshing' = refreshing \ {f} /\ pc = "refresh"
        /\ coverDb' = [coverDb EXCEPT ![f].version = new]
        /\ UNCHANGED <<image, still, quiet, complete, touched, folderDb, bookDb, pc>>
    BY <1>0, <1>12 DEF RefreshCover, vars, history, db, CoversType
  <2> HIDE DEF new
  <2>2. \A g \in DOMAIN folderDb : coverDb[g] \in CoverRow
    BY <1>0 DEF CoversType
  <2>3. /\ coverDb'[f].version = new
        /\ \A g \in DOMAIN folderDb : coverDb'[g].path = coverDb[g].path
        /\ \A g \in DOMAIN folderDb \ {f} : coverDb'[g] = coverDb[g]
    BY <1>0, <2>1, <2>2 DEF CoverRow
  <2>4. \A g \in DOMAIN folderDb : CoverVersionFor(g)' = CoverVersionFor(g)
    BY <2>1, <2>3, SameTables, VersionSame
  <2>5. still => \A g \in DOMAIN folderDb' \ refreshing' : quiet => VersionKnown(g)'
    BY <2>1, <2>3, <2>4 DEF RefreshInv, VersionKnown, new
  <2>6. still /\ Undisturbed => \A g \in touched' \cap Folders : CoverKnown(g)'
    BY <1>0, <2>1, <2>3 DEF RefreshInv, CoverKnown
  <2> QED BY <2>1, <2>5, <2>6 DEF RefreshInv, Undisturbed
<1>13. CASE FeedFinishScan
  BY <1>2, <1>13 DEF FeedFinishScan, FinishScan, covers, history, Undisturbed
<1>14. CASE FeedFault \/ FeedRestart
  <2>1. complete' = FALSE /\ (pc' # "refresh")
    BY <1>14 DEF FeedFault, FeedRestart, ListingFails, FolderFails, BookFails, ScanFails,
       Restart, Fault, Forget, GiveUp
  <2> QED BY <1>3, <2>1 DEF Undisturbed
<1>15. CASE UNCHANGED <<vars, covers>>
  BY <1>1, <1>15 DEF vars, covers, db, history, Undisturbed
<1> QED BY <1>4, <1>5, <1>6, <1>8, <1>9, <1>10, <1>11, <1>12, <1>13, <1>14, <1>15
        DEF FeedNext, FeedScan, feedVars

\* The step leaves the columns of every folder as they are.
SameCovers ==
  \A f \in DOMAIN folderDb : /\ coverDb'[f].path <=> coverDb[f].path
                             /\ coverDb'[f].version = coverDb[f].version

\* A folder is upserted where it was, with its image as it was.
LEMMA UpsertSame ==
  ASSUME CoversType, NEW f \in DOMAIN folderDb, NEW parentId,
         folderDb[f].parent = parentId, CoverKnown(f),
         UpsertFolder(f, parentId), UpsertCover(f)
  PROVE  SameFiling /\ SameCovers
<1> DEFINE row == NewFolderRow(f, parentId)
<1>1. row.id = folderDb[f].id /\ row.parent = folderDb[f].parent
  BY DEF NewFolderRow
<1>2. folderDb' = Put(folderDb, f, row) /\ bookDb' = bookDb
  BY DEF UpsertFolder
<1> HIDE DEF row
<1>3. SameFiling
  BY <1>1, <1>2 DEF Put, SameFiling
<1>4. SameCovers
  BY UpsertedCover DEF CoversType, SameCovers, CoverKnown
<1> QED BY <1>3, <1>4

\* All that is in an exact catalogue was met by the scan, so the DELETEs find
\* nothing.
LEMMA NothingToPrune ==
  ASSUME Parts, Position, CatalogueInv, Progress, Exact, ~InHand, todo = {},
         pc \notin {"root", "list"}, started \in Times
  PROVE  /\ Unseen(bookDb) = {}
         /\ Cascade(Unseen(folderDb)) = {}
<1>1. DOMAIN folderDb \subseteq touched \cap Folders /\ DOMAIN bookDb \subseteq touched \cap Books
  BY AllTouched DEF Exact, Parts, DbType, Table
<1>2. /\ \A f \in DOMAIN folderDb : folderDb[f].seen = started
      /\ \A b \in DOMAIN bookDb : bookDb[b].seen = started
  BY <1>1 DEF CatalogueInv, TouchedFolders, TouchedBooks
<1>3. ~(started < started)
  BY DEF Times
<1>4. Unseen(bookDb) = {} /\ Unseen(folderDb) = {}
  BY <1>2, <1>3 DEF Unseen
<1> QED BY <1>4, CascadeLeast

\* While the library stays found, a step of the scan changes neither the
\* catalogue nor the columns.
FoundSteps == /\ SameFiling /\ SameCovers
              /\ UNCHANGED <<dirs, file, root, image>>
              /\ Undisturbed'

\* The upserts of folders write what is there.
LEMMA FoundFolder ==
  ASSUME Parts, Position, CatalogueInv, Progress, CoversType, Exact,
         \A f \in DOMAIN folderDb : CoverKnown(f), UpsertRootCover \/ FolderCoverDone
  PROVE  SameFiling /\ SameCovers
<1>1. CASE UpsertRootCover
  <2>1. root \in DOMAIN folderDb /\ folderDb[root].parent = NoParent
    BY ReachableClosed DEF Exact
  <2> QED BY <1>1, <2>1, UpsertSame DEF UpsertRootCover, UpsertRoot
<1>2. CASE FolderCoverDone
  <2>1. pc = "folder" /\ cur \in Folders /\ Parent[cur] \in DOMAIN pathToId
    BY <1>2 DEF FolderCoverDone, FolderDone, Position
  <2>2. cur \in Reachable /\ cur # root
    BY <2>1, OnTheWay DEF Progress, Ahead, InHand
  <2>3. cur \in DOMAIN folderDb /\ folderDb[cur].parent = pathToId[Parent[cur]]
    BY <2>1, <2>2 DEF Exact, CatalogueInv, RowsFollowPaths, Known
  <2> QED BY <1>2, <2>3, UpsertSame DEF FolderCoverDone, FolderDone
<1> QED BY <1>1, <1>2

\* So do those of books, as far as filing and content go.
LEMMA FoundBook ==
  ASSUME Parts, Position, CatalogueInv, Progress, Exact, CompareBook \/ OpenBook
  PROVE  SameFiling
<1>1. CASE CompareBook
  <2>1. pc = "compare" /\ cur \in Books /\ Parent[cur] \in DOMAIN pathToId
    BY <1>1 DEF CompareBook, Position
  <2>2. CASE UNCHANGED <<folderDb, bookDb>>
    BY <2>2, SameTables
  <2>3. CASE cur \in DOMAIN bookDb /\ bookDb' = [bookDb EXCEPT ![cur] = SeenRow(cur)]
    <3> DEFINE row == SeenRow(cur)
    <3>1. bookDb[cur] \in BookRow /\ bookDb[cur].folder = pathToId[Parent[cur]]
      BY <2>1, <2>3 DEF Parts, DbType, Table, CatalogueInv, RowsFollowPaths, Known
    <3>2. /\ row.folder = bookDb[cur].folder
          /\ row.hash = bookDb[cur].hash /\ row.pages = bookDb[cur].pages
      BY <3>1 DEF SeenRow, BookRow
    <3>3. folderDb' = folderDb
      BY <1>1 DEF CompareBook
    <3>4. bookDb' = [bookDb EXCEPT ![cur] = row]
      BY <2>3
    <3> HIDE DEF row
    <3> QED BY <2>3, <3>2, <3>3, <3>4 DEF SameFiling
  <2> QED BY <1>1, <2>2, <2>3 DEF CompareBook
<1>2. CASE OpenBook
  <2>1. pc = "open" /\ cur \in Books /\ Parent[cur] \in DOMAIN pathToId /\ folderDb' = folderDb
    BY <1>2 DEF OpenBook, Position
  <2>2. CASE bookDb' = bookDb
    BY <2>1, <2>2, SameTables
  <2>3. CASE /\ file[cur] # Absent /\ file[cur].content \in Readable
             /\ bookDb' = Put(bookDb, cur, NewBookRow(cur))
    <3> DEFINE row == NewBookRow(cur)
    <3>1. OnWay(cur) /\ file[cur].content \notin Oversize /\ stat.hash = file[cur].content
      BY <2>1 DEF Progress, Ahead, InHand, ReadRight
    <3>2. cur \in DOMAIN bookDb
      BY <2>1, <2>3, <3>1 DEF Exact, Indexable, OnWay
    <3>3. /\ row.folder = bookDb[cur].folder
          /\ row.hash = bookDb[cur].hash /\ row.pages = bookDb[cur].pages
      BY <2>1, <3>1, <3>2 DEF NewBookRow, Exact, CatalogueInv, RowsFollowPaths, Known
    <3>4. bookDb' = Put(bookDb, cur, row)
      BY <2>3
    <3> HIDE DEF row
    <3> QED BY <2>1, <3>2, <3>3, <3>4 DEF SameFiling, Put
  <2> QED BY <1>2, <2>2, <2>3 DEF OpenBook
<1> QED BY <1>1, <1>2

\* So no step that leaves the library found changes the filing or the columns.
LEMMA FoundStays ==
  ASSUME ScanInv, FeedParts, ImageInv, FoundInv, found, found', [FeedNext]_feedVars
  PROVE  FoundSteps
<1> USE DEF ScanInv
<1>0. /\ Undisturbed /\ Exact /\ Progress /\ CoversType
      /\ \A f \in DOMAIN folderDb : CoverKnown(f) /\ VersionKnown(f)
      /\ DOMAIN coverDb = DOMAIN folderDb
  BY DEF FoundInv, WalkInv, FeedParts, CoversType
<1>1. ASSUME UNCHANGED <<folderDb, bookDb, coverDb, dirs, file, root, image, quiet, complete>>
      PROVE  FoundSteps
  BY <1>0, <1>1, SameTables DEF FoundSteps, SameCovers, Undisturbed
<1>2. CASE Library
  <2>1. Tick
    BY <1>2, LibraryChanges
  <2> QED BY <1>1, <1>2, <2>1, TickSame DEF history, FeedParts
<1>3. CASE (\E f \in Folders : Paint(f)) \/ FeedFault \/ FeedRestart
  BY <1>3 DEF Paint, FeedFault, FeedRestart
<1>4. CASE FeedStartScan
  <2>1. /\ UNCHANGED <<folderDb, bookDb, coverDb, dirs, file, root, image>>
        /\ quiet' = TRUE /\ complete' = TRUE
    BY <1>4 DEF FeedStartScan, StartScan, disk, db
  <2> QED BY <2>1, SameTables DEF FoundSteps, SameCovers, Undisturbed
<1>5. CASE UpsertRootCover \/ FolderCoverDone
  <2>1. UNCHANGED <<dirs, file, root, image, quiet, complete>>
    BY <1>5 DEF UpsertRootCover, UpsertRoot, FolderCoverDone, FolderDone, disk
  <2> QED BY <1>0, <1>5, <2>1, FoundFolder DEF FoundSteps, Undisturbed
<1>6. CASE WalkStep
  <2>1. UNCHANGED <<dirs, file, root, image, coverDb, quiet, complete>>
    BY <1>6 DEF WalkStep, covers, ListRoot, VisitFolder, VisitBook, CompareBook, HashBook,
       OpenBook, PruneBooks, disk, history
  <2>2. SameFiling
    <3>1. CASE CompareBook \/ OpenBook
      BY <1>0, <3>1, FoundBook
    <3>2. CASE PruneBooks
      <4>1. Unseen(bookDb) = {}
        BY <1>0, <3>2, NothingToPrune DEF PruneBooks, InHand, Position
      <4>2. bookDb' = [b \in DOMAIN bookDb |-> bookDb[b]] /\ folderDb' = folderDb
        BY <3>2, <4>1 DEF PruneBooks, Without
      <4> QED BY <4>2 DEF SameFiling
    <3>3. CASE ~(CompareBook \/ OpenBook \/ PruneBooks)
      <4>1. UNCHANGED <<folderDb, bookDb>>
        BY <1>6, <3>3 DEF WalkStep, ListRoot, VisitFolder, VisitBook, HashBook, db
      <4> QED BY <4>1, SameTables
    <3> QED BY <3>1, <3>2, <3>3
  <2> QED BY <1>0, <2>1, <2>2 DEF FoundSteps, SameCovers, Undisturbed
<1>7. CASE PruneAndRefresh
  <2> DEFINE gone == Cascade(Unseen(folderDb))
             lost == {b \in DOMAIN bookDb : bookDb[b].folder \in {folderDb[f].id : f \in gone}}
  <2>1. /\ pc = "pruneFolders" /\ folderDb' = Without(folderDb, gone)
        /\ bookDb' = Without(bookDb, lost)
        /\ coverDb' = [f \in DOMAIN folderDb' |-> coverDb[f]]
        /\ UNCHANGED <<dirs, file, root, image, quiet, complete>>
    BY <1>7 DEF PruneAndRefresh, PruneFolders, disk, history
  <2>2. gone = {}
    BY <1>0, <2>1, NothingToPrune DEF InHand, Position
  <2>3. lost = {}
    BY <2>2
  <2> HIDE DEF gone, lost
  <2>4. /\ folderDb' = [f \in DOMAIN folderDb |-> folderDb[f]]
        /\ bookDb' = [b \in DOMAIN bookDb |-> bookDb[b]]
    BY <2>1, <2>2, <2>3 DEF Without
  <2>5. SameFiling
    BY <2>4 DEF SameFiling
  <2>6. SameCovers
    BY <2>1, <2>4 DEF SameCovers
  <2> QED BY <1>0, <2>1, <2>5, <2>6 DEF FoundSteps, Undisturbed
<1>8. ASSUME NEW f \in Folders, RefreshCover(f)
      PROVE  FoundSteps
  <2> DEFINE new == CoverVersionFor(f)
  <2>1. /\ f \in DOMAIN folderDb /\ new = coverDb[f].version
        /\ coverDb' = [coverDb EXCEPT ![f].version = new]
        /\ UNCHANGED <<dirs, file, root, image, quiet, complete, folderDb, bookDb>>
    BY <1>0, <1>8 DEF RefreshCover, vars, history, db, disk, CoversType, VersionKnown
  <2> HIDE DEF new
  <2>2. \A g \in DOMAIN folderDb : coverDb[g] \in CoverRow
    BY <1>0 DEF CoversType
  <2>3. SameCovers
    BY <1>0, <2>1, <2>2 DEF CoverRow, SameCovers
  <2> QED BY <1>0, <2>1, <2>3, SameTables DEF FoundSteps, Undisturbed
<1>9. CASE FeedFinishScan
  BY <1>1, <1>9 DEF FeedFinishScan, FinishScan, covers, db, disk, history
<1>10. CASE UNCHANGED <<vars, covers>>
  BY <1>1, <1>10 DEF vars, covers, db, disk, history
<1> QED BY <1>2, <1>3, <1>4, <1>5, <1>6, <1>7, <1>8, <1>9, <1>10
        DEF FeedNext, FeedScan, feedVars

\* What the client may be shown stays the same, too.
LEMMA SameView ==
  ASSUME Parts, FoundSteps
  PROVE  /\ Reachable' = Reachable /\ Indexable' = Indexable
         /\ DOMAIN folderDb' = DOMAIN folderDb /\ DOMAIN bookDb' = DOMAIN bookDb
         /\ \A f \in DOMAIN folderDb : /\ CoverVersionFor(f)' = CoverVersionFor(f)
                                       /\ CoverKnown(f)' <=> CoverKnown(f)
                                       /\ VersionKnown(f)' <=> VersionKnown(f)
<1>1. \A f \in DOMAIN folderDb : CoverVersionFor(f)' = CoverVersionFor(f)
  BY VersionSame DEF FoundSteps, SameCovers
<1> QED BY <1>1, SameLibrary DEF FoundSteps, SameFiling, SameCovers, CoverKnown, VersionKnown

\* FoundInv begins when a whole scan ends, and is kept.
LEMMA FoundStep ==
  ASSUME ScanInv, FeedParts, ImageInv, RefreshInv, FoundInv, [FeedNext]_feedVars
  PROVE  FoundInv'
<1> SUFFICES ASSUME found'
             PROVE  /\ Undisturbed' /\ Exact'
                    /\ \A f \in DOMAIN folderDb' : CoverKnown(f)' /\ VersionKnown(f)'
  BY DEF FoundInv
<1> USE DEF ScanInv
<1>1. ASSUME Exact, FoundSteps,
             \A f \in DOMAIN folderDb : CoverKnown(f) /\ VersionKnown(f)
      PROVE  /\ Undisturbed' /\ Exact'
             /\ \A f \in DOMAIN folderDb' : CoverKnown(f)' /\ VersionKnown(f)'
  <2>1. Exact'
    BY <1>1, SameView DEF Exact, FoundSteps, SameFiling
  <2> QED BY <1>1, <2>1, SameView DEF FoundSteps
<1>2. CASE found
  BY <1>1, <1>2, FoundStays DEF FoundInv
<1>3. CASE ~found
  <2>1. FeedFinishScan
    <3>1. CASE Library
      <4>1. found' = (found /\ changes' = changes)
        BY <3>1 DEF Library
      <4> QED BY <1>3, <4>1
    <3> QED BY <1>3, <3>1 DEF FeedNext, FeedScan, feedVars, Paint, FeedStartScan,
            UpsertRootCover, FolderCoverDone, WalkStep, PruneAndRefresh, RefreshCover,
            FeedFault, FeedRestart
  <2>2. found' = (found \/ (complete /\ quiet /\ fresh /\ still))
    BY <2>1 DEF FeedFinishScan
  <2>3. complete /\ quiet /\ fresh /\ still
    BY <1>3, <2>2
  <2>4. /\ pc = "refresh" /\ refreshing = {} /\ todo = {} /\ ~InHand /\ Progress
    BY <2>1, <2>3 DEF FeedFinishScan, FinishScan, Position, InHand, WalkInv, Undisturbed
  <2>5. NothingMissing
    BY <2>4, AllFound
  <2>6. DOMAIN folderDb \subseteq touched \cap Folders /\ DOMAIN bookDb \subseteq touched \cap Books
    BY <2>3, <2>4 DEF Progress, OldRows, Parts, DbType, Table
  <2>7. Exact
    BY <2>4, <2>5, <2>6 DEF Exact, NothingMissing, Progress, RowsRight
  <2>8. \A f \in DOMAIN folderDb : CoverKnown(f) /\ VersionKnown(f)
    BY <2>3, <2>4, <2>6 DEF RefreshInv, Undisturbed
  <2>9. FoundSteps
    BY <2>1, <2>3, SameTables DEF FeedFinishScan, FinishScan, covers, db, disk, history,
       FoundSteps, SameCovers, Undisturbed
  <2> QED BY <1>1, <2>7, <2>8, <2>9
<1> QED BY <1>2, <1>3

\* What a query with a LIMIT leaves of its rows are the first of them.
LEMMA FirstRowsAreFirst ==
  ASSUME NEW S, NEW limit, NEW T \in FirstRows(S, limit)
  PROVE  AreFirst(T, S, limit)
  BY DEF FirstRows, AreFirst

LEMMA NothingIsFirst ==
  ASSUME NEW S
  PROVE  AreFirst({}, {} \cap S, FolderLimit) /\ AreFirst({}, {} \cap S, BookLimit)
<1>1. Cardinality({}) = 0
  BY FS_EmptySet
<1> QED BY <1>1, LimitAssumption DEF AreFirst

\* A client that waits while the library stays found.
LEMMA WaitingStep ==
  ASSUME Parts, Exact, FoundSteps, ClientRight, client' = client
  PROVE  ClientRight'
<1>1. PICK j : j = client.id
  OBVIOUS
<1>2. Filed(j)' = Filed(j)
  BY FilingSame DEF FoundSteps
<1>3. Filed(client.id)' = Filed(client.id)
  BY <1>1, <1>2 DEF Filed
<1>4. RowRead => RowRead'
  BY DEF RowRead, FoundSteps, SameFiling
<1>5. \A books, up \in BOOLEAN : Listed(books, up) => Listed(books, up)'
  BY SameView DEF Listed, Exact, FoundSteps
<1>6. \A books \in BOOLEAN : Found(books) => Found(books)'
  BY SameView DEF Found, Exact, AreFirst
<1>7. RowRead => CoverVersionFor(client.path)' = CoverVersionFor(client.path)
  <2>1. PICK f : f = client.path
    OBVIOUS
  <2>2. ASSUME RowRead PROVE CoverVersionFor(f)' = CoverVersionFor(f)
    BY <2>1, <2>2, SameView DEF RowRead
  <2>3. /\ CoverVersionFor(client.path) = CoverVersionFor(f)
        /\ CoverVersionFor(client.path)' = CoverVersionFor(f)'
    BY <2>1 DEF CoverVersionFor
  <2> QED BY <2>2, <2>3
<1> QED BY <1>3, <1>4, <1>5, <1>6, <1>7
        DEF ClientRight, FoundSteps, SameFiling, SameCovers, RowRead, ReadingFeed, OnErrand

\* A client that asks while the library is found.
LEMMA AskingStep ==
  ASSUME Parts, Exact, FoundSteps, Asking, UNCHANGED <<vars, covers>>,
         \A f \in DOMAIN folderDb : VersionKnown(f)
  PROVE  ClientRight'
<1>1. UNCHANGED <<folderDb, bookDb, coverDb>>
  BY DEF vars, covers, db
<1>2. ASSUME NEW f \in DOMAIN folderDb, ReadRow(f) PROVE ClientRight'
  <2>1. /\ client'.at = "subfolders" /\ client'.path = f /\ client'.id = folderDb[f].id
        /\ client'.parent = folderDb[f].parent
    BY <1>2 DEF ReadRow
  <2> QED BY <1>1, <2>1 DEF ClientRight, RowRead, ReadingFeed, OnErrand
<1>3. ASSUME NEW q \in Searches, AskSearch(q) PROVE ClientRight'
  <2>1. PICK hits \in FirstRows(q \cap DOMAIN folderDb, FolderLimit) :
           client' = [at |-> "search", query |-> q, books |-> {},
                      subs |-> [g \in hits |-> CoverLink(g)]]
    BY <1>3 DEF AskSearch
  <2>2. /\ client'.at = "search" /\ client'.query = q
        /\ client'.subs = [g \in hits |-> coverDb[g].version]
        /\ AreFirst(hits, q \cap DOMAIN folderDb, FolderLimit)
    BY <2>1, FirstRowsAreFirst DEF CoverLink
  <2>3. \A g \in q \cap DOMAIN folderDb : coverDb[g].version = CoverVersionFor(g)'
    BY SameView DEF VersionKnown
  <2>4. hits \subseteq q \cap DOMAIN folderDb
    BY <2>2 DEF AreFirst
  <2>5. DOMAIN folderDb = Reachable'
    BY SameView DEF Exact
  <2>6. AreFirst(DOMAIN client'.subs, client'.query \cap Reachable', FolderLimit)
    BY <2>2, <2>5
  <2>7. Found(FALSE)'
    BY <2>2, <2>3, <2>4, <2>6 DEF Found, AreFirst
  <2> QED BY <2>2, <2>7 DEF ClientRight, ReadingFeed, OnErrand
<1>4. ASSUME AskNothing PROVE ClientRight'
  <2>1. /\ client'.at = "hits" /\ client'.query = {} /\ client'.books = {}
        /\ DOMAIN client'.subs = {}
    BY <1>4 DEF AskNothing
  <2>2. Found(TRUE)'
    BY <2>1, NothingIsFirst DEF Found
  <2> QED BY <2>1, <2>2 DEF ClientRight, ReadingFeed, OnErrand
<1> QED BY <1>2, <1>3, <1>4 DEF Asking, AskFeed, AskRootFeed

\* The rows that belong to a folder of an exact catalogue.
LEMMA RowsOf ==
  ASSUME Parts, CatalogueInv, Exact, NEW f \in DOMAIN folderDb
  PROVE  /\ {g \in DOMAIN folderDb : folderDb[g].parent = folderDb[f].id}
               = {g \in Reachable \ {root} : Parent[g] = f}
         /\ Filed(folderDb[f].id) = {b \in Indexable : Parent[b] = f}
         /\ {g \in DOMAIN folderDb : folderDb[g].id = folderDb[f].parent}
               = IF f = root THEN {} ELSE {Parent[f]}
<1>1. \A g \in DOMAIN folderDb : folderDb[g].id # NoParent
  BY DEF CatalogueInv, Ids, NoParent, Parts, DbType
<1> QED BY <1>1 DEF CatalogueInv, Ids, RowsFollowPaths, Exact, Filed

\* A client that reads on while the library is found.
LEMMA ReadingStep ==
  ASSUME Parts, CatalogueInv, CoversType, client \in ClientType, Exact, FoundSteps,
         \A f \in DOMAIN folderDb : CoverKnown(f) /\ VersionKnown(f),
         ClientRight, Reading, client'.at # "away", UNCHANGED <<vars, covers>>
  PROVE  ClientRight'
<1>1. /\ UNCHANGED <<dirs, file, root, folderDb, bookDb, coverDb, image>>
      /\ Reachable' = Reachable /\ Indexable' = Indexable
      /\ \A f \in DOMAIN folderDb : CoverVersionFor(f)' = CoverVersionFor(f)
      /\ \A id : Filed(id)' = Filed(id)
  BY SameView, FilingSame DEF vars, covers, disk, db, FoundSteps
<1>2. CASE ReadSubfolders
  <2>1. client \in Request /\ client.at = "subfolders" /\ RowRead
    BY <1>2, ClientShape DEF ReadSubfolders, ClientRight, ReadingFeed
  <2> DEFINE subs == {g \in DOMAIN folderDb : folderDb[g].parent = client.id}
  <2>2. /\ client'.at = "books" /\ client'.path = client.path /\ client'.id = client.id
        /\ client'.parent = client.parent
        /\ client'.subs = [g \in subs |-> coverDb[g].version]
    BY <1>2, <2>1 DEF ReadSubfolders, Request, CoverLink
  <2>3. subs = {g \in Reachable \ {root} : Parent[g] = client.path}
    BY <2>1, RowsOf DEF RowRead
  <2>4. \A g \in subs : coverDb[g].version = CoverVersionFor(g)'
    BY <1>1 DEF VersionKnown
  <2> HIDE DEF subs
  <2>5. Listed(FALSE, FALSE)'
    BY <1>1, <2>1, <2>2, <2>3, <2>4 DEF Listed, RowRead
  <2>6. RowRead' /\ client'.parent = folderDb'[client'.path].parent
    BY <1>1, <2>1, <2>2 DEF RowRead, ClientRight, ReadingFeed
  <2> QED BY <2>2, <2>5, <2>6 DEF ClientRight, ReadingFeed, OnErrand
<1>3. CASE ReadBooks
  <2>1. client \in Request /\ client.at = "books" /\ RowRead /\ Listed(FALSE, FALSE)
    BY <1>3, ClientShape DEF ReadBooks, ClientRight, ReadingFeed
  <2>2. /\ client'.at = "up" /\ client'.path = client.path /\ client'.id = client.id
        /\ client'.parent = client.parent /\ client'.subs = client.subs
        /\ client'.books = Filed(client.id)
    BY <1>3, <2>1 DEF ReadBooks, Request
  <2>3. Filed(client.id) = {b \in Indexable : Parent[b] = client.path}
    BY <2>1, RowsOf DEF RowRead
  <2>4. Listed(TRUE, FALSE)'
    BY <1>1, <2>1, <2>2, <2>3 DEF Listed, Exact
  <2>5. RowRead' /\ client'.parent = folderDb'[client'.path].parent
    BY <1>1, <2>1, <2>2 DEF RowRead, ClientRight, ReadingFeed
  <2> QED BY <2>2, <2>4, <2>5 DEF ClientRight, ReadingFeed, OnErrand
<1>4. CASE ReadUp
  <2> DEFINE above == {f \in DOMAIN folderDb : folderDb[f].id = client.parent}
  <2>1. PICK up \in IF above = {} THEN {Nowhere} ELSE above : BuildFeed(up)
    BY <1>4 DEF ReadUp
  <2>2. /\ client \in Request /\ client.at = "up" /\ RowRead /\ Listed(TRUE, FALSE)
        /\ client.parent = folderDb[client.path].parent
    BY <1>4, ClientShape DEF ReadUp, ClientRight, ReadingFeed
  <2>3. /\ client'.at = "shown" /\ client'.path = client.path /\ client'.subs = client.subs
        /\ client'.books = client.books /\ client'.up = up
    BY <2>1, <2>2 DEF BuildFeed, Request
  <2>4. above = IF client.path = root THEN {} ELSE {Parent[client.path]}
    BY <2>2, RowsOf DEF RowRead
  <2> HIDE DEF above
  <2>5. up = IF client.path = root THEN Nowhere ELSE Parent[client.path]
    BY <2>1, <2>4
  <2>6. Listed(TRUE, TRUE)'
    BY <1>1, <2>2, <2>3, <2>5 DEF Listed, Exact
  <2> QED BY <2>3, <2>6 DEF ClientRight, ReadingFeed, OnErrand
<1>5. CASE SearchBooks
  <2>1. client \in Hits /\ client.at = "search" /\ Found(FALSE)
    BY <1>5, ClientShape DEF SearchBooks, ClientRight
  <2>2. /\ client'.at = "hits" /\ client'.query = client.query /\ client'.subs = client.subs
        /\ AreFirst(client'.books, client.query \cap DOMAIN bookDb, BookLimit)
    BY <1>5, <2>1, FirstRowsAreFirst DEF SearchBooks, Hits
  <2>3. Found(TRUE)'
    BY <1>1, <2>1, <2>2 DEF Found, Exact, AreFirst
  <2> QED BY <2>2, <2>3 DEF ClientRight, ReadingFeed, OnErrand
<1>6. ASSUME NEW g \in Folders, AskCover(g) PROVE ClientRight'
  <2>1. g \in DOMAIN folderDb /\ client.subs[g] = CoverVersionFor(g)
    BY <1>6 DEF AskCover, ClientRight, Listed, Found, AreFirst, Exact
  <2>2. /\ client'.at = IF coverDb[g].path THEN "image" ELSE "direct"
        /\ client'.path = g /\ client'.id = folderDb[g].id
        /\ client'.version = CoverVersionFor(g)
    BY <1>6, <2>1 DEF AskCover
  <2>3. CoverVersionFor(client.path)' = CoverVersionFor(g)'
    BY <2>2 DEF CoverVersionFor
  <2>4. RowRead'
    BY <1>1, <2>1, <2>2 DEF RowRead
  <2> QED BY <1>1, <2>1, <2>2, <2>3, <2>4 DEF ClientRight, ReadingFeed, OnErrand, CoverKnown
<1>7. ASSUME client \in Errand, RowRead, client.version = CoverVersionFor(client.path),
             client'.at \in OnErrand, client'.path = client.path, client'.id = client.id,
             client'.version = client.version,
             client'.at = "open" => coverDb[client.path].path,
             client'.at # "image",
             client'.at \in {"direct", "below"} => image[client.path] = NoTime,
             client'.at = "below" => Filed(client.id) = {}
      PROVE  ClientRight'
  <2>1. PICK f : f = client.path
    OBVIOUS
  <2>2. PICK j : j = client.id
    OBVIOUS
  <2>3. /\ CoverVersionFor(client.path) = CoverVersionFor(f)
        /\ CoverVersionFor(client.path)' = CoverVersionFor(f)'
    BY <1>7, <2>1 DEF CoverVersionFor
  <2>4. Filed(client.id)' = Filed(j)' /\ Filed(client.id) = Filed(j)
    BY <1>7, <2>2 DEF Filed
  <2>5. RowRead' /\ f \in DOMAIN folderDb
    BY <1>1, <1>7, <2>1 DEF RowRead
  <2> QED BY <1>1, <1>7, <2>1, <2>2, <2>3, <2>4, <2>5 DEF ClientRight, ReadingFeed, OnErrand
<1>8. ASSUME NEW token, NEW from, Serve(token, from), client.version = token
      PROVE  ClientRight'
  <2>1. client'.at = "seen" /\ client'.version = client.version /\ client'.token = token
    BY <1>8 DEF Serve
  <2> QED BY <1>8, <2>1 DEF ClientRight, ReadingFeed, OnErrand
<1>9. ASSUME client.at \in OnErrand
      PROVE  /\ client \in Errand /\ RowRead /\ client.path \in DOMAIN folderDb
             /\ client.version = CoverVersionFor(client.path)
             /\ CoverKnown(client.path) /\ folderDb[client.path].id = client.id
  BY <1>9, ClientShape DEF ClientRight, OnErrand, RowRead
<1>10. CASE FindImage
  <2>1. client.at = "image" /\ coverDb[client.path].path
    BY <1>10 DEF FindImage, ClientRight
  <2>2. /\ client'.at = IF image[client.path] # NoTime THEN "open" ELSE "direct"
        /\ client'.path = client.path /\ client'.id = client.id
        /\ client'.version = client.version
    BY <1>9, <1>10, <2>1 DEF FindImage, Errand, OnErrand
  <2> QED BY <1>7, <1>9, <2>1, <2>2 DEF OnErrand
<1>11. CASE OpenImage
  <2>1. client.at = "open" /\ coverDb[client.path].path
    BY <1>11 DEF OpenImage, ClientRight
  <2>2. image[client.path] # NoTime /\ Serve(Painted(image[client.path]), client.path)
    BY <1>11 DEF OpenImage, Away
  <2>3. client.version = Painted(image[client.path])
    BY <1>9, <2>1, <2>2 DEF OnErrand, CoverVersionFor
  <2> QED BY <1>8, <2>2, <2>3
<1>12. CASE ServeDirect
  <2>1. client.at = "direct" /\ image[client.path] = NoTime
    BY <1>12 DEF ServeDirect, ClientRight
  <2>2. CASE Filed(client.id) # {}
    <3>1. client.version = Hashed(First(Filed(client.id)))
      BY <1>9, <2>1, <2>2 DEF OnErrand, CoverVersionFor
    <3> QED BY <1>8, <1>12, <2>2, <3>1 DEF ServeDirect
  <2>3. CASE Filed(client.id) = {}
    <3>1. /\ client'.at = "below" /\ client'.path = client.path /\ client'.id = client.id
          /\ client'.version = client.version
      BY <1>9, <1>12, <2>1, <2>3 DEF ServeDirect, Errand, OnErrand
    <3> QED BY <1>7, <1>9, <2>1, <2>3, <3>1 DEF OnErrand
  <2> QED BY <2>2, <2>3
<1>13. CASE ServeBelow
  <2>1. /\ client.at = "below" /\ image[client.path] = NoTime /\ Filed(client.id) = {}
    BY <1>13 DEF ServeBelow, ClientRight
  <2>2. FiledBelow(client.id) # {}
    BY <1>13 DEF ServeBelow, Away
  <2>3. client.version = Hashed(First(FiledBelow(client.id)))
    BY <1>9, <2>1, <2>2 DEF OnErrand, CoverVersionFor
  <2> QED BY <1>8, <1>13, <2>2, <2>3 DEF ServeBelow
<1> QED BY <1>2, <1>3, <1>4, <1>5, <1>6, <1>10, <1>11, <1>12, <1>13 DEF Reading

\* What the client has read is so, whoever takes the next step.
LEMMA CleanStep ==
  ASSUME ScanInv, FeedParts, ImageInv, FoundInv, FoundInv', CleanInv, [FeedNext]_feedVars
  PROVE  CleanInv'
<1> SUFFICES ASSUME clean' PROVE found' /\ ClientRight'
  BY DEF CleanInv
<1>1. /\ Parts /\ CatalogueInv /\ CoversType /\ client \in ClientType
      /\ found => /\ Exact
                  /\ \A f \in DOMAIN folderDb : CoverKnown(f) /\ VersionKnown(f)
      /\ clean => found /\ ClientRight
  BY DEF ScanInv, FeedParts, FoundInv, CleanInv
<1>2. ASSUME found, found' PROVE FoundSteps
  BY <1>2, FoundStays
<1>3. CASE Asking /\ clean' = found /\ UNCHANGED <<vars, covers, found>>
  BY <1>1, <1>2, <1>3, AskingStep
<1>4. CASE Reading /\ clean' = (clean /\ client'.at # "away") /\ UNCHANGED <<vars, covers, found>>
  <2>1. clean /\ client'.at # "away"
    BY <1>4
  <2> QED BY <1>1, <1>2, <1>4, <2>1, ReadingStep
<1>5. CASE UNCHANGED feedVars
  BY <1>1, <1>2, <1>5, WaitingStep DEF feedVars, reader
<1>6. CASE /\ Library \/ (\E f \in Folders : Paint(f)) \/ FeedScan \/ FeedFault \/ FeedRestart
           /\ clean' = (clean /\ found')
  <2>1. clean /\ found'
    BY <1>6
  <2>2. client' = client
    BY <1>6, <2>1 DEF Library, Paint, FeedScan, FeedStartScan, UpsertRootCover,
       FolderCoverDone, WalkStep, PruneAndRefresh, RefreshCover, FeedFinishScan, FeedFault,
       FeedRestart
  <2> QED BY <1>1, <1>2, <2>1, <2>2, WaitingStep
<1> QED BY <1>3, <1>4, <1>5, <1>6 DEF FeedNext

\* All of it together.
LEMMA FoundAlways ==
  ~Restamped => (FeedSpec => [](ScanInv /\ FeedParts /\ FoundInv /\ CleanInv))
<1> SUFFICES ASSUME ~Restamped
             PROVE  FeedSpec => [](ScanInv /\ FeedParts /\ FoundInv /\ CleanInv)
  OBVIOUS
<1> DEFINE Seen == ImageInv /\ RefreshInv /\ FoundInv /\ CleanInv
<1>1. FeedInit => Seen
  BY DEF FeedInit, ImageInv, RefreshInv, FoundInv, CleanInv
<1>2. TypeInv /\ CatalogueInv /\ WalkInv => ScanInv
  BY TypeParts DEF TypeInv, ScanInv
<1>3. ScanInv /\ CatalogueInv' /\ FeedTypeInv /\ Seen /\ [FeedNext]_feedVars => Seen'
  BY ImageStep, RefreshStep, FoundStep, CleanStep DEF FeedTypeInv, FeedParts
<1>4. FeedTypeInv => FeedParts
  BY DEF FeedTypeInv
<1>5. SafeSpec => [](TypeInv /\ CatalogueInv /\ WalkInv)
  BY WalkAlways, PTL
<1> HIDE DEF Seen
<1>6. FeedSpec => [](ScanInv /\ CatalogueInv /\ FeedTypeInv)
  BY <1>2, <1>5, FeedsImplementScans, FeedTypingAlways, PTL
<1>7. FeedSpec => [](ScanInv /\ FeedTypeInv /\ Seen)
  BY <1>1, <1>3, <1>6, PTL DEF FeedSpec
<1>8. Seen => FoundInv /\ CleanInv
  BY DEF Seen
<1> QED BY <1>4, <1>7, <1>8, PTL

(* The rescans of a library that a scan has found, and that has not changed *)
(* since, take nothing out of the catalogue, not even for a moment: every   *)
(* upsert writes what is there, and the DELETEs find no older row.          *)
THEOREM NoFlicker == ~Restamped => (FeedSpec => []RescansDontFlicker)
<1> SUFFICES ASSUME ~Restamped PROVE FeedSpec => []RescansDontFlicker
  OBVIOUS
<1>1. FoundInv => RescansDontFlicker
  BY DEF FoundInv, Exact, RescansDontFlicker, NothingMissing
<1> QED BY <1>1, FoundAlways, PTL

(* The feed of such a library (serve_folder_feed) is exact, although its    *)
(* queries run between the statements of a rescan; a search of it           *)
(* (search.rs: run) hits all that fits or, up to the caps, whatever they    *)
(* are, the first of it by sort_key.                                        *)
THEOREM Showing == ~Restamped => (FeedSpec => []FeedShowsLibrary)
<1> SUFFICES ASSUME ~Restamped PROVE FeedSpec => []FeedShowsLibrary
  OBVIOUS
<1>1. CleanInv => FeedShowsLibrary
  BY DEF CleanInv, ClientRight, FeedShowsLibrary, Listed, Found
<1> QED BY <1>1, FoundAlways, PTL

(* The cover that folder_cover chooses for such a folder is the one that    *)
(* refresh_cover_versions made its ?v= of, through every branch of both: an *)
(* image, a book of the folder, a book below it.                            *)
THEOREM Matching == ~Restamped => (FeedSpec => []CoverMatchesVersion)
<1> SUFFICES ASSUME ~Restamped PROVE FeedSpec => []CoverMatchesVersion
  OBVIOUS
<1>1. CleanInv => CoverMatchesVersion
  BY DEF CleanInv, ClientRight, CoverMatchesVersion
<1> QED BY <1>1, FoundAlways, PTL
==============================================================================
