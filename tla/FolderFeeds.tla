---------------------------- MODULE FolderFeeds ------------------------------
(***************************************************************************)
(* Feeds and folder covers, read while the library is scanned.             *)
(*                                                                         *)
(* serve_folder_feed and folder_cover make one query after another, with   *)
(* the id of a row they read first, while LibraryScan updates and prunes   *)
(* the rows.  The feed names the cover of each subfolder by a version that *)
(* refresh_cover_versions computes at the end of a scan; the cover is      *)
(* chosen again when it is asked for.  Nothing makes the two agree but     *)
(* that both follow the same rule.                                         *)
(***************************************************************************)
EXTENDS LibraryScan

CONSTANTS
    Rank,        \* the order of sort_key; books of one key in the order both
                 \* queries for a cover meet them
    FolderLimit, \* FOLDER_LIMIT and BOOK_LIMIT of search.rs
    BookLimit,
    Searches,    \* what the text of a search may fit: sets of paths
    Asked,       \* bound: the folders whose feed the client may ask for
    Framed,      \* bound: the folders that may have a cover image
    MaxPaints    \* bound: changes of cover images

ASSUME RankAssumption == Rank \in [Paths -> Nat]
ASSUME LimitAssumption == FolderLimit \in Nat \ {0} /\ BookLimit \in Nat \ {0}
ASSUME SearchesAssumption == Searches \subseteq SUBSET Paths
ASSUME FeedBounds ==
    Asked \subseteq Folders /\ Framed \subseteq Folders /\ MaxPaints \in Nat

VARIABLES
    image,       \* the cover image in each folder, as its modification second
    coverDb,     \* columns cover_path (is it set?) and cover_version
    refreshing,  \* rows refresh_cover_versions has still to do
    client,      \* the request in hand, or the answer the client looks at
    paints,      \* changes of images so far
    still,       \* history: no image changed since the scan started
    found,       \* history: a scan has found the library as it is since then
    clean        \* history: found, ever since the client asked for its feed

covers   == <<image, coverDb, refreshing, paints, still>>
reader   == <<client, clean>>
feedVars == <<vars, covers, reader, found>>

NoVersion == <<"none">>
Away      == [at |-> "away"]

FeedInit ==
    /\ Init
    /\ image = [f \in Folders |-> IF f \in Framed \cap dirs THEN 1 ELSE NoTime]
    /\ coverDb = <<>>
    /\ refreshing = {}
    /\ client = Away
    /\ paints = 0
    /\ still = FALSE
    /\ found = FALSE
    /\ clean = FALSE
------------------------------------------------------------------------------
(* The choice of a cover.                                                  *)

\* ORDER BY sort_key LIMIT 1
First(S) == CHOOSE b \in S : \A c \in S : Rank[b] <= Rank[c]

\* book WHERE folder_id = ?
Filed(id) == {b \in DOMAIN bookDb : bookDb[b].folder = id}

\* mutant: the join has lost its condition
FiledAnywhere(id) == DOMAIN bookDb

\* book JOIN sub: the books of the folder and of every folder below it
FiledBelow(id) ==
    UNION {Filed(folderDb[f].id) :
              f \in Cascade({g \in DOMAIN folderDb : folderDb[g].id = id})}

Painted(second) == <<"p", second>>
Hashed(b)       == <<"h", bookDb[b].hash>>

\* mutant: a folder with no book of its own has no version
ShallowVersion(f) ==
    LET own == Filed(folderDb[f].id)
    IN  IF coverDb[f].path /\ image[f] # NoTime THEN Painted(image[f])
        ELSE IF own # {} THEN Hashed(First(own))
        ELSE NoVersion

\* cover_version_for
CoverVersionFor(f) ==
    LET own   == Filed(folderDb[f].id)
        below == FiledBelow(folderDb[f].id)
    IN  IF coverDb[f].path /\ image[f] # NoTime THEN Painted(image[f])
        ELSE IF own # {} THEN Hashed(First(own))
        ELSE IF below # {} THEN Hashed(First(below))
        ELSE NoVersion
------------------------------------------------------------------------------
(* The library and the scan, with the images and the two columns.          *)

\* A directory takes its image with it.
Library ==
    /\ Environment
    /\ image' = [f \in Folders |-> IF f \in dirs' THEN image[f] ELSE NoTime]
    /\ found' = (found /\ changes' = changes)
    /\ UNCHANGED <<coverDb, refreshing, paints, still, client>>

\* An image is put into a folder, replaced, or removed.  Two images of one
\* second are one to the program and to this model.
Paint(f) ==
    /\ paints < MaxPaints
    /\ f \in dirs \cap Framed
    /\ \E second \in {clock, NoTime} :
          /\ second # image[f]
          /\ image' = [image EXCEPT ![f] = second]
    /\ paints' = paints + 1
    /\ still' = FALSE
    /\ found' = FALSE
    /\ UNCHANGED <<vars, coverDb, refreshing, client>>

\* find_cover, with the two columns of upsert_folder: an update leaves the
\* version alone, an insert leaves it NULL.
UpsertCover(f) ==
    coverDb' = Put(coverDb, f,
                   [path    |-> image[f] # NoTime,
                    version |-> IF f \in DOMAIN coverDb THEN coverDb[f].version
                                                        ELSE NoVersion])

FeedStartScan ==
    /\ StartScan
    /\ still' = TRUE
    /\ UNCHANGED <<image, coverDb, refreshing, paints, client, found>>

UpsertRootCover ==
    /\ UpsertRoot
    /\ UpsertCover(root)
    /\ UNCHANGED <<image, refreshing, paints, still, client, found>>

FolderCoverDone ==
    /\ FolderDone
    /\ UpsertCover(cur)
    /\ UNCHANGED <<image, refreshing, paints, still, client, found>>

\* The statements and steps that leave folder rows alone.
WalkStep ==
    /\ \/ ListRoot
       \/ \E f \in Folders : VisitFolder(f)
       \/ \E b \in Books : VisitBook(b)
       \/ CompareBook \/ HashBook \/ OpenBook
       \/ PruneBooks
    /\ UNCHANGED <<covers, client, found>>

\* mutant: the rows to refresh are listed before the prune
RefreshPruned ==
    /\ PruneFolders
    /\ coverDb' = [f \in DOMAIN folderDb' |-> coverDb[f]]
    /\ refreshing' = DOMAIN folderDb
    /\ UNCHANGED <<image, paints, still, client, found>>

\* refresh_cover_versions begins with all the rows there are.
PruneAndRefresh ==
    /\ PruneFolders
    /\ coverDb' = [f \in DOMAIN folderDb' |-> coverDb[f]]
    /\ refreshing' = DOMAIN folderDb'
    /\ UNCHANGED <<image, paints, still, client, found>>

\* One turn of its loop, a stat, up to two queries and the update, as one
\* step: nobody else writes the tables.
RefreshCover(f) ==
    /\ pc = "refresh"
    /\ f \in refreshing
    /\ refreshing' = refreshing \ {f}
    /\ coverDb' = [coverDb EXCEPT ![f].version = CoverVersionFor(f)]
    /\ UNCHANGED <<vars, image, paints, still, client, found>>

FeedFinishScan ==
    /\ refreshing = {}
    /\ FinishScan
    /\ found' = (found \/ (complete /\ quiet /\ fresh /\ still))
    /\ UNCHANGED <<covers, client>>

FeedFault ==
    /\ ListingFails \/ FolderFails \/ BookFails \/ ScanFails
    /\ refreshing' = IF pc' = "idle" THEN {} ELSE refreshing
    /\ found' = FALSE
    /\ UNCHANGED <<image, coverDb, paints, still, client>>

\* A restart also drops the request in hand; an answer is the client's.
FeedRestart ==
    /\ Restart
    /\ refreshing' = {}
    /\ found' = FALSE
    /\ client' = IF client.at \in {"shown", "hits", "seen"} THEN client ELSE Away
    /\ UNCHANGED <<image, coverDb, paints, still>>
------------------------------------------------------------------------------
(* One client.                                                             *)

\* write_folder_entry: the ?v= of the link to the cover of g
CoverLink(g) == coverDb[g].version

\* build_feed, of what the queries have found
BuildFeed(up) == client' = [client EXCEPT !.at = "shown", !.up = up]

\* The row of f is read; everything else is asked for by the ids in it.
ReadRow(f) ==
    client' = [at |-> "subfolders", path |-> f, id |-> folderDb[f].id,
               parent |-> folderDb[f].parent, subs |-> <<>>, books |-> {},
               up |-> Nowhere]

\* The client has its answer, or nothing yet.
Free == client.at \in {"away", "shown", "hits", "seen"}

\* GET /opds/folders/:slug; the slug stands for the path it is made of
AskFeed(f) ==
    /\ Free
    /\ f \in Asked \cap DOMAIN folderDb
    /\ ReadRow(f)

\* GET /opds: WHERE parent_id IS NULL LIMIT 1
AskRootFeed ==
    /\ Free
    /\ \E f \in DOMAIN folderDb : folderDb[f].parent = NoParent /\ ReadRow(f)

\* mutant: only the subfolders that have a cover version are listed
ReadVersionedSubfolders ==
    /\ client.at = "subfolders"
    /\ LET subs == {g \in DOMAIN folderDb : folderDb[g].parent = client.id
                                            /\ coverDb[g].version # NoVersion}
       IN  client' = [client EXCEPT !.at = "books",
                                    !.subs = [g \in subs |-> CoverLink(g)]]

ReadSubfolders ==
    /\ client.at = "subfolders"
    /\ LET subs == {g \in DOMAIN folderDb : folderDb[g].parent = client.id}
       IN  client' = [client EXCEPT !.at = "books",
                                    !.subs = [g \in subs |-> CoverLink(g)]]

ReadBooks ==
    /\ client.at = "books"
    /\ client' = [client EXCEPT !.at = "up", !.books = Filed(client.id)]

ReadUp ==
    LET above == {f \in DOMAIN folderDb : folderDb[f].id = client.parent}
    IN  /\ client.at = "up"
        /\ \E f \in IF above = {} THEN {Nowhere} ELSE above : BuildFeed(f)

\* mutant: the rows are cut off before they are sorted
AnyRows(S, limit) ==
    {T \in SUBSET S : Cardinality(T) <= limit /\ (T = S \/ Cardinality(T) = limit)}

\* The rows that ORDER BY sort_key LIMIT may leave of S; which of two rows of
\* one key comes first is SQLite's choice.
FirstRows(S, limit) ==
    {T \in SUBSET S :
        /\ Cardinality(T) <= limit /\ (T = S \/ Cardinality(T) = limit)
        /\ \A row \in T, left \in S \ T : Rank[row] <= Rank[left]}

\* GET /opds/search: one query for folders, and one for books.
AskSearch(q) ==
    /\ Free
    /\ \E hits \in FirstRows(q \cap DOMAIN folderDb, FolderLimit) :
          client' = [at |-> "search", query |-> q, books |-> {},
                     subs |-> [g \in hits |-> CoverLink(g)]]

\* Nothing typed, or only blanks: no query is made.
AskNothing ==
    /\ Free
    /\ client' = [at |-> "hits", query |-> {}, books |-> {}, subs |-> <<>>]

SearchBooks ==
    /\ client.at = "search"
    /\ \E hits \in FirstRows(client.query \cap DOMAIN bookDb, BookLimit) :
          client' = [client EXCEPT !.at = "hits", !.books = hits]

\* GET /folders/:slug/cover?v=..., as an entry on show has it
AskCover(g) ==
    /\ client.at \in {"shown", "hits"}
    /\ g \in DOMAIN client.subs
    /\ client' = IF g \in DOMAIN folderDb
                 THEN [at |-> IF coverDb[g].path THEN "image" ELSE "direct",
                       path |-> g, id |-> folderDb[g].id, version |-> client.subs[g]]
                 ELSE Away

Serve(token, from) ==
    client' = [at |-> "seen", path |-> client.path, version |-> client.version,
               token |-> token, from |-> from]

\* safe_path::under needs the image to be there, and so does serve_file.
FindImage ==
    /\ client.at = "image"
    /\ client' = [client EXCEPT !.at = IF image[client.path] # NoTime
                                       THEN "open" ELSE "direct"]

OpenImage ==
    /\ client.at = "open"
    /\ IF image[client.path] # NoTime
       THEN Serve(Painted(image[client.path]), client.path)
       ELSE client' = Away

ServeDirect ==
    LET own == Filed(client.id)
    IN  /\ client.at = "direct"
        /\ IF own # {}
           THEN Serve(Hashed(First(own)), First(own))
           ELSE client' = [client EXCEPT !.at = "below"]

ServeBelow ==
    LET below == FiledBelow(client.id)
    IN  /\ client.at = "below"
        /\ IF below # {}
           THEN Serve(Hashed(First(below)), First(below))
           ELSE client' = Away

Asking ==
    \/ \E f \in Folders : AskFeed(f)
    \/ AskRootFeed
    \/ \E q \in Searches : AskSearch(q)
    \/ AskNothing

Reading ==
    \/ ReadSubfolders \/ ReadBooks \/ ReadUp \/ SearchBooks
    \/ \E g \in Folders : AskCover(g)
    \/ FindImage \/ OpenImage \/ ServeDirect \/ ServeBelow

FeedScan ==
    \/ FeedStartScan \/ UpsertRootCover \/ FolderCoverDone \/ WalkStep
    \/ PruneAndRefresh
    \/ \E f \in Folders : RefreshCover(f)
    \/ FeedFinishScan

FeedNext ==
    \/ /\ Library \/ (\E f \in Folders : Paint(f)) \/ FeedScan
          \/ FeedFault \/ FeedRestart
       /\ clean' = (clean /\ found')
    \/ Asking /\ clean' = found /\ UNCHANGED <<vars, covers, found>>
    \/ /\ Reading
       /\ clean' = (clean /\ client'.at # "away")
       /\ UNCHANGED <<vars, covers, found>>

FeedSpec == FeedInit /\ [][FeedNext]_feedVars
------------------------------------------------------------------------------
Version  == {NoVersion} \cup {Painted(t) : t \in Times} \cup {<<"h", c>> : c \in Contents}
CoverRow == [path : BOOLEAN, version : Version]
Request  == [at : {"subfolders", "books", "up", "shown"}, path : Folders, id : Nat,
             parent : Nat, subs : UNION {[S -> Version] : S \in SUBSET Folders},
             books : SUBSET Books, up : Folders \cup {Nowhere}]
Hits     == [at : {"search", "hits"}, query : Searches \cup {{}},
             subs : UNION {[S -> Version] : S \in SUBSET Folders}, books : SUBSET Books]
Errand   == [at : {"image", "open", "direct", "below"}, path : Folders, id : Nat,
             version : Version]
Picture  == [at : {"seen"}, path : Folders, version : Version, token : Version,
             from : Paths]

(* The type of every variable.  Every folder row has its two columns.       *)
FeedTypeOK ==
    /\ image \in [Folders -> Times \cup {NoTime}]
    /\ coverDb \in [DOMAIN folderDb -> CoverRow]
    /\ refreshing \subseteq DOMAIN folderDb
    /\ client \in {Away} \cup Request \cup Hits \cup Errand \cup Picture
    /\ paints \in 0..MaxPaints
    /\ still \in BOOLEAN /\ found \in BOOLEAN /\ clean \in BOOLEAN

(* A feed lists the subfolders, books and parent of the folder it was asked *)
(* for and of no other, however the rows changed between its queries: an id *)
(* is never given to a second folder (AUTOINCREMENT), so the id that was    *)
(* read first still names that folder or none.                              *)
FeedIsOfOneFolder ==
    client.at \in {"books", "up", "shown"} =>
        /\ \A g \in DOMAIN client.subs : Parent[g] = client.path
        /\ \A b \in client.books : Parent[b] = client.path
        /\ client.up # Nowhere => client.up = Parent[client.path]

\* The folders above f, and f.
Above(f) ==
    {g \in Folders : \A S \in SUBSET Folders :
        (f \in S /\ \A h \in S : Parent[h] \in S \cup {Nowhere}) => g \in S}

(* The cover of a folder is an image or a book in it or below it.           *)
CoverIsBelow ==
    (client.at = "seen" /\ client.from \in Books) =>
        client.path \in Above(Parent[client.from])

(* Once a scan has found the library as it is, and until something changes  *)
(* or fails, no rescan takes a folder or book out of the catalogue, not     *)
(* even for a moment.                                                       *)
RescansDontFlicker == found => NothingMissing

\* Nothing but what fits, up to the cap; what fits and is not there has had to
\* give way to a full answer of what sorts no later.
AreFirst(hits, fitting, limit) ==
    /\ hits \subseteq fitting /\ Cardinality(hits) <= limit
    /\ \A left \in fitting \ hits :
          Cardinality(hits) = limit /\ \A hit \in hits : Rank[hit] <= Rank[left]

(* The feed of a library that was found is exact, although its queries run  *)
(* between the statements of a rescan: all subfolders and books that are in *)
(* the folder, nothing else, and the link to the parent.  A search of it    *)
(* hits all the folders and books that fit or, if they are more than the    *)
(* caps of search.rs:9-12, as many of each as the caps allow, and these are *)
(* the first by sort_key.                                                   *)
FeedShowsLibrary ==
    /\ (clean /\ client.at = "shown") =>
          /\ DOMAIN client.subs = {g \in Reachable \ {root} : Parent[g] = client.path}
          /\ client.books = {b \in Indexable : Parent[b] = client.path}
          /\ client.up = IF client.path = root THEN Nowhere ELSE Parent[client.path]
    /\ (clean /\ client.at = "hits") =>
          /\ AreFirst(DOMAIN client.subs, client.query \cap Reachable, FolderLimit)
          /\ AreFirst(client.books, client.query \cap Indexable, BookLimit)

(* The cover a client gets is the one the ?v= in its URL was made for.      *)
CoverMatchesVersion ==
    (client.at = "seen" /\ clean) => client.token = client.version
==============================================================================
