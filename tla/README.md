# ComicStream in TLA+

A verification development for ComicStream, the OPDS comic server in this
repository: TLA+ modules for the parts of the program whose behaviour depends
on the order of things, configurations that check them with TLC on small
instances, and theorems checked by TLAPS. File and line references are to the
repository; modules and `.cfg` files are in this directory.

## 1. Inventory of the system

| Component | State it keeps | Operations | Interacts with |
|---|---|---|---|
| Scan triggering: `scan.rs` (`spawn_loop`), `watcher.rs`, `poller.rs`, `routes.rs` (`admin_rescan`), `main.rs` | a channel of capacity 1; the debouncer's pending events; which tasks run | initial token, `try_send` by watcher, poller and admin, `recv`, drain, scan | starts the library scan |
| Library scan: `scan.rs` (`scan`, `upsert_folder`, `upsert_book`), `migrations/` | tables `folder` and `book`; `path_to_id`, the walker's stack | walk, stat, compare, hash, open, upsert, prune books, prune folders (cascading) | reads the library folder, writes the database the handlers read |
| Cover versions: `scan.rs` (`refresh_cover_versions`) | column `cover_version` | recomputed after each prune | read by the feeds and folder covers |
| Prewarm: `scan.rs` (`prewarm`) | none of its own | makes missing thumbnails after a scan | thumbnail cache |
| Book serving: `routes.rs` | none; every request runs its steps on shared state | look up by hash, contain the path, page, cover, thumbnail, download | database, archive cache, thumbnail cache, library folder |
| Archive cache: `archive/mod.rs`, `cbz.rs`, `cbr.rs` | LRU map from hash to an opened archive, which remembers its path | `get_or_open`, `read_page` | library folder |
| Thumbnail cache: `thumb.rs` | files below the data directory | `ensure_*`: exists, write to a temporary file, rename | shared by handlers and prewarm |
| Rate limiter: `rate_limit.rs`, `auth.rs` | map from address bucket to window, count, block | `check` (with `gc`), `record_failure`, `record_success` | called around the verification of credentials |
| Client address: `peer_ip.rs` | configuration | a function of a request | names the limiter's bucket |
| Feeds, search: `routes.rs`, `opds.rs`, `search.rs` | none | several queries, then formatting | database, during scans |
| Pure helpers: `natsort.rs`, `safe_path.rs`, `hash.rs`, `slug.rs`, `logsafe.rs`, range and `Prefer` parsing | none | functions | |

What is hard here, and what makes each part correct:

* **Triggering.** Requests are dropped when the channel is full and thrown away
  by the drain loop. Correct: a request that was accepted is answered by a scan
  that starts *after* it. Hard: requests between drain and scan, the order in
  which `main` starts things, errors of the debouncer, a dead scan loop.
* **Library scan.** Each SQL statement commits by itself, the library changes
  while it is walked, and rows are trusted by stamp (`mtime`, size) and pruned
  by stamp (`seen_at`). Correct: after an undisturbed scan the catalogue is the
  library, from whatever state earlier scans left; in every state rows hang from
  the rows of their directories; a scan never deletes what it has just met.
* **Serving.** URLs are hashes, bytes come from paths, and neither cache is ever
  invalidated. Correct: bodies and thumbnails are of the content the URL names;
  no partial thumbnail is visible.
* **Rate limiter.** Asking and reporting are separate steps, the clock is read
  before the lock is taken, and entries are forgotten. Correct: blocks are
  earned, last, and are not affected by forgetting; few logins slip past one.
* **Feeds and covers.** A feed is three queries, by the id the first of them
  read, while a scan updates and prunes the rows; the `?v=` of a cover is
  computed by the scan, the cover itself is chosen when it is asked for, and only
  the likeness of two pieces of code makes them agree. Correct: a feed is of one
  folder; it is exact when the catalogue is; a search hits the first of what fits,
  up to its caps; the cover is the one the version was made for.
* **What requests mean.** Names are sorted by one function in the archives and
  by keys made by another in the database; the text of a search becomes a LIKE
  pattern; the address of a client comes out of a header that the client may have
  begun; a download is resumed by ranges. Correct: both orders are one; a search
  takes `%`, `_` and `\` for themselves; no forged address is taken for the
  client's; ranges meet without gap or overlap and a resumed download ends with the whole file.

`PROJECT.json` lists the hazards with their lines and the properties that cover
them.

## 2. Modules

| Module | Models | Checked by |
|---|---|---|
| `ScanService` | what triggering promises: a flag raised by requests, lowered by the start of a scan | target of `Promise` and of theorem `TriggerImplementsService` |
| `RescanTrigger` | the channel, its senders, the scan loop, start-up, restarts | `MCRescanTrigger.cfg`, `MCRescanGap.cfg` |
| `RescanTriggerProofs` | theorems about `RescanTrigger` | TLAPS |
| `LibraryScan` | one scan after another on a changing library and a surviving database | `Scan*.cfg` with `MCLibraryScan` |
| `LibraryScanProofs` | theorems about the tables of `LibraryScan` | TLAPS |
| `LibraryWalkProofs` | theorems about what a whole scan leaves in them | TLAPS |
| `BookServing` | requests and prewarm over the two caches, the catalogue and the files | `Serve*.cfg` with `MCBookServing` |
| `BookServingProofs` | theorems about `BookServing` | TLAPS |
| `RateLimiter` | concurrent requests through the middleware and the limiter | `Limit.cfg` with `MCRateLimiter` |
| `RateLimiterProofs` | theorems about `RateLimiter` | TLAPS |
| `FolderFeeds` | feeds, searches and folder covers, read while the catalogue is scanned; composes a client, the cover columns and `LibraryScan` | `Feeds.cfg` with `MCFolderFeeds` |
| `FolderFeedsProofs` | theorems about `FolderFeeds` | TLAPS |
| `Names` | `natsort::cmp` and `natsort::key`; the LIKE pattern of a search | `Requests.cfg` with `MCRequests` |
| `Pages` | the page list of an archive, page numbers, reading a page by its name | the same |
| `Requests` | one question at a time to the functions that read a request; extends `Pages`, which extends `Names` | the same |
| `Download` | a client that resumes an interrupted download; extends `Requests` | the same |
| `NamesProofs` | lemmas about `Names`: that its recursive functions exist, that the order is one, that keys agree with it, that a search is literal | TLAPS |
| `RequestsProofs` | theorems about `Requests` (and so `Pages` and `Names`) and `Download` | TLAPS |

The modules meet at one action each: a scan is one interval in `RescanTrigger`
(`StartScan` to `FinishScan`), the whole of `LibraryScan` (`pc` from `"root"` to
`"idle"`), and per path the action `Rescan` of `BookServing`. `FolderFeeds`
composes for real: it extends `LibraryScan`, and each of its scan steps is one of
`LibraryScan` with what that step does to the cover columns.

### RescanTrigger

`chan` counts the tokens in `mpsc::channel(1)`; `loop` is the program point of
the task in `spawn_loop`; `main` that of `main()` from line 190 on, which spawns
the scan loop, then the watcher, then the poller, then serves. `Sent`, `Full`
and `Closed` are the three results of `try_send`, used by every sender. The
library is a counter `version`; `requested`, `startedAt` and `noticed` remember
its value at the last accepted request, the last start of a scan and the last
change under watch. `--no-scan` drops the receiver (`loop = "gone"` from the
start) and starts neither watcher nor poller.

### LibraryScan

`dirs` and `file` are the library; `folderDb` and `bookDb` the tables, as
functions on paths (`path` is `UNIQUE`); `pathToId`, `todo`, `cur`, `listing`
and `stat` the locals of `scan` and `upsert_book`. One action per step between
which the library, a crash or an error may intervene: a directory is listed when
the walker opens it (before it is returned), the size and the modification time
are separate calls, then comparison, hash, open and the row. `Cascade` is the
`ON DELETE CASCADE` of both tables, as a least fixed point. A file is a content
and a modification second; the hash of a file is the content hashed (the hash
function is taken to be injective) and `pages` the content opened.
Entries are visited in any order: every order the walker's sorting can produce
is among them. `Restart` cuts a scan off at any point and may start the program
on another directory of `Roots`, with the same database.

### BookServing

A worker's `pc` goes through the steps of a handler; `kind` says which. `rows`
keeps the order of `id`, since `lookup_book` takes the first row of a hash.
`lru` holds handles, that is paths: `Cbz::read_page` and `Cbr::read_page` open
their path again. A page lookup in another file than the one that was opened
may fail or not (`ReadPage`), as its entry names may or may not fit. A book has
one page at one width here (`Pages` and `Requests` have many), so `ThumbOf` stands for `cache_path` and
`page_thumb_path` alike. `TmpOf` is the worker: the counter in `tmp_path_for`
keeps the names of running writers apart, and after a crash a name may recur.

### RateLimiter

A request moves from `"check"` (clock read, lock awaited) over `"verify"` to
`"succeeded"` or `"failed"` (clock read, lock awaited). `table` is the limiter's
map; `kept` the map of a limiter without `gc`; `log` the last failures of each
bucket outside blocks; `late` the logins verified while their bucket was
blocked. `Since` is `Instant::duration_since`, zero when negative. `Lag` bounds
how long a request may wait for the lock; `LagAssumption` says it is at most half
of a window and less than half of a block, without which `GcIsInvisible` is
false: a late clock reading could find a block that `gc` has dropped as over.

### FolderFeeds

`coverDb` holds the two cover columns of the folder rows, `image` the cover image
in each folder as its modification second (`NoTime` where there is none; the
names of `COVER_NAMES` are one image). `UpsertCover` is what `upsert_folder` does
to the columns: an update leaves the version alone, an insert leaves it NULL until
`RefreshCover`, one row of `refresh_cover_versions` at a time. `FirstRows` is
`ORDER BY sort_key LIMIT`: any set of rows of that size that leaves none out that
sorts before one of its own (`Rank` is the key, and two rows may have one key); a
blank query makes no query (`AskNothing`). The client asks one
thing after another; each query of a handler is an action, and what a handler read
before (`id`, `parent`) stays in `client` as it was. `CoverVersionFor` and
`FindImage`, `OpenImage`, `ServeDirect`, `ServeBelow` are translated from two
different places of the source (`scan.rs`, `routes.rs`), and their agreement is a
property, not a definition. Histories: `still`, no image changed since the scan
began; `found`, a scan found the library as it is, and nothing changed or failed
since; `clean`, `found` ever since the client asked for its feed.

### Names, Pages, Requests, Download

These are functions, so `Requests` asks them one question each from an initial
state and keeps the answer. A character is a number; `Lower` gives its lower case
and `IsDigit` tells digits. `Compare` and `Key` are written after `natsort.rs` (a
run of digits as a saturating number; a padded run in the key). `Finds` is
LIKE with the pattern of `search.rs`. X-Forwarded-For is a sequence of lines, each a
sequence of entries: addresses, `Junk` (text that is none) and `Opaque` (an entry
with a byte that `to_str` refuses, which hides the whole line). `ReadableHops` is
what `headers().get(..).to_str()` leaves of them: the first line, if it can be read.
`Forwarded` is what the proxies make of the lines a client sends. They are not part
of the program, so both ways they have are there: to append to what there is, in one
line (which joins the client's lines), or to add a line; `joined` is the last
proxy on the way that does the former. An archive is a sequence of leaves, each
with a name, a size it declares and one it has; a page is read by its *name* in whatever
archive is at the path then (`BookPage` has the file that was opened and the file
in place now). Numbers in requests are `Blank`, `Junk` or a number, which
`parse::<u64>` and `parse::<i64>` take up to `MaxU64` and `MaxI64`.

`Download` follows one client: it asks for the rest of the file, or for a chunk,
with `Range: bytes=n-`, is interrupted, and asks again from the bytes it has; the
file may be replaced by another, which a response under way does not notice. A
byte is its position and the version of the file, so a misplaced byte shows.

## 3. Runs

All bounds are constants given in the `.cfg` files.

| Run | What it shows |
|---|---|
| `trigger` | `TypeOK`, `NoLostRequest`, `NoLostNotice`; `Promise` (refines `ScanService` with its fairness); `NoticedChangeScanned`, `PolledChangeScanned`. Capacity 1 as in the code, three library states, an inbox of two results and one fault (restart, panic, watcher failure, debouncer error): enough for a request during, before and after a scan and for a change on each side of a restart. Deadlock is checked. |
| `trigger_gap` | finding: the watch is installed after the initial scan was started |
| `scan_core` | `TypeOK`, `StampsAreSound`, `ScanFindsAll`, `ScanEnds`: two books in two directories, three contents of which one is no archive and two have the same size, two changes, two scans, one fault |
| `scan_deep` | `RowsFollowPaths`, `WalkHasParents`, `SeenSurvives`, `ScanRemovesRest`: three levels, with a hidden directory and a book that may be too large; the program started on the top, the middle or the hidden directory, a clock of two seconds that may step back, three scans, two changes, two faults |
| `scan_same_second` | finding: a scan in the same second removes nothing |
| `serve` | `TypeOK`, `ThumbsAreWhole`, `TmpsAreOwned`, `CacheBounded`, `RightBytes`, `RightThumbs`: two workers, two books, a cache of one archive, crashes that leave at most one temporary file; workers are symmetric, and so are the books together with their paths |
| `serve_stale_handle` | finding: a cached handle fails while another copy is in place |
| `serve_changed` | finding: new content under the old URL until the rescan |
| `limit` | `TypeOK`, `BlockIsEarned`, `LateLoginsBounded`, `GcIsInvisible`, `BlockStays`: two workers, two buckets, two attempts; long enough for a block to expire and be earned again, and for an entry to be collected and asked for again |
| `feeds` | `FeedTypeOK`, `FeedIsOfOneFolder`, `CoverIsBelow`, `RescansDontFlicker`, `FeedShowsLibrary`, `CoverMatchesVersion`: a root with two series, one of them with a book and one that may have an image; three scans, two seconds, one fault or restart, one change of an image. The files stay, but rows come and go: they appear with the first scan, and a scan that meets an error prunes what it could not visit. So the client's queries meet inserts, prunes, cascades and re-inserts under new ids. The caps on hits are 1 instead of 50 and 100: the search fits the root, one series and the book, so that the cap on folders bites while the series comes and goes; the cap on books, with one book, does not, and no tie is cut (theorem `Showing` has any caps and any keys) |
| `requests` | `NamesAreOrdered`, `KeysFollowNames`, `SearchIsLiteral`, `ForgedHopsDoNotCount`, `WidthsMeet`, `RangeIsRight`, `PagesAreTheImages`, `ResumedIsWhole`, `DownloadEnds`: names and queries over a few characters (two digits, a letter in both cases, the characters that LIKE knows), keys padded to two digits and numbers up to a few bits instead of 20 digits and 64 bits, so that overflow happens; archives of at most three leaves; up to two header lines of two entries from the client and two proxies that append or add lines; files of a few bytes with two interruptions and one replacement |
| `range_malformed` | finding: `MalformedIsIgnored`. A malformed range whose start is beyond the end gets a 416 |

`LibraryScan` and `FolderFeeds` stop when their bounds (`MaxTime`, `MaxScans`,
...) are used up, and the `requests` run when its question is answered or its
download is done, so these runs do not check for deadlock. The others do.

Two properties hold under a condition on the environment that the runs state:
`StampsAreSound` and `ScanFindsAll` with `Restamped = FALSE` (a path never shows
one modification second for two contents: without it a file rewritten within a
second at the same size keeps its old hash, scan.rs:429; the clock of that run does
not step back, theorem `Finding` has steps too), and
`RightBytes` and `RightThumbs` with `Places` that give each path one content
(`serve_changed` drops it). `ScanRemovesRest` needs `fresh`: no row as new as
the scan (`scan_same_second` drops it).

Two properties leave a case out by name. `ForgedHopsDoNotCount`
speaks of a client that sent nothing, or of proxies of which at least one appends
to the line there is, as reverse proxies commonly do; then the address is the
client's, and the last proxy's if the client made the line unreadable. `RangeIsRight`
speaks of well-formed ranges, `10-5` among them, which has a form and no bytes
(tests/range.rs:57 wants a 416), and of malformed ones whose start is not beyond the
end (`range_malformed` drops that).

### Fairness

`RescanTrigger!Fairness`: threads and tasks that can run do run (weak fairness);
a scan ends; and `StartScan` is strongly fair, because the drain loop competes
with senders that are slower by orders of magnitude, so that it cannot find the
channel refilled for ever. Users owe nothing: there is no fairness on
`LibraryChange` and `AdminRescan`, nor on faults. `LibraryScan!Spec` asks only
that a scan that was started is executed. `DownloadFairness` is weak fairness of
the client's asking and the server's answering together; interruptions and
replacements owe nothing, and `MaxInterrupts` and `MaxReplaced` are what makes a
download end. `BookServing`, `RateLimiter` and `FolderFeeds` have no liveness
properties.

## 4. Proofs

`RescanTriggerProofs` holds, for every capacity and all bounds:

* `Typing`: `SafeSpec => []TypeOK`.
* `RequestsAreKept`, `NoticesAreKept`: `NoLostRequest` and `NoLostNotice`. The
  inductive invariant `NoLostInv` adds that neither `requested` nor `noticed`
  runs ahead of `version`: that is why the start of a scan, which sets
  `startedAt` to `version`, answers everything asked so far, and why a drain
  before it loses nothing. `SendOwes` is the heart: `try_send` leaves the
  channel non-empty whether it answers Ok or Full.
* `TriggerImplementsService`: each step maps to a step of `ScanService` or a
  stutter, with `Owed` for the flag and `Receiving` for the scanner's being there.

They rest on `CapacityAssumption` and `BoundsAssumption`, which the runs evaluate.

`LibraryScanProofs` holds, for every tree of folders and books, every set of
contents and all bounds:

* `Typing`: `SafeSpec => []TypeOK`. The strengthening is `Position`, which says
  what the scan has in hand at each program point and that the directory of
  everything it still has to visit is in `pathToId`.
* `Filing`, `Survival`, `Parenthood`: `RowsFollowPaths`, `SeenSurvives` and
  `WalkHasParents`. None of them is inductive. `CatalogueInv` adds that ids are
  unique and below `nextId` (`Ids`: an upsert of a new folder cannot capture
  the children of another), that `pathToId` holds the ids of folders this scan
  has upserted (`Known`), and that what it has upserted carries its start time
  and hangs from rows it has upserted (`TouchedFolders`, `TouchedBooks`). The
  heart is `PruneFoldersCatalogue`: the rows the scan has not upserted are
  closed under `parent_id`, so the cascade, the least closed set, stays in them.
* `Stamping`: `StampsAreSound` if `~Restamped`. `StampInv` follows a stamp from
  `mtime_secs` over hash and open into the row: a file that changed in between
  shows a time its path has not shown before, so the stamp no longer fits it.
  The proof does not use the size.

They rest on `TreeAssumption`, `ContentAssumption` and `BoundsAssumption`, which
every `scan_*` run evaluates.

`LibraryWalkProofs` proves, for every tree and all bounds and if `~Restamped`,
`Finding` (`ScanFindsAll`) and `Removing` (`ScanRemovesRest`). Both speak only of a
scan that has ended; `WalkInv` says what is known before. As long as nothing
changed and nothing failed (`Undisturbed`), whatever is in a directory that was
walked is upserted, in hand, still to be returned, or a book that cannot be filed
(`Walked`); what was read of the entry in hand is still so (`ReadRight`), so what
was upserted has its content (`RowsRight`); everything ahead is reached (`Ahead`);
and if the scan is younger than every row, the rows it has not upserted stay older
than the scan until they are pruned (`OldRows`). `AllTouched` then follows when
nothing is left to walk, since `Reachable` is the least set of its kind. The
unchanged branch of `upsert_book` needs `StampInv`, hence the condition; that the
walker does not come back to the root, whose row has no parent, needs
`GroundAssumption`: no folder is below itself.

`FolderFeedsProofs`:

* `FeedsImplementScans`: `FeedSpec` implements `LibraryScan!SafeSpec`, so that
  every theorem above holds of it too; the covers are an addition and disturb
  nothing.
* `FeedTyping`: `FeedTypeOK`.
* `OneFolder`, `CoversAreBelow`: `FeedIsOfOneFolder` and `CoverIsBelow`. A query by
  an id that was read earlier is right because of two facts about a step, whatever
  it is: a row that keeps its path keeps its id (`IdsStay`), and the folder that
  goes by an id is that folder or none for ever (`NamesStay`), since `nextId` only
  grows. `ReaderInv` says so of the id in the client's hand. `BelowIsBelow`: the
  recursive query of `folder_cover` finds books of folders below, by the least
  closed set and `RowsFollowPaths`.

* `NoFlicker`, `Showing`, `Matching`: `RescansDontFlicker`, `FeedShowsLibrary` and
  `CoverMatchesVersion`, if `~Restamped`. `FoundInv` says that from the end of a
  scan that found the library on, the catalogue and the cover columns are exactly
  those of the library. It begins with `WalkInv` and `RefreshInv` (while no image
  changes, the columns get right row by row) and it is kept by `FoundStays`: each
  upsert of a rescan writes what is there (same parent, same folder, same hash,
  same version), and the two DELETEs find nothing, because the walk has touched
  all there is. A step that leaves the filing as it is leaves every query as it
  is (`FilingSame`, `VersionSame`), so what a request has read stays right
  (`CleanInv`), query after query, up to the answer. For a search, `FirstRowsAreFirst`
  adds that what the cap leaves is full or all there is, and sorts first; it takes any
  caps and any keys.

`NamesProofs` and `RequestsProofs` prove every invariant of the run `requests`, where
TLC sees a few characters and three leaves, for names, queries and archives of
every length and for the real widths of keys and numbers. The functions are
written as recursive functions, of which the prover knows nothing until they are
shown to exist: `FixedPoint` says that a definition by values at arguments of a
smaller measure has a solution, and `Comparing`, `Writing`, `Matching`,
`Patterning` and `Gathering` apply it to `Compare`, `Key`, `Like`, `ToLikePattern` and `Images`.
Induction goes over sets, as the choice of a least counterexample (`LeastOfSet`,
`MeasureInduction`), since the library's theorems with an operator for parameter
cannot be used.

* `Ordering` (`NamesAreOrdered`). A comparison looks at `Class` and `Amount` of what
  is at a position: the end, a number (wherever its digits are, it comes where `'0'`
  does) or a character in lower case. `CompareMirrored` and `CompareTransitive` go by
  induction over positions in two names and in three; a run of digits counts with its
  saturated number, so that two that are equal are equal to the same others. That
  all numbers share one place among the characters needs the third
  conjunct of `CharacterAssumption`: lower case turns no letter into a digit.
* `Keying` (`KeysFollowNames`). `KeyOrder` compares two keys piece by piece
  (`KeyFrom`, `CollateBehind`). A number that is not longer than the padding is
  written with `PadWidth` digits and does not saturate (`PaddedNumber`; this is what
  `NumberAssumption` is for: 20 digits fit a `u128`), and numbers of one width
  compare as their first digits that differ (`SameWidth`).
* `Searches` (`SearchIsLiteral`). `Places` finds each character of the query in its
  pattern, `Searching` reads LIKE's rules off there, so that nothing but the
  query is left, and `Embedding` lays its characters into the name and back.
  It uses that `* % _ \` are different.
* `Paging` (`PagesAreTheImages`). What `Earlier` puts before a leaf grows strictly from
  leaf to leaf (`EarlierIsAnOrder`, from `CompareTransitive`), so every place is
  taken once (`Sorting`), equal names or not, and a page's number is bounded by how
  many names are smaller and how many not larger (`CountEarlier`). `Answers` is
  `book_page` from the number to the name; with one leaf to a name, reading
  by name in the file that was scanned finds the leaf itself (`ReadOfImage`), and in
  another file an image of that name (`ReadIsNamed`).
* `ForgedHops`, `Widening` and `Ranging` prove `ForgedHopsDoNotCount`, `WidthsMeet` and
  `RangeIsRight` for any addresses, any number of header lines of any length and any
  chain of proxies, any ladder of widths and any lengths and numbers. `JoinedLine` says
  what the first line is, `Flattening` that joining the client's lines neither
  adds an entry nor loses one (so that the line is unreadable exactly if one of them was),
  and `LastStranger` that the walk from the right then stops at the client.
* `Resuming` proves `ResumedIsWhole` by `DownloadInv`: the bytes a client has,
  followed by those under way, are in their places, and of the file in place if it
  stayed.

They rest on the assumptions of `Names`, `Pages` and `Requests`, which the run
evaluates.

`RateLimiterProofs` proves every property of the run `limit`, for every limit,
window, block length and number of requests: `Typing`, `Earning`
(`BlockIsEarned`), `Collecting` (`GcIsInvisible`), `Staying` (`BlockStays`, an
action property) and `LateLogins` (`LateLoginsBounded`). The invariant is `ReqInv`
(a clock reading in hand is at most `Lag` old), `TableInv` (the limiter's map is
that of a limiter without `gc`, less entries that are `Gone`: over for every clock
reading that can still come; here `LagAssumption` is used), and `LogInv` (what an
entry counts are the last failures of the log, all within its window). `LateInv` counts the requests between `"check"` and their report: the
only logins that may pass during a block are of requests that were let in before.

`BookServingProofs` proves every property of the run `serve`, for any number of
workers, books, places and archives in the cache: `Typing`, `Bounding`
(`CacheBounded`), `Wholeness` (`ThumbsAreWhole`), `Ownership` (`TmpsAreOwned`),
`RightBodies` and `RightFiling` (`RightBytes`, `RightThumbs`; these two if no path
ever holds two contents, `OneContent`). `RequestOK` says of each point of a
handler what its path and handle have held; `TmpInv` that the temporary file of a
worker that is about to rename is whole and its own.

So every invariant and action property of the passing runs is proved. Not proved, and left to
TLC: liveness (`Promise` with its fairness, `NoticedChangeScanned`,
`PolledChangeScanned`, `ScanEnds`, `DownloadEnds`), which is out of the prover's reach.

## 5. Not modelled, and observations

Not modelled: image decoding and resizing; the ZIP and RAR formats, damaged
archives and names that occur twice in one archive; XML and HTML formatting and
escaping, folder descriptions; hashing and slugs (one library call each; a content
is its hash and a path its slug); log formatting; parsing of credentials and of the
command line; packaging. Within what is modelled: the several names of `COVER_NAMES`,
which are one image; two books of one folder with one sort key, whose order SQL
leaves open (the choice of a cover has a fixed one, that of search hits is open); two images of one
second, which the program cannot tell apart either.

Seen while modelling, and not covered by a property:

* If no trusted proxy appends to the X-Forwarded-For line there is and each adds a line
  of its own, the line that `client_ip` reads is the first one (peer_ip.rs:45), which the
  proxies did not write, although peer_ip.rs:28 speaks of a walk from the right.
* There is no `If-Range`: a download that is resumed after its file was replaced
  continues in the other file. `ResumedIsWhole` speaks of files that stay.
* A folder cover that is asked for under an old `?v=` is answered with today's
  cover; `CoverMatchesVersion` speaks of a library that stays.
* Runs of more than 20 digits sort differently by key than by `cmp`, which is why
  `KeysFollowNames` has its condition.
* `--scan-interval 0s` makes `tokio::time::interval` panic (poller.rs:12) in the
  poller's task, and the program goes on without one.
* A book that cannot be opened for a moment during a scan loses its row and comes
  back as a new one (scan.rs:442).
* After a panic in `scan` (scan.rs:85) the loop is gone and `admin_rescan` answers 503
  until a restart; the properties of `RescanTrigger` promise nothing then.

## 6. Plan

Done: all modules above. What is left:

* `LiveCatalog`, `RescanTrigger` composed with `LibraryScan`, so that a noticed
  change of the library is seen to reach the catalogue. Today the two meet in one
  argument on paper: `NoticedChangeScanned` says that a scan starts after the
  change and ends, `ScanFindsAll` what such a scan leaves.
* The several names of `COVER_NAMES`.
