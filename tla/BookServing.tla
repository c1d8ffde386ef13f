----------------------------- MODULE BookServing -----------------------------
(***************************************************************************)
(* How the pages, covers and thumbnails of a book are served: the handlers *)
(* of routes.rs, the archive cache of archive/mod.rs, the thumbnail cache  *)
(* of thumb.rs, and the prewarm pass of scan.rs.                           *)
(*                                                                         *)
(* A URL names a book by the hash of its content, a row of the catalogue   *)
(* leads from the hash to a path, and the bytes come from whatever is at a *)
(* path when it is opened.  The archive cache and the thumbnail cache are  *)
(* both keyed by the hash and never invalidated.  The hash of a content is *)
(* the content itself, and so is a page or thumbnail made of it; a book    *)
(* has one page, at one width.                                             *)
(***************************************************************************)
EXTENDS Integers, Sequences, SequencesExt

CONSTANTS
    Requests,     \* the workers that handle requests and prewarm books
    Paths,
    Contents,     \* contents of archives, and the hashes of the catalogue
    Places,       \* <<path, content>>: what may come to be where
    CacheSize,    \* --archive-cache-size, at least 1 (archive/mod.rs:76)
    MaxLeftovers, \* bound: temporary files that killed processes leave
    Absent, None, Partial

Files == Contents \cup {Absent}

ASSUME PlacesAssumption == Places \subseteq Paths \X Contents
ASSUME CacheAssumption == CacheSize \in Nat \ {0}
ASSUME LeftoversAssumption == MaxLeftovers \in Nat
ASSUME MarksAssumption == {Absent, None, Partial} \cap Contents = {} /\ None # Partial

VARIABLES
    file,       \* the content at each path
    rows,       \* table book in the order of id: [path, hash]
    lru,        \* archive::Cache: [key, path], the most recent last
    thumb,      \* the thumbnail file of each hash: None, Partial or a content
    tmp,        \* temporary files of write_resized: name -> Partial or a content
    req,        \* what each worker is doing
    leftovers,  \* history: temporary files of workers that a crash killed
    steady      \* history: no file has changed since the row for a page was read

shared == <<file, rows, lru, thumb, tmp, leftovers>>
vars   == <<file, rows, lru, thumb, tmp, req, leftovers, steady>>

\* Full pages and covers, thumbnails, whole files, and prewarm's thumbnails.
Kinds == {"page", "thumbnail", "file", "prewarm"}

Idle == [pc |-> "idle", kind |-> "page", hash |-> None, path |-> None,
         handle |-> None, bytes |-> None, status |-> 0]

Init ==
    /\ file \in [Paths -> Files]
    /\ \A p \in Paths : file[p] # Absent => <<p, file[p]>> \in Places
    /\ rows = <<>>
    /\ lru = <<>>
    /\ thumb = [h \in Contents |-> None]
    /\ tmp = <<>>
    /\ req = [r \in Requests |-> Idle]
    /\ leftovers = {}
    /\ steady = [r \in Requests |-> FALSE]
------------------------------------------------------------------------------
(* The library and its scans.                                              *)

FilesChange ==
    /\ steady' = [r \in Requests |-> FALSE]
    /\ UNCHANGED <<rows, lru, thumb, tmp, req, leftovers>>

PutFile(p, c) ==
    /\ <<p, c>> \in Places
    /\ file[p] # c
    /\ file' = [file EXCEPT ![p] = c]
    /\ FilesChange

RemoveFile(p) ==
    /\ file[p] # Absent
    /\ file' = [file EXCEPT ![p] = Absent]
    /\ FilesChange

RowOf(p) == {i \in DOMAIN rows : rows[i].path = p}

\* mutant: a changed book is inserted again and not updated
RescanInserts(p) ==
    /\ \/ file[p] = Absent /\ \E i \in RowOf(p) : rows' = RemoveAt(rows, i)
       \/ file[p] # Absent /\ rows' = Append(rows, [path |-> p, hash |-> file[p]])
    /\ UNCHANGED <<file, lru, thumb, tmp, req, leftovers, steady>>

\* What LibraryScan does for one path: the row follows the file.
Rescan(p) ==
    /\ \/ /\ file[p] = Absent
          /\ \E i \in RowOf(p) : rows' = RemoveAt(rows, i)
       \/ /\ file[p] # Absent
          /\ RowOf(p) = {}
          /\ rows' = Append(rows, [path |-> p, hash |-> file[p]])
       \/ /\ file[p] # Absent
          /\ \E i \in RowOf(p) :
                /\ rows[i].hash # file[p]
                /\ rows' = [rows EXCEPT ![i] = [path |-> p, hash |-> file[p]]]
    /\ UNCHANGED <<file, lru, thumb, tmp, req, leftovers, steady>>
------------------------------------------------------------------------------
(* Steps of a request.                                                     *)

Goto(r, pc) == req' = [req EXCEPT ![r].pc = pc]

\* The answer is kept until the next request; nobody waits for prewarm.
Answer(r, status, bytes) ==
    req' = [req EXCEPT ![r] =
        IF req[r].kind = "prewarm" THEN Idle
        ELSE [Idle EXCEPT !.pc = "done", !.kind = req[r].kind, !.status = status,
                          !.hash = IF status = 200 THEN req[r].hash ELSE None,
                          !.bytes = bytes]]

\* The thumbnail is there: a request goes on to send it.
ThumbReady(r) ==
    IF req[r].kind = "prewarm" THEN Answer(r, 200, None)
    ELSE req' = [req EXCEPT ![r].pc = "serve", ![r].path = None, ![r].bytes = None]

Ask(r, kind, h) ==
    /\ req[r].pc \in {"idle", "done"}
    /\ kind # "prewarm"
    /\ req' = [req EXCEPT ![r] = [Idle EXCEPT !.pc = "lookup", !.kind = kind, !.hash = h]]
    /\ steady' = [steady EXCEPT ![r] = FALSE]
    /\ UNCHANGED shared

\* prewarm has read the row already (SELECT * FROM book).
Prewarm(r, i) ==
    /\ req[r].pc \in {"idle", "done"}
    /\ req' = [req EXCEPT ![r] = [Idle EXCEPT !.pc = "cached?", !.kind = "prewarm",
                                              !.hash = rows[i].hash,
                                              !.path = rows[i].path]]
    /\ steady' = [steady EXCEPT ![r] = FALSE]
    /\ UNCHANGED shared

\* lookup_book: SELECT ... WHERE hash = ? ORDER BY id LIMIT 1
Lookup(r) ==
    LET found == {i \in DOMAIN rows : rows[i].hash = req[r].hash}
    IN  /\ req[r].pc = "lookup"
        /\ \/ found = {} /\ Answer(r, 404, None) /\ UNCHANGED steady
           \/ \E i \in found :
                /\ \A j \in found : i <= j
                /\ req' = [req EXCEPT
                    ![r].path = rows[i].path,
                    ![r].pc = IF req[r].kind = "thumbnail" THEN "cached?" ELSE "contain"]
                /\ steady' = [steady EXCEPT ![r] =
                      req[r].kind = "page" /\ file[rows[i].path] = req[r].hash]
        /\ UNCHANGED shared

\* mutant: the path of a thumbnail leaves out the hash
SomeThumb(h) == CHOOSE c \in Contents : TRUE

\* cache_path, page_thumb_path
ThumbOf(h) == h

\* if !cached.exists()
CheckThumb(r) ==
    /\ req[r].pc = "cached?"
    /\ IF thumb[ThumbOf(req[r].hash)] # None
       THEN ThumbReady(r)
       ELSE Goto(r, IF req[r].kind = "prewarm" THEN "open" ELSE "contain")
    /\ UNCHANGED <<shared, steady>>

\* safe_path::under: a path that cannot be resolved is answered with 404.
Contain(r) ==
    /\ req[r].pc = "contain"
    /\ IF file[req[r].path] = Absent THEN Answer(r, 404, None)
       ELSE Goto(r, IF req[r].kind = "file" THEN "send" ELSE "get")
    /\ UNCHANGED <<shared, steady>>

\* serve_file_with_range reads the file itself.
SendFile(r) ==
    /\ req[r].pc = "send"
    /\ IF file[req[r].path] = Absent THEN Answer(r, 500, None)
       ELSE Answer(r, 200, file[req[r].path])
    /\ UNCHANGED <<shared, steady>>

\* mutant: whatever is in the archive cache will do
AnyEntry(h) == DOMAIN lru

\* Where the entry of hash h is in the archive cache, if there is one.
EntryOf(h) == {i \in DOMAIN lru : lru[i].key = h}

OthersThan(h) ==
    IF EntryOf(h) = {} THEN lru ELSE RemoveAt(lru, CHOOSE i \in EntryOf(h) : TRUE)

\* Cache::get_or_open, first half: a hit moves the entry to the front.
CacheGet(r) ==
    /\ req[r].pc = "get"
    /\ \/ /\ EntryOf(req[r].hash) = {}
          /\ Goto(r, "open")
          /\ UNCHANGED lru
       \/ \E i \in EntryOf(req[r].hash) :
             /\ lru' = Append(RemoveAt(lru, i), lru[i])
             /\ req' = [req EXCEPT ![r].path = None, ![r].handle = lru[i].path,
                                   ![r].pc = "read"]
    /\ UNCHANGED <<file, rows, thumb, tmp, leftovers, steady>>

\* archive::open, without the lock; prewarm keeps the handle to itself.
OpenArchive(r) ==
    /\ req[r].pc = "open"
    /\ IF file[req[r].path] = Absent
       THEN Answer(r, 500, None)
       ELSE req' = [req EXCEPT ![r].path = None, ![r].handle = req[r].path,
                               ![r].pc = IF req[r].kind = "prewarm" THEN "read" ELSE "put"]
    /\ UNCHANGED <<shared, steady>>

\* mutant: a full cache evicts nothing
KeepAll(s) == s

\* Only the CacheSize most recent entries stay.
Evict(s) == IF Len(s) > CacheSize THEN Tail(s) ELSE s

\* Cache::get_or_open, second half: an entry put meanwhile is replaced.
CachePut(r) ==
    /\ req[r].pc = "put"
    /\ lru' = Evict(Append(OthersThan(req[r].hash),
                           [key |-> req[r].hash, path |-> req[r].handle]))
    /\ Goto(r, "read")
    /\ UNCHANGED <<file, rows, thumb, tmp, leftovers, steady>>

\* read_page opens the handle's path again and looks the page up by name: it
\* fails if the file is gone, and may fail if another file has come there.
ReadPage(r) ==
    LET now == file[req[r].handle]
    IN  /\ req[r].pc = "read"
        /\ \/ /\ now # Absent
              /\ IF req[r].kind = "page" THEN Answer(r, 200, now)
                 ELSE req' = [req EXCEPT ![r].handle = None, ![r].bytes = now,
                                             ![r].pc = "ensure"]
           \/ /\ now # req[r].hash
              /\ Answer(r, 500, None)
        /\ UNCHANGED <<shared, steady>>

\* ensure_thumbnail: another worker may have made it meanwhile.
Ensure(r) ==
    /\ req[r].pc = "ensure"
    /\ IF thumb[ThumbOf(req[r].hash)] # None
       THEN ThumbReady(r)
       ELSE Goto(r, "create")
    /\ UNCHANGED <<shared, steady>>

\* mutant: the temporary name is that of the destination
CommonTmp(r) == req[r].hash

\* tmp_path_for: the counter gives every write a name of its own.  A name
\* comes back when a new process has the same pid as a killed one.
TmpOf(r) == r

WithTmp(name, data) ==
    [n \in DOMAIN tmp \cup {name} |-> IF n = name THEN data ELSE tmp[n]]

WithoutTmp(name) == [n \in DOMAIN tmp \ {name} |-> tmp[n]]

\* File::create truncates what is there.
CreateTmp(r) ==
    /\ req[r].pc = "create"
    /\ tmp' = WithTmp(TmpOf(r), Partial)
    /\ leftovers' = leftovers \ {TmpOf(r)}
    /\ Goto(r, "write")
    /\ UNCHANGED <<file, rows, lru, thumb, steady>>

\* write_all and sync_all
WriteTmp(r) ==
    /\ req[r].pc = "write"
    /\ tmp' = IF TmpOf(r) \in DOMAIN tmp THEN WithTmp(TmpOf(r), req[r].bytes) ELSE tmp
    /\ Goto(r, "rename")
    /\ UNCHANGED <<file, rows, lru, thumb, leftovers, steady>>

\* rename(2) replaces the destination at once; it fails without a source.
RenameTmp(r) ==
    /\ req[r].pc = "rename"
    /\ IF TmpOf(r) \in DOMAIN tmp
       THEN /\ thumb' = [thumb EXCEPT ![ThumbOf(req[r].hash)] = tmp[TmpOf(r)]]
            /\ tmp' = WithoutTmp(TmpOf(r))
            /\ ThumbReady(r)
       ELSE Answer(r, 500, None) /\ UNCHANGED <<thumb, tmp>>
    /\ UNCHANGED <<file, rows, lru, leftovers, steady>>

\* mutant: no TmpGuard, a failed write leaves its file behind
FailAndLeave(r) ==
    /\ req[r].pc \in {"create", "write", "rename"}
    /\ Answer(r, 500, None)
    /\ UNCHANGED <<shared, steady>>

\* The image does not decode, the disk is full: TmpGuard removes the file.
WriteFails(r) ==
    /\ req[r].pc \in {"create", "write", "rename"}
    /\ tmp' = IF req[r].pc = "create" THEN tmp ELSE WithoutTmp(TmpOf(r))
    /\ Answer(r, 500, None)
    /\ UNCHANGED <<file, rows, lru, thumb, leftovers, steady>>

\* serve_file of the thumbnail
ServeThumb(r) ==
    /\ req[r].pc = "serve"
    /\ IF thumb[ThumbOf(req[r].hash)] = None THEN Answer(r, 500, None)
       ELSE Answer(r, 200, thumb[ThumbOf(req[r].hash)])
    /\ UNCHANGED <<shared, steady>>

\* The process is killed: files stay, the archive cache and workers go.
Crash ==
    /\ Cardinality(DOMAIN tmp) <= MaxLeftovers
    /\ leftovers' = DOMAIN tmp
    /\ lru' = <<>>
    /\ req' = [r \in Requests |-> Idle]
    /\ steady' = [r \in Requests |-> FALSE]
    /\ UNCHANGED <<file, rows, thumb, tmp>>

Step(r) ==
    \/ Lookup(r) \/ CheckThumb(r) \/ Contain(r) \/ SendFile(r)
    \/ CacheGet(r) \/ OpenArchive(r) \/ CachePut(r) \/ ReadPage(r)
    \/ Ensure(r) \/ CreateTmp(r) \/ WriteTmp(r) \/ RenameTmp(r) \/ WriteFails(r)
    \/ ServeThumb(r)

Next ==
    \/ \E p \in Paths, c \in Contents : PutFile(p, c)
    \/ \E p \in Paths : RemoveFile(p) \/ Rescan(p)
    \/ \E r \in Requests :
          \/ \E kind \in Kinds, h \in Contents : Ask(r, kind, h)
          \/ \E i \in DOMAIN rows : Prewarm(r, i)
          \/ Step(r)
    \/ Crash

Spec == Init /\ [][Next]_vars
------------------------------------------------------------------------------
TypeOK ==
    /\ file \in [Paths -> Files]
    /\ rows \in Seq([path : Paths, hash : Contents])
    /\ \A i, j \in DOMAIN rows : rows[i].path = rows[j].path => i = j
    /\ thumb \in [Contents -> Contents \cup {None, Partial}]
    /\ \A n \in DOMAIN tmp : tmp[n] \in Contents \cup {Partial}
    /\ \A r \in Requests :
          /\ req[r].kind \in Kinds
          /\ req[r].hash \in Contents \cup {None}
          /\ req[r].path \in Paths \cup {None}
          /\ req[r].handle \in Paths \cup {None}
          /\ req[r].bytes \in Contents \cup {None, Partial}
          /\ req[r].status \in {0, 200, 404, 500}
    /\ steady \in [Requests -> BOOLEAN]

(* The archive cache holds at most CacheSize handles, one for each hash,    *)
(* although two workers may open the same archive at once and put it one    *)
(* after the other (archive/mod.rs:86).                                     *)
CacheBounded ==
    /\ Len(lru) <= CacheSize
    /\ \A i, j \in DOMAIN lru : lru[i].key = lru[j].key => i = j

(* No thumbnail is ever seen half-written under its own name, with any      *)
(* number of workers making it at once and killed at any point.             *)
ThumbsAreWhole == \A h \in Contents : thumb[h] # Partial

(* Temporary files belong to a worker that is writing; only those of killed *)
(* processes are left behind.                                               *)
TmpsAreOwned ==
    \A n \in DOMAIN tmp :
        n \in leftovers \/ \E r \in Requests :
                              TmpOf(r) = n /\ req[r].pc \in {"write", "rename"}

(* A body sent for a URL was made from the content the URL names.           *)
RightBytes ==
    \A r \in Requests :
        (req[r].pc = "done" /\ req[r].status = 200)
            => req[r].bytes = req[r].hash

(* A thumbnail is of the content it is filed under: it will be served for   *)
(* as long as the data directory exists.                                    *)
RightThumbs == \A h \in Contents : thumb[h] \in {None, Partial, h}

(* routes.rs:661: "24h is fine for content-keyed URLs (book pages, covers,  *)
(* page thumbnails) - the URL itself changes when the content does, so      *)
(* stale cache hits are impossible."  So what is sent under such a URL, and *)
(* kept by clients for a day, was made from the content it names.           *)
UrlNamesContent ==
    \A r \in Requests :
        (req[r].pc = "done" /\ req[r].status = 200 /\ req[r].kind \in {"page", "thumbnail"})
            => req[r].bytes = req[r].hash

(* routes.rs:479: "Several rows may share a hash when the same file exists  *)
(* at more than one path.  Their bytes are identical, so any of them serves *)
(* the request equally well."  So a page of a book whose row leads to the   *)
(* right file, from the lookup to the end, is not refused with an error.    *)
AnyCopyServes ==
    \A r \in Requests :
        (req[r].pc = "done" /\ req[r].kind = "page" /\ steady[r])
            => req[r].status # 500
==============================================================================
