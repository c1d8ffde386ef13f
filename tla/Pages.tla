------------------------------- MODULE Pages ----------------------------------
(***************************************************************************)
(* Archives as books (archive/mod.rs, cbz.rs, cbr.rs) and the page that    *)
(* GET /books/:hash/pages/:n answers with.  A handle keeps the names of    *)
(* the pages in natural order; a page is then looked up by its name in     *)
(* whatever file is in place.  An archive holds a name once.               *)
(***************************************************************************)
EXTENDS Names

CONSTANTS
    Leaves,          \* what an archive may hold
    Files,           \* archives
    PageNumbers,     \* page numbers in requests
    MaxPageBytes,    \* MAX_PAGE_BYTES
    MaxI64           \* the largest page number of a request

ASSUME LeafAssumption ==
    /\ Leaves \subseteq [name : NameSet, image : BOOLEAN, declared : Nat, actual : Nat]
    /\ \A x, y \in Leaves : x.name = y.name => x.image = y.image
    /\ MaxPageBytes \in Nat
    /\ MaxI64 \in Nat /\ PageNumbers \subseteq (-MaxI64 - 1)..MaxI64

ASSUME FileAssumption ==
    \A file \in Files :
        /\ file.format \in {"zip", "rar", "other"}
        /\ file.leaves \in Seq(Leaves)
        /\ \A i, j \in DOMAIN file.leaves :
              file.leaves[i].name = file.leaves[j].name => i = j

Broken == <<>>       \* archive::open, or read_page, returned an error

\* mutant: pages stay in the order of the archive
AsStored(s) == s

\* sort_by with natsort::cmp, which is stable: what goes before the i-th
Earlier(s, i) ==
    {j \in DOMAIN s : LET c == Compare(s[j].name, s[i].name) IN c < 0 \/ (c = 0 /\ j < i)}

Sorted(s) ==
    [k \in DOMAIN s |-> s[CHOOSE i \in DOMAIN s : 1 + Cardinality(Earlier(s, i)) = k]]

\* The images of an archive, in its order.
Images(file) ==
    LET upTo[i \in 0..Len(file.leaves)] ==
            IF i = 0 THEN <<>>
            ELSE IF file.leaves[i].image THEN Append(upTo[i - 1], file.leaves[i])
            ELSE upTo[i - 1]
    IN  upTo[Len(file.leaves)]

\* Cbz::open and Cbr::open: a page that declares too much fails the book.
Listing(file) ==
    IF \E leaf \in ToSet(Images(file)) : leaf.declared > MaxPageBytes
    THEN Broken
    ELSE <<[format |-> file.format, pages |-> Sorted(Images(file))]>>

\* open: detect tells the format by the first bytes.
Opened(file) == IF file.format = "other" THEN Broken ELSE Listing(file)

\* Cbz::read_page expands the leaf of a name up to the cap.
ReadZip(now, name) ==
    {leaf \in ToSet(now.leaves) : leaf.name = name /\ leaf.actual <= MaxPageBytes}

\* Cbr::read_page looks at what the leaf declares first.
ReadRar(now, name) == {leaf \in ReadZip(now, name) : leaf.declared <= MaxPageBytes}

\* read_page of a handle, when now is the file in place
ReadLeaf(handle, now, index) ==
    LET name == handle.pages[index + 1].name
        read == IF handle.format = "zip" THEN ReadZip(now, name) ELSE ReadRar(now, name)
    IN  IF handle.format # now.format \/ read = {} THEN Broken
        ELSE <<CHOOSE leaf \in read : TRUE>>

\* The index of page number n of a request; checked_sub fails for i64::MIN.
PageIndex(n, oneBased) == IF oneBased THEN n - 1 ELSE n

\* book_page for the row of file: <<status>>, or 200 with the page.
BookPage(file, now, n, oneBased) ==
    LET handle == Opened(file)
        index  == PageIndex(n, oneBased)
    IN  IF \/ index \notin 0..(Len(handle[1].pages) - 1)
           \/ oneBased /\ n = -MaxI64 - 1
        THEN [status |-> 404]
        ELSE LET page == ReadLeaf(handle[1], now, index)
             IN  IF page = Broken THEN [status |-> 500]
                 ELSE [status |-> 200, leaf |-> page[1]]
==============================================================================
