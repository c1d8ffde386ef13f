------------------------------ MODULE Requests --------------------------------
(***************************************************************************)
(* What the handlers make of the text of a request: an order of names, a   *)
(* search, the address a request came from, a width, a page number, a byte *)
(* range.  A client asks one question at a time.                           *)
(*                                                                         *)
(* Numbers and addresses in a request are read by str::parse: Junk is what *)
(* it rejects, Blank an empty field, and a number above MaxU64 or MaxU32   *)
(* is rejected as well.  Opaque is text that to_str rejects, with the whole *)
(* line it is in: a byte that is not visible ASCII.                        *)
(***************************************************************************)
EXTENDS Pages

CONSTANTS
    MaxU64, MaxU32,    \* the largest numbers parse::<u64> and parse::<u32> take
    Blank, Junk, Opaque, NoAnswer,
    Ladder,            \* PAGE_THUMB_WIDTHS
    Widths,            \* widths in requests, and Junk
    Addresses,         \* addresses of hosts
    Trusted,           \* those in --trusted-proxies
    MaxHops,           \* bound: entries in a line of X-Forwarded-For, and proxies
    MaxLines,          \* bound: such lines that a client sends
    Lengths,           \* lengths of files
    Numbers            \* numbers in a Range header

ASSUME NumberFieldAssumption ==
    MaxU64 \in Nat /\ MaxU32 \in Nat /\ {Blank, Junk} \cap Nat = {} /\ Blank # Junk
ASSUME WidthAssumption ==
    Ladder \subseteq 1..MaxU32 /\ Ladder # {} /\ Widths \subseteq Nat
ASSUME AddressAssumption ==
    /\ Trusted \subseteq Addresses /\ {Junk, Opaque} \cap Addresses = {} /\ Junk # Opaque
    /\ MaxHops \in Nat /\ MaxLines \in Nat
ASSUME RangeAssumption == Lengths \subseteq 0..MaxU64 /\ Numbers \subseteq Nat

VARIABLES asked, answer

asking == <<asked, answer>>
------------------------------------------------------------------------------
(* peer_ip.rs                                                               *)

Hops == Addresses \cup {Junk, Opaque}

\* headers().get has the first line of a name; to_str has all of it or nothing.
ReadableHops(lines) ==
    IF lines = <<>> \/ Opaque \in ToSet(Head(lines)) THEN <<>> ELSE Head(lines)

\* mutant: the walk starts at the left end of the header
LeftmostHop(peer, lines) ==
    LET hops == ReadableHops(lines)
        strangers == {i \in DOMAIN hops : hops[i] \notin Trusted \cup {Junk}}
    IN  IF peer \notin Trusted \/ strangers = {} THEN peer
        ELSE hops[CHOOSE i \in strangers : \A j \in strangers : i <= j]

\* client_ip: the rightmost entry that is an address and not trusted
ClientIp(peer, lines) ==
    LET hops == ReadableHops(lines)
        strangers == {i \in DOMAIN hops : hops[i] \notin Trusted \cup {Junk}}
    IN  IF peer \notin Trusted \/ strangers = {} THEN peer
        ELSE hops[CHOOSE i \in strangers : \A j \in strangers : i >= j]
------------------------------------------------------------------------------
(* thumb.rs, and Prefer in routes.rs                                        *)

\* snap_width
SnapWidth(w) ==
    IF \E r \in Ladder : r >= w THEN Min({r \in Ladder : r >= w}) ELSE Max(Ladder)

\* mutant: --page-thumb-width is used as it is
Unsnapped(w) == w

\* What main makes of --page-thumb-width, for requests and for prewarm.
DefaultWidth(w) == SnapWidth(w)

Thumbnail == <<"variant", "thumbnail">>
PreferTokens == {Thumbnail, <<"variant", "other">>}
                    \cup {<<"width", w>> : w \in Widths \cup {Junk}}

\* The widths that a Prefer header states and u32 takes, by position.
Stated(tokens) ==
    {i \in 1..Len(tokens) : tokens[i][1] = "width" /\ tokens[i][2] \in 0..MaxU32}

\* parse_thumbnail_pref and its use in book_page: the width of the thumbnail,
\* or no thumbnail; the last width that can be read counts.
PageWidth(tokens, cli) ==
    IF Thumbnail \notin ToSet(tokens) THEN NoAnswer
    ELSE SnapWidth(IF Stated(tokens) = {} THEN DefaultWidth(cli)
                                          ELSE tokens[Max(Stated(tokens))][2])
------------------------------------------------------------------------------
(* Byte ranges, in routes.rs                                                *)

Full          == [kind |-> "full"]
Unsatisfiable == [kind |-> "unsatisfiable"]
Partial(start, end) == [kind |-> "partial", start |-> start, end |-> end]

\* A header with one range of bytes; NoAnswer stands for every other header,
\* among them none, another unit and several ranges.
RangeHeaders == {NoAnswer} \cup [from : Numbers \cup {Blank, Junk},
                                 to   : Numbers \cup {Blank, Junk}]

U64(n) == n \in 0..MaxU64

\* mutant: the last byte is one too far
RangeToLength(range, len) ==
    IF range = NoAnswer THEN Full
    ELSE IF range.from = Blank
    THEN IF ~U64(range.to) THEN Full
         ELSE IF range.to = 0 \/ len = 0 THEN Unsatisfiable
         ELSE Partial(Max({0, len - range.to}), len)
    ELSE IF ~U64(range.from) THEN Full
         ELSE IF range.from >= len THEN Unsatisfiable
         ELSE IF range.to = Blank THEN Partial(range.from, len)
         ELSE IF ~U64(range.to) THEN Full
         ELSE IF range.to < range.from THEN Unsatisfiable
         ELSE Partial(range.from, Min({range.to, len}))

\* parse_range
ParseRange(range, len) ==
    IF range = NoAnswer THEN Full
    ELSE IF range.from = Blank
    THEN IF ~U64(range.to) THEN Full
         ELSE IF range.to = 0 \/ len = 0 THEN Unsatisfiable
         ELSE Partial(Max({0, len - range.to}), len - 1)
    ELSE IF ~U64(range.from) THEN Full
         ELSE IF range.from >= len THEN Unsatisfiable
         ELSE IF range.to = Blank THEN Partial(range.from, len - 1)
         ELSE IF ~U64(range.to) THEN Full
         ELSE IF range.to < range.from THEN Unsatisfiable
         ELSE Partial(range.from, Min({range.to, len - 1}))
------------------------------------------------------------------------------
AskInit == asked = [kind |-> "nothing"] /\ answer = NoAnswer

\* Two names of one directory or archive are sorted.
AskOrder(a, b) ==
    /\ asked' = [kind |-> "order", a |-> a, b |-> b]
    /\ answer' = [byName |-> Compare(a, b), byKey |-> Collate(Key(a), Key(b))]

AskSearch(q, name) ==
    /\ asked' = [kind |-> "search", query |-> q, name |-> name]
    /\ answer' = [found |-> Finds(q, name)]

\* What reaches the program of the lines a client sent.  Each proxy on the way
\* adds the address it was reached from, either behind all there is, in one line,
\* or in a line of its own; joined is the last one that did the former, or 0.
Forwarded(forged, way, joined) ==
    (IF joined = 0 THEN forged ELSE <<FlattenSeq(forged) \o SubSeq(way, 1, joined)>>)
        \o [i \in 1..(Len(way) - 1 - joined) |-> <<way[joined + i]>>]

AskFrom(client, forged, proxies, joined) ==
    LET way == <<client>> \o proxies
    IN  /\ asked' = [kind |-> "from", client |-> client, forged |-> forged,
                      proxies |-> proxies, joined |-> joined]
        /\ answer' = [address |-> ClientIp(Last(way), Forwarded(forged, way, joined))]

AskPage(tokens, cli) ==
    /\ asked' = [kind |-> "page", tokens |-> tokens, cli |-> cli]
    /\ answer' = [width |-> PageWidth(tokens, cli)]

AskRange(range, len) ==
    /\ asked' = [kind |-> "range", range |-> range, len |-> len]
    /\ answer' = ParseRange(range, len)

\* A page of the book that was scanned in file, when now is in its place.
AskLeaf(file, now, n, oneBased) ==
    /\ Opened(file) # Broken
    /\ asked' = [kind |-> "leaf", file |-> file, now |-> now, n |-> n, oneBased |-> oneBased]
    /\ answer' = BookPage(file, now, n, oneBased)

Ask ==
    \/ \E a, b \in NameSet : AskOrder(a, b)
    \/ \E q \in QuerySet, name \in NameSet : AskSearch(q, name)
    \/ \E client \in Addresses \ Trusted,
          forged \in BoundedSeq(BoundedSeq(Hops, MaxHops), MaxLines),
          proxies \in BoundedSeq(Trusted, MaxHops) :
             \E joined \in 0..Len(proxies) : AskFrom(client, forged, proxies, joined)
    \/ \E tokens \in BoundedSeq(PreferTokens, 3), cli \in Widths \cap 0..MaxU32 :
          AskPage(tokens, cli)
    \/ \E file, now \in Files, n \in PageNumbers, oneBased \in BOOLEAN :
          AskLeaf(file, now, n, oneBased)
    \/ \E range \in RangeHeaders, len \in Lengths : AskRange(range, len)

AskSpec == AskInit /\ [][asked.kind = "nothing" /\ Ask]_asking
------------------------------------------------------------------------------
CompareTable == [a \in NameSet |-> [b \in NameSet |-> Compare(a, b)]]

(* sort_by needs an order: natsort::cmp is antisymmetric, transitive and    *)
(* calls every name equal to itself, for numbers too large for a u128, for  *)
(* leading zeros and for either case (natsort.rs:51).                       *)
NamesAreOrdered ==
    asked.kind = "order" =>
        LET ab == answer.byName
        IN  /\ CompareTable[asked.b][asked.a] = -ab
            /\ \A c \in NameSet :
                  (ab <= 0 /\ CompareTable[asked.b][c] <= 0) =>
                      /\ CompareTable[asked.a][c] <= 0
                      /\ CompareTable[asked.a][c] = 0 => ab = 0

\* Every number in the name has at most as many digits as a key has for it.
ShortNumbers(s) ==
    \A i \in 1..Len(s) : \E j \in i..(i + PadWidth) : j > Len(s) \/ ~IsDigit(s[j])

(* Feeds, sorted by the stored keys, list names as natsort::cmp orders      *)
(* them, if no number is longer than a key's padding.                       *)
KeysFollowNames ==
    (asked.kind = "order" /\ ShortNumbers(asked.a) /\ ShortNumbers(asked.b)) =>
        answer.byKey = answer.byName

\* The characters of q other than stars are found in name, in this order and
\* side by side where no star is between them.
Embeds(q, name) ==
    LET I == {i \in 1..Len(q) : q[i] # Star}
    IN  \E at \in [I -> 1..Len(name)] :
            /\ \A i \in I : Lower[q[i]] = Lower[name[at[i]]]
            /\ \A i, j \in I : i < j =>
                  IF j = i + 1 THEN at[j] = at[i] + 1 ELSE at[i] < at[j]

(* A search finds the names that hold the typed text, each * standing for   *)
(* anything and every other character, % _ and \ too, for itself.           *)
SearchIsLiteral ==
    asked.kind = "search" =>
        answer.found = (asked.query # <<>> /\ Embeds(asked.query, asked.name))

\* A line that the client sent cannot be read.
Unreadable(forged) == \E i \in DOMAIN forged : Opaque \in ToSet(forged[i])

(* If one of the trusted proxies joins what it adds to what the client sent *)
(* in one line, or the client sent nothing, the limiter's address is the    *)
(* client's, however many proxies add lines after that.  A forged line can  *)
(* do no more than make the line unreadable: then all who come through the  *)
(* last proxy are one address, that of the proxy, and none is a forged one. *)
ForgedHopsDoNotCount ==
    (asked.kind = "from" /\ (asked.joined > 0 \/ asked.forged = <<>> \/ asked.proxies = <<>>))
        => answer.address = IF Unreadable(asked.forged) /\ asked.proxies # <<>>
                            THEN Last(asked.proxies) ELSE asked.client

(* A page thumbnail has one of the few widths, the smallest that is not     *)
(* narrower than what was asked for; without a width in the request it is   *)
(* the file that prewarm writes (main.rs:175).                              *)
WidthsMeet ==
    asked.kind = "page" =>
        LET stated == Stated(asked.tokens)
            width  == answer.width
        IN  IF Thumbnail \notin ToSet(asked.tokens) THEN width = NoAnswer
            ELSE /\ width \in Ladder
                 /\ IF stated = {} THEN width = DefaultWidth(asked.cli)
                    ELSE LET w == asked.tokens[Max(stated)][2]
                         IN  \A r \in Ladder : IF r < width THEN r < w
                                               ELSE width >= w \/ r = width

\* How many pages of file belong before leaf, and how many not after it.
Before(file, leaf) ==
    Cardinality({x \in ToSet(Images(file)) : Compare(x.name, leaf.name) = -1})
NotAfter(file, leaf) ==
    Cardinality({x \in ToSet(Images(file)) : Compare(x.name, leaf.name) # 1})

(* The pages of a book are the images in its archive, each under one number *)
(* from 0, or from 1, and in natural order; a page is never larger than the *)
(* cap, whatever it declares.  If the archive has been replaced, a number   *)
(* leads to a page of the name it had, or to none.                          *)
PagesAreTheImages ==
    asked.kind = "leaf" =>
        LET file   == asked.file
            images == ToSet(Images(file))
            first  == IF asked.oneBased THEN 1 ELSE 0
            last   == first + Cardinality(images) - 1
        IN  /\ answer.status = 404 <=> asked.n \notin first..last
            /\ answer.status = 200 =>
                  /\ answer.leaf \in ToSet(Images(asked.now))
                  /\ answer.leaf.actual <= MaxPageBytes
                  /\ \E leaf \in images :
                        /\ leaf.name = answer.leaf.name
                        /\ Before(file, leaf) <= asked.n - first
                        /\ asked.n - first < NotAfter(file, leaf)
            /\ asked.now = file => \A leaf \in images :
                  \E n \in first..last :
                     IF leaf.actual > MaxPageBytes
                     THEN BookPage(file, file, n, asked.oneBased) = [status |-> 500]
                     ELSE BookPage(file, file, n, asked.oneBased)
                              = [status |-> 200, leaf |-> leaf]

\* The bytes of a file of length len that a well-formed header names.
Wanted(range, len) ==
    {i \in 0..(len - 1) :
        IF range.from = Blank THEN i >= len - range.to
        ELSE i >= range.from /\ (range.to = Blank \/ i <= range.to)}

WellFormed(range) ==
    /\ range # NoAnswer
    /\ range.from = Blank => U64(range.to)
    /\ range.from # Blank => U64(range.from)
    /\ range.to = Blank \/ U64(range.to)

(* A range is answered with the bytes it names, none but those, and a 416   *)
(* exactly if the file has none of them; a header that is none of this is   *)
(* answered with the file, unless it has a start at or beyond the end of    *)
(* the file: what becomes of it then is MalformedIsIgnored.                 *)
RangeIsRight ==
    asked.kind = "range" =>
        LET range == asked.range
            beyond == range # NoAnswer /\ U64(range.from) /\ range.from >= asked.len
        IN  /\ WellFormed(range) =>
                  IF Wanted(range, asked.len) = {} THEN answer = Unsatisfiable
                  ELSE /\ answer.kind = "partial"
                       /\ answer.start..answer.end = Wanted(range, asked.len)
            /\ ~WellFormed(range) /\ ~beyond => answer = Full

(* routes.rs:506: "Malformed values are ignored the same way rather than    *)
(* rejected."  So the answer to a malformed header is the whole file.       *)
MalformedIsIgnored ==
    (asked.kind = "range" /\ ~WellFormed(asked.range)) => answer = Full
==============================================================================
