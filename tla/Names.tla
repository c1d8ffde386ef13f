------------------------------- MODULE Names ----------------------------------
(***************************************************************************)
(* Names of folders, books and pages: natural sort (natsort.rs) and search *)
(* (search.rs).  A name is a sequence of characters, a character a number. *)
(* Archive entries and the walker's entries are sorted by Compare, rows of *)
(* the database by the keys that were stored with them.                    *)
(***************************************************************************)
EXTENDS Integers, SequencesExt

CONSTANTS
    NameSet,     \* the names there may be
    QuerySet,    \* what may be typed into a search
    Zero,        \* the character '0'; the digits are Zero..Zero + 9
    Lower,       \* to_ascii_lowercase, a function on characters
    Star, Percent, Underscore, Backslash,    \* the characters * % _ \
    PadWidth,    \* digits a key has for a number (20 in natsort.rs:64)
    MaxNumber    \* u128::MAX

Characters == DOMAIN Lower

ASSUME CharacterAssumption ==
    /\ Characters \subseteq Nat /\ Zero \in Nat
    /\ \A c \in Characters : Lower[c] \in Characters /\ Lower[Lower[c]] = Lower[c]
    /\ \A c \in Characters : c \in Zero..(Zero + 9) \/ Lower[c] \in Zero..(Zero + 9)
                                => Lower[c] = c
    /\ {Star, Percent, Underscore, Backslash} \subseteq Characters
    /\ Star \notin {Percent, Underscore, Backslash}
    /\ Percent \notin {Underscore, Backslash} /\ Underscore # Backslash
    /\ NameSet \cup QuerySet \subseteq Seq(Characters)

\* Powers of ten: a padded number fits take_number's integer.
Power[k \in 0..PadWidth] == IF k = 0 THEN 1 ELSE 10 * Power[k - 1]

ASSUME NumberAssumption ==
    PadWidth \in Nat \ {0} /\ MaxNumber \in Nat /\ Power[PadWidth] - 1 <= MaxNumber

IsDigit(c) == c \in Zero..(Zero + 9)

Sign(x, y) == IF x < y THEN -1 ELSE IF x > y THEN 1 ELSE 0

Least(x, y) == IF x < y THEN x ELSE y

\* Where the run of digits that starts at i ends: the next position.
RunEnd(s, i) ==
    CHOOSE j \in i..(Len(s) + 1) :
        /\ \A k \in i..(j - 1) : IsDigit(s[k])
        /\ j = Len(s) + 1 \/ ~IsDigit(s[j])
------------------------------------------------------------------------------
(* natsort::cmp                                                             *)

\* take_number, which saturates
Number(s, i) ==
    LET value[k \in (i - 1)..Len(s)] ==
            IF k < i THEN 0
            ELSE Least(Least(value[k - 1] * 10, MaxNumber) + s[k] - Zero, MaxNumber)
    IN  value[RunEnd(s, i) - 1]

\* mutant: one of the two characters keeps its case
CompareOneCase(a, b) ==
    LET cmp[here \in (1..(Len(a) + 1)) \X (1..(Len(b) + 1))] ==
            LET i == here[1]
                j == here[2]
            IN  IF i > Len(a) \/ j > Len(b)
                THEN Sign(Len(a) - i, Len(b) - j)
                ELSE IF IsDigit(a[i]) /\ IsDigit(b[j])
                THEN IF Number(a, i) # Number(b, j) THEN Sign(Number(a, i), Number(b, j))
                     ELSE cmp[<<RunEnd(a, i), RunEnd(b, j)>>]
                ELSE IF Lower[a[i]] # b[j] THEN Sign(Lower[a[i]], b[j])
                ELSE cmp[<<i + 1, j + 1>>]
    IN  cmp[<<1, 1>>]

\* -1, 0 or 1 for Less, Equal and Greater; here is a position in each name
Compare(a, b) ==
    LET cmp[here \in (1..(Len(a) + 1)) \X (1..(Len(b) + 1))] ==
            LET i == here[1]
                j == here[2]
            IN  IF i > Len(a) \/ j > Len(b)
                THEN Sign(Len(a) - i, Len(b) - j)
                ELSE IF IsDigit(a[i]) /\ IsDigit(b[j])
                THEN IF Number(a, i) # Number(b, j) THEN Sign(Number(a, i), Number(b, j))
                     ELSE cmp[<<RunEnd(a, i), RunEnd(b, j)>>]
                ELSE IF Lower[a[i]] # Lower[b[j]] THEN Sign(Lower[a[i]], Lower[b[j]])
                ELSE cmp[<<i + 1, j + 1>>]
    IN  cmp[<<1, 1>>]
------------------------------------------------------------------------------
(* natsort::key                                                             *)

\* mutant: digits are not padded
Unpadded(digits) == digits

\* format!("{:0>20}", digits)
Padded(digits) ==
    [k \in 1..(IF Len(digits) < PadWidth THEN PadWidth - Len(digits) ELSE 0) |-> Zero]
        \o digits

Key(s) ==
    LET rest[i \in 1..(Len(s) + 1)] ==
            IF i > Len(s) THEN <<>>
            ELSE IF IsDigit(s[i])
            THEN Padded(SubSeq(s, i, RunEnd(s, i) - 1)) \o rest[RunEnd(s, i)]
            ELSE <<Lower[s[i]]>> \o rest[i + 1]
    IN  rest[1]

\* ORDER BY sort_key: SQLite compares keys character by character.
Collate(a, b) ==
    LET differ == {i \in 1..Len(a) : i > Len(b) \/ a[i] # b[i]}
    IN  IF differ = {} THEN Sign(Len(a), Len(b))
        ELSE LET i == CHOOSE k \in differ : \A m \in differ : k <= m
             IN  IF i > Len(b) THEN 1 ELSE Sign(a[i], b[i])
------------------------------------------------------------------------------
(* search.rs                                                                *)

\* mutant: the characters LIKE treats specially are not escaped
UnescapedPattern(q) ==
    <<Percent>> \o [i \in 1..Len(q) |-> IF q[i] = Star THEN Percent ELSE q[i]]
                \o <<Percent>>

\* What stands in the pattern for a character of the query.
LikeText(c) ==
    CASE c \in {Backslash, Percent, Underscore} -> <<Backslash, c>>
      [] c = Star -> <<Percent>>
      [] OTHER -> <<c>>

\* to_like_pattern
ToLikePattern(q) ==
    LET rest[i \in 1..(Len(q) + 1)] ==
            IF i > Len(q) THEN <<Percent>> ELSE LikeText(q[i]) \o rest[i + 1]
    IN  <<Percent>> \o rest[1]

\* SQLite's name LIKE pattern ESCAPE '\': does the rest of p, from the first
\* position of here, match the rest of name, from the second?
Like(p, name) ==
    LET fits[here \in (1..(Len(p) + 1)) \X (1..(Len(name) + 1))] ==
            LET i == here[1]
                j == here[2]
            IN  IF i > Len(p) THEN j > Len(name)
                ELSE CASE p[i] = Percent ->
                            \E k \in j..(Len(name) + 1) : fits[<<i + 1, k>>]
                       [] p[i] = Underscore -> j <= Len(name) /\ fits[<<i + 1, j + 1>>]
                       [] p[i] = Backslash ->
                            /\ i < Len(p) /\ j <= Len(name)
                            /\ Lower[p[i + 1]] = Lower[name[j]]
                            /\ fits[<<i + 2, j + 1>>]
                       [] OTHER ->
                            /\ j <= Len(name)
                            /\ Lower[p[i]] = Lower[name[j]]
                            /\ fits[<<i + 1, j + 1>>]
    IN  fits[<<1, 1>>]

\* run, for one name: an empty query finds nothing.
Finds(q, name) == q # <<>> /\ Like(ToLikePattern(q), name)
==============================================================================
