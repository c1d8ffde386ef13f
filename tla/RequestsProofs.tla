---------------------------- MODULE RequestsProofs -----------------------------
(***************************************************************************)
(* What TLAPS proves of Requests and Download: every answer, be it an      *)
(* order, a search, an address, a width, a page or a range, is right for   *)
(* names, archives, chains of proxies, ladders and files of every length.  *)
(***************************************************************************)
EXTENDS Download, NamesProofs, FiniteSetTheorems

------------------------------------------------------------------------------
(* Extremes of sets of numbers.                                            *)

\* A set of naturals that is not empty has its least member for minimum.
LEMMA MinOfSet ==
  ASSUME NEW S \in SUBSET Nat, S # {}
  PROVE  Min(S) \in S /\ \A x \in S : Min(S) <= x
<1>1. \E x \in S : \A y \in S : x <= y
  BY LeastOfSet
<1> QED BY <1>1, Zenon DEF Min

\* A bounded one has its greatest for maximum.
LEMMA MaxOfSet ==
  ASSUME NEW n \in Nat, NEW S \in SUBSET (0..n), S # {}
  PROVE  Max(S) \in S /\ \A x \in S : Max(S) >= x
<1>1. \E x \in S : \A y \in S : x >= y
  BY GreatestOfSet
<1> QED BY <1>1, Zenon DEF Max
------------------------------------------------------------------------------
(* Widths.                                                                 *)

\* Every rung is a width that u32 holds.
LEMMA Rungs == \A r \in Ladder : r \in Nat /\ r \in 0..MaxU32
  BY WidthAssumption, NumberFieldAssumption

\* snap_width picks a rung: the smallest that is wide enough, or the widest.
LEMMA Snapping ==
  ASSUME NEW w \in Nat
  PROVE  /\ SnapWidth(w) \in Ladder
         /\ \A r \in Ladder : r < SnapWidth(w) => r < w
         /\ SnapWidth(w) >= w \/ \A r \in Ladder : r <= SnapWidth(w) /\ r < w
<1> DEFINE wide == {r \in Ladder : r >= w}
<1>1. Ladder \in SUBSET (0..MaxU32) /\ Ladder \in SUBSET Nat /\ Ladder # {}
  BY Rungs, WidthAssumption
<1>2. CASE wide # {}
  <2>1. wide \in SUBSET Nat
    BY <1>1
  <2>2. PICK m \in wide : m = Min(wide) /\ \A r \in wide : m <= r
    <3> HIDE DEF wide
    <3> QED BY <1>2, <2>1, MinOfSet
  <2>3. SnapWidth(w) = m
    BY <1>2, <2>2 DEF SnapWidth
  <2>4. ASSUME NEW r \in Ladder, r < m PROVE r < w
    BY <1>1, <2>2, <2>4
  <2> QED BY <2>3, <2>4
<1>3. CASE wide = {}
  <2>1. SnapWidth(w) = Max(Ladder)
    BY <1>3 DEF SnapWidth
  <2>2. Max(Ladder) \in Ladder /\ \A r \in Ladder : Max(Ladder) >= r
    BY <1>1, MaxOfSet, NumberFieldAssumption
  <2>3. \A r \in Ladder : r < w
    BY <1>1, <1>3
  <2>4. \A r \in Ladder : r <= Max(Ladder)
    BY <1>1, <2>2
  <2> QED BY <2>1, <2>2, <2>3, <2>4
<1> QED BY <1>2, <1>3

\* A width that was snapped is snapped to itself, which is why the file that
\* prewarm writes is the one that is looked for.
LEMMA SnappingTwice ==
  ASSUME NEW w \in Nat
  PROVE  SnapWidth(SnapWidth(w)) = SnapWidth(w)
<1> DEFINE v == SnapWidth(w)
<1>1. v \in Ladder /\ v \in Nat
  BY Snapping, Rungs
<1>2. /\ SnapWidth(v) \in Ladder
      /\ \A r \in Ladder : r < SnapWidth(v) => r < v
      /\ SnapWidth(v) >= v \/ \A r \in Ladder : r < v
  <2> HIDE DEF v
  <2> QED BY <1>1, Snapping
<1>3. SnapWidth(v) \in Nat
  BY <1>2, Rungs
<1> QED BY <1>1, <1>2, <1>3

\* The last of the widths that can be read is one of them.
LEMMA LastStated ==
  ASSUME NEW tokens \in Seq(PreferTokens), Stated(tokens) # {}
  PROVE  Max(Stated(tokens)) \in Stated(tokens)
<1>1. Stated(tokens) \in SUBSET (0..Len(tokens)) /\ Len(tokens) \in Nat
  BY DEF Stated
<1> QED BY <1>1, MaxOfSet

\* A page's width is the snapped width of what the request says, or prewarm's.
LEMMA WidthOfPage ==
  ASSUME NEW tokens \in Seq(PreferTokens), NEW cli \in Nat,
         AskPage(tokens, cli)
  PROVE  WidthsMeet'
<1> DEFINE stated == Stated(tokens)
           w == tokens[Max(stated)][2]
<1>1. asked'.tokens = tokens /\ asked'.cli = cli /\ answer'.width = PageWidth(tokens, cli)
  BY DEF AskPage
<1>2. CASE Thumbnail \notin ToSet(tokens)
  BY <1>1, <1>2 DEF WidthsMeet, PageWidth
<1>3. CASE Thumbnail \in ToSet(tokens) /\ stated = {}
  <2>1. answer'.width = DefaultWidth(cli) /\ DefaultWidth(cli) \in Ladder
    BY <1>1, <1>3, Snapping, SnappingTwice DEF PageWidth, DefaultWidth
  <2> QED BY <1>1, <1>3, <2>1 DEF WidthsMeet
<1>4. CASE Thumbnail \in ToSet(tokens) /\ stated # {}
  <2>1. w \in Nat
    BY <1>4, LastStated DEF Stated
  <2>2. answer'.width = SnapWidth(w)
    BY <1>1, <1>4 DEF PageWidth
  <2>3. /\ answer'.width \in Ladder
        /\ \A r \in Ladder : IF r < answer'.width THEN r < w
                             ELSE answer'.width >= w \/ r = answer'.width
    <3> HIDE DEF w
    <3>1. /\ SnapWidth(w) \in Ladder /\ SnapWidth(w) \in Nat
          /\ \A r \in Ladder : r < SnapWidth(w) => r < w
          /\ SnapWidth(w) >= w \/ \A r \in Ladder : r <= SnapWidth(w)
      BY <2>1, Snapping, Rungs
    <3> QED BY <2>1, <2>2, <3>1, Rungs
  <2> QED BY <1>1, <1>4, <2>3 DEF WidthsMeet
<1> QED BY <1>2, <1>3, <1>4
------------------------------------------------------------------------------
(* The address of the client.                                              *)

\* What an append is made of.
LEMMA Appending ==
  ASSUME NEW V, NEW s \in Seq(V), NEW l \in Seq(V)
  PROVE  /\ s \o l \in Seq(V) /\ Len(s) \in Nat /\ Len(l) \in Nat
         /\ Len(s \o l) = Len(s) + Len(l)
         /\ \A n \in 1..Len(s) : (s \o l)[n] = s[n]
         /\ \A n \in 1..Len(l) : (s \o l)[Len(s) + n] = l[n]
OBVIOUS

\* Nothing before a sequence that is not empty leaves its head in front.
LEMMA NothingAppended ==
  ASSUME NEW V, NEW s \in Seq(V), Len(s) # 0
  PROVE  <<>> \o s = s /\ s # <<>> /\ Head(s) = s[1]
OBVIOUS

\* The members of a sequence are what stands at its places.
LEMMA Members ==
  ASSUME NEW V, NEW s \in Seq(V), NEW x
  PROVE  x \in ToSet(s) <=> \E i \in 1..Len(s) : s[i] = x
<1>1. DOMAIN s = 1..Len(s)
  OBVIOUS
<1>2. ToSet(s) = {s[i] : i \in 1..Len(s)}
  BY <1>1, Zenon DEF ToSet
<1> QED BY <1>2

\* What seqs holds, in one sequence.
Joins(flat, seqs) ==
  \A x : (\E n \in 1..Len(flat) : flat[n] = x)
            <=> (\E i \in 1..Len(seqs) : \E n \in 1..Len(seqs[i]) : seqs[i][n] = x)

\* up holds what is in the first i of seqs.
Flattens(up, seqs) ==
  \A i \in 1..Len(seqs) : up[i] = IF i = 1 THEN seqs[i] ELSE up[i - 1] \o seqs[i]

\* FlattenSeq is the recursion over seqs that it is written as.
LEMMA Flattened ==
  ASSUME NEW V, NEW seqs \in Seq(Seq(V)), Len(seqs) # 0
  PROVE  \E up : Flattens(up, seqs) /\ FlattenSeq(seqs) = up[Len(seqs)]
<1> DEFINE A == 1..Len(seqs)
           U == Seq(V)
           Step(f, i) == IF i = 1 THEN seqs[i] ELSE f[i - 1] \o seqs[i]
           F == [f \in [A -> U] |-> [i \in A |-> Step(f, i)]]
           m == [i \in A |-> i]
<1>0. (\E v : v = [i \in A |-> Step(v, i)]) =>
        \E v : v = [i \in A |-> Step(v, i)] /\ FlattenSeq(seqs) = v[Len(seqs)]
  BY DEF FlattenSeq
<1>1. Len(seqs) \in Nat /\ \A i \in A : seqs[i] \in U
  OBVIOUS
<1>2. m \in [A -> 0..Len(seqs)]
  BY <1>1
<1>3. ASSUME NEW i \in A, i # 1 PROVE i - 1 \in A /\ m[i - 1] < m[i]
  BY <1>1, <1>3
<1>4. Grounded(A, U, m, F)
  <2>1. \A f \in [A -> U] : \A i \in A : Step(f, i) \in U
    <3> SUFFICES ASSUME NEW f \in [A -> U], NEW i \in A PROVE Step(f, i) \in U
      OBVIOUS
    <3>1. CASE i = 1
      BY <1>1, <3>1
    <3>2. CASE i # 1
      <4>1. f[i - 1] \in Seq(V) /\ seqs[i] \in Seq(V)
        <5> HIDE DEF A, m
        <5> QED BY <1>1, <1>3, <3>2
      <4> QED BY <3>2, <4>1
    <3> QED BY <3>1, <3>2
  <2>2. F \in [[A -> U] -> [A -> U]]
    <3> HIDE DEF A, U, Step
    <3> QED BY <2>1
  <2>3. ASSUME NEW f \in [A -> U], NEW g \in [A -> U], NEW i \in A,
               \A y \in A : m[y] < m[i] => f[y] = g[y]
        PROVE  F[f][i] = F[g][i]
    <3>1. i # 1 => f[i - 1] = g[i - 1]
      <4> HIDE DEF A, U, m
      <4> QED BY <1>3, <2>3
    <3>2. Step(f, i) = Step(g, i)
      <4> HIDE DEF A, U, m
      <4> QED BY <3>1
    <3> HIDE DEF A, U, m, Step
    <3> QED BY <3>2
  <2>4. \A f, g \in [A -> U] : \A k \in A :
           (\A y \in A : m[y] < m[k] => f[y] = g[y]) => F[f][k] = F[g][k]
    <3> HIDE DEF A, U, F, m
    <3> QED BY <2>3, Zenon
  <2>5. \E N \in Nat : m \in [A -> 0..N]
    <3> HIDE DEF A, m
    <3> QED BY <1>1, <1>2, Zenon
  <2>6. U # {}
    <3>1. <<>> \in Seq(V)
      OBVIOUS
    <3> QED BY <3>1, Zenon
  <2> HIDE DEF A, U, F, m
  <2> QED BY <2>2, <2>4, <2>5, <2>6, Zenon DEF Grounded
<1>5. PICK g \in [A -> U] : F[g] = g
  <2> HIDE DEF A, U, F, m
  <2> QED BY <1>4, FixedPoint
<1>6. PICK up : up = [i \in A |-> Step(up, i)] /\ FlattenSeq(seqs) = up[Len(seqs)]
  BY <1>0, <1>5
<1>7. \A i \in A : up[i] = Step(up, i)
  <2> HIDE DEF Step, A
  <2> QED BY <1>6
<1>8. Flattens(up, seqs)
  BY <1>7 DEF Flattens
<1> QED BY <1>6, <1>8

\* FlattenSeq holds what is in any of its sequences.
LEMMA Flattening ==
  ASSUME NEW V, NEW seqs \in Seq(Seq(V))
  PROVE  FlattenSeq(seqs) \in Seq(V) /\ Joins(FlattenSeq(seqs), seqs)
<1>1. CASE Len(seqs) = 0
  <2>1. seqs = <<>> /\ FlattenSeq(seqs) = <<>>
    BY <1>1 DEF FlattenSeq
  <2>2. \A n : n \notin 1..Len(seqs)
    BY <1>1
  <2>3. Joins(seqs, seqs)
    BY <2>2 DEF Joins
  <2>4. <<>> \in Seq(V)
    OBVIOUS
  <2> QED BY <2>1, <2>3, <2>4, Zenon
<1>2. CASE Len(seqs) # 0
  <2> DEFINE Good(flat, k) ==
               /\ flat \in Seq(V)
               /\ \A x : (\E n \in 1..Len(flat) : flat[n] = x)
                     <=> (\E i \in 1..k : \E n \in 1..Len(seqs[i]) : seqs[i][n] = x)
  <2>1. PICK up : Flattens(up, seqs) /\ FlattenSeq(seqs) = up[Len(seqs)]
    BY <1>2, Flattened
  <2>2. Len(seqs) \in Nat /\ \A i \in 1..Len(seqs) : seqs[i] \in Seq(V)
    OBVIOUS
  <2> DEFINE T == {k \in 0..Len(seqs) : k # 0 => Good(up[k], k)}
  <2>3. 0 \in T
    BY <2>2
  <2>4. ASSUME NEW k \in 1..Len(seqs), k - 1 \in T PROVE k \in T
    <3>1. k \in 0..Len(seqs) /\ k \in Nat /\ seqs[k] \in Seq(V)
          /\ up[k] = IF k = 1 THEN seqs[k] ELSE up[k - 1] \o seqs[k]
      BY <2>1, <2>2 DEF Flattens
    <3>2. CASE k = 1
      <4>1. 1..k = {k}
        BY <3>2
      <4>2. PICK flat : flat = up[k]
        OBVIOUS
      <4>3. Good(flat, k)
        BY <3>1, <3>2, <4>1, <4>2
      <4> HIDE DEF Good
      <4> QED BY <3>1, <4>2, <4>3
    <3>3. CASE k # 1
      <4>1. PICK s : s = up[k - 1]
        OBVIOUS
      <4>2. PICK t : t = up[k]
        OBVIOUS
      <4>3. PICK l : l = seqs[k]
        OBVIOUS
      <4>4. Good(s, k - 1) /\ t = s \o l /\ s \in Seq(V) /\ l \in Seq(V)
        <5>1. k - 1 # 0
          BY <3>1, <3>3
        <5>2. Good(up[k - 1], k - 1)
          <6> HIDE DEF Good
          <6> QED BY <2>4, <5>1
        <5> QED BY <3>1, <3>3, <4>1, <4>2, <4>3, <5>2
      <4>5. /\ t \in Seq(V) /\ Len(s) \in Nat /\ Len(l) \in Nat /\ Len(t) = Len(s) + Len(l)
            /\ \A n \in 1..Len(s) : t[n] = s[n]
            /\ \A n \in 1..Len(l) : t[Len(s) + n] = l[n]
        BY <4>4
      <4>6. 1..k = 1..(k - 1) \cup {k} /\ k \notin 1..(k - 1)
        BY <3>1
      <4>7. ASSUME NEW x
            PROVE  (\E n \in 1..Len(t) : t[n] = x)
                      <=> (\E i \in 1..k : \E n \in 1..Len(seqs[i]) : seqs[i][n] = x)
        <5>1. (\E n \in 1..Len(t) : t[n] = x)
                <=> (\E n \in 1..Len(s) : s[n] = x) \/ (\E n \in 1..Len(l) : l[n] = x)
          <6>1. ASSUME NEW n \in 1..Len(t)
                PROVE  n \in 1..Len(s) \/ \E j \in 1..Len(l) : n = Len(s) + j
            <7>1. n \notin 1..Len(s) => n - Len(s) \in 1..Len(l) /\ n = Len(s) + (n - Len(s))
              BY <4>5
            <7> QED BY <7>1
          <6>2. \A n \in 1..Len(s) : n \in 1..Len(t)
            BY <4>5
          <6>3. \A n \in 1..Len(l) : Len(s) + n \in 1..Len(t)
            BY <4>5
          <6>4. ASSUME \E n \in 1..Len(t) : t[n] = x
                PROVE  (\E n \in 1..Len(s) : s[n] = x) \/ (\E n \in 1..Len(l) : l[n] = x)
            <7>1. PICK n \in 1..Len(t) : t[n] = x
              BY <6>4
            <7>2. CASE n \in 1..Len(s)
              BY <4>5, <7>1, <7>2
            <7>3. CASE \E j \in 1..Len(l) : n = Len(s) + j
              BY <4>5, <7>1, <7>3
            <7> QED BY <6>1, <7>2, <7>3
          <6>5. ASSUME NEW n \in 1..Len(s), s[n] = x PROVE \E i \in 1..Len(t) : t[i] = x
            BY <4>5, <6>2, <6>5
          <6>6. ASSUME NEW n \in 1..Len(l), l[n] = x PROVE \E i \in 1..Len(t) : t[i] = x
            BY <4>5, <6>3, <6>6
          <6> QED BY <6>4, <6>5, <6>6
        <5>2. (\E n \in 1..Len(s) : s[n] = x)
                <=> (\E i \in 1..(k - 1) : \E n \in 1..Len(seqs[i]) : seqs[i][n] = x)
          BY <4>4
        <5>3. (\E i \in 1..k : \E n \in 1..Len(seqs[i]) : seqs[i][n] = x)
                <=> \/ \E i \in 1..(k - 1) : \E n \in 1..Len(seqs[i]) : seqs[i][n] = x
                    \/ \E n \in 1..Len(l) : l[n] = x
          BY <4>3, <4>6
        <5> QED BY <5>1, <5>2, <5>3
      <4>8. Good(t, k)
        BY <4>5, <4>7
      <4> HIDE DEF Good
      <4> QED BY <3>1, <4>2, <4>8
    <3> QED BY <3>2, <3>3
  <2>5. 0..Len(seqs) \subseteq T
    <3> HIDE DEF T
    <3> QED BY <2>2, <2>3, <2>4, UpwardInduction
  <2>6. Good(up[Len(seqs)], Len(seqs))
    <3>1. Len(seqs) \in 0..Len(seqs)
      BY <2>2
    <3>2. Len(seqs) \in T
      <4> HIDE DEF T
      <4> QED BY <2>5, <3>1
    <3> HIDE DEF Good
    <3> QED BY <1>2, <3>2
  <2>7. PICK flat : flat = FlattenSeq(seqs)
    OBVIOUS
  <2>8. Good(flat, Len(seqs))
    <3> HIDE DEF Good
    <3> QED BY <2>1, <2>6, <2>7
  <2>9. flat \in Seq(V) /\ Joins(flat, seqs)
    BY <2>8 DEF Joins
  <2> QED BY <2>7, <2>9
<1> QED BY <1>1, <1>2

\* The rightmost entry that is an address and not trusted is found.
LEMMA LastStranger ==
  ASSUME NEW lines, NEW hops \in Seq(Hops), ReadableHops(lines) = hops,
         NEW peer \in Trusted, NEW spot \in 1..Len(hops),
         hops[spot] \notin Trusted \cup {Junk},
         \A i \in (spot + 1)..Len(hops) : hops[i] \in Trusted
  PROVE  ClientIp(peer, lines) = hops[spot]
<1> DEFINE strangers == {i \in DOMAIN hops : hops[i] \notin Trusted \cup {Junk}}
<1>1. DOMAIN hops = 1..Len(hops) /\ Len(hops) \in Nat
  OBVIOUS
<1>2. spot \in strangers /\ \A i \in strangers : i \in Nat /\ spot >= i
  BY <1>1
<1>3. spot = CHOOSE i \in strangers : \A j \in strangers : i >= j
  <2> HIDE DEF strangers
  <2>1. \A i \in strangers : (\A j \in strangers : i >= j) => i = spot
    BY <1>1, <1>2
  <2>2. \A j \in strangers : spot >= j
    BY <1>2
  <2> QED BY <1>2, <2>1, <2>2
<1> QED BY <1>2, <1>3 DEF ClientIp

\* Without a header, or with one that cannot be read, there is the peer.
LEMMA NoHop ==
  ASSUME NEW lines, ReadableHops(lines) = <<>>, NEW peer
  PROVE  ClientIp(peer, lines) = peer
<1>1. \A i : i \notin DOMAIN ReadableHops(lines)
  <2>1. DOMAIN ReadableHops(lines) = 1..0
    OBVIOUS
  <2> QED BY <2>1
<1> QED BY <1>1 DEF ClientIp

\* The first line there is, if a proxy joins the lines.
LEMMA JoinedLine ==
  ASSUME NEW forged \in Seq(Seq(Hops)), NEW way \in Seq(Addresses),
         NEW joined \in 1..(Len(way) - 1)
  PROVE  /\ Forwarded(forged, way, joined) # <<>>
         /\ Head(Forwarded(forged, way, joined)) = FlattenSeq(forged) \o SubSeq(way, 1, joined)
<1> DEFINE line == FlattenSeq(forged) \o SubSeq(way, 1, joined)
           own == [i \in 1..(Len(way) - 1 - joined) |-> <<way[joined + i]>>]
<1>1. Len(way) \in Nat /\ Len(way) - 1 - joined \in Nat /\ joined # 0
      /\ \A i \in 1..(Len(way) - 1 - joined) : joined + i \in 1..Len(way)
  OBVIOUS
<1>2. own \in Seq(Seq(Addresses))
  BY <1>1
<1>3. FlattenSeq(forged) \in Seq(Hops) /\ SubSeq(way, 1, joined) \in Seq(Addresses)
  BY <1>1, Flattening
<1>4. line \in Seq(Hops)
  <2>1. Seq(Addresses) \subseteq Seq(Hops)
    BY DEF Hops
  <2> QED BY <1>3, <2>1
<1>5. Forwarded(forged, way, joined) = <<line>> \o own
  BY <1>1 DEF Forwarded
<1> HIDE DEF own, line
<1>6. own \in Seq(Seq(Hops))
  <2>1. Seq(Seq(Addresses)) \subseteq Seq(Seq(Hops))
    BY DEF Hops
  <2> QED BY <1>2, <2>1
<1>7. <<line>> \o own # <<>> /\ Head(<<line>> \o own) = line
  BY <1>4, <1>6
<1> QED BY <1>5, <1>7 DEF line

\* Behind proxies that are trusted, the last address in the first line that
\* is not a proxy's is the one that the first proxy saw.
LEMMA AddressOfClient ==
  ASSUME NEW client \in Addresses \ Trusted, NEW forged \in Seq(Seq(Hops)),
         NEW proxies \in Seq(Trusted), NEW joined \in 0..Len(proxies),
         joined > 0 \/ forged = <<>> \/ proxies = <<>>
  PROVE  LET way == <<client>> \o proxies
         IN  ClientIp(Last(way), Forwarded(forged, way, joined))
               = IF Unreadable(forged) /\ proxies # <<>> THEN Last(proxies) ELSE client
<1> DEFINE way == <<client>> \o proxies
           n == Len(proxies)
           lines == Forwarded(forged, way, joined)
<1>1. n \in Nat /\ Len(way) = n + 1 /\ way \in Seq(Addresses)
      /\ way[1] = client /\ \A i \in 1..n : way[i + 1] = proxies[i] /\ proxies[i] \in Trusted
  BY AddressAssumption
<1> HIDE DEF way
<1>2. Last(way) = way[n + 1]
  BY <1>1 DEF Last
<1>3. CASE n = 0
  <2>1. Last(way) = client /\ proxies = <<>>
    BY <1>1, <1>2, <1>3
  <2> QED BY <2>1 DEF ClientIp, way
<1>4. ASSUME n # 0 PROVE Last(way) = Last(proxies) /\ Last(way) \in Trusted /\ proxies # <<>>
  BY <1>1, <1>2, <1>4 DEF Last
<1>5. CASE n # 0 /\ joined > 0
  <2> DEFINE text == FlattenSeq(forged)
             sub  == SubSeq(way, 1, joined)
             hops == text \o sub
             spot == Len(text) + 1
  <2>1. text \in Seq(Hops) /\ Joins(text, forged)
    BY Flattening
  <2>2. /\ sub \in Seq(Addresses) /\ Len(sub) = joined /\ joined \in 1..n
        /\ \A i \in 1..joined : sub[i] = way[i]
    BY <1>1, <1>5
  <2>3. lines # <<>> /\ Head(lines) = hops
    BY <1>1, <2>2, JoinedLine
  <2> HIDE DEF text, sub, lines
  <2>4. sub \in Seq(Hops)
    BY <2>2 DEF Hops
  <2>5. /\ Len(text) \in Nat /\ hops \in Seq(Hops) /\ Len(hops) = Len(text) + joined
        /\ \A i \in 1..Len(text) : hops[i] = text[i]
        /\ \A i \in 1..joined : hops[Len(text) + i] = way[i]
    <3>1. /\ Len(text) \in Nat /\ hops \in Seq(Hops) /\ Len(hops) = Len(text) + Len(sub)
          /\ \A i \in 1..Len(text) : hops[i] = text[i]
          /\ \A i \in 1..Len(sub) : hops[Len(text) + i] = sub[i]
      <4>1. PICK flat : flat = hops
        OBVIOUS
      <4>2. /\ Len(text) \in Nat /\ flat \in Seq(Hops) /\ Len(flat) = Len(text) + Len(sub)
            /\ \A i \in 1..Len(text) : flat[i] = text[i]
            /\ \A i \in 1..Len(sub) : flat[Len(text) + i] = sub[i]
        BY <2>1, <2>4, <4>1, Appending
      <4> HIDE DEF hops
      <4> QED BY <4>1, <4>2
    <3> HIDE DEF hops
    <3> QED BY <2>2, <3>1
  <2> HIDE DEF hops
  <2>6. \A i \in 1..joined : way[i] \in Addresses
    BY <1>1, <2>2
  <2>7. Opaque \in ToSet(hops) <=> Unreadable(forged)
    <3>1. Opaque \in ToSet(hops) <=> \E i \in 1..Len(hops) : hops[i] = Opaque
      BY <2>5, Members, Zenon
    <3>2. Unreadable(forged) <=> \E i \in 1..Len(forged) : \E j \in 1..Len(forged[i]) :
                                    forged[i][j] = Opaque
      <4>1. DOMAIN forged = 1..Len(forged) /\ \A i \in 1..Len(forged) : forged[i] \in Seq(Hops)
        OBVIOUS
      <4>2. \A i \in 1..Len(forged) : DOMAIN forged[i] = 1..Len(forged[i])
        BY <4>1
      <4> QED BY <4>1, <4>2 DEF Unreadable, ToSet
    <3>3. (\E i \in 1..Len(hops) : hops[i] = Opaque) <=> (\E i \in 1..Len(text) : text[i] = Opaque)
      <4>1. ASSUME NEW i \in 1..Len(hops), hops[i] = Opaque PROVE i \in 1..Len(text)
        <5>1. i \notin 1..Len(text) => i - Len(text) \in 1..joined
                                       /\ i = Len(text) + (i - Len(text))
          BY <2>2, <2>5
        <5>2. i \notin 1..Len(text) => hops[i] \in Addresses
          BY <2>5, <2>6, <5>1
        <5> QED BY <4>1, <5>2, AddressAssumption
      <4>2. \A i \in 1..Len(text) : i \in 1..Len(hops)
        BY <2>2, <2>5
      <4> QED BY <2>5, <4>1, <4>2
    <3> QED BY <2>1, <3>1, <3>2, <3>3 DEF Joins
  <2>8. CASE Unreadable(forged)
    <3>1. ReadableHops(lines) = <<>>
      BY <2>3, <2>7, <2>8 DEF ReadableHops
    <3> QED BY <1>4, <1>5, <2>8, <3>1, NoHop DEF lines, way
  <2>9. CASE ~Unreadable(forged)
    <3>1. ReadableHops(lines) = hops
      BY <2>3, <2>7, <2>9 DEF ReadableHops
    <3>2. spot \in 1..Len(hops) /\ hops[spot] = client
      BY <1>1, <2>2, <2>5
    <3>3. ASSUME NEW i \in (spot + 1)..Len(hops) PROVE hops[i] \in Trusted
      <4>1. i - Len(text) \in 2..joined /\ i = Len(text) + (i - Len(text))
        BY <2>2, <2>5
      <4>2. PICK j \in 2..joined : i = Len(text) + j
        BY <4>1
      <4>3. j \in 1..joined /\ j - 1 \in 1..n /\ j = (j - 1) + 1
        BY <1>1, <2>2
      <4>4. hops[i] = way[j] /\ way[j] = proxies[j - 1] /\ proxies[j - 1] \in Trusted
        <5>1. hops[Len(text) + j] = way[j]
          BY <2>5, <4>3
        <5> QED BY <1>1, <4>2, <4>3, <5>1
      <4> QED BY <4>4
    <3>4. client \notin Trusted \cup {Junk}
      BY AddressAssumption
    <3>5. PICK at1 : at1 = spot
      OBVIOUS
    <3>6. ClientIp(Last(way), lines) = hops[at1]
      <4>1. PICK list : list = hops
        OBVIOUS
      <4>2. /\ at1 \in 1..Len(list) /\ list[at1] \notin Trusted \cup {Junk}
            /\ \A i \in (at1 + 1)..Len(list) : list[i] \in Trusted
            /\ list \in Seq(Hops) /\ ReadableHops(lines) = list
        BY <2>5, <3>1, <3>2, <3>3, <3>4, <3>5, <4>1
      <4>3. PICK peer : peer = Last(way)
        OBVIOUS
      <4>4. peer \in Trusted
        BY <1>4, <1>5, <4>3
      <4>5. ClientIp(peer, lines) = list[at1]
        BY <4>4, <4>2, LastStranger
      <4> QED BY <4>1, <4>3, <4>5
    <3> QED BY <2>9, <3>2, <3>5, <3>6 DEF lines, way
  <2> QED BY <2>8, <2>9
<1>6. CASE n # 0 /\ ~(joined > 0)
  <2>1. joined = 0 /\ forged = <<>>
    BY <1>1, <1>6
  <2> DEFINE own == [i \in 1..(Len(way) - 1 - joined) |-> <<way[joined + i]>>]
  <2>2. lines = <<>> \o own /\ own = [i \in 1..n |-> <<way[i]>>]
    BY <1>1, <2>1 DEF Forwarded
  <2>3. own \in Seq(Seq(Addresses)) /\ Len(own) = n /\ own[1] = <<client>>
    BY <1>1, <1>6, <2>2
  <2> HIDE DEF own, lines
  <2>4. lines = own /\ own # <<>> /\ Head(own) = <<client>>
    <3>1. <<>> \o own = own /\ own # <<>> /\ Head(own) = own[1]
      BY <1>6, <2>3, NothingAppended, Zenon
    <3> QED BY <2>2, <2>3, <3>1, Zenon
  <2>5. ReadableHops(lines) = <<client>>
    <3>1. ToSet(<<client>>) = {client}
      BY DEF ToSet
    <3> QED BY <2>4, <3>1, AddressAssumption DEF ReadableHops
  <2>6. PICK hops : hops = <<client>>
    OBVIOUS
  <2>7. hops \in Seq(Hops) /\ 1 \in 1..Len(hops) /\ hops[1] = client
        /\ hops[1] \notin Trusted \cup {Junk} /\ \A i \in 2..Len(hops) : hops[i] \in Trusted
    BY <2>6, AddressAssumption DEF Hops
  <2>8. PICK at1 : at1 = 1
    OBVIOUS
  <2>9. ClientIp(Last(way), lines) = hops[at1]
    <3>1. /\ at1 \in 1..Len(hops) /\ hops[at1] \notin Trusted \cup {Junk}
          /\ \A i \in (at1 + 1)..Len(hops) : hops[i] \in Trusted
      BY <2>7, <2>8
    <3>2. PICK peer : peer = Last(way)
      OBVIOUS
    <3>3. peer \in Trusted
      BY <1>4, <1>6, <3>2
    <3>4. ReadableHops(lines) = hops /\ hops \in Seq(Hops)
      BY <2>5, <2>6, <2>7
    <3>5. ClientIp(peer, lines) = hops[at1]
      BY <3>1, <3>3, <3>4, LastStranger
    <3> QED BY <3>2, <3>5
  <2>10. ~Unreadable(forged)
    BY <2>1 DEF Unreadable
  <2> QED BY <2>7, <2>8, <2>9, <2>10 DEF lines, way
<1> QED BY <1>3, <1>5, <1>6
------------------------------------------------------------------------------
(* Byte ranges.                                                            *)

\* parse_range, and the bytes a well-formed header names.
LEMMA RangeOfBytes ==
  ASSUME NEW range \in RangeHeaders, NEW len \in Lengths,
         AskRange(range, len)
  PROVE  RangeIsRight'
<1> DEFINE from == range.from
           to == range.to
<1>1. len \in Nat /\ len <= MaxU64 /\ MaxU64 \in Nat
  BY RangeAssumption, NumberFieldAssumption
<1>2. \A x, y \in Int : /\ x <= y => Min({x, y}) = x /\ Max({x, y}) = y
                        /\ x >= y => Min({x, y}) = y /\ Max({x, y}) = x
  BY DEF Min, Max
<1>3. /\ asked'.range = range /\ asked'.len = len /\ asked'.kind = "range"
      /\ answer' = ParseRange(range, len)
  BY DEF AskRange
<1>4. CASE range = NoAnswer
  BY <1>3, <1>4 DEF ParseRange, RangeIsRight, WellFormed
<1> DEFINE wanted == Wanted(range, len)
<1>5. CASE range # NoAnswer /\ from = Blank
  <2>1. ~(Blank \in 0..MaxU64) /\ range \in [from : Numbers \cup {Blank, Junk},
                                            to   : Numbers \cup {Blank, Junk}]
    BY <1>5, NumberFieldAssumption DEF RangeHeaders
  <2>2. wanted = {i \in 0..(len - 1) : i >= len - to}
    BY <1>5 DEF Wanted
  <2>3. CASE ~U64(to)
    <3>1. answer' = Full
      BY <1>3, <1>5, <2>3 DEF ParseRange
    <3> QED BY <1>3, <1>5, <2>3, <3>1 DEF RangeIsRight, WellFormed
  <2>4. CASE U64(to) /\ (to = 0 \/ len = 0)
    <3>1. answer' = Unsatisfiable
      BY <1>3, <1>5, <2>4 DEF ParseRange
    <3>2. wanted = {}
      BY <1>1, <2>2, <2>4 DEF U64
    <3> QED BY <1>3, <1>5, <2>4, <3>1, <3>2 DEF RangeIsRight, WellFormed
  <2>5. CASE U64(to) /\ to # 0 /\ len # 0
    <3> DEFINE start == Max({0, len - to})
    <3>1. answer' = Partial(start, len - 1)
      BY <1>3, <1>5, <2>5 DEF ParseRange
    <3>2. to \in Nat
      BY <1>1, <2>5 DEF U64
    <3>3. start = IF to >= len THEN 0 ELSE len - to
      <4>1. PICK d \in Int : d = len - to
        BY <1>1, <3>2
      <4>2. Max({0, d}) = IF d >= 0 THEN d ELSE 0
        BY <1>2
      <4> QED BY <1>1, <3>2, <4>1, <4>2
    <3>4. start..(len - 1) = wanted
      <4> HIDE DEF start
      <4> QED BY <1>1, <2>2, <3>2, <3>3
    <3>5. len - 1 \in wanted
      BY <1>1, <2>2, <2>5, <3>2
    <3> HIDE DEF start
    <3>6. answer'.kind = "partial" /\ answer'.start = start /\ answer'.end = len - 1
      BY <3>1 DEF Partial
    <3> QED BY <1>3, <1>5, <2>5, <3>4, <3>5, <3>6 DEF RangeIsRight, WellFormed
  <2> QED BY <2>3, <2>4, <2>5
<1>6. CASE range # NoAnswer /\ from # Blank
  <2>1. wanted = {i \in 0..(len - 1) : i >= from /\ (to = Blank \/ i <= to)}
    BY <1>6 DEF Wanted
  <2>2. CASE ~U64(from)
    <3>1. answer' = Full
      BY <1>3, <1>6, <2>2 DEF ParseRange
    <3> QED BY <1>3, <1>6, <2>2, <3>1 DEF RangeIsRight, WellFormed
  <2>3. CASE U64(from) /\ from >= len
    <3>1. answer' = Unsatisfiable
      BY <1>3, <1>6, <2>3 DEF ParseRange
    <3>2. wanted = {}
      BY <1>1, <2>1, <2>3 DEF U64
    <3> QED BY <1>3, <1>6, <2>3, <3>1, <3>2 DEF RangeIsRight, WellFormed
  <2>4. CASE U64(from) /\ ~(from >= len) /\ to = Blank
    <3>1. answer' = Partial(from, len - 1)
      BY <1>3, <1>6, <2>4 DEF ParseRange
    <3>2. from..(len - 1) = wanted /\ from \in wanted
      BY <1>1, <2>1, <2>4 DEF U64
    <3>3. answer'.kind = "partial" /\ answer'.start = from /\ answer'.end = len - 1
      BY <3>1 DEF Partial
    <3> QED BY <1>3, <1>6, <2>4, <3>2, <3>3 DEF RangeIsRight, WellFormed
  <2>5. CASE U64(from) /\ ~(from >= len) /\ to # Blank /\ ~U64(to)
    <3>1. answer' = Full
      BY <1>3, <1>6, <2>5 DEF ParseRange
    <3> QED BY <1>3, <1>6, <2>5, <3>1 DEF RangeIsRight, WellFormed
  <2>6. CASE U64(from) /\ ~(from >= len) /\ to # Blank /\ U64(to) /\ to < from
    <3>1. answer' = Unsatisfiable
      BY <1>3, <1>6, <2>6 DEF ParseRange
    <3>2. wanted = {}
      BY <1>1, <2>1, <2>6 DEF U64
    <3> QED BY <1>3, <1>6, <2>6, <3>1, <3>2 DEF RangeIsRight, WellFormed
  <2>7. CASE U64(from) /\ ~(from >= len) /\ to # Blank /\ U64(to) /\ ~(to < from)
    <3> DEFINE end == Min({to, len - 1})
    <3>1. answer' = Partial(from, end)
      BY <1>3, <1>6, <2>7 DEF ParseRange
    <3>2. to \in Nat /\ from \in Nat
      BY <1>1, <2>7 DEF U64
    <3>3. end = IF to >= len THEN len - 1 ELSE to
      BY <1>1, <1>2, <3>2
    <3> HIDE DEF end
    <3>4. from..end = wanted
      BY <1>1, <2>1, <2>7, <3>2, <3>3
    <3>5. from \in wanted
      BY <1>1, <2>1, <2>7, <3>2
    <3>6. answer'.kind = "partial" /\ answer'.start = from /\ answer'.end = end
      BY <3>1 DEF Partial
    <3> QED BY <1>3, <1>6, <2>7, <3>4, <3>5, <3>6 DEF RangeIsRight, WellFormed
  <2> QED BY <2>2, <2>3, <2>4, <2>5, <2>6, <2>7
<1> QED BY <1>4, <1>5, <1>6
------------------------------------------------------------------------------
(* The order of names.                                                     *)

\* Names are texts.
LEMMA NamesAreNames == \A s \in NameSet \cup QuerySet : s \in Seq(Characters)
  BY CharacterAssumption

\* The answer to two names is an order's.
LEMMA OrderOfNames ==
  ASSUME NEW a \in NameSet, NEW b \in NameSet, AskOrder(a, b)
  PROVE  NamesAreOrdered'
<1>1. asked'.a = a /\ asked'.b = b /\ answer'.byName = Compare(a, b)
  BY DEF AskOrder
<1>2. \A x, y \in NameSet : CompareTable[x][y] = Compare(x, y)
  BY DEF CompareTable
<1>3. \A x \in NameSet : x \in Seq(Characters)
  BY NamesAreNames
<1>4. CompareTable[b][a] = -Compare(a, b)
  BY <1>2, <1>3, CompareMirrored
<1>5. ASSUME NEW c \in NameSet, Compare(a, b) <= 0, CompareTable[b][c] <= 0
      PROVE  /\ CompareTable[a][c] <= 0
             /\ CompareTable[a][c] = 0 => Compare(a, b) = 0
  <2>1. CompareTable[b][c] = Compare(b, c) /\ CompareTable[a][c] = Compare(a, c)
    BY <1>2
  <2> QED BY <1>3, <1>5, <2>1, CompareTransitive
<1>6. NamesAreOrdered' = (asked'.kind = "order" =>
        /\ CompareTable[asked'.b][asked'.a] = -(answer'.byName)
        /\ \A c \in NameSet :
              (answer'.byName <= 0 /\ CompareTable[asked'.b][c] <= 0) =>
                 /\ CompareTable[asked'.a][c] <= 0
                 /\ CompareTable[asked'.a][c] = 0 => answer'.byName = 0)
  BY DEF NamesAreOrdered, CompareTable
<1> QED BY <1>1, <1>4, <1>5, <1>6

\* A name of short numbers is one in which no run of digits is too long.
LEMMA ShortOnes ==
  ASSUME NEW s \in Seq(Characters), ShortNumbers(s)
  PROVE  Short(s)
<1>1. Len(s) \in Nat /\ PadWidth \in Nat
  BY NumberAssumption
<1>2. ASSUME NEW i \in 1..Len(s) PROVE RunEnd(s, i) <= i + PadWidth
  <2>1. PICK j \in i..(i + PadWidth) : j > Len(s) \/ ~IsDigit(s[j])
    BY DEF ShortNumbers
  <2>2. /\ RunEnd(s, i) \in i..(Len(s) + 1)
        /\ \A k \in i..(RunEnd(s, i) - 1) : IsDigit(s[k])
    BY <1>1, RunEnds
  <2>3. RunEnd(s, i) <= j
    BY <1>1, <2>1, <2>2
  <2> QED BY <1>1, <2>2, <2>3
<1> QED BY <1>1, <1>2 DEF Short

\* The keys of two names answer as the names do.
LEMMA KeysOfNames ==
  ASSUME NEW a \in NameSet, NEW b \in NameSet, AskOrder(a, b)
  PROVE  KeysFollowNames'
<1>1. /\ asked'.a = a /\ asked'.b = b /\ answer'.byName = Compare(a, b)
      /\ answer'.byKey = Collate(Key(a), Key(b))
  BY DEF AskOrder
<1>2. ShortNumbers(a) /\ ShortNumbers(b) => Collate(Key(a), Key(b)) = Compare(a, b)
  BY NamesAreNames, ShortOnes, KeyOrder
<1> QED BY <1>1, <1>2 DEF KeysFollowNames

\* Embeds is about the characters that Kept holds from the start.
LEMMA EmbedsIsLaid ==
  ASSUME NEW q \in Seq(Characters), NEW name \in Seq(Characters)
  PROVE  Embeds(q, name) <=> \E f : Laid(f, q, name, 1, 1)
<1>1. {i \in 1..Len(q) : q[i] # Star} = Kept(q, 1)
  BY DEF Kept
<1> QED BY <1>1 DEF Embeds, Laid

\* A search answers whether the name holds the text.
LEMMA NameOfSearch ==
  ASSUME NEW q \in QuerySet, NEW name \in NameSet, AskSearch(q, name)
  PROVE  SearchIsLiteral'
<1>1. asked'.query = q /\ asked'.name = name /\ answer'.found = Finds(q, name)
  BY DEF AskSearch
<1>2. Like(ToLikePattern(q), name) <=> Embeds(q, name)
  BY NamesAreNames, LikeIsLiteral, EmbedsIsLaid
<1>3. Finds(q, name) = (q # <<>> /\ Embeds(q, name))
  BY <1>2 DEF Finds
<1>4. SearchIsLiteral' = (asked'.kind = "search" =>
        answer'.found = (asked'.query # <<>> /\ Embeds(asked'.query, asked'.name)))
  BY DEF SearchIsLiteral, Embeds
<1> QED BY <1>1, <1>3, <1>4
------------------------------------------------------------------------------
(* The pages of a book.                                                    *)

\* The names of leaves are texts.
LEMMA LeafTypes ==
  ASSUME NEW x \in Leaves
  PROVE  /\ x.name \in Seq(Characters) /\ x.image \in BOOLEAN
         /\ x.declared \in Nat /\ x.actual \in Nat
<1>1. x \in [name : NameSet, image : BOOLEAN, declared : Nat, actual : Nat]
  BY LeafAssumption
<1> QED BY <1>1, NamesAreNames

\* What goes before what goes before a leaf goes before it; of two leaves one
\* goes before the other.
LEMMA EarlierIsAnOrder ==
  ASSUME NEW s \in Seq(Leaves), NEW i \in DOMAIN s, NEW j \in DOMAIN s
  PROVE  /\ i \notin Earlier(s, i)
         /\ i # j => i \in Earlier(s, j) \/ j \in Earlier(s, i)
         /\ i \in Earlier(s, j) => Earlier(s, i) \subseteq Earlier(s, j)
<1> DEFINE C(x, y) == Compare(s[x].name, s[y].name)
<1>1. DOMAIN s = 1..Len(s) /\ DOMAIN s \subseteq Nat
  OBVIOUS
<1>2. \A x \in DOMAIN s : s[x].name \in Seq(Characters)
  BY LeafTypes
<1>3. \A x, y \in DOMAIN s : C(x, y) \in {-1, 0, 1} /\ C(y, x) = -C(x, y)
  BY <1>2, CompareMirrored
<1>4. \A x, y, z \in DOMAIN s :
         C(x, y) <= 0 /\ C(y, z) <= 0 => C(x, z) <= 0 /\ (C(x, z) = 0 => C(x, y) = 0)
  BY <1>2, CompareTransitive
<1>5. \A x, y \in DOMAIN s : x \in Earlier(s, y) <=> (C(x, y) < 0 \/ (C(x, y) = 0 /\ x < y))
  BY DEF Earlier
<1> HIDE DEF C
<1>6. i \notin Earlier(s, i)
  BY <1>1, <1>3, <1>5
<1>7. i # j => i \in Earlier(s, j) \/ j \in Earlier(s, i)
  BY <1>1, <1>3, <1>5
<1>8. ASSUME i \in Earlier(s, j), NEW x \in Earlier(s, i) PROVE x \in Earlier(s, j)
  <2>1. x \in DOMAIN s
    BY DEF Earlier
  <2>2. C(x, i) <= 0 /\ C(i, j) <= 0 /\ C(x, j) <= 0
    BY <1>3, <1>4, <1>5, <1>8, <2>1
  <2>3. CASE C(x, j) < 0
    BY <1>5, <2>1, <2>3
  <2>4. CASE C(x, j) = 0
    <3>1. C(x, i) = 0 /\ C(j, x) = 0
      BY <1>3, <1>4, <2>1, <2>2, <2>4
    <3>2. C(j, i) <= 0
      BY <1>4, <2>1, <3>1
    <3>3. C(i, j) = 0
      BY <1>3, <2>2, <3>2
    <3> QED BY <1>1, <1>5, <1>8, <2>1, <2>4, <3>1, <3>3
  <2> QED BY <1>3, <2>1, <2>2, <2>3, <2>4
<1> QED BY <1>6, <1>7, <1>8

\* Fewer leaves go before a leaf than there are.
LEMMA EarlierCounts ==
  ASSUME NEW s \in Seq(Leaves), NEW i \in DOMAIN s
  PROVE  /\ IsFiniteSet(Earlier(s, i))
         /\ Cardinality(Earlier(s, i)) \in 0..(Len(s) - 1)
<1>1. Len(s) \in Nat /\ DOMAIN s = 1..Len(s) /\ i \in 1..Len(s)
  OBVIOUS
<1>2. IsFiniteSet(DOMAIN s) /\ Cardinality(DOMAIN s) = Len(s)
  <2>1. PICK n \in Nat : n = Len(s)
    BY <1>1
  <2>2. IsFiniteSet(1..n) /\ Cardinality(1..n) = IF 1 > n THEN 0 ELSE n - 1 + 1
    BY FS_Interval
  <2>3. Cardinality(1..n) = n
    BY <2>2
  <2> QED BY <1>1, <2>1, <2>2, <2>3
<1>3. Earlier(s, i) \in SUBSET (DOMAIN s) /\ Earlier(s, i) # DOMAIN s
  BY EarlierIsAnOrder DEF Earlier
<1>4. /\ IsFiniteSet(Earlier(s, i)) /\ Cardinality(Earlier(s, i)) <= Len(s)
      /\ Cardinality(Earlier(s, i)) # Len(s)
  BY <1>2, <1>3, FS_Subset
<1>5. Cardinality(Earlier(s, i)) \in Nat
  BY <1>4, FS_CardinalityType
<1> QED BY <1>1, <1>4, <1>5

\* Sorting gives each leaf a place of its own.
LEMMA Sorting ==
  ASSUME NEW s \in Seq(Leaves)
  PROVE  /\ Len(Sorted(s)) = Len(s) /\ DOMAIN Sorted(s) = 1..Len(s)
         /\ \A k \in 1..Len(s) : \E i \in 1..Len(s) :
               Sorted(s)[k] = s[i] /\ Cardinality(Earlier(s, i)) = k - 1
         /\ \A i \in 1..Len(s) : \E k \in 1..Len(s) : Sorted(s)[k] = s[i]
<1> DEFINE D == DOMAIN s
           R == [i \in D |-> 1 + Cardinality(Earlier(s, i))]
<1>1. Len(s) \in Nat /\ D = 1..Len(s)
  OBVIOUS
<1>2. \A i \in D : R[i] \in D /\ R[i] = 1 + Cardinality(Earlier(s, i))
                   /\ Cardinality(Earlier(s, i)) = R[i] - 1
  BY <1>1, EarlierCounts
<1>3. ASSUME NEW i \in D, NEW j \in D, i # j, R[i] = R[j] PROVE FALSE
  <2>1. ASSUME NEW x \in D, NEW y \in D, x \in Earlier(s, y) PROVE R[x] # R[y]
    <3>1. Earlier(s, x) \in SUBSET Earlier(s, y) /\ Earlier(s, x) # Earlier(s, y)
      BY <2>1, EarlierIsAnOrder
    <3>2. IsFiniteSet(Earlier(s, y))
      BY EarlierCounts
    <3>3. Cardinality(Earlier(s, x)) # Cardinality(Earlier(s, y))
      BY <3>1, <3>2, FS_Subset
    <3> HIDE DEF R
    <3> QED BY <1>2, <3>3
  <2> HIDE DEF R, D
  <2>2. i \in Earlier(s, j) \/ j \in Earlier(s, i)
    BY <1>3, EarlierIsAnOrder DEF D
  <2> QED BY <1>3, <2>1, <2>2
<1>4. R \in [D -> D]
  BY <1>2
<1>5. R \in Injection(D, D)
  <2> HIDE DEF R, D
  <2> QED BY <1>3, <1>4 DEF Injection, IsInjective
<1>6. IsFiniteSet(D)
  BY <1>1, FS_Interval
<1>7. R \in Surjection(D, D)
  <2> HIDE DEF R, D
  <2> QED BY <1>5, <1>6, FS_Injection
<1>8. \A k \in D : \E i \in D : R[i] = k
  <2> HIDE DEF R, D
  <2> QED BY <1>7 DEF Surjection
<1>9. ASSUME NEW k \in D
      PROVE  \E i \in D : R[i] = k /\ Sorted(s)[k] = s[i]
  <2>1. PICK i \in D : i = CHOOSE x \in D : 1 + Cardinality(Earlier(s, x)) = k
    <3>1. \E x \in D : 1 + Cardinality(Earlier(s, x)) = k
      <4> HIDE DEF R, D
      <4> QED BY <1>2, <1>8
    <3> HIDE DEF R, D
    <3> QED BY <3>1
  <2>2. 1 + Cardinality(Earlier(s, i)) = k
    <3>1. \E x \in D : 1 + Cardinality(Earlier(s, x)) = k
      <4> HIDE DEF R, D
      <4> QED BY <1>2, <1>8
    <3> HIDE DEF R, D
    <3> QED BY <2>1, <3>1
  <2>3. Sorted(s)[k] = s[i]
    BY <2>1 DEF Sorted
  <2> HIDE DEF R
  <2> QED BY <1>2, <2>2, <2>3
<1>10. ASSUME NEW i \in D PROVE \E k \in D : Sorted(s)[k] = s[i]
  <2>1. PICK k \in D : k = R[i]
    <3> HIDE DEF R, D
    <3> QED BY <1>2
  <2>2. PICK x \in D : R[x] = k /\ Sorted(s)[k] = s[x]
    <3> HIDE DEF R, D
    <3> QED BY <1>9
  <2>3. x = i
    <3> HIDE DEF R, D
    <3> QED BY <1>3, <2>1, <2>2
  <2> QED BY <2>2, <2>3
<1>11. DOMAIN Sorted(s) = 1..Len(s) /\ Len(Sorted(s)) = Len(s)
  <2>1. DOMAIN Sorted(s) = 1..Len(s)
    BY <1>1 DEF Sorted
  <2> QED BY <1>1, <2>1
<1> HIDE DEF R
<1> QED BY <1>1, <1>2, <1>9, <1>10, <1>11, ZenonT(40)

\* The leaves of an archive: no two of a name.
Archive(l) ==
  /\ l \in Seq(Leaves)
  /\ \A i, j \in DOMAIN l : l[i].name = l[j].name => i = j

\* r holds the images among the first i leaves.
Gathers(r, l) ==
  /\ r[0] = <<>>
  /\ \A i \in 1..Len(l) :
       r[i] = IF l[i].image THEN Append(r[i - 1], l[i]) ELSE r[i - 1]

\* Images is the recursion over the leaves that it is written as.
LEMMA Gathering ==
  ASSUME NEW file, Archive(file.leaves)
  PROVE  \E r : Gathers(r, file.leaves) /\ Images(file) = r[Len(file.leaves)]
<1> DEFINE l == file.leaves
           A == 0..Len(l)
           V == Seq(Leaves)
           Step(f, i) == IF i = 0 THEN <<>>
                         ELSE IF l[i].image THEN Append(f[i - 1], l[i])
                         ELSE f[i - 1]
           F == [f \in [A -> V] |-> [i \in A |-> Step(f, i)]]
           m == [i \in A |-> i]
<1>0. (\E v : v = [i \in A |-> Step(v, i)]) =>
        \E v : v = [i \in A |-> Step(v, i)] /\ Images(file) = v[Len(l)]
  BY DEF Images
<1>1. l \in Seq(Leaves) /\ Len(l) \in Nat /\ \A i \in 1..Len(l) : l[i] \in Leaves
  BY DEF Archive
<1> HIDE DEF l
<1>2. m \in [A -> 0..Len(l)]
  BY <1>1
<1>3. ASSUME NEW i \in A, i # 0 PROVE i - 1 \in A /\ m[i - 1] < m[i] /\ i \in 1..Len(l)
  BY <1>1, <1>3
<1>4. Grounded(A, V, m, F)
  <2>1. \A f \in [A -> V] : \A i \in A : Step(f, i) \in V
    <3> SUFFICES ASSUME NEW f \in [A -> V], NEW i \in A PROVE Step(f, i) \in V
      OBVIOUS
    <3>1. CASE i = 0
      BY <3>1
    <3>2. CASE i # 0
      <4>1. f[i - 1] \in Seq(Leaves) /\ l[i] \in Leaves
        <5> HIDE DEF A, m
        <5> QED BY <1>1, <1>3, <3>2
      <4> QED BY <3>2, <4>1
    <3> QED BY <3>1, <3>2
  <2>2. F \in [[A -> V] -> [A -> V]]
    <3> HIDE DEF A, V, Step
    <3> QED BY <2>1
  <2>3. ASSUME NEW f \in [A -> V], NEW g \in [A -> V], NEW i \in A,
               \A y \in A : m[y] < m[i] => f[y] = g[y]
        PROVE  F[f][i] = F[g][i]
    <3>1. i # 0 => f[i - 1] = g[i - 1]
      <4> HIDE DEF A, V, m
      <4> QED BY <1>3, <2>3
    <3>2. Step(f, i) = Step(g, i)
      <4> HIDE DEF A, V, m
      <4> QED BY <3>1
    <3> HIDE DEF A, V, m, Step
    <3> QED BY <3>2
  <2>4. \A f, g \in [A -> V] : \A k \in A :
           (\A y \in A : m[y] < m[k] => f[y] = g[y]) => F[f][k] = F[g][k]
    <3> HIDE DEF A, V, F, m
    <3> QED BY <2>3, Zenon
  <2>5. \E N \in Nat : m \in [A -> 0..N]
    <3> HIDE DEF A, m
    <3> QED BY <1>1, <1>2, Zenon
  <2>6. V # {}
    <3>1. <<>> \in Seq(Leaves)
      OBVIOUS
    <3> QED BY <3>1, Zenon
  <2> HIDE DEF A, V, F, m
  <2> QED BY <2>2, <2>4, <2>5, <2>6, Zenon DEF Grounded
<1>5. PICK g \in [A -> V] : F[g] = g
  <2> HIDE DEF A, V, F, m
  <2> QED BY <1>4, FixedPoint
<1>6. PICK r : r = [i \in A |-> Step(r, i)] /\ Images(file) = r[Len(l)]
  BY <1>0, <1>5
<1>7. \A i \in A : r[i] = Step(r, i)
  <2> HIDE DEF Step, A
  <2> QED BY <1>6
<1>8. Gathers(r, l)
  <2>1. 0 \in A /\ \A i \in 1..Len(l) : i \in A /\ i # 0
    BY <1>1
  <2> HIDE DEF A
  <2> QED BY <1>7, <2>1 DEF Gathers
<1> QED BY <1>6, <1>8 DEF l

\* What the images of an archive are.
Illustrated(s, l) ==
  /\ s \in Seq(Leaves)
  /\ \A x : (\E n \in 1..Len(s) : s[n] = x) <=> (\E i \in 1..Len(l) : l[i] = x /\ x.image)
  /\ \A j, k \in 1..Len(s) : s[j].name = s[k].name => j = k

\* The images of an archive are its leaves that are images, each once.
LEMMA ImagesAreThese ==
  ASSUME NEW file, Archive(file.leaves)
  PROVE  Illustrated(Images(file), file.leaves)
<1> DEFINE l == file.leaves
           Good(s, k) ==
             /\ s \in Seq(Leaves)
             /\ \A x : (\E n \in 1..Len(s) : s[n] = x) <=> (\E i \in 1..k : l[i] = x /\ x.image)
             /\ \A i, j \in 1..Len(s) : s[i].name = s[j].name => i = j
<1>1. PICK r : Gathers(r, l) /\ Images(file) = r[Len(l)]
  BY Gathering
<1>2. /\ l \in Seq(Leaves) /\ Len(l) \in Nat /\ \A i \in 1..Len(l) : l[i] \in Leaves
      /\ \A i, j \in 1..Len(l) : l[i].name = l[j].name => i = j
  BY DEF Archive
<1> HIDE DEF l
<1> DEFINE T == {k \in 0..Len(l) : Good(r[k], k)}
<1>3. 0 \in T
  <2>1. r[0] = <<>>
    BY <1>1 DEF Gathers
  <2>2. Good(<<>>, 0)
    OBVIOUS
  <2>3. 0 \in 0..Len(l)
    BY <1>2
  <2> HIDE DEF Good
  <2> QED BY <2>1, <2>2, <2>3
<1>4. ASSUME NEW k \in 1..Len(l), k - 1 \in T PROVE k \in T
  <2>1. PICK s : s = r[k - 1]
    OBVIOUS
  <2>2. Good(s, k - 1) /\ r[k] = IF l[k].image THEN Append(s, l[k]) ELSE s
    BY <1>1, <1>4, <2>1 DEF Gathers
  <2>3. /\ k \in Nat /\ k \notin 1..(k - 1) /\ 1..k = 1..(k - 1) \cup {k}
        /\ 1..k \subseteq 1..Len(l) /\ k \in 0..Len(l)
    BY <1>2
  <2>4. CASE ~l[k].image
    <3>1. \A x : (\E i \in 1..k : l[i] = x /\ x.image) <=> (\E i \in 1..(k - 1) : l[i] = x /\ x.image)
      BY <2>3, <2>4
    <3>2. Good(s, k) /\ r[k] = s
      BY <2>2, <2>4, <3>1
    <3> QED BY <2>3, <3>2
  <2>5. CASE l[k].image
    <3>1. PICK t : t = Append(s, l[k])
      OBVIOUS
    <3>2. s \in Seq(Leaves) /\ l[k] \in Leaves
      BY <1>2, <2>2
    <3>3. /\ t \in Seq(Leaves) /\ Len(s) \in Nat /\ Len(t) = Len(s) + 1
          /\ t[Len(s) + 1] = l[k] /\ \A n \in 1..Len(s) : t[n] = s[n]
      BY <3>1, <3>2
    <3>4. 1..Len(t) = 1..Len(s) \cup {Len(s) + 1}
      BY <3>3
    <3>5. ASSUME NEW x
          PROVE  (\E n \in 1..Len(t) : t[n] = x) <=> (\E i \in 1..k : l[i] = x /\ x.image)
      <4>1. (\E n \in 1..Len(t) : t[n] = x) <=> (x = l[k] \/ \E n \in 1..Len(s) : s[n] = x)
        BY <3>3, <3>4
      <4>2. (\E i \in 1..k : l[i] = x /\ x.image)
              <=> (x = l[k] \/ \E i \in 1..(k - 1) : l[i] = x /\ x.image)
        BY <2>3, <2>5
      <4>3. (\E n \in 1..Len(s) : s[n] = x) <=> (\E i \in 1..(k - 1) : l[i] = x /\ x.image)
        BY <2>2
      <4> QED BY <4>1, <4>2, <4>3
    <3>6. ASSUME NEW i \in 1..Len(s) PROVE s[i].name # l[k].name
      <4>1. PICK j \in 1..(k - 1) : l[j] = s[i]
        BY <2>2
      <4>2. j \in 1..Len(l) /\ j # k
        BY <2>3
      <4> QED BY <1>2, <4>1, <4>2
    <3>7. \A i, j \in 1..Len(t) : t[i].name = t[j].name => i = j
      <4>1. \A i, j \in 1..Len(s) : s[i].name = s[j].name => i = j
        BY <2>2
      <4> QED BY <3>3, <3>4, <3>6, <4>1
    <3>8. Good(t, k)
      BY <3>3, <3>5, <3>7
    <3>9. r[k] = t
      BY <2>2, <2>5, <3>1
    <3> HIDE DEF Good
    <3> QED BY <2>3, <3>8, <3>9
  <2> QED BY <2>4, <2>5
<1>5. 0..Len(l) \subseteq T
  <2> HIDE DEF T
  <2> QED BY <1>2, <1>3, <1>4, UpwardInduction
<1>6. Good(r[Len(l)], Len(l))
  <2>1. Len(l) \in 0..Len(l)
    BY <1>2
  <2>2. Len(l) \in T
    <3> HIDE DEF T
    <3> QED BY <1>5, <2>1
  <2> HIDE DEF Good
  <2> QED BY <2>2
<1> QED BY <1>1, <1>6 DEF l, Illustrated

\* The leaves of s at the positions in J are counted by these.
LeavesAt(s, J) == {s[j] : j \in J}

\* There are as many of them as positions.
LEMMA CountByPosition ==
  ASSUME NEW l, NEW s, Illustrated(s, l), NEW J \in SUBSET (1..Len(s))
  PROVE  /\ IsFiniteSet(J) /\ IsFiniteSet(LeavesAt(s, J))
         /\ Cardinality(LeavesAt(s, J)) = Cardinality(J)
<1> DEFINE S == LeavesAt(s, J)
           f == [j \in J |-> s[j]]
<1>1. s \in Seq(Leaves) /\ Len(s) \in Nat
  BY DEF Illustrated
<1>2. IsFiniteSet(J)
  <2>1. IsFiniteSet(1..Len(s))
    BY <1>1, FS_Interval
  <2> QED BY <2>1, FS_Subset
<1>3. \A i, j \in J : s[i] = s[j] => i = j
  BY DEF Illustrated
<1>4. f \in Bijection(J, S)
  BY <1>3 DEF Bijection, Injection, Surjection, IsInjective, LeavesAt
<1>5. ExistsBijection(J, S)
  BY <1>4 DEF ExistsBijection
<1> HIDE DEF S
<1>6. IsFiniteSet(S) /\ Cardinality(S) = Cardinality(J)
  BY <1>2, <1>5, FS_Bijection
<1> QED BY <1>2, <1>6 DEF S

\* The set of the images is as large as the list of them.
LEMMA CountAll ==
  ASSUME NEW l, NEW s, Illustrated(s, l)
  PROVE  /\ Cardinality(ToSet(s)) = Len(s)
         /\ \A x : x \in ToSet(s) <=> \E i \in 1..Len(l) : l[i] = x /\ x.image
         /\ ToSet(s) = LeavesAt(s, 1..Len(s))
<1>1. PICK n \in Nat : n = Len(s)
  BY DEF Illustrated
<1>2. ToSet(s) = LeavesAt(s, 1..Len(s))
  BY DEF ToSet, Illustrated, LeavesAt
<1>3. Cardinality(1..n) = n
  <2>1. Cardinality(1..n) = IF 1 > n THEN 0 ELSE n - 1 + 1
    BY FS_Interval
  <2> QED BY <2>1
<1>4. Cardinality(ToSet(s)) = Len(s)
  <2>1. PICK J \in SUBSET (1..Len(s)) : J = 1..Len(s)
    OBVIOUS
  <2>2. Cardinality(LeavesAt(s, J)) = Cardinality(J)
    BY CountByPosition
  <2> QED BY <1>1, <1>2, <1>3, <2>1, <2>2
<1>5. \A x : x \in ToSet(s) <=> \E i \in 1..Len(l) : l[i] = x /\ x.image
  <2>1. \A x : x \in ToSet(s) <=> \E j \in 1..Len(s) : s[j] = x
    BY <1>2 DEF LeavesAt
  <2>2. \A x : (\E j \in 1..Len(s) : s[j] = x) <=> \E i \in 1..Len(l) : l[i] = x /\ x.image
    BY DEF Illustrated
  <2> QED BY <2>1, <2>2, Zenon
<1> QED BY <1>2, <1>4, <1>5

\* As many leaves go before the i-th as are smaller, and at most as many as
\* are not larger, without itself.
LEMMA CountEarlier ==
  ASSUME NEW file, NEW l, NEW s, s = Images(file), Illustrated(s, l), NEW i \in 1..Len(s)
  PROVE  /\ Before(file, s[i]) <= Cardinality(Earlier(s, i))
         /\ Cardinality(Earlier(s, i)) < NotAfter(file, s[i])
<1> DEFINE C(j) == Compare(s[j].name, s[i].name)
           B == {j \in 1..Len(s) : C(j) = -1}
           N == {j \in 1..Len(s) : C(j) # 1}
           E == Earlier(s, i)
<1>1. s \in Seq(Leaves) /\ Len(s) \in Nat /\ DOMAIN s = 1..Len(s)
  BY DEF Illustrated
<1>2. \A j \in 1..Len(s) : C(j) \in {-1, 0, 1}
  <2>1. \A j \in 1..Len(s) : s[j].name \in Seq(Characters)
    BY <1>1, LeafTypes
  <2> QED BY <2>1, CompareMirrored
<1>3. B \in SUBSET E /\ E \in SUBSET N /\ N \in SUBSET (1..Len(s)) /\ B \in SUBSET (1..Len(s))
  BY <1>1, <1>2 DEF Earlier
<1>4. i \in N /\ i \notin E
  <2>1. i \notin E
    BY <1>1, EarlierIsAnOrder
  <2>2. C(i) = 0
    <3>1. s[i].name \in Seq(Characters)
      BY <1>1, LeafTypes
    <3>2. C(i) \in {-1, 0, 1} /\ C(i) = -C(i)
      BY <3>1, CompareMirrored
    <3> QED BY <3>2
  <2> QED BY <2>1, <2>2
<1>5. Before(file, s[i]) = Cardinality(LeavesAt(s, B))
  <2>1. {x \in ToSet(s) : Compare(x.name, s[i].name) = -1} = LeavesAt(s, B)
    BY CountAll DEF LeavesAt
  <2> HIDE DEF B
  <2> QED BY <2>1 DEF Before
<1>6. NotAfter(file, s[i]) = Cardinality(LeavesAt(s, N))
  <2>1. {x \in ToSet(s) : Compare(x.name, s[i].name) # 1} = LeavesAt(s, N)
    BY CountAll DEF LeavesAt
  <2> HIDE DEF N
  <2> QED BY <2>1 DEF NotAfter
<1> HIDE DEF B, N, E, C
<1>7. /\ IsFiniteSet(N) /\ Cardinality(LeavesAt(s, B)) = Cardinality(B)
      /\ Cardinality(LeavesAt(s, N)) = Cardinality(N)
  <2>1. ASSUME NEW J \in SUBSET (1..Len(s))
        PROVE  IsFiniteSet(J) /\ Cardinality(LeavesAt(s, J)) = Cardinality(J)
    BY CountByPosition
  <2>2. \A J \in SUBSET (1..Len(s)) :
           IsFiniteSet(J) /\ Cardinality(LeavesAt(s, J)) = Cardinality(J)
    BY <2>1
  <2> QED BY <1>3, <2>2
<1>8. IsFiniteSet(E) /\ Cardinality(E) <= Cardinality(N) /\ Cardinality(E) # Cardinality(N)
  BY <1>3, <1>4, <1>7, FS_Subset
<1>9. Cardinality(B) <= Cardinality(E)
  BY <1>3, <1>8, FS_Subset
<1>10. Cardinality(E) \in Nat /\ Cardinality(N) \in Nat
  BY <1>7, <1>8, FS_CardinalityType
<1>11. Cardinality(E) < Cardinality(N)
  BY <1>8, <1>10
<1> QED BY <1>5, <1>6, <1>7, <1>9, <1>11 DEF E

\* What a book that can be opened is.
LEMMA Listed ==
  ASSUME NEW file \in Files, Opened(file) # Broken
  PROVE  /\ file.format \in {"zip", "rar"} /\ Archive(file.leaves)
         /\ Illustrated(Images(file), file.leaves)
         /\ Opened(file) = <<[format |-> file.format, pages |-> Sorted(Images(file))]>>
         /\ \A leaf \in ToSet(Images(file)) : leaf.declared <= MaxPageBytes
<1>1. Archive(file.leaves) /\ file.format \in {"zip", "rar", "other"}
  BY FileAssumption DEF Archive
<1>2. Illustrated(Images(file), file.leaves)
  BY <1>1, ImagesAreThese
<1>3. file.format # "other" /\ Listing(file) # Broken /\ Opened(file) = Listing(file)
  BY DEF Opened
<1>4. ~ \E leaf \in ToSet(Images(file)) : leaf.declared > MaxPageBytes
  BY <1>3 DEF Listing
<1>5. \A leaf \in ToSet(Images(file)) : leaf.declared <= MaxPageBytes
  <2> SUFFICES ASSUME NEW leaf \in ToSet(Images(file)) PROVE leaf.declared <= MaxPageBytes
    OBVIOUS
  <2>1. leaf \in Leaves
    BY <1>2, CountAll DEF Illustrated, Archive, ToSet
  <2> QED BY <1>4, <2>1, LeafAssumption
<1> QED BY <1>1, <1>2, <1>3, <1>4, <1>5 DEF Listing

\* The number of the first page, and what is read of a page by its name.
First(oneBased) == IF oneBased THEN 1 ELSE 0
Found(file, now, name) ==
  IF file.format = "zip" THEN ReadZip(now, name) ELSE ReadRar(now, name)
PageNamed(file, now, name) ==
  IF file.format # now.format \/ Found(file, now, name) = {} THEN [status |-> 500]
  ELSE [status |-> 200, leaf |-> CHOOSE leaf \in Found(file, now, name) : TRUE]

\* book_page answers 404 exactly outside the book, and reads the page whose
\* place in the order is the number that was asked for.
LEMMA Answers ==
  ASSUME NEW file \in Files, NEW now, Opened(file) # Broken,
         NEW n \in Int, NEW oneBased \in BOOLEAN
  PROVE  LET s == Images(file)
             first == First(oneBased)
         IN  BookPage(file, now, n, oneBased) =
               IF n \notin first..(first + Len(s) - 1) THEN [status |-> 404]
               ELSE PageNamed(file, now, Sorted(s)[n - first + 1].name)
<1> DEFINE s == Images(file)
           first == First(oneBased)
           handle == [format |-> file.format, pages |-> Sorted(s)]
           index == PageIndex(n, oneBased)
           name == Sorted(s)[n - first + 1].name
<1>1. Opened(file) = <<handle>> /\ Opened(file)[1] = handle
  BY Listed
<1>2. s \in Seq(Leaves) /\ Len(s) \in Nat /\ Len(handle.pages) = Len(s)
  <2>1. s \in Seq(Leaves)
    BY Listed DEF Illustrated
  <2>2. Len(Sorted(s)) = Len(s)
    BY <2>1, Sorting
  <2> QED BY <2>1, <2>2
<1>3. /\ index = n - first /\ first \in {0, 1} /\ index + 1 = n - first + 1
      /\ oneBased => first = 1
  BY DEF PageIndex, First
<1> HIDE DEF s, first, index
<1>4. (index \notin 0..(Len(s) - 1) \/ (oneBased /\ n = -MaxI64 - 1))
        <=> n \notin first..(first + Len(s) - 1)
  <2>1. index \in 0..(Len(s) - 1) <=> n \in first..(first + Len(s) - 1)
    BY <1>2, <1>3
  <2>2. n = -MaxI64 - 1 => n \notin first..(first + Len(s) - 1)
    BY <1>2, <1>3, LeafAssumption
  <2> QED BY <2>1, <2>2
<1>5. ReadLeaf(handle, now, index) =
        IF file.format # now.format \/ Found(file, now, name) = {} THEN Broken
        ELSE <<CHOOSE leaf \in Found(file, now, name) : TRUE>>
  BY <1>3 DEF ReadLeaf, Found
<1>6. BookPage(file, now, n, oneBased) =
        IF n \notin first..(first + Len(s) - 1) THEN [status |-> 404]
        ELSE IF ReadLeaf(handle, now, index) = Broken THEN [status |-> 500]
        ELSE [status |-> 200, leaf |-> ReadLeaf(handle, now, index)[1]]
  <2> HIDE DEF handle
  <2> QED BY <1>1, <1>2, <1>4 DEF BookPage, index
<1>7. \A x : <<x>> # Broken /\ <<x>>[1] = x
  BY DEF Broken
<1>8. PageNamed(file, now, name) =
        IF ReadLeaf(handle, now, index) = Broken THEN [status |-> 500]
        ELSE [status |-> 200, leaf |-> ReadLeaf(handle, now, index)[1]]
  <2> HIDE DEF handle, name
  <2> QED BY <1>5, <1>7, ZenonT(40) DEF PageNamed
<1> HIDE DEF handle
<1> QED BY <1>6, <1>8 DEF s, first

\* A page that is read is an image of the file in place, with the name of
\* the page that was meant.
LEMMA ReadIsNamed ==
  ASSUME NEW file, NEW now \in Files, NEW name, NEW leaf \in Found(file, now, name)
  PROVE  /\ leaf \in ToSet(now.leaves) /\ leaf.name = name
         /\ leaf.actual <= MaxPageBytes
  BY DEF Found, ReadZip, ReadRar

\* In the file that was scanned, the page of an image's name is the image,
\* unless it is larger than the cap.
LEMMA ReadOfImage ==
  ASSUME NEW file \in Files, Opened(file) # Broken, NEW leaf \in ToSet(Images(file))
  PROVE  PageNamed(file, file, leaf.name) =
           IF leaf.actual > MaxPageBytes THEN [status |-> 500]
           ELSE [status |-> 200, leaf |-> leaf]
<1> DEFINE l == file.leaves
           F == Found(file, file, leaf.name)
<1>1. Archive(l) /\ Illustrated(Images(file), l) /\ leaf.declared <= MaxPageBytes
  BY Listed
<1>2. PICK i \in 1..Len(l) : l[i] = leaf
  BY <1>1, CountAll
<1>3. /\ l \in Seq(Leaves) /\ DOMAIN l = 1..Len(l) /\ ToSet(l) = {l[j] : j \in 1..Len(l)}
      /\ \A j, k \in 1..Len(l) : l[j].name = l[k].name => j = k
  BY <1>1 DEF Archive, ToSet
<1> HIDE DEF l
<1>4. leaf \in Leaves /\ leaf \in ToSet(l) /\ \A x \in ToSet(l) : x.name = leaf.name => x = leaf
  BY <1>2, <1>3
<1>5. leaf.actual \in Nat /\ MaxPageBytes \in Nat
  BY <1>4, LeafAssumption
<1>6. F = IF leaf.actual > MaxPageBytes THEN {} ELSE {leaf}
  <2>1. \A x : x \in F <=> x = leaf /\ x.actual <= MaxPageBytes
    BY <1>1, <1>4 DEF Found, ReadRar, ReadZip, l
  <2> HIDE DEF F
  <2> QED BY <1>5, <2>1
<1>7. (CHOOSE x \in {leaf} : TRUE) = leaf
  OBVIOUS
<1> QED BY <1>6, <1>7 DEF PageNamed

\* A page is an image, of the name in its place, of the file in place now.
LEMMA PageOfBook ==
  ASSUME NEW file \in Files, NEW now \in Files, NEW n \in PageNumbers,
         NEW oneBased \in BOOLEAN, AskLeaf(file, now, n, oneBased)
  PROVE  asked'.kind = "leaf" /\ PagesAreTheImages'
<1> DEFINE s == Images(file)
           images == ToSet(s)
           first == First(oneBased)
           last == first + Cardinality(images) - 1
           page == BookPage(file, now, n, oneBased)
           name == Sorted(s)[n - first + 1].name
<1>1. /\ Opened(file) # Broken /\ answer' = page
      /\ asked' = [kind |-> "leaf", file |-> file, now |-> now, n |-> n, oneBased |-> oneBased]
  BY DEF AskLeaf
<1>2. /\ s \in Seq(Leaves) /\ Len(s) \in Nat /\ DOMAIN s = 1..Len(s)
      /\ Illustrated(s, file.leaves) /\ Cardinality(images) = Len(s)
      /\ \A i \in 1..Len(s) : s[i] \in images
      /\ \A x \in images : \E i \in 1..Len(s) : s[i] = x
  <2>1. Illustrated(s, file.leaves)
    BY <1>1, Listed
  <2>2. s \in Seq(Leaves)
    BY <2>1 DEF Illustrated
  <2>3. Cardinality(images) = Len(s)
    BY <2>1, CountAll
  <2> QED BY <2>1, <2>2, <2>3 DEF ToSet
<1>3. n \in Int /\ first \in {0, 1} /\ last = first + Len(s) - 1
  BY <1>2, LeafAssumption DEF First
<1>4. \A m \in Int, f \in Files :
        BookPage(file, f, m, oneBased) =
          IF m \notin first..last THEN [status |-> 404]
          ELSE PageNamed(file, f, Sorted(s)[m - first + 1].name)
  BY <1>1, <1>3, Answers
<1>5. \A f, x : PageNamed(file, f, x).status \in {200, 500}
  BY DEF PageNamed
<1> HIDE DEF s, first, last, images
<1>6. page.status = 404 <=> n \notin first..last
  BY <1>3, <1>4, <1>5
<1>7. ASSUME page.status = 200
      PROVE  /\ page.leaf \in ToSet(Images(now)) /\ page.leaf.actual <= MaxPageBytes
             /\ \E leaf \in images :
                   /\ leaf.name = page.leaf.name
                   /\ Before(file, leaf) <= n - first
                   /\ n - first < NotAfter(file, leaf)
  <2>1. n \in first..last /\ page = PageNamed(file, now, name)
    BY <1>3, <1>4, <1>7
  <2>2. page.leaf \in Found(file, now, name)
    <3>1. /\ page = [status |-> 200, leaf |-> CHOOSE leaf \in Found(file, now, name) : TRUE]
          /\ Found(file, now, name) # {}
      <4> HIDE DEF name, page
      <4> QED BY <1>7, <2>1 DEF PageNamed
    <3> HIDE DEF name, page
    <3> QED BY <3>1
  <2>3. PICK k \in 1..Len(s) : k = n - first + 1
    BY <1>2, <1>3, <2>1
  <2>4. PICK i \in 1..Len(s) : Sorted(s)[k] = s[i] /\ Cardinality(Earlier(s, i)) = k - 1
    BY <1>2, Sorting
  <2>5. /\ page.leaf \in ToSet(now.leaves) /\ page.leaf.actual <= MaxPageBytes
        /\ page.leaf.name = s[i].name
    <3> HIDE DEF page
    <3> QED BY <2>2, <2>3, <2>4, ReadIsNamed
  <2> HIDE DEF page
  <2>6. page.leaf \in ToSet(Images(now))
    <3>1. Archive(now.leaves)
      BY FileAssumption DEF Archive
    <3>2. PICK j \in 1..Len(now.leaves) : now.leaves[j] = page.leaf
      BY <2>5, <3>1 DEF Archive, ToSet
    <3>3. page.leaf \in Leaves
      BY <3>1, <3>2 DEF Archive
    <3>4. s[i] \in Leaves /\ s[i].image
      BY <1>2 DEF Illustrated
    <3>5. page.leaf.image
      BY <2>5, <3>3, <3>4, LeafAssumption
    <3>6. Illustrated(Images(now), now.leaves)
      BY <3>1, ImagesAreThese
    <3> QED BY <3>2, <3>5, <3>6, CountAll
  <2>7. Before(file, s[i]) <= Cardinality(Earlier(s, i))
        /\ Cardinality(Earlier(s, i)) < NotAfter(file, s[i])
    BY <1>2, CountEarlier DEF s
  <2>8. Cardinality(Earlier(s, i)) = n - first
    BY <1>3, <2>3, <2>4
  <2> QED BY <1>2, <2>5, <2>6, <2>7, <2>8
<1>8. ASSUME now = file, NEW leaf \in images
      PROVE  \E m \in first..last :
               IF leaf.actual > MaxPageBytes
               THEN BookPage(file, file, m, oneBased) = [status |-> 500]
               ELSE BookPage(file, file, m, oneBased) = [status |-> 200, leaf |-> leaf]
  <2>1. PICK i \in 1..Len(s) : s[i] = leaf
    BY <1>2
  <2>2. PICK k \in 1..Len(s) : Sorted(s)[k] = leaf
    BY <1>2, <2>1, Sorting
  <2>3. PICK m \in first..last : m \in Int /\ m - first + 1 = k
    <3>1. k + first - 1 \in first..last /\ k + first - 1 \in Int
          /\ (k + first - 1) - first + 1 = k
      BY <1>2, <1>3
    <3> QED BY <3>1
  <2>4. BookPage(file, file, m, oneBased) = PageNamed(file, file, leaf.name)
    BY <1>4, <2>2, <2>3
  <2>5. PageNamed(file, file, leaf.name) =
          IF leaf.actual > MaxPageBytes THEN [status |-> 500]
          ELSE [status |-> 200, leaf |-> leaf]
    BY <1>1, <1>8, ReadOfImage DEF images, s
  <2> QED BY <2>4, <2>5
<1> HIDE DEF page
<1> QED BY <1>1, <1>6, <1>7, <1>8 DEF PagesAreTheImages, s, images, first, last, First
------------------------------------------------------------------------------
(* One question, one answer.                                               *)

\* Bounded sequences are sequences.
LEMMA BoundedSeqs ==
  ASSUME NEW S, NEW n \in Nat
  PROVE  BoundedSeq(S, n) \subseteq Seq(S)
  BY DEF BoundedSeq, SeqOf

Answered ==
  /\ NamesAreOrdered /\ KeysFollowNames /\ SearchIsLiteral
  /\ ForgedHopsDoNotCount /\ WidthsMeet /\ RangeIsRight /\ PagesAreTheImages

\* A property is about one kind of question.
LEMMA OtherKinds ==
  /\ asked.kind # "order" => NamesAreOrdered /\ KeysFollowNames
  /\ asked.kind # "search" => SearchIsLiteral
  /\ asked.kind # "from" => ForgedHopsDoNotCount
  /\ asked.kind # "page" => WidthsMeet
  /\ asked.kind # "range" => RangeIsRight
  /\ asked.kind # "leaf" => PagesAreTheImages
BY DEF NamesAreOrdered, KeysFollowNames, SearchIsLiteral, ForgedHopsDoNotCount, WidthsMeet,
   RangeIsRight, PagesAreTheImages

\* The same of the next state.
LEMMA OtherKindsNext ==
  /\ asked'.kind # "order" => NamesAreOrdered' /\ KeysFollowNames'
  /\ asked'.kind # "search" => SearchIsLiteral'
  /\ asked'.kind # "from" => ForgedHopsDoNotCount'
  /\ asked'.kind # "page" => WidthsMeet'
  /\ asked'.kind # "range" => RangeIsRight'
  /\ asked'.kind # "leaf" => PagesAreTheImages'
BY DEF NamesAreOrdered, KeysFollowNames, SearchIsLiteral, ForgedHopsDoNotCount, WidthsMeet,
   RangeIsRight, PagesAreTheImages

\* Every answer is right, whatever is asked.
LEMMA AnsweredAlways == AskSpec => []Answered
<1>1. AskInit => Answered
  <2> SUFFICES ASSUME AskInit PROVE Answered
    OBVIOUS
  <2>1. asked.kind = "nothing"
    BY DEF AskInit
  <2> QED BY <2>1, OtherKinds DEF Answered
<1>2. Answered /\ [asked.kind = "nothing" /\ Ask]_asking => Answered'
  <2> SUFFICES ASSUME Answered, [Ask]_asking PROVE Answered'
    OBVIOUS
  <2>1. ASSUME NEW a \in NameSet, NEW b \in NameSet, AskOrder(a, b) PROVE Answered'
    <3>1. asked'.kind = "order" /\ NamesAreOrdered' /\ KeysFollowNames'
      BY <2>1, OrderOfNames, KeysOfNames DEF AskOrder
    <3> QED BY <3>1, OtherKindsNext DEF Answered
  <2>2. ASSUME NEW q \in QuerySet, NEW name \in NameSet, AskSearch(q, name)
        PROVE  Answered'
    <3>1. asked'.kind = "search" /\ SearchIsLiteral'
      BY <2>2, NameOfSearch DEF AskSearch
    <3> QED BY <3>1, OtherKindsNext DEF Answered
  <2>3. ASSUME NEW client \in Addresses \ Trusted,
               NEW forged \in BoundedSeq(BoundedSeq(Hops, MaxHops), MaxLines),
               NEW proxies \in BoundedSeq(Trusted, MaxHops),
               NEW joined \in 0..Len(proxies),
               AskFrom(client, forged, proxies, joined)
        PROVE  Answered'
    <3>1. BoundedSeq(Hops, MaxHops) \subseteq Seq(Hops) /\ proxies \in Seq(Trusted)
          /\ forged \in Seq(BoundedSeq(Hops, MaxHops))
      BY BoundedSeqs, AddressAssumption
    <3>2. forged \in Seq(Seq(Hops))
      BY <3>1
    <3>3. /\ asked'.kind = "from" /\ asked'.client = client /\ asked'.forged = forged
          /\ asked'.proxies = proxies /\ asked'.joined = joined
          /\ answer'.address = ClientIp(Last(<<client>> \o proxies),
                                        Forwarded(forged, <<client>> \o proxies, joined))
      BY <2>3 DEF AskFrom
    <3>4. ForgedHopsDoNotCount'
      <4> SUFFICES ASSUME joined > 0 \/ forged = <<>> \/ proxies = <<>>
                   PROVE  answer'.address = IF Unreadable(forged) /\ proxies # <<>>
                                            THEN Last(proxies) ELSE client
        BY <3>3 DEF ForgedHopsDoNotCount
      <4> QED BY <3>1, <3>2, <3>3, AddressOfClient
    <3> QED BY <3>3, <3>4, OtherKindsNext DEF Answered
  <2>4. ASSUME NEW tokens \in BoundedSeq(PreferTokens, 3),
               NEW cli \in Widths \cap 0..MaxU32, AskPage(tokens, cli)
        PROVE  Answered'
    <3>1. tokens \in Seq(PreferTokens) /\ cli \in Nat
      BY BoundedSeqs, WidthAssumption
    <3>2. asked'.kind = "page" /\ WidthsMeet'
      BY <2>4, <3>1, WidthOfPage DEF AskPage
    <3> QED BY <3>2, OtherKindsNext DEF Answered
  <2>5. ASSUME NEW range \in RangeHeaders, NEW len \in Lengths, AskRange(range, len)
        PROVE  Answered'
    <3>1. asked'.kind = "range" /\ RangeIsRight'
      BY <2>5, RangeOfBytes DEF AskRange
    <3> QED BY <3>1, OtherKindsNext DEF Answered
  <2>6. ASSUME NEW file \in Files, NEW now \in Files, NEW n \in PageNumbers,
               NEW oneBased \in BOOLEAN, AskLeaf(file, now, n, oneBased)
        PROVE  Answered'
    <3>1. asked'.kind = "leaf" /\ PagesAreTheImages'
      BY <2>6, PageOfBook
    <3> QED BY <3>1, OtherKindsNext DEF Answered
  <2>7. CASE UNCHANGED asking
    <3>1. asked' = asked /\ answer' = answer
      BY <2>7 DEF asking
    <3>2. PagesAreTheImages'
      BY <3>1 DEF Answered, PagesAreTheImages
    <3> QED BY <3>1, <3>2 DEF Answered, NamesAreOrdered, CompareTable, KeysFollowNames,
               SearchIsLiteral, ForgedHopsDoNotCount, WidthsMeet, RangeIsRight
  <2> QED BY <2>1, <2>2, <2>3, <2>4, <2>5, <2>6, <2>7 DEF Ask
<1> QED BY <1>1, <1>2, PTL DEF AskSpec

(* natsort::cmp is an order of all names: antisymmetric and transitive, for *)
(* numbers of any length, saturated or not, leading zeros and either case.  *)
THEOREM Ordering == AskSpec => []NamesAreOrdered
  BY AnsweredAlways, PTL DEF Answered

(* The stored keys sort as natsort::cmp does, for names of every length and *)
(* every padding, as long as no number in them is longer than the padding.  *)
THEOREM Keying == AskSpec => []KeysFollowNames
  BY AnsweredAlways, PTL DEF Answered

(* A search finds exactly the names that hold what was typed, for queries   *)
(* and names of every length (to_like_pattern and SQLite's LIKE).           *)
THEOREM Searches == AskSpec => []SearchIsLiteral
  BY AnsweredAlways, PTL DEF Answered

(* Through every chain of trusted proxies of which one joins the lines, and *)
(* whatever lines of whatever text the client itself sends, the limiter's   *)
(* address is the client's, or the last proxy's if a line cannot be read    *)
(* (client_ip); behind proxies that join nothing, if the client sent none.  *)
THEOREM ForgedHops == AskSpec => []ForgedHopsDoNotCount
  BY AnsweredAlways, PTL DEF Answered

(* For every ladder of widths and every width in a request, a page          *)
(* thumbnail is on the smallest rung that is wide enough, and without a     *)
(* width it is the file that prewarm made (snap_width, main.rs:177).        *)
THEOREM Widening == AskSpec => []WidthsMeet
  BY AnsweredAlways, PTL DEF Answered

(* For files of every length and every range, parse_range answers with the  *)
(* bytes that were asked for, and 416 exactly if there are none; malformed  *)
(* headers are ignored if no start in them is at or beyond the end.         *)
THEOREM Ranging == AskSpec => []RangeIsRight
  BY AnsweredAlways, PTL DEF Answered

(* For archives of every size, the pages of a book are its images, each     *)
(* under a number of its own and in natural order, also when names are      *)
(* equal for natsort; none is larger than the cap; and of a file that has   *)
(* been replaced, a page of the same name is sent or none (book_page).      *)
THEOREM Paging == AskSpec => []PagesAreTheImages
  BY AnsweredAlways, PTL DEF Answered
------------------------------------------------------------------------------
(* Resumed downloads.                                                      *)

Piece(v, start, n) == [i \in 1..n |-> <<start + i - 1, v>>]

\* What a file sends of a range, or of all of it, starts where it should.
LEMMA ResponseStarts ==
  ASSUME NEW n \in Nat, length \in Lengths, chunk \in Nat
  PROVE  LET r == Response(Resume(n))
             start == IF r.status = 200 THEN 0 ELSE n
         IN  /\ r.total = length
             /\ \E k \in Nat : r.rest = Piece(version, start, k)
<1> DEFINE range == Resume(n)
           spec == ParseRange(range, length)
<1>1. length \in Nat
  BY RangeAssumption
<1>2. CASE spec.kind = "full"
  <2>1. Response(range) = [status |-> 200, total |-> length, rest |-> Bytes(0, length - 1)]
    BY <1>2 DEF Response
  <2>2. Bytes(0, length - 1) = Piece(version, 0, length)
    BY <1>1 DEF Bytes, Piece
  <2> HIDE DEF range
  <2> QED BY <1>1, <2>1, <2>2 DEF range
<1>3. CASE spec.kind = "partial"
  <2>1. range # NoAnswer /\ range.from = n /\ range.from # Blank
    BY <1>3, NumberFieldAssumption DEF Resume, ParseRange, Full
  <2>2. PICK end \in Int : spec = Partial(n, end) /\ end >= n
    <3> HIDE DEF range
    <3>1. U64(n) /\ ~(n >= length)
      BY <1>3, <2>1 DEF ParseRange, Full, Unsatisfiable
    <3>2. CASE range.to = Blank
      <4>1. spec = Partial(n, length - 1)
        BY <2>1, <3>1, <3>2 DEF ParseRange
      <4>2. length - 1 \in Int /\ length - 1 >= n
        BY <1>1, <3>1
      <4> QED BY <4>1, <4>2
    <3>3. CASE range.to # Blank
      <4>1. U64(range.to) /\ ~(range.to < n)
        BY <1>3, <2>1, <3>1, <3>3 DEF ParseRange, Full, Unsatisfiable
      <4>2. spec = Partial(n, Min({range.to, length - 1}))
        BY <2>1, <3>1, <3>3, <4>1 DEF ParseRange
      <4>3. PICK a \in Int, b \in Int : a = range.to /\ b = length - 1 /\ a >= n /\ b >= n
        BY <1>1, <3>1, <4>1, NumberFieldAssumption DEF U64
      <4>4. Min({a, b}) \in Int /\ Min({a, b}) >= n
        BY <4>3 DEF Min
      <4> QED BY <4>2, <4>3, <4>4
    <3> QED BY <3>2, <3>3
  <2>3. spec.start = n /\ spec.end = end
    BY <2>2 DEF Partial
  <2>4. Response(range) = [status |-> 206, total |-> length, rest |-> Bytes(n, end)]
    BY <1>3, <2>3 DEF Response
  <2>5. Bytes(n, end) = Piece(version, n, end - n + 1) /\ end - n + 1 \in Nat
    BY <2>2 DEF Bytes, Piece
  <2> HIDE DEF range
  <2> QED BY <2>4, <2>5 DEF range
<1>4. CASE spec.kind \notin {"full", "partial"}
  <2>1. Response(range) = [status |-> 416, total |-> length, rest |-> <<>>]
    BY <1>4 DEF Response
  <2>2. <<>> = Piece(version, n, 0)
    BY DEF Piece
  <2> HIDE DEF range
  <2> QED BY <2>1, <2>2 DEF range
<1> QED BY <1>2, <1>3, <1>4

Byte == Nat \X Nat

\* The bytes of s are those from start on, each in its place.
InPlace(s, start) == \A i \in 1..Len(s) : s[i][1] = start + i - 1

OfVersion(s, v) == \A i \in 1..Len(s) : s[i][2] = v

DownloadType ==
  /\ length \in Lengths /\ version \in Nat /\ chunk \in Nat
  /\ got \in Seq(Byte)
  /\ body \in [status : Nat, total : Nat, rest : Seq(Byte)]

\* What the client has is of the file from its start, and what is on the way
\* follows it; as long as the file stays, both are of the file in place.
DownloadInv ==
  /\ DownloadType
  /\ InPlace(got, 0)
  /\ at = "away" => got = <<>>
  /\ at = "receiving" => InPlace(body.rest, Len(got))
  /\ steady => OfVersion(got, version)
  /\ (steady /\ at = "receiving") => OfVersion(body.rest, version) /\ body.total = length
  /\ (steady /\ at = "done") => Len(got) = length

\* A piece of a file is in its place, and of its version.
LEMMA Pieces ==
  ASSUME NEW v \in Nat, NEW start \in Nat, NEW k \in Nat
  PROVE  /\ Piece(v, start, k) \in Seq(Byte)
         /\ InPlace(Piece(v, start, k), start)
         /\ OfVersion(Piece(v, start, k), v)
<1> DEFINE p == Piece(v, start, k)
<1>1. p = [i \in 1..k |-> <<start + i - 1, v>>]
  BY DEF Piece
<1>2. \A i \in 1..k : <<start + i - 1, v>> \in Byte
  BY DEF Byte
<1>3. p \in Seq(Byte) /\ Len(p) = k
  <2> HIDE DEF p
  <2>1. p \in [1..k -> Byte] /\ DOMAIN p = 1..k
    BY <1>1, <1>2
  <2>2. p \in Seq(Byte)
    BY <2>1
  <2> QED BY <2>1, <2>2
<1>4. \A i \in 1..k : p[i][1] = start + i - 1 /\ p[i][2] = v
  BY <1>1
<1> HIDE DEF p
<1>5. InPlace(p, start) /\ OfVersion(p, v)
  BY <1>3, <1>4 DEF InPlace, OfVersion
<1> QED BY <1>3, <1>5 DEF p

\* A client that has nothing has nothing wrong.
LEMMA DownloadInit1 == DownloadInit => DownloadInv
  BY RangeAssumption, DownloadAssumption DEF DownloadInit, DownloadInv, DownloadType,
     NoBody, InPlace, OfVersion

\* A file that is replaced ends the client's luck, not the order of its bytes.
LEMMA ReplaceStep == DownloadInv /\ Replace => DownloadInv'
<1> SUFFICES ASSUME DownloadInv, Replace PROVE DownloadInv'
  OBVIOUS
<1> USE DEF DownloadInv
<1>1. UNCHANGED <<chunk, got, at, body>> /\ steady' = (at = "away") /\ length' \in Lengths
      /\ version' \in Nat
  BY DEF Replace, DownloadType
<1>2. DownloadType'
  BY <1>1 DEF DownloadType
<1>3. (at = "away" => got = <<>>)' /\ InPlace(got, 0)' /\ (at = "receiving" => InPlace(body.rest, Len(got)))'
  BY <1>1 DEF InPlace
<1>4. CASE at = "away"
  <2>1. got' = <<>> /\ at' = "away"
    BY <1>1, <1>4
  <2>2. OfVersion(got, version)'
    BY <2>1 DEF OfVersion
  <2> QED BY <1>2, <1>3, <2>1, <2>2
<1>5. CASE at # "away"
  BY <1>1, <1>2, <1>3, <1>5
<1> QED BY <1>4, <1>5

\* A response continues where the client is, or starts over.
LEMMA RequestStep == DownloadInv /\ Request => DownloadInv'
<1> SUFFICES ASSUME DownloadInv, Request PROVE DownloadInv'
  OBVIOUS
<1> USE DEF DownloadInv
<1> DEFINE n == Len(got)
           r == Response(Resume(n))
           start == IF r.status = 200 THEN 0 ELSE n
<1>1. n \in Nat /\ start \in Nat
  BY DEF DownloadType
<1>2. /\ UNCHANGED <<length, version, chunk, steady>> /\ at' = "receiving" /\ body' = r
      /\ got' = IF r.status = 200 THEN <<>> ELSE got
  BY DEF Request
<1>3. r \in [status : Nat, total : Nat, rest : {r.rest}] /\ r.total = length
  BY RangeAssumption DEF DownloadType, Response, Partial
<1>4. PICK k \in Nat : r.rest = Piece(version, start, k)
  BY <1>1, ResponseStarts DEF DownloadType
<1>5. /\ r.rest \in Seq(Byte) /\ InPlace(r.rest, start) /\ OfVersion(r.rest, version)
  <2> HIDE DEF r, start
  <2> QED BY <1>1, <1>4, Pieces DEF DownloadType
<1>6. Len(got') = start /\ got' \in Seq(Byte)
  BY <1>2 DEF DownloadType
<1>7. InPlace(got', 0) /\ (steady => OfVersion(got', version))
  BY <1>2 DEF InPlace, OfVersion
<1> HIDE DEF r, start
<1>8. DownloadType'
  BY <1>2, <1>3, <1>5, <1>6 DEF DownloadType
<1>9. InPlace(got, 0)'
  BY <1>7 DEF InPlace
<1>10. (steady => OfVersion(got, version))'
  BY <1>2, <1>7 DEF OfVersion
<1>11. InPlace(body.rest, Len(got))'
  BY <1>2, <1>5, <1>6 DEF InPlace
<1>12. (steady => OfVersion(body.rest, version) /\ body.total = length)'
  BY <1>2, <1>3, <1>5 DEF OfVersion
<1> QED BY <1>2, <1>8, <1>9, <1>10, <1>11, <1>12

\* Bytes are added at the end.
LEMMA ReceiveStep == DownloadInv /\ Receive => DownloadInv'
<1> SUFFICES ASSUME DownloadInv, Receive PROVE DownloadInv'
  OBVIOUS
<1> USE DEF DownloadInv
<1> DEFINE s == body.rest
<1>1. /\ UNCHANGED <<length, version, chunk, at, steady>> /\ at = "receiving"
      /\ s # <<>> /\ got' = Append(got, Head(s)) /\ body' = [body EXCEPT !.rest = Tail(s)]
  BY DEF Receive
<1>2. /\ s \in Seq(Byte) /\ got \in Seq(Byte) /\ Len(s) \in Nat \ {0} /\ Len(got) \in Nat
      /\ Head(s) = s[1] /\ s[1] \in Byte
  BY <1>1 DEF DownloadType
<1>3. /\ Tail(s) \in Seq(Byte) /\ Len(Tail(s)) = Len(s) - 1
      /\ \A i \in 1..(Len(s) - 1) : Tail(s)[i] = s[i + 1]
  <2> HIDE DEF s
  <2> QED BY <1>2
<1>4. body'.rest = Tail(s) /\ body'.total = body.total
  BY <1>1 DEF DownloadType
<1>5. /\ got' \in Seq(Byte) /\ Len(got') = Len(got) + 1 /\ got'[Len(got) + 1] = s[1]
      /\ \A i \in 1..Len(got) : got'[i] = got[i]
  BY <1>1, <1>2
<1>6. DownloadType'
  BY <1>1, <1>3, <1>5 DEF DownloadType
<1>7. s[1][1] = Len(got) /\ (steady => s[1][2] = version)
  <2>1. 1 \in 1..Len(s) /\ Len(got) + 1 - 1 = Len(got)
    BY <1>2
  <2>2. \A i \in 1..Len(s) : s[i][1] = Len(got) + i - 1
    BY <1>1 DEF InPlace
  <2>3. steady => \A i \in 1..Len(s) : s[i][2] = version
    BY <1>1 DEF OfVersion
  <2> HIDE DEF s
  <2>4. s[1][1] = Len(got) + 1 - 1
    BY <2>1, <2>2
  <2> QED BY <2>1, <2>3, <2>4
<1>8. InPlace(got, 0)'
  <2>1. ASSUME NEW i \in 1..Len(got') PROVE got'[i][1] = 0 + i - 1
    <3>1. CASE i = Len(got) + 1
      BY <1>2, <1>5, <1>7, <3>1
    <3>2. CASE i \in 1..Len(got)
      BY <1>5, <3>2 DEF InPlace
    <3> QED BY <1>2, <1>5, <3>1, <3>2
  <2> QED BY <2>1 DEF InPlace
<1>9. (steady => OfVersion(got, version))'
  <2>1. ASSUME steady, NEW i \in 1..Len(got') PROVE got'[i][2] = version
    <3>1. CASE i = Len(got) + 1
      BY <1>2, <1>5, <1>7, <2>1, <3>1
    <3>2. CASE i \in 1..Len(got)
      BY <1>5, <2>1, <3>2 DEF OfVersion
    <3> QED BY <1>2, <1>5, <3>1, <3>2
  <2> QED BY <1>1, <2>1 DEF OfVersion
<1> HIDE DEF s
<1>10. \A i \in 1..(Len(s) - 1) : i + 1 \in 1..Len(s)
  BY <1>2
<1>11. InPlace(s, Len(got)) /\ (steady => OfVersion(s, version) /\ body.total = length)
  BY <1>1 DEF s
<1>12. InPlace(body.rest, Len(got))'
  BY <1>2, <1>3, <1>4, <1>5, <1>10, <1>11 DEF InPlace
<1>13. (steady => OfVersion(body.rest, version) /\ body.total = length)'
  BY <1>1, <1>2, <1>3, <1>4, <1>10, <1>11 DEF OfVersion
<1> QED BY <1>1, <1>6, <1>8, <1>9, <1>12, <1>13

\* A response that ends, or is cut off, leaves what was got.
LEMMA EndStep == DownloadInv /\ (EndOfBody \/ Interrupt) => DownloadInv'
<1> SUFFICES ASSUME DownloadInv, EndOfBody \/ Interrupt PROVE DownloadInv'
  OBVIOUS
<1> USE DEF DownloadInv
<1>1. /\ UNCHANGED <<length, version, chunk, steady>> /\ at = "receiving"
      /\ at' \in {"done", "waiting"} /\ body' = NoBody /\ got' \in {got, <<>>}
  BY DEF EndOfBody, Interrupt
<1>2. (at' = "done") => got' = got /\ Len(got) = body.total
  BY DEF EndOfBody, Interrupt, DownloadType
<1>3. DownloadType'
  <2>1. body' \in [status : Nat, total : Nat, rest : Seq(Byte)]
    BY <1>1 DEF NoBody
  <2>2. got' \in Seq(Byte)
    <3>1. CASE got' = got
      BY <3>1 DEF DownloadType
    <3>2. CASE got' = <<>>
      BY <3>2
    <3> QED BY <1>1, <3>1, <3>2
  <2> QED BY <1>1, <2>1, <2>2 DEF DownloadType
<1>4. InPlace(got, 0)' /\ (steady => OfVersion(got, version))'
  BY <1>1 DEF InPlace, OfVersion
<1> QED BY <1>1, <1>2, <1>3, <1>4

(* A download that is interrupted and resumed with Range headers, for files *)
(* and pieces of every length, is made of bytes in their places, and of one *)
(* file if the file stayed (serve_file_with_range).                         *)
THEOREM Resuming == DownloadSpec => []ResumedIsWhole
<1>1. DownloadInv /\ [DownloadNext]_downloading => DownloadInv'
  <2> SUFFICES ASSUME DownloadInv, [DownloadNext]_downloading PROVE DownloadInv'
    OBVIOUS
  <2>1. CASE UNCHANGED downloading
    BY <2>1 DEF downloading, DownloadInv, DownloadType, InPlace, OfVersion
  <2> QED BY <2>1, ReplaceStep, RequestStep, ReceiveStep, EndStep DEF DownloadNext
<1>2. DownloadInv => ResumedIsWhole
  <2> SUFFICES ASSUME DownloadInv PROVE ResumedIsWhole
    OBVIOUS
  <2> USE DEF DownloadInv
  <2>1. \A i \in 1..Len(got) : got[i][1] = i - 1
    BY DEF InPlace
  <2>2. ASSUME at = "done", steady PROVE got = Bytes(0, length - 1)
    <3>1. got \in Seq(Byte) /\ Len(got) = length /\ length \in Nat
      BY <2>2, RangeAssumption DEF DownloadType
    <3>2. ASSUME NEW i \in 1..length PROVE got[i] = <<0 + i - 1, version>>
      <4>1. got[i] \in Byte /\ got[i][1] = i - 1 /\ got[i][2] = version
        BY <2>1, <2>2, <3>1 DEF OfVersion
      <4> QED BY <4>1 DEF Byte
    <3>3. got = [i \in 1..length |-> got[i]]
      BY <3>1
    <3>4. (length - 1) - 0 + 1 = length
      BY <3>1
    <3> QED BY <3>2, <3>3, <3>4 DEF Bytes
  <2> QED BY <2>1, <2>2 DEF ResumedIsWhole
<1> QED BY <1>1, <1>2, DownloadInit1, PTL DEF DownloadSpec
==============================================================================
