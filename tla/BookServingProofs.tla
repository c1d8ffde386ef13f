--------------------------- MODULE BookServingProofs ---------------------------
(***************************************************************************)
(* What TLAPS proves of BookServing, for any number of workers, books,     *)
(* copies and crashes, and every size of the archive cache: all that its   *)
(* run checks.                                                             *)
(***************************************************************************)
EXTENDS BookServing, TLAPS

States == {"idle", "lookup", "cached?", "contain", "send", "get", "open", "put", "read",
           "ensure", "create", "write", "rename", "serve", "done"}

MaybePath    == Paths \cup {None}
MaybeContent == Contents \cup {None}
Statuses     == {0, 200, 404, 500}

Request == [pc : States, kind : Kinds, hash : MaybeContent, path : MaybePath,
            handle : MaybePath, bytes : MaybeContent, status : Statuses]

\* No path ever holds two contents: no file is replaced by another.
OneContent ==
  \A p \in Paths : \A c, d \in Contents : <<p, c>> \in Places /\ <<p, d>> \in Places => c = d

\* Where the path, the handle or the bytes of a request are used, they are
\* there; a path or a handle is one that has held the content asked for; and
\* the bytes are those of that content, if no file is replaced.
RequestOK(q) ==
  /\ q \in Request
  /\ q.pc \in {"lookup", "serve"} => q.hash \in Contents
  /\ q.pc \in {"cached?", "contain", "send", "get", "open"} => <<q.path, q.hash>> \in Places
  /\ q.pc \in {"put", "read"} => <<q.handle, q.hash>> \in Places
  /\ q.pc \in {"ensure", "create", "write", "rename"} => q.hash \in Contents /\ q.bytes \in Contents
  /\ OneContent /\ q.pc \in {"ensure", "create", "write", "rename"} => q.bytes = q.hash
  /\ OneContent /\ q.pc = "done" /\ q.status = 200 => q.bytes = q.hash

ReqInv == req \in [Requests -> Request] /\ \A r \in Requests : RequestOK(req[r])

SteadyInv == steady \in [Requests -> BOOLEAN]

FileInv ==
  /\ file \in [Paths -> Files]
  /\ \A p \in Paths : file[p] # Absent => <<p, file[p]>> \in Places

RowsInv ==
  /\ rows \in Seq([path : Paths, hash : Contents])
  /\ \A i \in DOMAIN rows : <<rows[i].path, rows[i].hash>> \in Places
  /\ \A i, j \in DOMAIN rows : rows[i].path = rows[j].path => i = j

LruInv ==
  /\ lru \in Seq([key : Contents, path : Paths])
  /\ \A i \in DOMAIN lru : <<lru[i].path, lru[i].key>> \in Places
  /\ \A i, j \in DOMAIN lru : lru[i].key = lru[j].key => i = j
  /\ Len(lru) <= CacheSize

\* Who writes a temporary file has filled it when it comes to rename it.
TmpInv ==
  /\ DOMAIN tmp \subseteq Requests
  /\ \A n \in DOMAIN tmp :
        /\ tmp[n] \in Contents \cup {Partial}
        /\ n \in leftovers \/ req[n].pc \in {"write", "rename"}
        /\ req[n].pc = "rename" => tmp[n] = req[n].bytes

ThumbInv ==
  /\ thumb \in [Contents -> Contents \cup {None}]
  /\ OneContent => \A h \in Contents : thumb[h] \in {None, h}

Inv == ReqInv /\ SteadyInv /\ FileInv /\ RowsInv /\ LruInv /\ TmpInv /\ ThumbInv

USE PlacesAssumption, MarksAssumption, CacheAssumption
------------------------------------------------------------------------------
(* Sequences with one element less.                                         *)

\* What is in a sequence is of its type.
LEMMA ElementIn ==
  ASSUME NEW S, NEW s \in Seq(S), NEW i \in DOMAIN s
  PROVE  s[i] \in S
  OBVIOUS

\* What remains of a sequence without one member.
LEMMA RemovedAt ==
  ASSUME NEW S, NEW s \in Seq(S), NEW i \in DOMAIN s
  PROVE  /\ RemoveAt(s, i) \in Seq(S)
         /\ Len(RemoveAt(s, i)) = Len(s) - 1
         /\ \A j \in 1..(Len(s) - 1) : RemoveAt(s, i)[j] = s[IF j < i THEN j ELSE j + 1]
<1> DEFINE n == Len(s)
           a == SubSeq(s, 1, i - 1)
           b == SubSeq(s, i + 1, n)
<1>1. n \in Nat /\ i \in 1..n /\ \A j \in 1..n : s[j] \in S
  OBVIOUS
<1>2. /\ a \in Seq(S) /\ Len(a) = i - 1
      /\ \A j \in 1..(i - 1) : a[j] = s[j]
  BY <1>1
<1>3. /\ b \in Seq(S) /\ Len(b) = n - i
      /\ \A j \in 1..(n - i) : b[j] = s[i + j]
  BY <1>1
<1>4. RemoveAt(s, i) = a \o b
  BY DEF RemoveAt
<1> HIDE DEF a, b, n
<1>5. /\ a \o b \in Seq(S) /\ Len(a \o b) = Len(a) + Len(b)
      /\ \A j \in 1..Len(a) : (a \o b)[j] = a[j]
      /\ \A j \in (Len(a) + 1)..(Len(a) + Len(b)) : (a \o b)[j] = b[j - Len(a)]
  <2>1. a \in Seq(S) /\ b \in Seq(S)
    BY <1>2, <1>3
  <2>2. a \o b \in Seq(S) /\ Len(a \o b) = Len(a) + Len(b)
    BY <2>1
  <2>3. Len(a) \in Nat /\ Len(b) \in Nat
    BY <2>1
  <2>4. \A j \in 1..(Len(a) + Len(b)) : (a \o b)[j] = IF j <= Len(a) THEN a[j] ELSE b[j - Len(a)]
    BY <2>1, <2>3
  <2> QED BY <2>2, <2>3, <2>4
<1>6. ASSUME NEW j \in 1..(n - 1)
      PROVE  (a \o b)[j] = s[IF j < i THEN j ELSE j + 1]
  <2>1. CASE j < i
    <3>1. j \in 1..(i - 1) /\ j \in 1..Len(a)
      BY <1>1, <1>2, <2>1
    <3> QED BY <1>2, <1>5, <2>1, <3>1
  <2>2. CASE ~(j < i)
    <3>1. /\ j \in (Len(a) + 1)..(Len(a) + Len(b))
          /\ j - (i - 1) \in 1..(n - i) /\ i + (j - (i - 1)) = j + 1
      <4>1. n \in Int /\ i \in Int /\ j \in Int /\ 1 <= i /\ i <= n /\ i <= j /\ j <= n - 1
        BY <1>1, <2>2
      <4>2. Len(a) = i - 1 /\ Len(b) = n - i
        BY <1>2, <1>3
      <4>3. j \in i..(n - 1) /\ j - (i - 1) \in 1..(n - i) /\ i + (j - (i - 1)) = j + 1
        BY <4>1
      <4>4. (Len(a) + 1)..(Len(a) + Len(b)) = i..(n - 1)
        BY <4>1, <4>2
      <4> QED BY <4>3, <4>4
    <3>2. (a \o b)[j] = b[j - (i - 1)]
      BY <1>2, <1>5, <3>1
    <3>3. b[j - (i - 1)] = s[j + 1]
      BY <1>3, <3>1
    <3> QED BY <2>2, <3>2, <3>3
  <2> QED BY <2>1, <2>2
<1>7. Len(a \o b) = n - 1
  BY <1>1, <1>2, <1>3, <1>5
<1> QED BY <1>4, <1>5, <1>6, <1>7 DEF n

\* What the rows and the archive cache have in common: each element is sound,
\* and no two have the same value of one field.
LEMMA RemovedInjective ==
  ASSUME NEW S, NEW s \in Seq(S), NEW i \in DOMAIN s, NEW Of,
         \A j, k \in DOMAIN s : s[j][Of] = s[k][Of] => j = k
  PROVE  LET t == RemoveAt(s, i)
         IN  /\ t \in Seq(S) /\ Len(t) = Len(s) - 1
             /\ \A j, k \in DOMAIN t : t[j][Of] = t[k][Of] => j = k
             /\ \A j \in DOMAIN t : \E k \in DOMAIN s \ {i} : t[j] = s[k]
             /\ \A j \in DOMAIN t : t[j][Of] # s[i][Of]
<1> DEFINE t == RemoveAt(s, i)
           n == Len(s)
           from(j) == IF j < i THEN j ELSE j + 1
<1>1. /\ t \in Seq(S) /\ Len(t) = n - 1 /\ n \in Nat /\ i \in 1..n
      /\ \A j \in 1..(n - 1) : t[j] = s[from(j)]
  <2> HIDE DEF t
  <2>1. t \in Seq(S) /\ Len(t) = n - 1 /\ \A j \in 1..(n - 1) : t[j] = s[from(j)]
    BY RemovedAt DEF t
  <2>2. n \in Nat /\ i \in 1..n
    OBVIOUS
  <2> HIDE DEF n, from
  <2> QED BY <2>1, <2>2
<1> HIDE DEF t, n
<1>2. DOMAIN t = 1..(n - 1) /\ DOMAIN s = 1..n
  BY <1>1 DEF n
<1>3. \A j \in 1..(n - 1) : from(j) \in 1..n /\ from(j) # i
  BY <1>1
<1>4. \A j, k \in 1..(n - 1) : from(j) = from(k) => j = k
  BY <1>1
<1> HIDE DEF from
<1>5. \A j, k \in DOMAIN t : t[j][Of] = t[k][Of] => j = k
  BY <1>1, <1>2, <1>3, <1>4
<1>6. \A j \in DOMAIN t : \E k \in DOMAIN s \ {i} : t[j] = s[k]
  BY <1>1, <1>2, <1>3
<1>7. \A j \in DOMAIN t : t[j][Of] # s[i][Of]
  BY <1>1, <1>2, <1>3
<1> QED BY <1>1, <1>5, <1>6, <1>7 DEF t, n

\* Appending what is not there keeps the members apart.
LEMMA AppendedInjective ==
  ASSUME NEW S, NEW s \in Seq(S), NEW e \in S, NEW Of,
         \A j, k \in DOMAIN s : s[j][Of] = s[k][Of] => j = k,
         \A j \in DOMAIN s : s[j][Of] # e[Of]
  PROVE  LET t == Append(s, e)
         IN  /\ t \in Seq(S) /\ Len(t) = Len(s) + 1
             /\ \A j, k \in DOMAIN t : t[j][Of] = t[k][Of] => j = k
             /\ \A j \in DOMAIN t : t[j] = e \/ \E k \in DOMAIN s : t[j] = s[k]
<1> DEFINE t == Append(s, e)
           n == Len(s)
<1>1. /\ t \in Seq(S) /\ Len(t) = n + 1 /\ n \in Nat
      /\ \A j \in 1..n : t[j] = s[j]
      /\ t[n + 1] = e
  OBVIOUS
<1>2. DOMAIN t = 1..(n + 1) /\ DOMAIN s = 1..n
  BY <1>1
<1> HIDE DEF t, n
<1>3. ASSUME NEW j \in DOMAIN t, NEW k \in DOMAIN t, t[j][Of] = t[k][Of]
      PROVE  j = k
  <2>1. CASE j \in 1..n /\ k \in 1..n
    BY <1>1, <1>2, <1>3, <2>1
  <2>2. CASE j = n + 1 /\ k # n + 1
    <3>1. k \in 1..n
      BY <1>1, <1>2, <2>2
    <3> QED BY <1>1, <1>2, <1>3, <2>2, <3>1
  <2>3. CASE j # n + 1 /\ k = n + 1
    <3>1. j \in 1..n
      BY <1>1, <1>2, <2>3
    <3> QED BY <1>1, <1>2, <1>3, <2>3, <3>1
  <2> QED BY <1>1, <1>2, <2>1, <2>2, <2>3
<1>4. ASSUME NEW j \in DOMAIN t
      PROVE  t[j] = e \/ \E k \in DOMAIN s : t[j] = s[k]
  <2>1. j = n + 1 \/ j \in 1..n
    BY <1>1, <1>2
  <2> QED BY <1>1, <1>2, <2>1
<1> QED BY <1>1, <1>3, <1>4 DEF t, n
------------------------------------------------------------------------------
(* The steps of a request leave it sound.                                   *)

\* The request goes on, soundly, at one of pcs.
Becomes(r, pcs) ==
  \E q \in Request : RequestOK(q) /\ q.pc \in pcs /\ req' = [req EXCEPT ![r] = q]

\* A worker at rest has nothing that could be wrong.
LEMMA IdleOK == Idle \in Request /\ Idle.pc = "idle" /\ RequestOK(Idle)
<1>1. Idle \in Request
  BY DEF Idle, Request, States, Kinds, MaybePath, MaybeContent, Statuses
<1>2. Idle.pc = "idle"
  BY DEF Idle
<1> QED BY <1>1, <1>2 DEF RequestOK

\* A worker that goes on rightly leaves the other workers right.
LEMMA BecomesInv ==
  ASSUME ReqInv, NEW r \in Requests, NEW pcs, Becomes(r, pcs)
  PROVE  /\ ReqInv'
         /\ req'[r].pc \in pcs
         /\ \A n \in Requests \ {r} : req'[n] = req[n]
<1>1. PICK q \in Request : RequestOK(q) /\ q.pc \in pcs /\ req' = [req EXCEPT ![r] = q]
  BY DEF Becomes
<1>2. req' \in [Requests -> Request] /\ \A n \in Requests : req'[n] = IF n = r THEN q ELSE req[n]
  BY <1>1 DEF ReqInv
<1> QED BY <1>1, <1>2 DEF ReqInv

\* Answering is right if the bytes are those of the hash.
LEMMA AnswerBecomes ==
  ASSUME ReqInv, NEW r \in Requests, NEW status \in {200, 404, 500},
         NEW bytes \in MaybeContent, Answer(r, status, bytes),
         OneContent /\ status = 200 /\ req[r].kind # "prewarm" => bytes = req[r].hash
  PROVE  Becomes(r, {"idle", "done"})
<1>1. CASE req[r].kind = "prewarm"
  BY <1>1, IdleOK, ZenonT(40) DEF Answer, Becomes
<1>2. CASE req[r].kind # "prewarm"
  <2> DEFINE hash == IF status = 200 THEN req[r].hash ELSE None
             q == [Idle EXCEPT !.pc = "done", !.kind = req[r].kind, !.status = status,
                               !.hash = hash, !.bytes = bytes]
  <2>1. req[r].kind \in Kinds /\ hash \in MaybeContent /\ "done" \in States
    BY DEF ReqInv, Request, States, MaybeContent
  <2>2. req' = [req EXCEPT ![r] = q]
    BY <1>2 DEF Answer
  <2> HIDE DEF hash
  <2>3. q \in Request
    <3>1. status \in Statuses
      BY DEF Statuses
    <3>2. Idle \in Request
      BY IdleOK
    <3> QED BY <2>1, <3>1, <3>2 DEF Request
  <2>4. q.pc = "done" /\ q.status = status /\ q.hash = hash /\ q.bytes = bytes
    BY IdleOK DEF Request
  <2> HIDE DEF q
  <2>5. RequestOK(q)
    BY <1>2, <2>3, <2>4 DEF RequestOK, hash
  <2> QED BY <2>2, <2>3, <2>4, <2>5 DEF Becomes
<1> QED BY <1>1, <1>2

\* When the thumbnail is there, prewarm is done and a request serves it.
LEMMA ThumbReadyBecomes ==
  ASSUME ReqInv, NEW r \in Requests, ThumbReady(r), req[r].hash \in Contents
  PROVE  Becomes(r, {"idle", "done", "serve"})
<1>1. CASE req[r].kind = "prewarm"
  BY <1>1, AnswerBecomes DEF ThumbReady, Becomes, MaybeContent
<1>2. CASE req[r].kind # "prewarm"
  <2> DEFINE q == [req[r] EXCEPT !.pc = "serve", !.path = None, !.bytes = None]
  <2>1. req' = [req EXCEPT ![r] = q]
    BY <1>2 DEF ThumbReady, ReqInv
  <2>2. q \in Request
    <3>1. req[r] \in Request /\ "serve" \in States
      BY DEF ReqInv, States
    <3>2. None \in MaybePath /\ None \in MaybeContent
      BY DEF MaybePath, MaybeContent
    <3> QED BY <3>1, <3>2 DEF Request
  <2>3. q.pc = "serve" /\ q.hash = req[r].hash
    BY DEF ReqInv, Request
  <2> HIDE DEF q
  <2>4. RequestOK(q)
    BY <2>2, <2>3 DEF RequestOK
  <2> QED BY <2>1, <2>2, <2>3, <2>4 DEF Becomes
<1> QED BY <1>1, <1>2

\* A step that only changes pc.
LEMMA GotoBecomes ==
  ASSUME ReqInv, NEW r \in Requests, NEW pc \in States, Goto(r, pc),
         pc \in {"contain", "send", "get", "open"} => <<req[r].path, req[r].hash>> \in Places,
         pc \in {"read"} => <<req[r].handle, req[r].hash>> \in Places,
         pc \in {"create", "write", "rename"} =>
            req[r].pc \in {"ensure", "create", "write", "rename"},
         pc \in {"contain", "send", "get", "open", "read", "create", "write", "rename"}
  PROVE  Becomes(r, {pc})
<1> DEFINE q == [req[r] EXCEPT !.pc = pc]
<1>1. req' = [req EXCEPT ![r] = q]
  BY DEF Goto, ReqInv
<1>2. q \in Request
  BY DEF ReqInv, Request
<1>3. /\ q.pc = pc /\ q.hash = req[r].hash /\ q.path = req[r].path
      /\ q.handle = req[r].handle /\ q.bytes = req[r].bytes
  BY DEF ReqInv, Request
<1> HIDE DEF q
<1>4. RequestOK(q)
  BY <1>2, <1>3 DEF RequestOK, ReqInv
<1> QED BY <1>1, <1>2, <1>3, <1>4 DEF Becomes

\* More places to go to may be named.
LEMMA BecomesMore ==
  ASSUME NEW r, NEW few, NEW many, Becomes(r, few), few \subseteq many
  PROVE  Becomes(r, many)
  BY DEF Becomes

\* A new request begins with the row.
LEMMA AskBecomes ==
  ASSUME Inv, NEW r \in Requests, NEW kind \in Kinds, NEW h \in Contents, Ask(r, kind, h)
  PROVE  Becomes(r, {"lookup"})
<1> DEFINE q == [Idle EXCEPT !.pc = "lookup", !.kind = kind, !.hash = h]
<1>1. q \in Request
  <2>1. "lookup" \in States /\ h \in MaybeContent
    BY DEF States, MaybeContent
  <2> QED BY <2>1, IdleOK DEF Request
<1>2. q.pc = "lookup" /\ q.hash = h
  BY IdleOK DEF Request
<1>3. req' = [req EXCEPT ![r] = q]
  BY DEF Ask
<1> HIDE DEF q
<1>4. RequestOK(q)
  BY <1>1, <1>2 DEF RequestOK
<1> QED BY <1>1, <1>2, <1>3, <1>4 DEF Becomes

\* Prewarm begins with a row it has read.
LEMMA PrewarmBecomes ==
  ASSUME Inv, NEW r \in Requests, NEW i \in DOMAIN rows, Prewarm(r, i)
  PROVE  Becomes(r, {"cached?"})
<1> DEFINE h == rows[i].hash
           p == rows[i].path
           q == [Idle EXCEPT !.pc = "cached?", !.kind = "prewarm", !.hash = h, !.path = p]
<1>1. h \in Contents /\ p \in Paths /\ <<p, h>> \in Places
  BY DEF Inv, RowsInv
<1>2. req' = [req EXCEPT ![r] = q]
  BY DEF Prewarm
<1> HIDE DEF h, p
<1>3. q \in Request
  <2>1. "cached?" \in States /\ "prewarm" \in Kinds /\ h \in MaybeContent /\ p \in MaybePath
    BY <1>1 DEF States, Kinds, MaybeContent, MaybePath
  <2> QED BY <2>1, IdleOK DEF Request
<1>4. q.pc = "cached?" /\ q.hash = h /\ q.path = p
  BY IdleOK DEF Request
<1> HIDE DEF q
<1>5. RequestOK(q)
  BY <1>1, <1>3, <1>4 DEF RequestOK
<1> QED BY <1>2, <1>3, <1>4, <1>5 DEF Becomes

\* The row gives the path that goes with the hash.
LEMMA LookupBecomes ==
  ASSUME Inv, NEW r \in Requests, Lookup(r)
  PROVE  Becomes(r, {"idle", "done", "cached?", "contain"})
<1>1. CASE Answer(r, 404, None)
  BY <1>1, AnswerBecomes, BecomesMore DEF Inv, MaybeContent
<1>2. CASE ~Answer(r, 404, None)
  <2> DEFINE pc == IF req[r].kind = "thumbnail" THEN "cached?" ELSE "contain"
  <2>1. PICK i \in DOMAIN rows :
          /\ rows[i].hash = req[r].hash
          /\ req' = [req EXCEPT ![r].path = rows[i].path, ![r].pc = pc]
    BY <1>2 DEF Lookup
  <2> DEFINE p == rows[i].path
             q == [req[r] EXCEPT !.path = p, !.pc = pc]
  <2>2. p \in Paths /\ <<p, req[r].hash>> \in Places
    BY <2>1 DEF Inv, RowsInv
  <2>3. req' = [req EXCEPT ![r] = q]
    BY <2>1 DEF Inv, ReqInv
  <2>4. pc \in {"cached?", "contain"}
    OBVIOUS
  <2> HIDE DEF p, pc
  <2>5. q \in Request
    <3>1. pc \in States /\ p \in MaybePath /\ req[r] \in Request
      BY <2>2, <2>4 DEF States, MaybePath, Inv, ReqInv
    <3> QED BY <3>1 DEF Request
  <2>6. q.pc = pc /\ q.path = p /\ q.hash = req[r].hash
    BY DEF Inv, ReqInv, Request
  <2> HIDE DEF q
  <2>7. RequestOK(q)
    BY <2>2, <2>4, <2>5, <2>6 DEF RequestOK
  <2> QED BY <2>3, <2>4, <2>5, <2>6, <2>7 DEF Becomes
<1> QED BY <1>1, <1>2

\* A cached thumbnail is served, or the archive is opened.
LEMMA CheckThumbBecomes ==
  ASSUME Inv, NEW r \in Requests, CheckThumb(r)
  PROVE  Becomes(r, {"idle", "done", "serve", "open", "contain"})
<1>1. req[r].pc = "cached?" /\ <<req[r].path, req[r].hash>> \in Places /\ req[r].hash \in Contents
  BY DEF CheckThumb, Inv, ReqInv, RequestOK
<1>2. CASE ThumbReady(r)
  BY <1>1, <1>2, ThumbReadyBecomes, BecomesMore DEF Inv
<1>3. CASE ~ThumbReady(r)
  <2> DEFINE pc == IF req[r].kind = "prewarm" THEN "open" ELSE "contain"
  <2>1. Goto(r, pc)
    BY <1>3 DEF CheckThumb
  <2>2. pc \in {"open", "contain"}
    OBVIOUS
  <2> HIDE DEF pc
  <2>3. Becomes(r, {pc})
    BY <1>1, <2>1, <2>2, GotoBecomes DEF Inv, States
  <2> QED BY <2>2, <2>3, BecomesMore
<1> QED BY <1>2, <1>3

\* A path that is contained is sent or read.
LEMMA ContainBecomes ==
  ASSUME Inv, NEW r \in Requests, Contain(r)
  PROVE  Becomes(r, {"idle", "done", "send", "get"})
<1>1. req[r].pc = "contain" /\ <<req[r].path, req[r].hash>> \in Places
  BY DEF Contain, Inv, ReqInv, RequestOK
<1>2. CASE Answer(r, 404, None)
  BY <1>2, AnswerBecomes, BecomesMore DEF Inv, MaybeContent
<1>3. CASE ~Answer(r, 404, None)
  <2> DEFINE pc == IF req[r].kind = "file" THEN "send" ELSE "get"
  <2>1. Goto(r, pc)
    BY <1>3 DEF Contain
  <2>2. pc \in {"send", "get"}
    OBVIOUS
  <2> HIDE DEF pc
  <2>3. Becomes(r, {pc})
    BY <1>1, <2>1, <2>2, GotoBecomes DEF Inv, States
  <2> QED BY <2>2, <2>3, BecomesMore
<1> QED BY <1>2, <1>3

\* What is at a path that has held a content is a content; the same one, if
\* no file is replaced.
LEMMA FoundOK ==
  ASSUME Inv, NEW p, NEW h, <<p, h>> \in Places, file[p] # Absent
  PROVE  /\ p \in Paths /\ h \in Contents /\ file[p] \in Contents
         /\ OneContent => file[p] = h
  BY DEF Inv, FileInv, Files, OneContent

\* A download sends what is at the path.
LEMMA SendFileBecomes ==
  ASSUME Inv, NEW r \in Requests, SendFile(r)
  PROVE  Becomes(r, {"idle", "done"})
<1>1. req[r].pc = "send" /\ <<req[r].path, req[r].hash>> \in Places
  BY DEF SendFile, Inv, ReqInv, RequestOK
<1> DEFINE now == file[req[r].path]
<1>2. CASE now = Absent
  BY <1>2, AnswerBecomes DEF SendFile, Inv, MaybeContent
<1>3. CASE now # Absent
  <2>1. now \in Contents /\ (OneContent => now = req[r].hash)
    BY <1>1, <1>3, FoundOK
  <2>2. Answer(r, 200, now)
    BY <1>3 DEF SendFile
  <2> HIDE DEF now
  <2> QED BY <2>1, <2>2, AnswerBecomes DEF Inv, MaybeContent
<1> QED BY <1>2, <1>3

\* A handle in the cache is for the hash that was asked for.
LEMMA CacheGetBecomes ==
  ASSUME Inv, NEW r \in Requests, CacheGet(r)
  PROVE  Becomes(r, {"open", "read"})
<1>1. req[r].pc = "get" /\ <<req[r].path, req[r].hash>> \in Places /\ req[r] \in Request
  BY DEF CacheGet, Inv, ReqInv, RequestOK
<1>2. CASE Goto(r, "open")
  <2>1. Becomes(r, {"open"})
    BY <1>1, <1>2, GotoBecomes DEF Inv, States
  <2> QED BY <2>1, BecomesMore
<1>3. CASE ~Goto(r, "open")
  <2>1. PICK i \in EntryOf(req[r].hash) :
          req' = [req EXCEPT ![r].path = None, ![r].handle = lru[i].path, ![r].pc = "read"]
    BY <1>3 DEF CacheGet
  <2> DEFINE p == lru[i].path
             q == [req[r] EXCEPT !.path = None, !.handle = p, !.pc = "read"]
  <2>2. p \in Paths /\ <<p, req[r].hash>> \in Places
    BY DEF EntryOf, Inv, LruInv
  <2>3. req' = [req EXCEPT ![r] = q]
    BY <2>1 DEF Inv, ReqInv
  <2> HIDE DEF p
  <2>4. q \in Request
    <3>1. "read" \in States /\ p \in MaybePath /\ None \in MaybePath
      BY <2>2 DEF States, MaybePath
    <3> QED BY <1>1, <3>1 DEF Request
  <2>5. q.pc = "read" /\ q.handle = p /\ q.hash = req[r].hash
    BY <1>1 DEF Request
  <2> HIDE DEF q
  <2>6. RequestOK(q)
    BY <2>2, <2>4, <2>5 DEF RequestOK
  <2> QED BY <2>3, <2>4, <2>5, <2>6 DEF Becomes
<1> QED BY <1>2, <1>3

\* A handle that was opened is of the path that was looked up.
LEMMA OpenArchiveBecomes ==
  ASSUME Inv, NEW r \in Requests, OpenArchive(r)
  PROVE  Becomes(r, {"idle", "done", "read", "put"})
<1>1. req[r].pc = "open" /\ <<req[r].path, req[r].hash>> \in Places /\ req[r] \in Request
  BY DEF OpenArchive, Inv, ReqInv, RequestOK
<1>2. CASE Answer(r, 500, None)
  BY <1>2, AnswerBecomes, BecomesMore DEF Inv, MaybeContent
<1>3. CASE ~Answer(r, 500, None)
  <2> DEFINE pc == IF req[r].kind = "prewarm" THEN "read" ELSE "put"
             p  == req[r].path
             q  == [req[r] EXCEPT !.path = None, !.handle = p, !.pc = pc]
  <2>1. req' = [req EXCEPT ![r] = q]
    BY <1>3 DEF OpenArchive, Inv, ReqInv
  <2>2. pc \in {"read", "put"} /\ p \in MaybePath
    BY <1>1 DEF Request
  <2> HIDE DEF p, pc
  <2>3. q \in Request
    <3>1. pc \in States /\ None \in MaybePath
      BY <2>2 DEF States, MaybePath
    <3> QED BY <1>1, <2>2, <3>1 DEF Request
  <2>4. q.pc = pc /\ q.handle = p /\ q.hash = req[r].hash
    BY <1>1 DEF Request
  <2> HIDE DEF q
  <2>5. RequestOK(q)
    BY <1>1, <2>2, <2>3, <2>4 DEF RequestOK, p
  <2> QED BY <2>1, <2>2, <2>3, <2>4, <2>5 DEF Becomes
<1> QED BY <1>2, <1>3

\* A handle that was put into the cache is read next.
LEMMA CachePutBecomes ==
  ASSUME Inv, NEW r \in Requests, CachePut(r)
  PROVE  Becomes(r, {"read"})
  BY GotoBecomes DEF CachePut, Inv, ReqInv, RequestOK, States

\* A page comes from what is at the handle's path.
LEMMA ReadPageBecomes ==
  ASSUME Inv, NEW r \in Requests, ReadPage(r)
  PROVE  Becomes(r, {"idle", "done", "ensure"})
<1> DEFINE now == file[req[r].handle]
<1>1. req[r].pc = "read" /\ <<req[r].handle, req[r].hash>> \in Places /\ req[r] \in Request
  BY DEF ReadPage, Inv, ReqInv, RequestOK
<1>2. CASE Answer(r, 500, None)
  BY <1>2, AnswerBecomes, BecomesMore DEF Inv, MaybeContent
<1>3. CASE ~Answer(r, 500, None)
  <2>1. now # Absent /\ now \in Contents /\ req[r].hash \in Contents
        /\ (OneContent => now = req[r].hash)
    BY <1>1, <1>3, FoundOK DEF ReadPage
  <2>2. IF req[r].kind = "page" THEN Answer(r, 200, now)
        ELSE req' = [req EXCEPT ![r].handle = None, ![r].bytes = now, ![r].pc = "ensure"]
    BY <1>3 DEF ReadPage
  <2> HIDE DEF now
  <2>3. CASE req[r].kind = "page"
    BY <2>1, <2>2, <2>3, AnswerBecomes, BecomesMore DEF Inv, MaybeContent
  <2>4. CASE req[r].kind # "page"
    <3> DEFINE q == [req[r] EXCEPT !.handle = None, !.bytes = now, !.pc = "ensure"]
    <3>1. req' = [req EXCEPT ![r] = q]
      BY <2>2, <2>4 DEF Inv, ReqInv
    <3>2. q \in Request
      <4>1. "ensure" \in States /\ None \in MaybePath /\ now \in MaybeContent
        BY <2>1 DEF States, MaybePath, MaybeContent
      <4> QED BY <1>1, <4>1 DEF Request
    <3>3. q.pc = "ensure" /\ q.bytes = now /\ q.hash = req[r].hash
      BY <1>1 DEF Request
    <3> HIDE DEF q
    <3>4. RequestOK(q)
      BY <2>1, <3>2, <3>3 DEF RequestOK
    <3> QED BY <3>1, <3>2, <3>3, <3>4 DEF Becomes
  <2> QED BY <2>3, <2>4
<1> QED BY <1>2, <1>3

\* A thumbnail that is there now is not made again.
LEMMA EnsureBecomes ==
  ASSUME Inv, NEW r \in Requests, Ensure(r)
  PROVE  Becomes(r, {"idle", "done", "serve", "create"})
<1>1. req[r].pc = "ensure" /\ req[r].hash \in Contents
  BY DEF Ensure, Inv, ReqInv, RequestOK
<1>2. CASE ThumbReady(r)
  BY <1>1, <1>2, ThumbReadyBecomes, BecomesMore DEF Inv
<1>3. CASE ~ThumbReady(r)
  <2>1. Becomes(r, {"create"})
    BY <1>1, <1>3, GotoBecomes DEF Ensure, Inv, States
  <2> QED BY <2>1, BecomesMore
<1> QED BY <1>2, <1>3

\* A temporary file is created before it is written.
LEMMA CreateTmpBecomes ==
  ASSUME Inv, NEW r \in Requests, CreateTmp(r)
  PROVE  Becomes(r, {"write"})
  BY GotoBecomes DEF CreateTmp, Inv, States

\* It is written before it is renamed.
LEMMA WriteTmpBecomes ==
  ASSUME Inv, NEW r \in Requests, WriteTmp(r)
  PROVE  Becomes(r, {"rename"})
  BY GotoBecomes DEF WriteTmp, Inv, States

\* After the rename the thumbnail is ready.
LEMMA RenameTmpBecomes ==
  ASSUME Inv, NEW r \in Requests, RenameTmp(r)
  PROVE  Becomes(r, {"idle", "done", "serve"})
<1>1. req[r].hash \in Contents
  BY DEF RenameTmp, Inv, ReqInv, RequestOK
<1>2. CASE ThumbReady(r)
  BY <1>1, <1>2, ThumbReadyBecomes DEF Inv
<1>3. CASE ~ThumbReady(r)
  <2>1. Answer(r, 500, None)
    BY <1>3 DEF RenameTmp
  <2> QED BY <2>1, AnswerBecomes, BecomesMore DEF Inv, MaybeContent
<1> QED BY <1>2, <1>3

\* A writer that fails answers with an error.
LEMMA WriteFailsBecomes ==
  ASSUME Inv, NEW r \in Requests, WriteFails(r)
  PROVE  Becomes(r, {"idle", "done"})
  BY AnswerBecomes DEF WriteFails, Inv, MaybeContent

\* A thumbnail that is served is the one filed under the hash.
LEMMA ServeThumbBecomes ==
  ASSUME Inv, NEW r \in Requests, ServeThumb(r)
  PROVE  Becomes(r, {"idle", "done"})
<1> DEFINE found == thumb[req[r].hash]
<1>1. req[r].hash \in Contents
  BY DEF ServeThumb, Inv, ReqInv, RequestOK
<1>2. CASE found = None
  BY <1>2, AnswerBecomes DEF ServeThumb, ThumbOf, Inv, MaybeContent
<1>3. CASE found # None
  <2>1. found \in Contents /\ (OneContent => found = req[r].hash)
    BY <1>1, <1>3 DEF Inv, ThumbInv
  <2>2. Answer(r, 200, found)
    BY <1>3 DEF ServeThumb, ThumbOf
  <2> HIDE DEF found
  <2> QED BY <2>1, <2>2, AnswerBecomes DEF Inv, MaybeContent
<1> QED BY <1>2, <1>3
------------------------------------------------------------------------------
(* Every step keeps the invariant.                                          *)

\* The invariant holds at the start.
LEMMA InitInv == Init => Inv
<1> SUFFICES ASSUME Init PROVE Inv
  OBVIOUS
<1> USE DEF Init
<1>1. ReqInv
  BY IdleOK DEF ReqInv
<1>2. SteadyInv /\ FileInv /\ TmpInv /\ ThumbInv
  BY DEF SteadyInv, FileInv, TmpInv, ThumbInv
<1>3. RowsInv
  BY DEF RowsInv
<1>4. LruInv
  BY DEF LruInv
<1> QED BY <1>1, <1>2, <1>3, <1>4 DEF Inv

\* A request that has no temporary file goes on without one.
LEMMA QuietTmp ==
  ASSUME Inv, NEW r \in Requests, NEW pcs, Becomes(r, pcs), "rename" \notin pcs,
         req[r].pc \notin {"write", "rename"}, UNCHANGED <<tmp, leftovers>>
  PROVE  TmpInv'
<1>1. req'[r].pc # "rename" /\ \A n \in Requests \ {r} : req'[n] = req[n]
  BY BecomesInv DEF Inv
<1> QED BY <1>1 DEF Inv, TmpInv

\* A step of a worker that leaves what is shared keeps the invariant.
LEMMA QuietStep ==
  ASSUME Inv, NEW r \in Requests, NEW pcs, Becomes(r, pcs), "rename" \notin pcs,
         req[r].pc \notin {"write", "rename"}, UNCHANGED shared, SteadyInv'
  PROVE  Inv'
<1>1. ReqInv' /\ TmpInv'
  BY BecomesInv, QuietTmp DEF Inv, shared
<1>2. FileInv' /\ RowsInv' /\ LruInv' /\ ThumbInv'
  BY DEF shared, Inv, FileInv, RowsInv, LruInv, ThumbInv
<1> QED BY <1>1, <1>2 DEF Inv

\* The history of a worker may change.
LEMMA SteadySet ==
  ASSUME Inv, NEW r \in Requests, NEW v \in BOOLEAN, steady' = [steady EXCEPT ![r] = v]
  PROVE  SteadyInv'
  BY DEF Inv, SteadyInv

\* A new request keeps the invariant.
LEMMA AskInv ==
  ASSUME Inv, NEW r \in Requests, NEW kind \in Kinds, NEW h \in Contents, Ask(r, kind, h)
  PROVE  Inv'
<1>1. Becomes(r, {"lookup"})
  BY AskBecomes
<1>2. SteadyInv'
  BY SteadySet DEF Ask
<1> QED BY <1>1, <1>2, QuietStep DEF Ask

\* Prewarm's choice of a row keeps it.
LEMMA PrewarmInv ==
  ASSUME Inv, NEW r \in Requests, NEW i \in DOMAIN rows, Prewarm(r, i)
  PROVE  Inv'
<1>1. Becomes(r, {"cached?"})
  BY PrewarmBecomes
<1>2. SteadyInv'
  BY SteadySet DEF Prewarm
<1> QED BY <1>1, <1>2, QuietStep DEF Prewarm

\* The lookup of the row keeps it.
LEMMA LookupInv ==
  ASSUME Inv, NEW r \in Requests, Lookup(r)
  PROVE  Inv'
<1>1. Becomes(r, {"idle", "done", "cached?", "contain"})
  BY LookupBecomes
<1>2. SteadyInv'
  <2>1. CASE UNCHANGED steady
    BY <2>1 DEF Inv, SteadyInv
  <2>2. CASE ~UNCHANGED steady
    <3>1. PICK i \in DOMAIN rows :
            steady' = [steady EXCEPT ![r] =
                         req[r].kind = "page" /\ file[rows[i].path] = req[r].hash]
      BY <2>2 DEF Lookup
    <3> DEFINE v == req[r].kind = "page" /\ file[rows[i].path] = req[r].hash
    <3>2. v \in BOOLEAN
      OBVIOUS
    <3> HIDE DEF v
    <3> QED BY <3>1, <3>2, SteadySet DEF v
  <2> QED BY <2>1, <2>2
<1> QED BY <1>1, <1>2, QuietStep DEF Lookup

\* The steps that only look.
LEMMA LookingInv ==
  ASSUME Inv, NEW r \in Requests,
         CheckThumb(r) \/ Contain(r) \/ SendFile(r) \/ OpenArchive(r) \/ ReadPage(r)
           \/ Ensure(r) \/ ServeThumb(r)
  PROVE  Inv'
<1> DEFINE pcs == States \ {"rename"}
<1>1. SteadyInv' /\ UNCHANGED shared
  BY DEF CheckThumb, Contain, SendFile, OpenArchive, ReadPage, Ensure, ServeThumb, Inv, SteadyInv
<1>2. Becomes(r, pcs)
  <2>1. CASE CheckThumb(r)
    BY <2>1, CheckThumbBecomes, BecomesMore DEF States
  <2>2. CASE Contain(r)
    BY <2>2, ContainBecomes, BecomesMore DEF States
  <2>3. CASE SendFile(r)
    BY <2>3, SendFileBecomes, BecomesMore DEF States
  <2>4. CASE OpenArchive(r)
    BY <2>4, OpenArchiveBecomes, BecomesMore DEF States
  <2>5. CASE ReadPage(r)
    BY <2>5, ReadPageBecomes, BecomesMore DEF States
  <2>6. CASE Ensure(r)
    BY <2>6, EnsureBecomes, BecomesMore DEF States
  <2>7. CASE ServeThumb(r)
    BY <2>7, ServeThumbBecomes, BecomesMore DEF States
  <2> QED BY <2>1, <2>2, <2>3, <2>4, <2>5, <2>6, <2>7
<1>3. req[r].pc \notin {"write", "rename"}
  BY DEF CheckThumb, Contain, SendFile, OpenArchive, ReadPage, Ensure, ServeThumb
<1> QED BY <1>1, <1>2, <1>3, QuietStep

\* The archive cache without the entry of a hash, and with a new one.
LEMMA LruEntry ==
  ASSUME LruInv, NEW s \in Seq([key : Contents, path : Paths]),
         \A j \in DOMAIN s : <<s[j].path, s[j].key>> \in Places,
         \A j, k \in DOMAIN s : s[j].key = s[k].key => j = k,
         NEW e \in [key : Contents, path : Paths], <<e.path, e.key>> \in Places,
         \A j \in DOMAIN s : s[j].key # e.key
  PROVE  LET t == Append(s, e)
         IN  /\ t \in Seq([key : Contents, path : Paths]) /\ Len(t) = Len(s) + 1
             /\ \A j \in DOMAIN t : <<t[j].path, t[j].key>> \in Places
             /\ \A j, k \in DOMAIN t : t[j].key = t[k].key => j = k
<1> DEFINE t == Append(s, e)
<1>1. /\ t \in Seq([key : Contents, path : Paths]) /\ Len(t) = Len(s) + 1
      /\ \A j, k \in DOMAIN t : t[j]["key"] = t[k]["key"] => j = k
      /\ \A j \in DOMAIN t : t[j] = e \/ \E k \in DOMAIN s : t[j] = s[k]
  BY AppendedInjective
<1> HIDE DEF t
<1> QED BY <1>1 DEF t

\* A cache without one entry is a cache.
LEMMA LruWithout ==
  ASSUME LruInv, NEW i \in DOMAIN lru
  PROVE  LET t == RemoveAt(lru, i)
         IN  /\ t \in Seq([key : Contents, path : Paths]) /\ Len(t) = Len(lru) - 1
             /\ \A j \in DOMAIN t : <<t[j].path, t[j].key>> \in Places
             /\ \A j, k \in DOMAIN t : t[j].key = t[k].key => j = k
             /\ \A j \in DOMAIN t : t[j].key # lru[i].key
<1> DEFINE t == RemoveAt(lru, i)
<1>1. /\ t \in Seq([key : Contents, path : Paths]) /\ Len(t) = Len(lru) - 1
      /\ \A j, k \in DOMAIN t : t[j]["key"] = t[k]["key"] => j = k
      /\ \A j \in DOMAIN t : \E k \in DOMAIN lru \ {i} : t[j] = lru[k]
      /\ \A j \in DOMAIN t : t[j]["key"] # lru[i]["key"]
  BY RemovedInjective DEF LruInv
<1> HIDE DEF t
<1> QED BY <1>1 DEF t, LruInv

\* A hit moves its entry to the front and keeps the invariant.
LEMMA CacheGetInv ==
  ASSUME Inv, NEW r \in Requests, CacheGet(r)
  PROVE  Inv'
<1>1. Becomes(r, {"open", "read"}) /\ req[r].pc = "get"
  BY CacheGetBecomes DEF CacheGet
<1>2. UNCHANGED <<file, rows, thumb, tmp, leftovers, steady>>
  BY DEF CacheGet
<1>3. ReqInv' /\ TmpInv'
  BY <1>1, <1>2, BecomesInv, QuietTmp DEF Inv
<1>4. LruInv'
  <2>1. CASE UNCHANGED lru
    BY <2>1 DEF Inv, LruInv
  <2>2. CASE ~UNCHANGED lru
    <3>1. PICK i \in DOMAIN lru : lru' = Append(RemoveAt(lru, i), lru[i])
      BY <2>2 DEF CacheGet, EntryOf
    <3> DEFINE s == RemoveAt(lru, i)
               e == lru[i]
    <3>2. /\ s \in Seq([key : Contents, path : Paths]) /\ Len(s) = Len(lru) - 1
          /\ \A j \in DOMAIN s : <<s[j].path, s[j].key>> \in Places
          /\ \A j, k \in DOMAIN s : s[j].key = s[k].key => j = k
          /\ \A j \in DOMAIN s : s[j].key # e.key
      BY LruWithout DEF Inv
    <3>3. e \in [key : Contents, path : Paths] /\ <<e.path, e.key>> \in Places
          /\ Len(lru) \in Nat /\ Len(lru) <= CacheSize
      <4>1. lru \in Seq([key : Contents, path : Paths]) /\ Len(lru) <= CacheSize
        BY DEF Inv, LruInv
      <4>2. <<lru[i].path, lru[i].key>> \in Places
        BY DEF Inv, LruInv
      <4>3. e \in [key : Contents, path : Paths]
        <5> DEFINE S == [key : Contents, path : Paths]
        <5> HIDE DEF S, e
        <5>1. lru \in Seq(S) /\ i \in DOMAIN lru
          BY <4>1 DEF S
        <5> QED BY <5>1, ElementIn DEF S, e
      <4>4. Len(lru) \in Nat
        BY <4>1
      <4> QED BY <4>1, <4>2, <4>3, <4>4
    <3> HIDE DEF s, e
    <3>4. LET t == Append(s, e)
          IN  /\ t \in Seq([key : Contents, path : Paths]) /\ Len(t) = Len(s) + 1
              /\ \A j \in DOMAIN t : <<t[j].path, t[j].key>> \in Places
              /\ \A j, k \in DOMAIN t : t[j].key = t[k].key => j = k
      BY <3>2, <3>3, LruEntry DEF Inv
    <3>5. lru' = Append(s, e)
      BY <3>1 DEF s, e
    <3> QED BY <3>2, <3>3, <3>4, <3>5 DEF LruInv
  <2> QED BY <2>1, <2>2
<1>5. SteadyInv' /\ FileInv' /\ RowsInv' /\ ThumbInv'
  BY <1>2 DEF Inv, SteadyInv, FileInv, RowsInv, ThumbInv
<1> QED BY <1>3, <1>4, <1>5 DEF Inv

\* An entry that is put in replaces that of its hash, or the oldest if the
\* cache is full.
LEMMA CachePutInv ==
  ASSUME Inv, NEW r \in Requests, CachePut(r)
  PROVE  Inv'
<1> DEFINE h == req[r].hash
           e == [key |-> h, path |-> req[r].handle]
           s == OthersThan(h)
           t == Append(s, e)
<1>1. Becomes(r, {"read"}) /\ req[r].pc = "put"
  BY CachePutBecomes DEF CachePut
<1>2. UNCHANGED <<file, rows, thumb, tmp, leftovers, steady>> /\ lru' = Evict(t)
  BY DEF CachePut
<1>3. ReqInv' /\ TmpInv'
  BY <1>1, <1>2, BecomesInv, QuietTmp DEF Inv
<1>4. e \in [key : Contents, path : Paths] /\ <<e.path, e.key>> \in Places /\ e.key = h
  <2>1. <<req[r].handle, h>> \in Places
    BY <1>1 DEF Inv, ReqInv, RequestOK
  <2> QED BY <2>1
<1>5. /\ s \in Seq([key : Contents, path : Paths])
      /\ Len(s) <= CacheSize
      /\ \A j \in DOMAIN s : <<s[j].path, s[j].key>> \in Places
      /\ \A j, k \in DOMAIN s : s[j].key = s[k].key => j = k
      /\ \A j \in DOMAIN s : s[j].key # h
  <2> HIDE DEF h
  <2>1. CASE EntryOf(h) = {}
    BY <2>1 DEF OthersThan, EntryOf, Inv, LruInv
  <2>2. CASE EntryOf(h) # {}
    <3>1. PICK i \in EntryOf(h) : s = RemoveAt(lru, i)
      BY <2>2 DEF OthersThan
    <3>2. i \in DOMAIN lru /\ lru[i].key = h
      BY DEF EntryOf
    <3>3. Len(lru) \in Nat /\ Len(lru) <= CacheSize
      BY DEF Inv, LruInv
    <3> HIDE DEF s
    <3>4. /\ s \in Seq([key : Contents, path : Paths]) /\ Len(s) = Len(lru) - 1
          /\ \A j \in DOMAIN s : <<s[j].path, s[j].key>> \in Places
          /\ \A j, k \in DOMAIN s : s[j].key = s[k].key => j = k
          /\ \A j \in DOMAIN s : s[j].key # lru[i].key
      BY <3>1, <3>2, LruWithout DEF Inv
    <3> QED BY <3>2, <3>3, <3>4
  <2> QED BY <2>1, <2>2
<1> HIDE DEF h, e, s
<1>6. /\ t \in Seq([key : Contents, path : Paths]) /\ Len(t) = Len(s) + 1
      /\ \A j \in DOMAIN t : <<t[j].path, t[j].key>> \in Places
      /\ \A j, k \in DOMAIN t : t[j].key = t[k].key => j = k
  BY <1>4, <1>5, LruEntry DEF Inv
<1>7. Len(s) \in Nat
  BY <1>5
<1> HIDE DEF t
<1>8. LruInv'
  <2>1. CASE Len(t) <= CacheSize
    <3>1. lru' = t
      BY <1>2, <1>6, <1>7, <2>1 DEF Evict
    <3> QED BY <1>6, <2>1, <3>1 DEF LruInv
  <2>2. CASE Len(t) > CacheSize
    <3>1. lru' = Tail(t)
      BY <1>2, <2>2 DEF Evict
    <3>2. /\ Tail(t) \in Seq([key : Contents, path : Paths]) /\ Len(Tail(t)) = Len(t) - 1
          /\ \A j \in DOMAIN Tail(t) : j + 1 \in DOMAIN t /\ Tail(t)[j] = t[j + 1]
      BY <1>6, <1>7
    <3> DEFINE u == Tail(t)
    <3> HIDE DEF u
    <3>3. /\ u \in Seq([key : Contents, path : Paths]) /\ Len(u) = Len(t) - 1
          /\ \A j \in DOMAIN u : j \in Nat /\ j + 1 \in DOMAIN t /\ u[j] = t[j + 1]
      BY <3>2 DEF u
    <3>4. Len(u) <= CacheSize
      BY <1>5, <1>6, <1>7, <3>3
    <3>5. \A j \in DOMAIN u : <<u[j].path, u[j].key>> \in Places
      BY <1>6, <3>3
    <3>6. \A j, k \in DOMAIN u : u[j].key = u[k].key => j = k
      <4> SUFFICES ASSUME NEW j \in DOMAIN u, NEW k \in DOMAIN u, u[j].key = u[k].key
                   PROVE  j = k
        OBVIOUS
      <4>1. j + 1 = k + 1
        BY <1>6, <3>3
      <4> QED BY <3>3, <4>1
    <3> QED BY <3>1, <3>3, <3>4, <3>5, <3>6 DEF LruInv, u
  <2> QED BY <1>6, <1>7, <2>1, <2>2
<1>9. SteadyInv' /\ FileInv' /\ RowsInv' /\ ThumbInv'
  BY <1>2 DEF Inv, SteadyInv, FileInv, RowsInv, ThumbInv
<1> QED BY <1>3, <1>8, <1>9 DEF Inv

\* A temporary file is its writer's.
LEMMA CreateTmpInv ==
  ASSUME Inv, NEW r \in Requests, CreateTmp(r)
  PROVE  Inv'
<1>1. Becomes(r, {"write"})
  BY CreateTmpBecomes
<1>2. /\ ReqInv' /\ req'[r].pc = "write"
      /\ \A n \in Requests \ {r} : req'[n] = req[n]
  BY <1>1, BecomesInv DEF Inv
<1>3. tmp' = WithTmp(r, Partial) /\ leftovers' = leftovers \ {r}
  BY DEF CreateTmp, TmpOf
<1>4. TmpInv'
  BY <1>2, <1>3 DEF Inv, TmpInv, WithTmp
<1>5. SteadyInv' /\ FileInv' /\ RowsInv' /\ LruInv' /\ ThumbInv'
  BY DEF CreateTmp, Inv, SteadyInv, FileInv, RowsInv, LruInv, ThumbInv
<1> QED BY <1>2, <1>4, <1>5 DEF Inv

\* What is written is whole, and its writer's.
LEMMA WriteTmpInv ==
  ASSUME Inv, NEW r \in Requests, WriteTmp(r)
  PROVE  Inv'
<1>1. Becomes(r, {"rename"})
  BY WriteTmpBecomes
<1>2. /\ ReqInv' /\ req'[r].pc = "rename"
      /\ \A n \in Requests \ {r} : req'[n] = req[n]
  BY <1>1, BecomesInv DEF Inv
<1>3. /\ tmp' = IF r \in DOMAIN tmp THEN WithTmp(r, req[r].bytes) ELSE tmp
      /\ UNCHANGED leftovers
      /\ req[r].bytes \in Contents
      /\ req'[r].bytes = req[r].bytes
  BY DEF WriteTmp, TmpOf, Goto, Inv, ReqInv, RequestOK, Request
<1>4. TmpInv'
  <2>1. CASE r \in DOMAIN tmp
    BY <1>2, <1>3, <2>1 DEF Inv, TmpInv, WithTmp
  <2>2. CASE r \notin DOMAIN tmp
    BY <1>2, <1>3, <2>2 DEF Inv, TmpInv
  <2> QED BY <2>1, <2>2
<1>5. SteadyInv' /\ FileInv' /\ RowsInv' /\ LruInv' /\ ThumbInv'
  BY DEF WriteTmp, Inv, SteadyInv, FileInv, RowsInv, LruInv, ThumbInv
<1> QED BY <1>2, <1>4, <1>5 DEF Inv

\* What is renamed was whole, so what is visible is.
LEMMA RenameTmpInv ==
  ASSUME Inv, NEW r \in Requests, RenameTmp(r)
  PROVE  Inv'
<1>1. Becomes(r, {"idle", "done", "serve"})
  BY RenameTmpBecomes
<1>2. /\ ReqInv' /\ req'[r].pc \in {"idle", "done", "serve"}
      /\ \A n \in Requests \ {r} : req'[n] = req[n]
  BY <1>1, BecomesInv DEF Inv
<1> DEFINE h == req[r].hash
<1>3. /\ req[r].pc = "rename" /\ h \in Contents /\ req[r].bytes \in Contents
      /\ (OneContent => req[r].bytes = h)
  BY DEF RenameTmp, Inv, ReqInv, RequestOK
<1>4. TmpInv' /\ ThumbInv'
  <2>1. CASE r \in DOMAIN tmp
    <3>1. /\ tmp' = WithoutTmp(r) /\ thumb' = [thumb EXCEPT ![h] = tmp[r]]
          /\ UNCHANGED leftovers
      BY <2>1 DEF RenameTmp, TmpOf, ThumbOf
    <3>2. tmp[r] = req[r].bytes
      BY <1>3, <2>1 DEF Inv, TmpInv
    <3>3. TmpInv'
      BY <1>2, <3>1 DEF Inv, TmpInv, WithoutTmp
    <3> HIDE DEF h
    <3>4. ThumbInv'
      BY <1>3, <3>1, <3>2 DEF Inv, ThumbInv
    <3> QED BY <3>3, <3>4
  <2>2. CASE r \notin DOMAIN tmp
    BY <1>2, <2>2 DEF RenameTmp, TmpOf, Inv, TmpInv, ThumbInv
  <2> QED BY <2>1, <2>2
<1>5. SteadyInv' /\ FileInv' /\ RowsInv' /\ LruInv'
  BY DEF RenameTmp, Inv, SteadyInv, FileInv, RowsInv, LruInv
<1> QED BY <1>2, <1>4, <1>5 DEF Inv

\* A writer that fails takes its temporary file along.
LEMMA WriteFailsInv ==
  ASSUME Inv, NEW r \in Requests, WriteFails(r)
  PROVE  Inv'
<1>1. Becomes(r, {"idle", "done"})
  BY WriteFailsBecomes
<1>2. /\ ReqInv' /\ req'[r].pc \in {"idle", "done"}
      /\ \A n \in Requests \ {r} : req'[n] = req[n]
  BY <1>1, BecomesInv DEF Inv
<1>3. /\ tmp' = IF req[r].pc = "create" THEN tmp ELSE WithoutTmp(r)
      /\ req[r].pc \in {"create", "write", "rename"} /\ UNCHANGED leftovers
  BY DEF WriteFails, TmpOf
<1>4. TmpInv'
  <2>1. CASE req[r].pc = "create"
    BY <1>2, <1>3, <2>1 DEF Inv, TmpInv
  <2>2. CASE req[r].pc # "create"
    BY <1>2, <1>3, <2>2 DEF Inv, TmpInv, WithoutTmp
  <2> QED BY <2>1, <2>2
<1>5. SteadyInv' /\ FileInv' /\ RowsInv' /\ LruInv' /\ ThumbInv'
  BY DEF WriteFails, Inv, SteadyInv, FileInv, RowsInv, LruInv, ThumbInv
<1> QED BY <1>2, <1>4, <1>5 DEF Inv

\* After a crash temporary files belong to nobody, and thumbnails are whole.
LEMMA CrashInv ==
  ASSUME Inv, Crash
  PROVE  Inv'
<1>1. ReqInv'
  BY IdleOK DEF Crash, ReqInv
<1>2. TmpInv'
  <2>1. \A n \in Requests : req'[n].pc = "idle"
    BY IdleOK DEF Crash
  <2> QED BY <2>1 DEF Crash, Inv, TmpInv
<1>3. SteadyInv' /\ FileInv' /\ RowsInv' /\ ThumbInv'
  BY DEF Crash, Inv, SteadyInv, FileInv, RowsInv, ThumbInv
<1>4. LruInv'
  BY DEF Crash, LruInv
<1> QED BY <1>1, <1>2, <1>3, <1>4 DEF Inv

\* Files that come and go leave what the server holds.
LEMMA FilesInv ==
  ASSUME Inv, NEW p \in Paths, NEW c \in Files, c = Absent \/ <<p, c>> \in Places,
         file' = [file EXCEPT ![p] = c], FilesChange
  PROVE  Inv'
<1>1. FileInv'
  BY DEF Inv, FileInv
<1>2. SteadyInv'
  BY DEF FilesChange, SteadyInv
<1>3. ReqInv' /\ RowsInv' /\ LruInv' /\ TmpInv' /\ ThumbInv'
  BY DEF FilesChange, Inv, ReqInv, RowsInv, LruInv, TmpInv, ThumbInv
<1> QED BY <1>1, <1>2, <1>3 DEF Inv

\* A rescan leaves one row for a path.
LEMMA RescanInv ==
  ASSUME Inv, NEW p \in Paths, Rescan(p)
  PROVE  Inv'
<1> DEFINE e == [path |-> p, hash |-> file[p]]
<1>1. RowsInv'
  <2>0. /\ rows \in Seq([path : Paths, hash : Contents])
        /\ \A i \in DOMAIN rows : <<rows[i].path, rows[i].hash>> \in Places
        /\ \A i, j \in DOMAIN rows : rows[i].path = rows[j].path => i = j
    BY DEF Inv, RowsInv
  <2>1. ASSUME NEW i \in RowOf(p), rows' = RemoveAt(rows, i)
        PROVE  RowsInv'
    <3> DEFINE t == RemoveAt(rows, i)
    <3>1. i \in DOMAIN rows
      BY DEF RowOf
    <3>2. /\ t \in Seq([path : Paths, hash : Contents])
          /\ \A j, k \in DOMAIN t : t[j]["path"] = t[k]["path"] => j = k
          /\ \A j \in DOMAIN t : \E k \in DOMAIN rows \ {i} : t[j] = rows[k]
      BY <2>0, <3>1, RemovedInjective
    <3> HIDE DEF t
    <3>3. rows' = t
      BY <2>1 DEF t
    <3> QED BY <2>0, <3>2, <3>3 DEF RowsInv
  <2>2. ASSUME file[p] # Absent, RowOf(p) = {}, rows' = Append(rows, e)
        PROVE  RowsInv'
    <3> DEFINE t == Append(rows, e)
    <3>1. e \in [path : Paths, hash : Contents] /\ <<e.path, e.hash>> \in Places /\ e.path = p
      BY <2>2 DEF Inv, FileInv, Files
    <3> HIDE DEF e
    <3>2. \A j \in DOMAIN rows : rows[j].path # e.path
      BY <2>2, <3>1 DEF RowOf
    <3>3. /\ t \in Seq([path : Paths, hash : Contents])
          /\ \A j, k \in DOMAIN t : t[j]["path"] = t[k]["path"] => j = k
          /\ \A j \in DOMAIN t : t[j] = e \/ \E k \in DOMAIN rows : t[j] = rows[k]
      BY <2>0, <3>1, <3>2, AppendedInjective
    <3> HIDE DEF t
    <3>4. rows' = t
      BY <2>2 DEF t
    <3> QED BY <2>0, <3>1, <3>3, <3>4 DEF RowsInv
  <2>3. ASSUME file[p] # Absent, NEW i \in RowOf(p), rows' = [rows EXCEPT ![i] = e]
        PROVE  RowsInv'
    <3>1. e \in [path : Paths, hash : Contents] /\ <<e.path, e.hash>> \in Places /\ e.path = p
      BY <2>3 DEF Inv, FileInv, Files
    <3>2. i \in DOMAIN rows /\ rows[i].path = p
      BY DEF RowOf
    <3> HIDE DEF e
    <3>3. /\ rows' \in Seq([path : Paths, hash : Contents]) /\ DOMAIN rows' = DOMAIN rows
          /\ \A j \in DOMAIN rows : rows'[j] = IF j = i THEN e ELSE rows[j]
      BY <2>0, <2>3, <3>1, <3>2
    <3>4. \A j \in DOMAIN rows : rows'[j].path = rows[j].path
      BY <3>1, <3>2, <3>3
    <3>5. \A j \in DOMAIN rows' : <<rows'[j].path, rows'[j].hash>> \in Places
      BY <2>0, <3>1, <3>3
    <3>6. \A j, k \in DOMAIN rows' : rows'[j].path = rows'[k].path => j = k
      BY <2>0, <3>3, <3>4
    <3> QED BY <3>3, <3>5, <3>6 DEF RowsInv
  <2> QED BY <2>1, <2>2, <2>3 DEF Rescan
<1>2. ReqInv' /\ SteadyInv' /\ FileInv' /\ LruInv' /\ TmpInv' /\ ThumbInv'
  BY DEF Rescan, Inv, ReqInv, SteadyInv, FileInv, LruInv, TmpInv, ThumbInv
<1> QED BY <1>1, <1>2 DEF Inv

\* Every step keeps the invariant.
LEMMA InvPreserved == Inv /\ [Next]_vars => Inv'
<1> SUFFICES ASSUME Inv, [Next]_vars PROVE Inv'
  OBVIOUS
<1>1. ASSUME NEW p \in Paths, NEW c \in Contents, PutFile(p, c) PROVE Inv'
  BY <1>1, FilesInv DEF PutFile, Files
<1>2. ASSUME NEW p \in Paths, RemoveFile(p) PROVE Inv'
  BY <1>2, FilesInv DEF RemoveFile, Files
<1>3. ASSUME NEW r \in Requests, Step(r) PROVE Inv'
  BY <1>3, LookupInv, LookingInv, CacheGetInv, CachePutInv, CreateTmpInv, WriteTmpInv,
     RenameTmpInv, WriteFailsInv DEF Step
<1>4. CASE UNCHANGED vars
  BY <1>4 DEF vars, Inv, ReqInv, SteadyInv, FileInv, RowsInv, LruInv, TmpInv, ThumbInv
<1> QED BY <1>1, <1>2, <1>3, <1>4, RescanInv, AskInv, PrewarmInv, CrashInv DEF Next

\* The invariant holds always.
LEMMA Invariance == Spec => []Inv
  BY InitInv, InvPreserved, PTL DEF Spec
------------------------------------------------------------------------------
(* What the invariant is for.                                               *)

\* Every variable has its type, and no path has two rows.
THEOREM Typing == Spec => []TypeOK
<1>1. Inv => TypeOK
  <2> SUFFICES ASSUME Inv PROVE TypeOK
    OBVIOUS
  <2>1. ASSUME NEW r \in Requests
        PROVE  /\ req[r].kind \in Kinds
               /\ req[r].hash \in Contents \cup {None}
               /\ req[r].path \in Paths \cup {None}
               /\ req[r].handle \in Paths \cup {None}
               /\ req[r].bytes \in Contents \cup {None, Partial}
               /\ req[r].status \in {0, 200, 404, 500}
    <3>1. req[r] \in Request
      BY DEF Inv, ReqInv
    <3>2. /\ req[r].kind \in Kinds /\ req[r].hash \in MaybeContent /\ req[r].path \in MaybePath
          /\ req[r].handle \in MaybePath /\ req[r].bytes \in MaybeContent
          /\ req[r].status \in Statuses
      BY <3>1 DEF Request
    <3> QED BY <3>2 DEF MaybePath, MaybeContent, Statuses
  <2> QED BY <2>1 DEF TypeOK, Inv, FileInv, RowsInv, ThumbInv, TmpInv, SteadyInv
<1> QED BY <1>1, Invariance, PTL

\* The archive cache holds one handle for each hash and no more than it may,
\* whatever is opened at once (Cache::get_or_open).
THEOREM Bounding == Spec => []CacheBounded
<1>1. Inv => CacheBounded
  BY DEF Inv, LruInv, CacheBounded
<1> QED BY <1>1, Invariance, PTL

\* No thumbnail is seen half-written, whoever is killed when (write_resized).
THEOREM Wholeness == Spec => []ThumbsAreWhole
<1>1. Inv => ThumbsAreWhole
  BY DEF Inv, ThumbInv, ThumbsAreWhole
<1> QED BY <1>1, Invariance, PTL

\* Nobody but a killed process leaves a temporary file behind (TmpGuard).
THEOREM Ownership == Spec => []TmpsAreOwned
<1>1. Inv => TmpsAreOwned
  BY DEF Inv, TmpInv, TmpsAreOwned, TmpOf
<1> QED BY <1>1, Invariance, PTL

\* A body is of the content its URL names, as long as no file is replaced by
\* another: however many copies there are, and whatever the caches keep of
\* those that are gone (book_page, book_cover, book_thumbnail, book_file).
THEOREM RightBodies == OneContent => (Spec => []RightBytes)
<1> SUFFICES ASSUME OneContent PROVE Spec => []RightBytes
  OBVIOUS
<1>1. Inv => RightBytes
  BY DEF Inv, ReqInv, RequestOK, RightBytes
<1> QED BY <1>1, Invariance, PTL

\* A thumbnail is filed under the content it was made of, under the same
\* condition (ensure_thumbnail).
THEOREM RightFiling == OneContent => (Spec => []RightThumbs)
<1> SUFFICES ASSUME OneContent PROVE Spec => []RightThumbs
  OBVIOUS
<1>1. Inv => RightThumbs
  BY DEF Inv, ThumbInv, RightThumbs
<1> QED BY <1>1, Invariance, PTL
==============================================================================
