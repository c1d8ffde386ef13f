---------------------------- MODULE MCBookServing ----------------------------
(* BookServing for TLC: two copies of the content "A" and, in the larger    *)
(* instances, another book "B".                                             *)
EXTENDS BookServing, TLC

CONSTANTS p1, p2, p3, A, B, r1, r2

MCFixed == {<<p1, A>>, <<p2, A>>, <<p3, B>>} \cap (Paths \X Contents)
MCAll   == Paths \X Contents

MCSymmetry == Permutations(Requests)

(* With one path for each content, as in Serve.cfg, the two books are       *)
(* exchanged together with their paths.                                     *)
Books      == (p1 :> p1) @@ (p3 :> p3) @@ (A :> A) @@ (B :> B)
OtherWay   == (p1 :> p3) @@ (p3 :> p1) @@ (A :> B) @@ (B :> A)
MCExchange == {requests @@ books : requests \in Permutations(Requests),
                                   books \in {Books, OtherWay}}
==============================================================================
