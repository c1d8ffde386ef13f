--------------------------- MODULE MCLibraryScan -----------------------------
(* LibraryScan for TLC.  "A" and "B" are of one size, "X" is of another,    *)
(* not an archive or too large.  Two libraries: a series with one book in   *)
(* it and perhaps one beside it, and a book two directories down, next to a *)
(* hidden directory.                                                        *)
EXTENDS LibraryScan, TLC

CONSTANTS lib, sub, deep, dot, issue, extra, none, A, B, X

MCParent == [p \in Paths |->
                CASE p = lib -> none
                  [] p \in {sub, extra} -> lib
                  [] p \in {deep, dot} -> sub
                  [] p = issue -> IF deep \in Folders THEN deep ELSE sub]

MCSizeOf == [c \in Contents |-> IF c = X THEN 2 ELSE 1]
==============================================================================
