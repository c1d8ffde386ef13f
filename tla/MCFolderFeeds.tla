--------------------------- MODULE MCFolderFeeds -----------------------------
(* FolderFeeds for TLC: a library of two series, one of them with a book,   *)
(* and perhaps a book beside them.                                          *)
EXTENDS FolderFeeds, TLC

CONSTANTS lib, sub, other, issue, extra, none, A, B

MCParent == [p \in Paths |->
                CASE p = lib -> none
                  [] p = issue -> sub
                  [] OTHER -> lib]

MCSizeOf == [c \in Contents |-> 1]

\* More folders fit than FolderLimit.
MCSearches == {{lib, other, issue}}

MCRank == [p \in Paths |-> IF p = other THEN 2 ELSE 1]
==============================================================================
