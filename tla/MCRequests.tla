----------------------------- MODULE MCRequests -------------------------------
(* Requests and Download for TLC: one question is asked, or one download    *)
(* made.  Characters are 0 and 1 (48, 49), A and a, and the four with a     *)
(* meaning.                                                                 *)
EXTENDS Download

MCLower == [c \in {42, 48, 49, 65, 92, 95, 97, 37} |-> IF c = 65 THEN 97 ELSE c]

MCNames == BoundedSeq({48, 49, 65, 97, 95}, 3) \cup
           {<<48, 48, 48, 49>>, <<49, 49, 49, 49>>, <<97, 49, 49, 48>>, <<95, 37, 92>>,
            <<37>>, <<92>>, <<97, 37>>, <<92, 95>>}

MCQueries == BoundedSeq({97, 65, 42, 37, 95, 92}, 3) \cup {<<49, 42, 42, 97>>}

\* Leaves by name, whether they are images, and what they declare and hold: A1
\* and a1 are equal to natsort, one leaf declares too much, one too little.
MCLeaf(name, image, declared, actual) ==
    [name |-> name, image |-> image, declared |-> declared, actual |-> actual]

MCLeaves ==
    {MCLeaf(<<97, 49>>, TRUE, 1, 1), MCLeaf(<<65, 49>>, TRUE, 1, 1),
     MCLeaf(<<97, 49, 48>>, TRUE, 1, 1), MCLeaf(<<97>>, FALSE, 9, 9),
     MCLeaf(<<48>>, TRUE, 9, 9), MCLeaf(<<49>>, TRUE, 1, 9), MCLeaf(<<49>>, TRUE, 1, 1)}

\* Archives of at most two of the leaves that differ in name or in what they
\* hold, larger ones, and a file that is no archive.
MCFiles ==
    [format : {"zip", "rar"},
     leaves : {s \in BoundedSeq({x \in MCLeaves : x.image /\ x.declared = 1}, 2) :
                  Len(s) = 2 => s[1].name # s[2].name}
              \cup {<<MCLeaf(<<97, 49, 48>>, TRUE, 1, 1), MCLeaf(<<65, 49>>, TRUE, 1, 1),
                     MCLeaf(<<97, 49>>, TRUE, 1, 1)>>,
                   <<MCLeaf(<<49>>, TRUE, 1, 9), MCLeaf(<<97>>, FALSE, 9, 9),
                     MCLeaf(<<97, 49>>, TRUE, 1, 1)>>,
                   <<MCLeaf(<<48>>, TRUE, 9, 9), MCLeaf(<<97, 49>>, TRUE, 1, 1)>>}]
    \cup [format : {"other"}, leaves : {<<>>}]

MCPageNumbers == -4..3

MCInit == AskInit /\ DownloadInit

MCNext ==
    \/ /\ at = "away" /\ version = 0 /\ length = 0 /\ chunk = 0 /\ asked.kind = "nothing"
       /\ Ask
       /\ UNCHANGED downloading
    \/ /\ asked.kind = "nothing"
       /\ DownloadNext
       /\ UNCHANGED asking

MCSpec == MCInit /\ [][MCNext]_<<asking, downloading>> /\ DownloadFairness
==============================================================================
