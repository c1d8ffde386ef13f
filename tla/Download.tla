------------------------------ MODULE Download --------------------------------
(***************************************************************************)
(* GET /books/:hash/file (serve_file_with_range) as a client sees it that  *)
(* resumes an interrupted download with a Range header, while the file may *)
(* be replaced.  A byte is its position and the version of the file.       *)
(***************************************************************************)
EXTENDS Requests

CONSTANTS
    Chunks,            \* bytes a client may ask for at a time; 0 for the rest
    MaxInterrupts,     \* bound: connections lost
    MaxReplaced        \* bound: times the file is replaced

ASSUME DownloadAssumption ==
    Chunks \subseteq Nat /\ MaxInterrupts \in Nat /\ MaxReplaced \in Nat

VARIABLES
    length,      \* the length of the file in place
    version,     \* how often it was replaced
    chunk,       \* what this client asks for at a time
    got,         \* the bytes the client has
    at,          \* what the client does
    body,        \* the response under way: status, length, bytes still to come
    interrupts,
    steady       \* history: the file was not replaced since the client began

downloading == <<length, version, chunk, got, at, body, interrupts, steady>>

NoBody == [status |-> 0, total |-> 0, rest |-> <<>>]

DownloadInit ==
    /\ length \in Lengths
    /\ version = 0
    /\ chunk \in Chunks
    /\ got = <<>>
    /\ at = "away"
    /\ body = NoBody
    /\ interrupts = 0
    /\ steady = TRUE

\* Another file is moved into place; a response under way keeps its handle.
Replace ==
    /\ version < MaxReplaced
    /\ version' = version + 1
    /\ length' \in Lengths
    /\ steady' = (at = "away")
    /\ UNCHANGED <<chunk, got, at, body, interrupts>>

\* The Range header of a client that has n bytes.
Resume(n) ==
    IF chunk # 0 THEN [from |-> n, to |-> n + chunk - 1]
    ELSE IF n # 0 THEN [from |-> n, to |-> Blank]
    ELSE NoAnswer

\* mutant: the handle is not moved to the start of the range
BytesFromZero(start, end) == [i \in 1..(end - start + 1) |-> <<i - 1, version>>]

\* mutant: end - start bytes are sent
ShortBytes(start, end) == [i \in 1..(end - start) |-> <<start + i - 1, version>>]

\* The bytes from start to end of the file in place.
Bytes(start, end) == [i \in 1..(end - start + 1) |-> <<start + i - 1, version>>]

\* The response of serve_file_with_range.
Response(range) ==
    LET spec == ParseRange(range, length)
    IN  CASE spec.kind = "full" ->
                [status |-> 200, total |-> length, rest |-> Bytes(0, length - 1)]
          [] spec.kind = "partial" ->
                [status |-> 206, total |-> length, rest |-> Bytes(spec.start, spec.end)]
          [] OTHER -> [status |-> 416, total |-> length, rest |-> <<>>]

\* A request is answered; a 200 starts the file over.
Request ==
    /\ at \in {"away", "waiting"}
    /\ body' = Response(Resume(Len(got)))
    /\ at' = "receiving"
    /\ got' = IF body'.status = 200 THEN <<>> ELSE got
    /\ UNCHANGED <<length, version, chunk, interrupts, steady>>

Receive ==
    /\ at = "receiving"
    /\ body.rest # <<>>
    /\ got' = Append(got, Head(body.rest))
    /\ body' = [body EXCEPT !.rest = Tail(@)]
    /\ UNCHANGED <<length, version, chunk, at, interrupts, steady>>

\* The client is done when it has as many bytes as the file; more than that
\* are those of another file, and it starts over.
EndOfBody ==
    /\ at = "receiving"
    /\ body.rest = <<>>
    /\ at' = IF Len(got) = body.total THEN "done" ELSE "waiting"
    /\ got' = IF Len(got) > body.total THEN <<>> ELSE got
    /\ body' = NoBody
    /\ UNCHANGED <<length, version, chunk, interrupts, steady>>

\* The connection is lost; a response cut off before its end is not complete.
Interrupt ==
    /\ at = "receiving"
    /\ interrupts < MaxInterrupts
    /\ interrupts' = interrupts + 1
    /\ at' = "waiting"
    /\ body' = NoBody
    /\ UNCHANGED <<length, version, chunk, got, steady>>

DownloadNext == Replace \/ Request \/ Receive \/ EndOfBody \/ Interrupt

DownloadSpec == DownloadInit /\ [][DownloadNext]_downloading

\* The server answers and sends, and the client goes on asking.
DownloadFairness == WF_downloading(Request \/ Receive \/ EndOfBody)
------------------------------------------------------------------------------
(* The pieces of a resumed download fit: what the client has is, at every   *)
(* moment, bytes from the start of the file, each in its place; and when it *)
(* is done with a file that stayed, it has that file.                       *)
ResumedIsWhole ==
    /\ \A i \in 1..Len(got) : got[i][1] = i - 1
    /\ (at = "done" /\ steady) => got = Bytes(0, length - 1)

(* However often it is interrupted, and if the file is empty, or the last   *)
(* byte was got and the end of the body was not: a download ends.           *)
DownloadEnds == (at # "away") ~> (at = "done")
==============================================================================
