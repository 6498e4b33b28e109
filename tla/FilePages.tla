------------------------------ MODULE FilePages -----------------------------
(***************************************************************************)
(* get_file_contents (operation/repo/file.go, file_shape.go): a client     *)
(* reads a file page by page, each page a call of its own that shapes the  *)
(* file as it then is on the branch, and goes on where the last page says. *)
(*                                                                         *)
(* A file is a sequence of characters: "nl" ends a line, "wide" takes two  *)
(* bytes, "nul" makes the file binary.  Its content stands for its SHA.    *)
(***************************************************************************)
EXTENDS Integers, Sequences, FiniteSetsExt

CONSTANTS
    Files, Pushed,  \* what the branch may hold at first, and later
    Starts, Ends,   \* start_line and end_line; None is an absent argument
    Caps,           \* max_bytes
    DefaultMaxBytes, MaxMaxBytes,
    SniffBytes,     \* how much of a file is searched for a NUL byte
    None

Characters == {"a", "wide", "nl", "nul", "digit", "tab"}

ASSUME PagesAssumption ==
    /\ Files \cup Pushed \subseteq Seq(Characters)
    /\ None \notin Int \cup Files \cup Pushed
    /\ Starts \cup Ends \cup Caps \subseteq Int \cup {None}
    /\ MaxMaxBytes \in Nat /\ DefaultMaxBytes \in 1..MaxMaxBytes
    /\ SniffBytes \in Nat

VARIABLES
    file,       \* what the branch holds
    asked,      \* the arguments of the current reading
    page,       \* the answer to its last call
    received,   \* the content of its pages so far
    version     \* the file all of them came from; None if there were several

vars == <<file, asked, page, received, version>>

-----------------------------------------------------------------------------
(* Bytes and lines.                                                         *)

Bytes(s) == Len(s) + Cardinality({i \in 1..Len(s) : s[i] = "wide"})

Binary(f) ==
    \E i \in 1..Len(f) : f[i] = "nul" /\ Bytes(SubSeq(f, 1, i)) <= SniffBytes

\* Defect: a last line without a newline is no line.
TerminatedLines(f) == {i \in 1..Len(f) : f[i] = "nl"}

LineEnds(f) == {i \in 1..Len(f) : f[i] = "nl" \/ i = Len(f)}
TotalLines(f) == Cardinality(LineEnds(f))
LineEnd(f, n) ==
    Max({0} \cup {e \in LineEnds(f) : Cardinality({x \in LineEnds(f) : x <= e}) <= n})
Line(f, n) == SubSeq(f, LineEnd(f, n - 1) + 1, LineEnd(f, n))

\* 10^k <= n implies k <= n \div 10.
Digits(n) == Cardinality({k \in 0..n \div 10 : 10^k <= n})
Prefix(n) == [i \in 1..Digits(n) |-> "digit"] \o <<"tab">>

Emitted(f, n, withLines) == (IF withLines THEN Prefix(n) ELSE <<>>) \o Line(f, n)

-----------------------------------------------------------------------------
(* ShapeFileContent.                                                        *)

NoPage == [kind |-> "none"]
Error == [kind |-> "error"]
BinaryPage == [kind |-> "binary"]
Text(content, start, end, truncated, next) ==
    [kind |-> "text", content |-> content, start |-> start, end |-> end,
     truncated |-> truncated, next |-> next]

OrElse(arg, default) == IF arg = None THEN default ELSE arg
Smaller(a, b) == IF a <= b THEN a ELSE b

Cap(a) == Smaller(OrElse(a.max, DefaultMaxBytes), MaxMaxBytes)
LastWanted(f, a) == Smaller(OrElse(a.end, TotalLines(f)), TotalLines(f))

Unusable(f, a) ==
    \/ a.start # None /\ a.start < 1
    \/ a.max # None /\ a.max < 1
    \/ a.start # None /\ a.end # None /\ a.end < a.start
    \/ f # <<>> /\ OrElse(a.start, 1) > TotalLines(f)
    \/ f # <<>> /\ OrElse(a.end, TotalLines(f)) < OrElse(a.start, 1)

\* Defect: the cap is compared before a line is added, not after.
FitsBefore(buf, n, line, a) == buf.last = n - 1 /\ Bytes(buf.content) < Cap(a)

\* Defect: a line that does not fit is passed over and the next one tried.
FitsLater(buf, n, line, a) == Bytes(buf.content) + Bytes(line) <= Cap(a)

Fits(buf, n, line, a) ==
    buf.last = n - 1 /\ Bytes(buf.content) + Bytes(line) <= Cap(a)

\* The loop that adds whole lines while they fit.
Fill(f, a, start) ==
    LET buf[n \in Nat] ==
            IF n < start THEN [content |-> <<>>, last |-> start - 1]
            ELSE LET before == buf[n - 1]
                     line == Emitted(f, n, a.withLines)
                 IN IF Fits(before, n, line, a)
                    THEN [content |-> before.content \o line, last |-> n]
                    ELSE before
    IN buf[LastWanted(f, a)]

\* Defect: the bytes are cut without regard to characters.
CutAnywhere(line, cap) ==
    LET fits == {k \in 0..Len(line) : Bytes(SubSeq(line, 1, k)) <= cap}
        whole == SubSeq(line, 1, Max(fits))
    IN IF Bytes(whole) < cap THEN Append(whole, "half") ELSE whole

\* The longest beginning of a line within the cap that splits no character.
CutLine(line, cap) ==
    SubSeq(line, 1, Max({k \in 0..Len(line) : Bytes(SubSeq(line, 1, k)) <= cap}))

CutPage(f, a, start) ==
    Text(CutLine(Emitted(f, start, a.withLines), Cap(a)), start, start, TRUE, 0)

\* Defect: the next page starts with the last line of this one.
FromLastLine(buf) == buf.last

NextStart(buf) == buf.last + 1

Shape(f, a) ==
    IF Binary(f) THEN BinaryPage
    ELSE IF Unusable(f, a) THEN Error
    ELSE IF f = <<>> THEN Text(<<>>, 0, 0, FALSE, 0)
    ELSE LET start == OrElse(a.start, 1)
             buf == Fill(f, a, start)
         IN IF buf.last = LastWanted(f, a)
            THEN Text(buf.content, start, buf.last, FALSE, 0)
            ELSE IF buf.content = <<>> THEN CutPage(f, a, start)
            ELSE Text(buf.content, start, buf.last, TRUE, NextStart(buf))

-----------------------------------------------------------------------------
Arguments == [start : Starts, end : Ends, max : Caps, withLines : BOOLEAN]

Init ==
    /\ file \in Files
    /\ asked \in Arguments
    /\ page = NoPage
    /\ received = <<>>
    /\ version = file

MorePages == page.kind = "text" /\ page.truncated /\ page.next > 0

\* A push to the branch between two pages; others change no answer.
Push ==
    /\ MorePages
    /\ file' \in Pushed
    /\ UNCHANGED <<asked, page, received, version>>

Read ==
    /\ page = NoPage
    /\ page' = Shape(file, asked)
    /\ received' = IF page'.kind = "text" THEN page'.content ELSE <<>>
    /\ version' = file
    /\ UNCHANGED <<file, asked>>

\* The client asks again from next_start_line on.
ReadOn ==
    /\ MorePages
    /\ page' = Shape(file, [asked EXCEPT !.start = page.next])
    /\ received' = IF page'.kind = "text" THEN received \o page'.content ELSE received
    /\ version' = IF version = file THEN version ELSE None
    /\ UNCHANGED <<file, asked>>

Next == Push \/ Read \/ ReadOn

Spec == Init /\ [][Next]_vars

-----------------------------------------------------------------------------
TypeOK ==
    /\ file \in Files \cup Pushed
    /\ asked \in Arguments
    /\ page.kind \in {"none", "error", "binary", "text"}
    /\ page.kind = "text" =>
          /\ page.content \in Seq(Characters)
          /\ page.start \in Nat /\ page.end \in Nat /\ page.next \in Nat
          /\ page.truncated \in BOOLEAN
    /\ received \in Seq(Characters)
    /\ version \in Files \cup Pushed \cup {None}

\* The lines first..last of a file as its author sees them.
Excerpt(f, first, last, withLines) ==
    LET upTo[n \in Nat] ==
            IF n < first THEN <<>> ELSE upTo[n - 1] \o Emitted(f, n, withLines)
    IN upTo[last]

FirstCut == page.kind = "text" /\ page.truncated /\ page.next = 0

\* Pages of one version put together are the file's lines from the first one
\* asked for, none missing, doubled or out of place, up to the page's end_line
\* (FR-4; NextStartLine in file_shape.go).
PagesJoin ==
    page.kind = "text" /\ version \notin {None, <<>>} /\ ~FirstCut =>
        received = Excerpt(version, OrElse(asked.start, 1), page.end, asked.withLines)

\* Read from its first line to its last, a file comes back as it is, an
\* unterminated last line included (T-FR-4).
RoundTrip ==
    /\ page.kind = "text" /\ ~page.truncated /\ version # None
    /\ asked.start = None /\ asked.end = None /\ ~asked.withLines
    => received = version

\* No page exceeds its cap, line numbers included, and a page without a next
\* one was cut only because its first line alone does not fit.
PageFits ==
    page.kind = "text" =>
        /\ Bytes(page.content) <= Cap(asked)
        /\ FirstCut /\ version # None =>
              Bytes(Emitted(version, page.start, asked.withLines)) > Cap(asked)

\* A client that reads on gets on, although the file may change under it:
\* every page starts after the one before, unless the file has become empty.
Advances ==
    [][ReadOn /\ page'.kind = "text" /\ file # <<>> => page'.start > page.start]_vars

=============================================================================
