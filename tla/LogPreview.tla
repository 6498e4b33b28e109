------------------------------ MODULE LogPreview ----------------------------
(***************************************************************************)
(* get_job_log_preview (operation/actions/runs.go) with the reading of its *)
(* arguments (pkg/params): a client polls the end of a log that a runner   *)
(* is still writing.                                                       *)
(*                                                                         *)
(* A log is a sequence of bytes: "nl" ends a line, "lead" and "trail" are  *)
(* a character of two bytes.  The runner writes characters, Gitea serves   *)
(* what it has got, which may end inside a line or a character.            *)
(***************************************************************************)
EXTENDS Integers, SequencesExt

CONSTANTS
    LineArgs, ByteArgs,                    \* tail_lines and max_bytes
    DefaultTailLines, DefaultMaxBytes,     \* 200 and 65536
    MinInt, MaxInt,                        \* of int64
    MaxLog                                 \* bound

Absent == [kind |-> "absent"]
Number(halves) == [kind |-> "number", halves |-> halves]     \* halves / 2
Numeral(n) == [kind |-> "numeral", value |-> n]              \* a string of digits
Huge == [kind |-> "huge"]                                    \* a number beyond int64
Junk == [kind |-> "junk"]                                    \* anything else

ASSUME PreviewAssumption ==
    /\ \A a \in LineArgs \cup ByteArgs :
          \/ a \in {Absent, Huge, Junk}
          \/ a.kind = "number" /\ a.halves \in (2 * MinInt)..(2 * MaxInt)
          \/ a.kind = "numeral" /\ a.value \in MinInt..MaxInt
    /\ DefaultTailLines \in 1..MaxInt /\ DefaultMaxBytes \in 1..MaxInt
    /\ MinInt \in Int /\ MaxInt \in Int /\ MinInt < 0 /\ MaxLog \in 0..MaxInt

VARIABLES
    log,        \* what Gitea has of the log
    asked,      \* the client's arguments, the same in every call
    last,       \* the answer before the latest
    preview     \* the latest answer

vars == <<log, asked, last, preview>>

-----------------------------------------------------------------------------
(* pkg/params                                                               *)

\* A conversion out of range gives the least int64 on amd64, the nearest one
\* on arm64; one in range drops the fraction.
ToInt64(arg) ==
    CASE arg.kind = "number" /\ arg.halves >= 0 -> {arg.halves \div 2}
      [] arg.kind = "number" /\ arg.halves < 0 -> {-((-arg.halves) \div 2)}
      [] arg.kind = "numeral" -> {arg.value}
      [] arg.kind = "huge" -> {MinInt, MaxInt}
      [] OTHER -> {}

GetOptionalInt(arg, default) == IF ToInt64(arg) = {} THEN {default} ELSE ToInt64(arg)

-----------------------------------------------------------------------------
(* The tail.                                                                *)

Newlines(data, i) == {j \in i..Len(data) : data[j] = "nl"}

\* Defect: the scan stops at the newline that completes the count.
StopsAtCount(data, tailLines) ==
    LET over == {i \in Newlines(data, 1) : Cardinality(Newlines(data, i)) >= tailLines}
    IN IF tailLines <= 0 \/ over = {} THEN data
       ELSE SubSeq(data, Max(over) + 1, Len(data))

\* The scan from the end stops at the first newline that is one too many.
tailByLines(data, tailLines) ==
    LET over == {i \in Newlines(data, 1) : Cardinality(Newlines(data, i)) > tailLines}
    IN IF tailLines <= 0 \/ over = {} THEN data
       ELSE SubSeq(data, Max(over) + 1, Len(data))

\* Defect: the head is kept, not the tail.
KeepsHead(data, maxBytes) ==
    IF maxBytes <= 0 \/ Len(data) <= maxBytes THEN data ELSE SubSeq(data, 1, maxBytes)

\* Defect: the cut is one byte late.
CutsLate(data, maxBytes) ==
    IF maxBytes <= 0 \/ Len(data) < maxBytes THEN data
    ELSE SubSeq(data, Len(data) - maxBytes + 2, Len(data))

limitBytes(data, maxBytes) ==
    IF maxBytes <= 0 \/ Len(data) <= maxBytes THEN data
    ELSE SubSeq(data, Len(data) - maxBytes + 1, Len(data))

\* Marshalling the answer replaces every byte that is not part of a character.
\* A text is given by its characters, each at the byte where it starts.
Marshalled(data) ==
    LET At(b, i) == i \in 1..Len(data) /\ data[i] = b
        Wide(i) == At("lead", i) /\ At("trail", i + 1)
        Char(i) == IF Wide(i) THEN "wide"
                   ELSE IF data[i] \in {"lead", "trail"} THEN "bad" ELSE data[i]
    IN [i \in {j \in 1..Len(data) : ~Wide(j - 1)} |-> Char(i)]

\* data is kept beside the text it becomes.
Preview(tailLines, maxBytes) ==
    LET tailed == tailByLines(log, tailLines)
        limited == limitBytes(tailed, maxBytes)
    IN [bytes |-> Len(log), tail_lines |-> tailLines, max_bytes |-> maxBytes,
        truncated |-> limited # tailed, data |-> limited, log |-> Marshalled(limited)]

-----------------------------------------------------------------------------

NoPreview == [bytes |-> 0, tail_lines |-> 0, max_bytes |-> 0, truncated |-> FALSE,
              data |-> <<>>, log |-> <<>>]

Init ==
    /\ log = <<>>
    /\ asked \in [lines : LineArgs, bytes : ByteArgs]
    /\ last = NoPreview /\ preview = NoPreview

\* The runner writes; inside a character there is one way to go on.
Written(data) ==
    IF data # <<>> /\ Last(data) = "lead" THEN {"trail"} ELSE {"a", "nl", "lead"}

Write ==
    /\ Len(log) < MaxLog
    /\ \E b \in Written(log) : log' = Append(log, b)
    /\ UNCHANGED <<asked, last, preview>>

\* getRepoActionJobLogPreviewFn, whose fetch is ToolCalls' concern.
Poll ==
    /\ \E n \in GetOptionalInt(asked.lines, DefaultTailLines),
          m \in GetOptionalInt(asked.bytes, DefaultMaxBytes) :
             preview' = Preview(n, m)
    /\ last' = preview
    /\ UNCHANGED <<log, asked>>

Next == Write \/ Poll

Spec == Init /\ [][Next]_vars

-----------------------------------------------------------------------------
LineStarts(data) ==
    {i \in 1..Len(data) : i = 1 \/ data[i - 1] = "nl"}
EndsLine(data) == data = <<>> \/ Last(data) = "nl"

Seen == SubSeq(log, 1, preview.bytes)     \* the log as the latest answer saw it

\* An answer that is not truncated holds the last tail_lines lines of the log,
\* or all there are, whole and to the end; it holds one more if and only if the
\* log ends inside a line, which then does not count (tailByLines).
LinesKept ==
    ~preview.truncated /\ preview.tail_lines > 0 =>
        LET held == Cardinality(LineStarts(preview.data))
            all == Cardinality(LineStarts(Seen))
            owed == preview.tail_lines + (IF EndsLine(Seen) THEN 0 ELSE 1)
        IN held = Min({all, owed}) /\ IsSuffix(preview.data, Seen)

\* Characters are only lost where max_bytes cut one, at the front of an answer
\* that says it is truncated, or where the log is still being written, at its
\* end: the cut by lines comes first and falls between characters.
BrokenOnlyAtCut ==
    \A i \in DOMAIN preview.log :
        preview.log[i] = "bad" =>
            \/ i = 1 /\ preview.truncated
            \/ i = Len(preview.data) /\ Last(Seen) = "lead"

\* A client that polls often enough for its limits misses nothing: if the log
\* grew by at most max_bytes and tail_lines newlines since the answer before,
\* however the arguments were given, the latest goes on where that one ended.
NothingMissed ==
    LET grown == preview.bytes - last.bytes
        start == preview.bytes - Len(preview.data)
    IN (/\ preview.max_bytes <= 0 \/ grown <= preview.max_bytes
        /\ \/ preview.tail_lines <= 0
           \/ Cardinality(Newlines(Seen, last.bytes + 1)) <= preview.tail_lines)
       => start <= last.bytes

=============================================================================
