----------------------------- MODULE MCFilePages ----------------------------
(* FilePages over all files of up to MaxLen characters. *)
EXTENDS FilePages, SequencesExt

CONSTANT MaxLen

\* A NUL byte within and beyond the sniffed bytes; a line number of two digits.
MCFiles ==
    BoundedSeq({"a", "wide", "nl"}, MaxLen)
    \cup {<<"nul">>, <<"a", "a", "a", "nul">>, [i \in 1..11 |-> "nl"]}
MCPushed == {<<>>, <<"a", "nl", "a">>, <<"nl", "nl", "nl", "nl">>}
MCStarts == {None, 0, 2}
MCEnds == {None, 1, 3}
MCCaps == {None, 0, 1, 4, 9}

=============================================================================
