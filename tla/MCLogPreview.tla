----------------------------- MODULE MCLogPreview ---------------------------
(* LogPreview with arguments of every kind that the code tells apart. *)
EXTENDS LogPreview

\* Negative, one half (which becomes no limit), one, two as a string.
MCArgs == {Absent, Number(-2), Number(1), Number(2), Numeral(2), Huge, Junk}

MCMinInt == -8

=============================================================================
