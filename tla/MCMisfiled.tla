----------------------------- MODULE MCMisfiled -----------------------------
(* ToolCalls over a registry gone wrong: every write method is registered   *)
(* with a read tool.                                                        *)
EXTENDS MCToolCalls

MisfiledTools == {[t EXCEPT !.writes = FALSE] : t \in DomainTools}

\* What the theorems of ToolCallsProofs assume of a catalogue, here of the one
\* that the server registers.
ASSUME ProgramsAssumption == WritesComeLast(DomainTools)
ASSUME FlagsAssumption == FlagsRead(DomainTools)
ASSUME ReadsAssumption == ReadToolsRead(DomainTools)
ASSUME SavesAssumption == SavesDenied(DomainTools)

=============================================================================
