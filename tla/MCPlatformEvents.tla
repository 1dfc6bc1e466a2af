--------------------------- MODULE MCPlatformEvents ---------------------------
(* Small instances of PlatformEvents for TLC. *)
EXTENDS PlatformEvents, TLC

CONSTANT Report  \* the one subject that has a state

\* Events 1 and 2 open and resolve a report, event 3 is a fact without a state.
ReportAndFact == [e \in Events |-> IF e < 3 THEN Report ELSE NoSubject]
=============================================================================
