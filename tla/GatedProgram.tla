------------------------------ MODULE GatedProgram ------------------------------
(***************************************************************************)
(* What a program built on the gate has: one gate for as long as it runs,  *)
(* and the audit log its evidence service appends to.                      *)
(***************************************************************************)
EXTENDS EvidenceRecords

CONSTANT Gates  \* the gates a program may be started with

ASSUME GatesAssumption == Gates \subseteq GateType

VARIABLES
    gate,  \* the gate of the program
    log    \* the entries of its audit log

\* createBundle on the log: the first n of its events, as an append may throw.
RecordedUpTo(request, result, n) ==
    log \o NewEntries(log, request.requestId, SubSeq(Events(result), 1, n))

\* createBundle on the log, if no append throws.
Recorded(request, result) ==
    log \o NewEntries(log, request.requestId, Events(result))
================================================================================
