------------------------------ MODULE AuditExport ------------------------------
(***************************************************************************)
(* The summary that examples/audit-export makes of an audit log, at any    *)
(* moment of the evidence pipeline: it infers the outcomes of decisions    *)
(* from the types of the events, for payloads are not in the log.          *)
(***************************************************************************)
EXTENDS EvidencePipeline

countOf(entries, eventType) ==
    Cardinality({i \in DOMAIN entries : entries[i].eventType = eventType})

\* Mutant: the outcomes that are not known are counted by request.
inferredOutcomes_ByRequest(entries) ==
    [allow   |-> countOf(entries, "RELEASE_AUTHORIZED"),
     blocked |-> countOf(entries, "ACTION_BLOCKED"),
     unknown |-> Cardinality({entries[i].requestId : i \in DOMAIN entries})
                     - countOf(entries, "RELEASE_AUTHORIZED")
                     - countOf(entries, "ACTION_BLOCKED")]

inferredOutcomes(entries) ==
    [allow   |-> countOf(entries, "RELEASE_AUTHORIZED"),
     blocked |-> countOf(entries, "ACTION_BLOCKED"),
     unknown |-> countOf(entries, "REQUEST_EVALUATED")
                     - countOf(entries, "RELEASE_AUTHORIZED")
                     - countOf(entries, "ACTION_BLOCKED")]

\* written is the file of evidence bundles that a program may keep besides.
buildAuditSummary(entries, written) ==
    [totalEntries     |-> Len(entries),
     uniqueRequests   |-> Cardinality({entries[i].requestId : i \in DOMAIN entries}),
     byEventType      |-> [type \in EventTypes |-> countOf(entries, type)],
     inferredOutcomes |-> inferredOutcomes(entries),
     byWorkflowClass  |-> [workflow \in WorkflowLabels |->
         Cardinality({b \in written : b.decision.workflowClass = workflow})]]

--------------------------------------------------------------------------------
(* Property *)

\* Wherever recording broke off, and whatever was exported and recorded since,
\* the summary of a file-backed log counts every bundle that was returned under
\* its outcome, and as unknown no more than the records that are not complete;
\* no count is negative (audit-export/index.ts:137).
SummaryCountsDecisions ==
    durable =>
        LET summary  == buildAuditSummary(log, bundles)
            outcomes == summary.inferredOutcomes
            Returned(states) ==
                Cardinality({b \in bundles : b.decision.finalState \in states})
        IN  /\ outcomes.unknown \in
                   0 .. (summary.byEventType["REQUEST_EVALUATED"]
                            - summary.byEventType["EVIDENCE_BUNDLE_CREATED"])
            /\ outcomes.allow   >= Returned({"ALLOW"})
            /\ outcomes.blocked >= Returned({"HOLD", "REJECT"})
================================================================================
