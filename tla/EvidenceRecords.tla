---------------------------- MODULE EvidenceRecords ----------------------------
(***************************************************************************)
(* What EvidenceBundleService.createBundle writes about a decision.        *)
(***************************************************************************)
EXTENDS GateChecks

EventTypes ==
    {"REQUEST_EVALUATED", "RELEASE_AUTHORIZED", "ACTION_BLOCKED",
     "EVIDENCE_BUNDLE_CREATED", "EXPORT_MANIFEST_CREATED"}

Event(type, payload) == [eventType |-> type, payload |-> payload]

\* The ids of an envelope, of a release and of a bundle are functions of the id of
\* the request that was evaluated.
EvaluatedEvent(result) ==
    Event("REQUEST_EVALUATED",
          [finalState |-> result.finalState, envelopeId |-> result.requestId])

ReleaseEvent(result) ==
    Event("RELEASE_AUTHORIZED",
          [releaseAuthorizationId |-> result.requestId,
           actionClass            |-> result.releaseAuthorization])

BlockedEvent(result) ==
    Event("ACTION_BLOCKED",
          [finalState |-> result.finalState, reason |-> result.reason])

BundleEvent(result) ==
    Event("EVIDENCE_BUNDLE_CREATED", [evidenceBundleId |-> result.requestId])

\* Mutant: only a rejection is recorded as a blocked action.
Events_HoldNotBlocked(result) ==
    <<EvaluatedEvent(result)>>
    \o (IF result.releaseAuthorization # Null THEN <<ReleaseEvent(result)>> ELSE <<>>)
    \o (IF result.finalState = "REJECT" THEN <<BlockedEvent(result)>> ELSE <<>>)
    \o <<BundleEvent(result)>>

\* Mutant: the release is recorded before the evaluation.
Events_ReleaseFirst(result) ==
    (IF result.releaseAuthorization # Null THEN <<ReleaseEvent(result)>> ELSE <<>>)
    \o <<EvaluatedEvent(result)>>
    \o (IF result.blockedActionRecord THEN <<BlockedEvent(result)>> ELSE <<>>)
    \o <<BundleEvent(result)>>

\* The events createBundle appends for a result, in their order.
Events(result) ==
    <<EvaluatedEvent(result)>>
    \o (IF result.releaseAuthorization # Null THEN <<ReleaseEvent(result)>> ELSE <<>>)
    \o (IF result.blockedActionRecord THEN <<BlockedEvent(result)>> ELSE <<>>)
    \o <<BundleEvent(result)>>

\* What the audit log adds for events of one request.  An entry also holds the
\* hash of its payload, for which the payload stands.
NewEntries(log, requestId, events) ==
    [i \in DOMAIN events |-> [eventId     |-> Len(log) + i,
                              requestId   |-> requestId,
                              eventType   |-> events[i].eventType,
                              payloadHash |-> events[i].payload]]
================================================================================
