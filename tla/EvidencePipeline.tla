---------------------------- MODULE EvidencePipeline ----------------------------
(***************************************************************************)
(* From a decision to its evidence: callers evaluate requests, have the    *)
(* decisions recorded by EvidenceBundleService.createBundle, export        *)
(* manifests of the bundles and replay them.  createBundle takes a request *)
(* and a result, and asks only that this process issued the result: the    *)
(* request may be any other than the one the result answers.  It appends   *)
(* its events one by one, and an append that throws or a crash of the      *)
(* process ends it half-way.  A restart empties the registry of issued     *)
(* results and the in-memory audit log; the file-backed log is reloaded.   *)
(* Results, bundles and manifests are in the callers' hands and outlive    *)
(* the process.                                                            *)
(***************************************************************************)
EXTENDS EvidenceRecords, ReleaseConditions, FiniteSets

CONSTANTS
    Gates,           \* the gates callers construct
    Requests,        \* the requests callers submit
    MaxEvaluations,  \* bounds for model checking: calls of evaluate,
    MaxAppends,      \* entries ever appended to the audit log,
    MaxRestarts      \* and restarts of the process

ASSUME GatesAssumption == Gates \subseteq GateType
ASSUME RequestsAssumption == Requests \subseteq GovernedRequestType
ASSUME BoundsAssumption == {MaxEvaluations, MaxAppends, MaxRestarts} \subseteq Nat

VARIABLES
    durable,    \* is the audit log file-backed?
    results,    \* the GateResult objects callers hold, each with the call it answers
    registry,   \* _gateIssuedResults: the ids of those this process issued
    log,        \* the entries of the audit log
    clock,      \* how many entries were ever appended
    recording,  \* the call of createBundle in progress: [of, request,
                \* written], with of the result it was given, or Null
    bundles,    \* the evidence bundles returned
    manifests,  \* the export manifests returned
    restarts    \* how often the process restarted

vars == <<durable, results, registry, log, clock, recording, bundles, manifests,
          restarts>>

--------------------------------------------------------------------------------
(* The audit log.  An entry holds a hash of its payload, of its time and of *)
(* its predecessor's hash: two entries with one hash are the same entry, so *)
(* the number of the append stands for the hash.                            *)

append(requestId, eventType, payload) ==
    /\ clock < MaxAppends
    /\ clock' = clock + 1
    /\ log' = Append(log, [eventId     |-> Len(log) + 1,
                           requestId   |-> requestId,
                           eventType   |-> eventType,
                           payloadHash |-> payload,
                           entryHash   |-> clock + 1])

Entries == {log[i] : i \in DOMAIN log}

\* In the order of the log; as every entry carries its number, the set of the
\* entries says the same.
listByRequestId(requestId) == {e \in Entries : e.requestId = requestId}

--------------------------------------------------------------------------------
(* EvidenceBundleService.createBundle *)

\* Mutant: the bundle keeps the approval apart from the request.
EvidenceBundle_NoArtifact(r, q) ==
    [evidenceBundleId |-> r.result.requestId,
     request          |-> [q EXCEPT !.approvalArtifact = Null],
     decision         |-> r.result,
     eventChain       |-> listByRequestId(q.requestId),
     of               |-> r,
     given            |-> q]

\* Mutant: the bundle holds the events of this call only.
EvidenceBundle_OwnEvents(r, q) ==
    [evidenceBundleId |-> r.result.requestId,
     request          |-> q,
     decision         |-> r.result,
     eventChain       |-> {e \in listByRequestId(q.requestId) :
                              e.eventId + Len(Events(r.result)) > Len(log)},
     of               |-> r,
     given            |-> q]

\* The bundle id comes with the result, the event chain is that of the request.
\* deepClone goes through JSON, which leaves out what is undefined: an absent
\* member of the request stays absent.  of and given, the arguments of
\* createBundle, are there for the properties only.
EvidenceBundle(r, q) ==
    [evidenceBundleId |-> r.result.requestId,
     request          |-> q,
     decision         |-> r.result,
     eventChain       |-> listByRequestId(q.requestId),
     of               |-> r,
     given            |-> q]

\* The process does one thing at a time: createBundle has no await.
Idle == recording = Null

CreateBundle(r, q) ==
    /\ Idle
    /\ r.id \in registry
    /\ recording' = [of |-> r, request |-> q, written |-> 0]
    /\ UNCHANGED <<durable, results, registry, log, clock, bundles, manifests, restarts>>

AppendEvent ==
    /\ ~ Idle
    /\ recording.written < Len(Events(recording.of.result))
    /\ LET event == Events(recording.of.result)[recording.written + 1]
       IN  append(recording.request.requestId, event.eventType, event.payload)
    /\ recording' = [recording EXCEPT !.written = @ + 1]
    /\ UNCHANGED <<durable, results, registry, bundles, manifests, restarts>>

\* The exception of the append leaves createBundle; what is written stays.
AppendThrows ==
    /\ ~ Idle
    /\ recording.written < Len(Events(recording.of.result))
    /\ recording' = Null
    /\ UNCHANGED <<durable, results, registry, log, clock, bundles, manifests, restarts>>

ReturnBundle ==
    /\ ~ Idle
    /\ recording.written = Len(Events(recording.of.result))
    /\ bundles' = bundles \cup {EvidenceBundle(recording.of, recording.request)}
    /\ recording' = Null
    /\ UNCHANGED <<durable, results, registry, log, clock, manifests, restarts>>

Record == AppendEvent \/ AppendThrows \/ ReturnBundle

--------------------------------------------------------------------------------
(* ExportManifestService and ReplayService *)

ExportManifest(b) ==
    [evidenceBundleId  |-> b.evidenceBundleId,
     requestId         |-> b.request.requestId,
     envelopeId        |-> b.decision.requestId,
     sourceEventHashes |-> {e.entryHash : e \in b.eventChain}]

\* If the append throws there is no manifest.
CreateManifest(b) ==
    /\ Idle
    /\ append(b.request.requestId, "EXPORT_MANIFEST_CREATED",
              [sourceEventHashes |-> ExportManifest(b).sourceEventHashes])
    /\ manifests' = manifests \cup {ExportManifest(b)}
    /\ UNCHANGED <<durable, results, registry, recording, bundles, restarts>>

\* Mutant: as many hashes are the same hashes, the bug that "Fix 5" removed.
exportReferencesOriginalEvidence_Length(b, m) ==
    /\ Cardinality(m.sourceEventHashes) = Cardinality(b.eventChain)
    /\ m.evidenceBundleId = b.evidenceBundleId
    /\ m.envelopeId = b.decision.requestId

\* Both lists are in the order of the log, so that they agree at every index
\* just if they have the same members.
exportReferencesOriginalEvidence(b, m) ==
    /\ m.sourceEventHashes = {e.entryHash : e \in b.eventChain}
    /\ m.evidenceBundleId = b.evidenceBundleId
    /\ m.envelopeId = b.decision.requestId

\* matchedOriginalOutcome of replaying the bundle on gate g.
replayMatches(g, b) ==
    LET replayed == evaluate(g, b.request)
    IN  /\ replayed # Threw
        /\ replayed.finalState = b.decision.finalState
        /\ replayed.permittedActionClass = b.decision.permittedActionClass
        /\ replayed.reason = b.decision.reason

--------------------------------------------------------------------------------
(* The callers and the process *)

Init ==
    /\ durable \in BOOLEAN
    /\ results = {} /\ registry = {}
    /\ log = <<>> /\ clock = 0
    /\ recording = Null
    /\ bundles = {} /\ manifests = {}
    /\ restarts = 0

Evaluate(g, r) ==
    /\ Idle
    /\ Cardinality(results) < MaxEvaluations
    /\ evaluate(g, r) # Threw
    /\ LET id == Cardinality(results) + 1
       IN  /\ results' = results \cup
                  {[id |-> id, gate |-> g, request |-> r, result |-> evaluate(g, r)]}
           /\ registry' = registry \cup {id}
    /\ UNCHANGED <<durable, log, clock, recording, bundles, manifests, restarts>>

\* The process may end at any point of createBundle.
Restart ==
    /\ restarts < MaxRestarts
    /\ restarts' = restarts + 1
    /\ registry' = {}
    /\ recording' = Null
    /\ log' = IF durable THEN log ELSE <<>>
    /\ UNCHANGED <<durable, results, clock, bundles, manifests>>

Next ==
    \/ \E g \in Gates, r \in Requests : Evaluate(g, r)
    \/ \E r \in results, q \in Requests : CreateBundle(r, q)
    \/ Record
    \/ \E b \in bundles : CreateManifest(b)
    \/ Restart

Spec == Init /\ [][Next]_vars

--------------------------------------------------------------------------------
(* Properties *)

\* The type of every variable; ids of results and of log entries are numbers.
TypeOK ==
    /\ durable \in BOOLEAN
    /\ \A r \in results :
          /\ r.id \in 1 .. Cardinality(results)
          /\ r.gate \in Gates /\ r.request \in Requests
          /\ r.result.requestId = r.request.requestId
    /\ registry \subseteq {r.id : r \in results}
    /\ clock \in 0 .. MaxAppends
    /\ Len(log) <= clock
    /\ \A i \in DOMAIN log :
          /\ log[i].eventId = i
          /\ log[i].requestId \in RequestIds
          /\ log[i].eventType \in EventTypes
          /\ log[i].entryHash \in 1 .. clock
    /\ recording = Null \/
          /\ recording.of \in results /\ recording.request \in Requests
          /\ recording.written \in 0 .. Len(Events(recording.of.result))
    /\ \A b \in bundles :
          /\ b.of \in results /\ b.request \in Requests
          /\ \A e \in b.eventChain : e.requestId = b.request.requestId
    /\ \A m \in manifests :
          /\ m.requestId \in RequestIds
          /\ m.sourceEventHashes \subseteq 1 .. clock
    /\ restarts \in 0 .. MaxRestarts

\* Wherever recording was cut off, what the log holds of a decision is a
\* beginning of the whole record, and of one decision: a release or a block
\* directly follows the evaluation it belongs to and agrees with its outcome,
\* and the end of a record directly follows the release or block
\* (evidence-bundle-service.ts, createBundle).
RecordsAreOrdered ==
    \A i \in DOMAIN log :
        LET entry == log[i]
            Follows(types) == /\ i > 1
                              /\ log[i - 1].requestId = entry.requestId
                              /\ log[i - 1].eventType \in types
        IN  /\ entry.eventType \in {"RELEASE_AUTHORIZED", "ACTION_BLOCKED"} =>
                  /\ Follows({"REQUEST_EVALUATED"})
                  /\ entry.eventType = "RELEASE_AUTHORIZED" <=>
                         log[i - 1].payloadHash.finalState = "ALLOW"
            /\ entry.eventType = "EVIDENCE_BUNDLE_CREATED" =>
                  Follows({"RELEASE_AUTHORIZED", "ACTION_BLOCKED"})

\* Behind every RELEASE_AUTHORIZED in the audit log there is the decision that its
\* release id names, on a request against which nothing stands and which proposed
\* the released action: through interleaved, broken-off and repeated records, and
\* also where a caller filed the decision under the id of another request.
RecordedReleasesWereDue ==
    \A e \in Entries :
        e.eventType = "RELEASE_AUTHORIZED" =>
            \E r \in results :
                /\ r.request.requestId = e.payloadHash.releaseAuthorizationId
                /\ MayRelease(r.gate, r.request)
                /\ r.request.proposedActionClass = e.payloadHash.actionClass

\* The entries of a chain from the last evaluation on: the record of the
\* decision the bundle was made for.
OwnRecord(chain) ==
    LET evaluations == {e \in chain : e.eventType = "REQUEST_EVALUATED"}
    IN  {e \in chain : \A f \in evaluations : f.eventId <= e.eventId}

\* A bundle carries the complete record of the decision in it, although its chain
\* holds every event of the request id, those of earlier decisions, of exports,
\* of recordings that broke off and of decisions on other requests included.
BundlesTellTheirDecision ==
    \A b \in bundles :
        LET own == OwnRecord(b.eventChain)
        IN  /\ {e.eventType : e \in own} =
                   {"REQUEST_EVALUATED", "EVIDENCE_BUNDLE_CREATED",
                    IF b.decision.finalState = "ALLOW" THEN "RELEASE_AUTHORIZED"
                                                       ELSE "ACTION_BLOCKED"}
            /\ \A e \in own :
                  /\ e.eventType = "REQUEST_EVALUATED" =>
                        /\ e.payloadHash.finalState = b.decision.finalState
                        /\ e.payloadHash.envelopeId = b.decision.requestId
                  /\ e.eventType = "ACTION_BLOCKED" =>
                        e.payloadHash.reason = b.decision.reason

\* On a file-backed log a bundle's chain stays verifiable against the log, also
\* after restarts: it is what the log holds of the request up to the bundle's
\* last event, with no gap (full-flow integration of
\* persistent-audit-log.test.ts).
EvidenceOutlivesProcess ==
    durable => \A b \in bundles :
        b.eventChain = {e \in listByRequestId(b.request.requestId) :
                           \E last \in b.eventChain : e.eventId <= last.eventId}

\* A manifest verifies against the bundle it was made of and against no other,
\* although all bundles of a request share their ids (replay-service.ts:42).
ManifestsIdentifyTheirBundle ==
    \A m \in manifests :
        \E b \in bundles :
            /\ exportReferencesOriginalEvidence(b, m)
            /\ \A c \in bundles : exportReferencesOriginalEvidence(c, m) => c = b

\* Replaying a bundle made of a result and the request it answers, on a gate with
\* the configuration of the original one, gives the original outcome
\* (replay-service.ts:6).  Of any bundle, on any gate, a replay matches only if
\* that gate would release the request just when the decision in the bundle did:
\* a release that was recorded for a request of another outcome does not pass.
ReplayReproducesDecision ==
    \A b \in bundles :
        /\ b.given = b.of.request => replayMatches(b.of.gate, b)
        /\ \A g \in Gates : replayMatches(g, b) =>
              (MayRelease(g, b.request) <=> b.decision.finalState = "ALLOW")
================================================================================
