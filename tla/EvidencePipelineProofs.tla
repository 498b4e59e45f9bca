------------------------- MODULE EvidencePipelineProofs -------------------------
(***************************************************************************)
(* Proofs about EvidencePipeline and AuditExport, for every set of gates   *)
(* and requests and all bounds: whatever is evaluated, recorded (with its  *)
(* own request or with another) and exported in which order, and wherever  *)
(* createBundle is cut off.                                                *)
(***************************************************************************)
EXTENDS AuditExport, GateChecksProofs, FiniteSetTheorems, TLAPS

--------------------------------------------------------------------------------
(* The inductive invariant, part by part. *)

\* A result is what evaluate returns for its gate and request.
ResultsInv ==
    /\ IsFiniteSet(results)
    /\ \A r \in results : /\ r.id \in 1 .. Cardinality(results)
                          /\ r.gate \in Gates /\ r.request \in Requests
                          /\ r.result = evaluate(r.gate, r.request)
                          /\ r.result # Threw
    /\ registry \subseteq {r.id : r \in results}

PipelineEntry ==
    [eventId     : Nat,
     requestId   : RequestIds,
     eventType   : EventTypes,
     payloadHash : Payloads \cup [sourceEventHashes : SUBSET Nat],
     entryHash   : Nat]

LogInv ==
    /\ durable \in BOOLEAN
    /\ clock \in 0 .. MaxAppends /\ restarts \in 0 .. MaxRestarts
    /\ log \in Seq(PipelineEntry)
    /\ Len(log) <= clock
    /\ \A i \in DOMAIN log : log[i].eventId = i /\ log[i].entryHash \in 1 .. clock

\* The entry stands for the k-th event of the record of r, filed with q.
IsEvent(entry, q, r, k) ==
    /\ entry.requestId = q.requestId
    /\ entry.eventType = Events(r.result)[k].eventType
    /\ entry.payloadHash = Events(r.result)[k].payload

\* The log ends with the first w events of the record of r, appended last of
\* all, and no bundle knows of them.
WrittenSoFar(q, r, w) ==
    /\ w <= Len(log)
    /\ \A k \in 1 .. w : LET entry == log[Len(log) - w + k]
                         IN  IsEvent(entry, q, r, k) /\ entry.entryHash = clock - w + k
    /\ \A b \in bundles : \A e \in b.eventChain : e.entryHash <= clock - w

RecordingInv ==
    \/ recording = Null
    \/ \E r \in results, q \in Requests, w \in 0 .. 3 :
          recording = [of |-> r, request |-> q, written |-> w] /\ WrittenSoFar(q, r, w)

\* The conjuncts of BundlesTellTheirDecision for one bundle.
TellsItsDecision(b) ==
    LET own == OwnRecord(b.eventChain)
    IN  /\ {e.eventType : e \in own} =
               {"REQUEST_EVALUATED", "EVIDENCE_BUNDLE_CREATED",
                IF b.decision.finalState = "ALLOW" THEN "RELEASE_AUTHORIZED"
                                                   ELSE "ACTION_BLOCKED"}
        /\ \A e \in own :
              /\ e.eventType = "REQUEST_EVALUATED" =>
                    /\ e.payloadHash.finalState = b.decision.finalState
                    /\ e.payloadHash.envelopeId = b.decision.requestId
              /\ e.eventType = "ACTION_BLOCKED" =>
                    e.payloadHash.reason = b.decision.reason

\* A bundle is about a result, and its chain about the request it was made with.
BundleIsAbout(b, r) ==
    /\ b.of = r /\ b.given = b.request /\ b.decision = r.result
    /\ b.evidenceBundleId = r.result.requestId
    /\ b.request \in Requests
    /\ \A e \in b.eventChain : /\ e.requestId = b.request.requestId
                               /\ e.entryHash \in 1 .. clock

BundlesInv ==
    /\ IsFiniteSet(bundles)
    /\ \A b \in bundles : TellsItsDecision(b) /\ \E r \in results : BundleIsAbout(b, r)

\* Every entry there is, in the log or in somebody's hands.
Known == Entries \cup UNION {b.eventChain : b \in bundles}

\* An entry is known by its hash, and a bundle by its chain.
ChainsInv ==
    /\ \A e, f \in Known : e.entryHash = f.entryHash => e = f
    /\ \A b, c \in bundles : b.eventChain = c.eventChain => b = c

\* The chain of a bundle is what the log holds of the request up to the n-th
\* entry, which follows the outcome of the bundle's decision.
EndsAt(b, n) ==
    /\ n \in DOMAIN log /\ n - 1 \in DOMAIN log
    /\ log[n].requestId = b.request.requestId
    /\ b.eventChain = {e \in Entries : e.requestId = log[n].requestId /\ e.eventId <= n}
    /\ log[n - 1].eventType = IF b.decision.finalState = "ALLOW"
                              THEN "RELEASE_AUTHORIZED" ELSE "ACTION_BLOCKED"

EndsInv == durable => \A b \in bundles : \E n : EndsAt(b, n)

ManifestsInv ==
    \A m \in manifests :
        /\ m.requestId \in RequestIds /\ m.sourceEventHashes \subseteq 1 .. clock
        /\ \E b \in bundles : exportReferencesOriginalEvidence(b, m)

PipelineInv ==
    /\ ResultsInv /\ LogInv /\ RecordingInv
    /\ RecordsAreOrdered /\ RecordedReleasesWereDue
    /\ BundlesInv /\ ChainsInv /\ EndsInv /\ ManifestsInv

--------------------------------------------------------------------------------
(* The record of a result. *)

LEMMA ResultsAnswer ==
    ASSUME ResultsInv, NEW r \in results
    PROVE  /\ r.gate \in GateType /\ r.request \in GovernedRequestType
           /\ r.request.requestId \in RequestIds
           /\ r.result.requestId = r.request.requestId
           /\ Answers(r.gate, r.request, r.result)
  <1>1. /\ r.gate \in Gates /\ r.request \in Requests
        /\ r.result = evaluate(r.gate, r.request) /\ r.result # Threw
    BY DEF ResultsInv
  <1>2. r.gate \in GateType /\ r.request \in GovernedRequestType
    BY <1>1, GatesAssumption, RequestsAssumption
  <1>3. Answers(r.gate, r.request, r.result)
    BY <1>1, <1>2, EvaluateAnswers
  <1>4. QED
    BY <1>2, <1>3 DEF Answers, GovernedRequestType

\* Three events: the evaluation, its outcome, the end.
LEMMA EventsOfResult ==
    ASSUME ResultsInv, NEW r \in results,
           NEW events, events = Events(r.result)
    PROVE  /\ Len(events) = 3
           /\ events[1].eventType = "REQUEST_EVALUATED"
           /\ events[1].payload.finalState = r.result.finalState
           /\ events[1].payload.envelopeId = r.result.requestId
           /\ events[2].eventType = IF r.result.finalState = "ALLOW"
                                    THEN "RELEASE_AUTHORIZED" ELSE "ACTION_BLOCKED"
           /\ r.result.finalState = "ALLOW" =>
                 /\ events[2].payload.releaseAuthorizationId = r.request.requestId
                 /\ events[2].payload.actionClass = r.request.proposedActionClass
           /\ r.result.finalState # "ALLOW" =>
                 events[2].payload.reason = r.result.reason
           /\ events[3].eventType = "EVIDENCE_BUNDLE_CREATED"
           /\ \A k \in 1 .. 3 : /\ events[k].eventType \in EventTypes
                                /\ events[k].payload \in Payloads
  <1> DEFINE res == r.result
  <1>1. /\ r.gate \in GateType /\ r.request \in GovernedRequestType
        /\ Answers(r.gate, r.request, res)
    BY ResultsAnswer
  <1>2. events = <<EvaluatedEvent(res), OutcomeEvent(res), BundleEvent(res)>>
    BY <1>1, EventsOfAnswer
  <1>3. /\ res.requestId = r.request.requestId
        /\ res.requestId \in RequestIds
        /\ res.finalState \in FinalStates
        /\ res.reason \in ReasonCodes \cup {"DECISION_ALLOWED"}
        /\ res.finalState = "ALLOW" =>
              /\ res.releaseAuthorization = r.request.proposedActionClass
              /\ res.releaseAuthorization \in ActionLabels
    BY <1>1 DEF Answers, FinalStates, GovernedRequestType
  <1>4. /\ EvaluatedEvent(res).payload \in Payloads
        /\ OutcomeEvent(res).payload \in Payloads
        /\ OutcomeEvent(res).eventType \in EventTypes
        /\ BundleEvent(res).payload \in Payloads
    BY <1>3 DEF Payloads, OutcomeEvent, EvaluatedEvent, ReleaseEvent, BlockedEvent,
                BundleEvent, Event, EventTypes
  <1>5. /\ OutcomeEvent(res).eventType = IF res.finalState = "ALLOW"
                                         THEN "RELEASE_AUTHORIZED" ELSE "ACTION_BLOCKED"
        /\ res.finalState = "ALLOW" =>
              /\ OutcomeEvent(res).payload.releaseAuthorizationId = r.request.requestId
              /\ OutcomeEvent(res).payload.actionClass = r.request.proposedActionClass
        /\ res.finalState # "ALLOW" => OutcomeEvent(res).payload.reason = res.reason
    BY <1>3 DEF OutcomeEvent, ReleaseEvent, BlockedEvent, Event
  <1> HIDE DEF res
  <1>6. /\ Len(events) = 3
        /\ events[1] = EvaluatedEvent(res)
        /\ events[2] = OutcomeEvent(res)
        /\ events[3] = BundleEvent(res)
    BY <1>2
  <1>7. QED
    BY <1>4, <1>5, <1>6 DEF EvaluatedEvent, BundleEvent, Event, EventTypes, res

--------------------------------------------------------------------------------
(* The log grows by one entry. *)

LEMMA LogGrows ==
    ASSUME LogInv, NEW new \in PipelineEntry,
           new.eventId = Len(log) + 1, new.entryHash = clock + 1,
           log' = Append(log, new), clock < MaxAppends, clock' = clock + 1,
           durable' = durable, restarts' = restarts
    PROVE  /\ LogInv'
           /\ Len(log) \in Nat /\ clock \in Nat
           /\ DOMAIN log = 1 .. Len(log) /\ DOMAIN log' = 1 .. (Len(log) + 1)
           /\ Len(log') = Len(log) + 1
           /\ log'[Len(log) + 1] = new
           /\ \A i \in 1 .. Len(log) : log'[i] = log[i]
           /\ Entries' = Entries \cup {new}
  <1>1. PICK n \in Nat : n = Len(log) /\ DOMAIN log = 1 .. n
    BY LenProperties DEF LogInv
  <1>2. /\ log' \in Seq(PipelineEntry) /\ Len(log') = n + 1 /\ log'[n + 1] = new
        /\ \A i \in 1 .. n : log'[i] = log[i]
    BY <1>1, AppendProperties DEF LogInv
  <1>3. DOMAIN log' = 1 .. (n + 1)
    BY <1>2, LenProperties
  <1>4. clock \in Nat /\ clock + 1 \in 0 .. MaxAppends
    BY BoundsAssumption DEF LogInv
  <1>5. ASSUME NEW i \in DOMAIN log'
        PROVE  log'[i].eventId = i /\ log'[i].entryHash \in 1 .. clock'
    <2>1. CASE i = n + 1
      BY <1>1, <1>2, <1>4, <2>1
    <2>2. CASE i # n + 1
      <3>1. i \in DOMAIN log /\ log'[i] = log[i]
        BY <1>1, <1>2, <1>3, <2>2
      <3>2. log[i].eventId = i /\ log[i].entryHash \in 1 .. clock
        BY <3>1 DEF LogInv
      <3>3. QED
        BY <1>4, <3>1, <3>2
    <2>3. QED
      BY <2>1, <2>2
  <1>6. Len(log') <= clock'
    BY <1>1, <1>2, <1>4 DEF LogInv
  <1>7. LogInv'
    BY <1>2, <1>4, <1>5, <1>6 DEF LogInv
  <1>8. Entries' = Entries \cup {new}
    <2>1. \A i \in 1 .. (n + 1) : i \in 1 .. n \/ i = n + 1
      OBVIOUS
    <2>2. 1 .. n \subseteq 1 .. (n + 1) /\ n + 1 \in 1 .. (n + 1)
      OBVIOUS
    <2>3. QED
      BY <1>1, <1>2, <1>3, <2>1, <2>2 DEF Entries
  <1>9. QED
    BY <1>1, <1>2, <1>3, <1>4, <1>7, <1>8

\* The conjuncts of RecordsAreOrdered for one entry.
OrderedAt(l, i) ==
    LET entry == l[i]
        Follows(types) == /\ i > 1
                          /\ l[i - 1].requestId = entry.requestId
                          /\ l[i - 1].eventType \in types
    IN  /\ entry.eventType \in {"RELEASE_AUTHORIZED", "ACTION_BLOCKED"} =>
              /\ Follows({"REQUEST_EVALUATED"})
              /\ entry.eventType = "RELEASE_AUTHORIZED" <=>
                     l[i - 1].payloadHash.finalState = "ALLOW"
        /\ entry.eventType = "EVIDENCE_BUNDLE_CREATED" =>
              Follows({"RELEASE_AUTHORIZED", "ACTION_BLOCKED"})

LEMMA OrderGrows ==
    ASSUME NEW n \in Nat, DOMAIN log = 1 .. n, DOMAIN log' = 1 .. (n + 1),
           \A i \in 1 .. n : log'[i] = log[i],
           RecordsAreOrdered, OrderedAt(log', n + 1)
    PROVE  RecordsAreOrdered'
  <1>1. ASSUME NEW i \in 1 .. n PROVE OrderedAt(log', i)
    <2>1. OrderedAt(log, i) /\ log'[i] = log[i]
      <3>1. \A k \in DOMAIN log : OrderedAt(log, k)
        BY ONLY RecordsAreOrdered, Zenon DEF RecordsAreOrdered, OrderedAt
      <3>2. QED
        BY <3>1
    <2>2. i > 1 => i - 1 \in 1 .. n
      OBVIOUS
    <2>3. i > 1 => log'[i - 1] = log[i - 1]
      BY <2>2
    <2>4. QED
      BY <2>1, <2>3 DEF OrderedAt
  <1>2. \A i \in DOMAIN log' : OrderedAt(log', i)
    BY <1>1
  <1>3. QED
    BY <1>2 DEF RecordsAreOrdered, OrderedAt

\* What the bundles and manifests say of the log stays true when it grows.
LEMMA EvidenceGrows ==
    ASSUME PipelineInv, NEW new, NEW n \in Nat,
           LogInv', clock' = clock + 1, durable' = durable, bundles' = bundles,
           n = Len(log), DOMAIN log = 1 .. n, DOMAIN log' = 1 .. (n + 1),
           \A i \in 1 .. n : log'[i] = log[i], log'[n + 1] = new,
           new.eventId = n + 1, new.entryHash = clock + 1,
           Entries' = Entries \cup {new}
    PROVE  ChainsInv' /\ EndsInv'
  <1>1. \A e \in Known : e.entryHash \in 1 .. clock
    <2>1. \A e \in Entries : e.entryHash \in 1 .. clock
      BY DEF Entries, PipelineInv, LogInv
    <2>2. QED
      BY <2>1 DEF Known, PipelineInv, BundlesInv, BundleIsAbout
  <1>2. clock \in Nat
    BY DEF PipelineInv, LogInv
  <1>3. Known' = Known \cup {new}
    BY DEF Known
  <1>4. ChainsInv'
    <2>1. \A e \in Known : e.entryHash # new.entryHash
      BY <1>1, <1>2
    <2>2. QED
      BY <1>3, <2>1 DEF ChainsInv, PipelineInv
  <1>5. ASSUME durable, NEW b \in bundles, NEW k, EndsAt(b, k)
        PROVE  EndsAt(b, k)'
    <2>1. /\ k \in 1 .. n /\ k - 1 \in 1 .. n
          /\ log'[k] = log[k] /\ log'[k - 1] = log[k - 1]
      BY <1>5 DEF EndsAt
    <2>2. k \in DOMAIN log' /\ k - 1 \in DOMAIN log' /\ ~ (new.eventId <= k)
      BY <2>1
    <2>3. QED
      BY <1>5, <2>1, <2>2 DEF EndsAt
  <1>6. EndsInv'
    BY <1>5 DEF EndsInv, PipelineInv
  <1>7. QED
    BY <1>4, <1>6

--------------------------------------------------------------------------------
(* The steps. *)

LEMMA NothingWritten ==
    ASSUME PipelineInv, results \subseteq results',
           UNCHANGED <<durable, log, clock, bundles, manifests, restarts>>
    PROVE  /\ LogInv' /\ RecordsAreOrdered' /\ RecordedReleasesWereDue'
           /\ BundlesInv' /\ ChainsInv' /\ EndsInv' /\ ManifestsInv'
  <1>1. LogInv' /\ RecordsAreOrdered'
    BY DEF PipelineInv, LogInv, RecordsAreOrdered
  <1>2. Entries' = Entries /\ Known' = Known
    BY DEF Entries, Known
  <1>3. RecordedReleasesWereDue'
    BY <1>2 DEF PipelineInv, RecordedReleasesWereDue
  <1>4. BundlesInv'
    BY DEF PipelineInv, BundlesInv, TellsItsDecision, BundleIsAbout
  <1>5. ChainsInv'
    BY <1>2 DEF PipelineInv, ChainsInv
  <1>6. EndsInv'
    BY <1>2 DEF PipelineInv, EndsInv, EndsAt
  <1>7. ManifestsInv'
    BY DEF PipelineInv, ManifestsInv, exportReferencesOriginalEvidence
  <1>8. QED
    BY <1>1, <1>3, <1>4, <1>5, <1>6, <1>7

\* A new result has an id that none had.
LEMMA EvaluateStep ==
    ASSUME PipelineInv, NEW g \in Gates, NEW r \in Requests, Evaluate(g, r)
    PROVE  PipelineInv'
  <1>1. PICK n \in Nat : n = Cardinality(results)
    BY FS_CardinalityType DEF PipelineInv, ResultsInv
  <1>2. PICK new : new = [id |-> n + 1, gate |-> g, request |-> r,
                          result |-> evaluate(g, r)]
    OBVIOUS
  <1>3. /\ results' = results \cup {new} /\ registry' = registry \cup {n + 1}
        /\ evaluate(g, r) # Threw
    BY <1>1, <1>2 DEF Evaluate
  <1>4. /\ new.id = n + 1 /\ new.gate = g /\ new.request = r
        /\ new.result = evaluate(g, r)
    BY <1>2
  <1>5. \A q \in results : q.id \in 1 .. n
    BY <1>1 DEF PipelineInv, ResultsInv
  <1>6. new \notin results
    BY <1>4, <1>5
  <1>7. IsFiniteSet(results') /\ Cardinality(results') = n + 1
    <2>1. IsFiniteSet(results)
      BY DEF PipelineInv, ResultsInv
    <2>2. /\ IsFiniteSet(results \cup {new})
          /\ Cardinality(results \cup {new}) = n + 1
      BY <1>1, <1>6, <2>1, FS_AddElement
    <2>3. QED
      BY <1>3, <2>2
  <1>8. ResultsInv'
    <2>1. ASSUME NEW q \in results'
          PROVE  /\ q.id \in 1 .. (n + 1)
                 /\ q.gate \in Gates /\ q.request \in Requests
                 /\ q.result = evaluate(q.gate, q.request)
                 /\ q.result # Threw
      <3>1. CASE q = new
        BY <1>3, <1>4, <3>1
      <3>2. CASE q \in results
        BY <1>5, <3>2 DEF PipelineInv, ResultsInv
      <3>3. QED
        BY <1>3, <3>1, <3>2
    <2>2. registry' \subseteq {q.id : q \in results'}
      BY <1>3, <1>4 DEF PipelineInv, ResultsInv
    <2>3. QED
      BY <1>7, <2>1, <2>2 DEF ResultsInv
  <1>9. RecordingInv'
    BY DEF Evaluate, Idle, RecordingInv
  <1>10. QED
    BY <1>3, <1>8, <1>9, NothingWritten DEF PipelineInv, Evaluate

LEMMA ResultsStay ==
    ASSUME PipelineInv, UNCHANGED <<results, registry>>
    PROVE  ResultsInv'
  BY DEF PipelineInv, ResultsInv

LEMMA CreateBundleStep ==
    ASSUME PipelineInv, NEW r \in results, NEW q \in Requests, CreateBundle(r, q)
    PROVE  PipelineInv'
  <1>1. /\ UNCHANGED <<durable, results, registry, log, clock, bundles, manifests,
                       restarts>>
        /\ recording' = [of |-> r, request |-> q, written |-> 0]
    BY DEF CreateBundle
  <1>2. Len(log) \in Nat /\ clock \in Nat
    BY DEF PipelineInv, LogInv
  <1>3. \A b \in bundles : \A e \in b.eventChain : e.entryHash \in 1 .. clock
    BY DEF PipelineInv, BundlesInv, BundleIsAbout
  <1>4. WrittenSoFar(q, r, 0)'
    BY <1>1, <1>2, <1>3 DEF WrittenSoFar
  <1>5. RecordingInv'
    BY <1>1, <1>4 DEF RecordingInv
  <1>6. ResultsInv'
    BY <1>1, ResultsStay
  <1>7. QED
    BY <1>1, <1>5, <1>6, NothingWritten DEF PipelineInv

\* A record that breaks off leaves behind what is written.
LEMMA AppendThrowsStep ==
    ASSUME PipelineInv, AppendThrows
    PROVE  PipelineInv'
  <1>1. /\ UNCHANGED <<durable, results, registry, log, clock, bundles, manifests,
                       restarts>>
        /\ recording' = Null
    BY DEF AppendThrows
  <1>2. ResultsInv'
    BY <1>1, ResultsStay
  <1>3. RecordingInv'
    BY <1>1 DEF RecordingInv
  <1>4. QED
    BY <1>1, <1>2, <1>3, NothingWritten DEF PipelineInv

\* The log keeps all or nothing, and the rest is in the callers' hands.
LEMMA RestartStep ==
    ASSUME PipelineInv, Restart
    PROVE  PipelineInv'
  <1>1. CASE durable
    <2>1. UNCHANGED <<durable, results, log, clock, bundles, manifests>>
      BY <1>1 DEF Restart
    <2>2. ResultsInv' /\ RecordingInv'
      BY DEF Restart, PipelineInv, ResultsInv, RecordingInv
    <2>3. LogInv' /\ RecordsAreOrdered'
      BY <2>1, BoundsAssumption DEF PipelineInv, LogInv, RecordsAreOrdered, Restart
    <2>4. Entries' = Entries /\ Known' = Known
      BY <2>1 DEF Entries, Known
    <2>5. RecordedReleasesWereDue'
      BY <2>1, <2>4 DEF PipelineInv, RecordedReleasesWereDue
    <2>6. BundlesInv'
      BY <2>1 DEF PipelineInv, BundlesInv, TellsItsDecision, BundleIsAbout
    <2>7. ChainsInv' /\ EndsInv'
      BY <2>1, <2>4 DEF PipelineInv, ChainsInv, EndsInv, EndsAt
    <2>8. ManifestsInv'
      BY <2>1 DEF PipelineInv, ManifestsInv, exportReferencesOriginalEvidence
    <2>9. QED
      BY <2>2, <2>3, <2>5, <2>6, <2>7, <2>8 DEF PipelineInv
  <1>2. CASE ~ durable
    <2>1. /\ UNCHANGED <<durable, results, clock, bundles, manifests>>
          /\ log' = <<>>
      BY <1>2 DEF Restart
    <2>2. ResultsInv' /\ RecordingInv'
      BY DEF Restart, PipelineInv, ResultsInv, RecordingInv
    <2>3. /\ log' \in Seq(PipelineEntry) /\ Len(log') = 0 /\ DOMAIN log' = {}
          /\ Entries' = {}
      BY <2>1 DEF Entries
    <2>4. LogInv' /\ RecordsAreOrdered' /\ RecordedReleasesWereDue'
      BY <2>1, <2>3, BoundsAssumption
      DEF PipelineInv, LogInv, RecordsAreOrdered, RecordedReleasesWereDue, Restart
    <2>5. BundlesInv'
      BY <2>1 DEF PipelineInv, BundlesInv, TellsItsDecision, BundleIsAbout
    <2>6. ChainsInv' /\ EndsInv'
      BY <1>2, <2>1, <2>3 DEF PipelineInv, ChainsInv, Known, EndsInv
    <2>7. ManifestsInv'
      BY <2>1 DEF PipelineInv, ManifestsInv, exportReferencesOriginalEvidence
    <2>8. QED
      BY <2>2, <2>4, <2>5, <2>6, <2>7 DEF PipelineInv
  <1>3. QED
    BY <1>1, <1>2

LEMMA BundlesStay ==
    ASSUME PipelineInv, LogInv, UNCHANGED <<results, bundles>>, clock' = clock + 1
    PROVE  BundlesInv'
  <1>1. PICK c \in Nat : c = clock
    BY DEF LogInv
  <1>2. ASSUME NEW b \in bundles, NEW r \in results, BundleIsAbout(b, r)
        PROVE  BundleIsAbout(b, r)'
    <2>1. \A e \in b.eventChain : e.entryHash \in 1 .. (c + 1)
      BY <1>1, <1>2 DEF BundleIsAbout
    <2>2. QED
      BY <1>1, <1>2, <2>1 DEF BundleIsAbout
  <1>3. QED
    BY <1>2 DEF PipelineInv, BundlesInv, TellsItsDecision

\* The next event of the record of r, and what the log is with it.
LEMMA AppendEventStep ==
    ASSUME PipelineInv, AppendEvent
    PROVE  PipelineInv'
  <1>1. PICK r \in results, q \in Requests, w \in 0 .. 3 :
            recording = [of |-> r, request |-> q, written |-> w] /\ WrittenSoFar(q, r, w)
    BY DEF PipelineInv, RecordingInv, AppendEvent, Idle
  <1>2. PICK events : events = Events(r.result)
    OBVIOUS
  <1>3. recording.of = r /\ recording.request = q /\ recording.written = w
    BY <1>1
  <1>4. ResultsInv /\ LogInv
    BY DEF PipelineInv
  <1>5. /\ Len(events) = 3
        /\ events[1].eventType = "REQUEST_EVALUATED"
        /\ events[1].payload.finalState = r.result.finalState
        /\ events[2].eventType = IF r.result.finalState = "ALLOW"
                                 THEN "RELEASE_AUTHORIZED" ELSE "ACTION_BLOCKED"
        /\ r.result.finalState = "ALLOW" =>
              /\ events[2].payload.releaseAuthorizationId = r.request.requestId
              /\ events[2].payload.actionClass = r.request.proposedActionClass
        /\ events[3].eventType = "EVIDENCE_BUNDLE_CREATED"
        /\ \A k \in 1 .. 3 : /\ events[k].eventType \in EventTypes
                             /\ events[k].payload \in Payloads
    BY <1>2, <1>4, EventsOfResult
  <1>6. w \in 0 .. 2 /\ w + 1 \in 1 .. 3
    BY <1>2, <1>3, <1>5 DEF AppendEvent
  <1>7. PICK new : new = [eventId     |-> Len(log) + 1,
                          requestId   |-> q.requestId,
                          eventType   |-> events[w + 1].eventType,
                          payloadHash |-> events[w + 1].payload,
                          entryHash   |-> clock + 1]
    OBVIOUS
  <1>8. /\ clock < MaxAppends /\ clock' = clock + 1
        /\ log' = Append(log, new)
        /\ recording' = [of |-> r, request |-> q, written |-> w + 1]
        /\ UNCHANGED <<durable, results, registry, bundles, manifests, restarts>>
    BY <1>1, <1>2, <1>3, <1>7 DEF AppendEvent, append
  <1>9. /\ new.eventId = Len(log) + 1 /\ new.requestId = q.requestId
        /\ new.eventType = events[w + 1].eventType
        /\ new.payloadHash = events[w + 1].payload
        /\ new.entryHash = clock + 1
    BY <1>7
  <1>10. new \in PipelineEntry
    <2>1. q.requestId \in RequestIds
      BY RequestsAssumption DEF GovernedRequestType
    <2>2. Len(log) + 1 \in Nat /\ clock + 1 \in Nat
      BY <1>4 DEF LogInv
    <2>3. QED
      BY <1>5, <1>6, <1>7, <2>1, <2>2 DEF PipelineEntry
  <1>11. PICK n \in Nat, c \in Nat : n = Len(log) /\ c = clock
    BY <1>4 DEF LogInv
  <1>12. /\ LogInv'
         /\ DOMAIN log = 1 .. n /\ DOMAIN log' = 1 .. (n + 1) /\ Len(log') = n + 1
         /\ log'[n + 1] = new
         /\ \A i \in 1 .. n : log'[i] = log[i]
         /\ Entries' = Entries \cup {new}
    BY <1>4, <1>8, <1>9, <1>10, <1>11, LogGrows
  <1>13. ChainsInv' /\ EndsInv'
    BY <1>8, <1>9, <1>11, <1>12, EvidenceGrows
  <1>14. /\ w <= n
         /\ \A k \in 1 .. w : IsEvent(log[n - w + k], q, r, k) /\ log[n - w + k].entryHash = c - w + k
         /\ \A b \in bundles : \A e \in b.eventChain : e.entryHash <= c - w
    BY <1>1, <1>11 DEF WrittenSoFar
  <1>15. w > 0 => /\ n \in 1 .. n /\ n + 1 > 1
                  /\ log'[n] = log[n]
                  /\ log[n].requestId = q.requestId
                  /\ log[n].eventType = events[w].eventType
                  /\ log[n].payloadHash = events[w].payload
    <2>1. w > 0 => n - w + w = n /\ w \in 1 .. w /\ n \in 1 .. n
      BY <1>6, <1>14
    <2>2. QED
      BY <1>2, <1>6, <1>12, <1>14, <2>1 DEF IsEvent
  <1>16. OrderedAt(log', n + 1)
    <2>1. n + 1 - 1 = n
      OBVIOUS
    <2>2. CASE w = 0
      BY <1>5, <1>9, <1>12, <2>2 DEF OrderedAt
    <2>3. CASE w = 1
      <3>1. /\ log'[n].eventType = "REQUEST_EVALUATED"
            /\ log'[n].payloadHash.finalState = r.result.finalState
            /\ log'[n].requestId = log'[n + 1].requestId
        BY <1>5, <1>9, <1>12, <1>15, <2>3
      <3>2. log'[n + 1].eventType = IF r.result.finalState = "ALLOW"
                                    THEN "RELEASE_AUTHORIZED" ELSE "ACTION_BLOCKED"
        BY <1>5, <1>9, <1>12, <2>3
      <3>3. n + 1 > 1
        BY <1>15, <2>3
      <3>4. QED
        BY <2>1, <3>1, <3>2, <3>3 DEF OrderedAt
    <2>4. CASE w = 2
      <3>1. /\ log'[n].eventType \in {"RELEASE_AUTHORIZED", "ACTION_BLOCKED"}
            /\ log'[n].requestId = log'[n + 1].requestId
            /\ log'[n + 1].eventType = "EVIDENCE_BUNDLE_CREATED"
        BY <1>5, <1>9, <1>12, <1>15, <2>4
      <3>2. n + 1 > 1
        BY <1>15, <2>4
      <3>3. QED
        BY <2>1, <3>1, <3>2 DEF OrderedAt
    <2>5. QED
      BY <1>6, <2>2, <2>3, <2>4
  <1>17. RecordsAreOrdered'
    BY <1>12, <1>16, OrderGrows DEF PipelineInv
  <1>18. RecordedReleasesWereDue'
    <2>1. ASSUME new.eventType = "RELEASE_AUTHORIZED"
          PROVE  /\ MayRelease(r.gate, r.request)
                 /\ r.request.requestId = new.payloadHash.releaseAuthorizationId
                 /\ r.request.proposedActionClass = new.payloadHash.actionClass
      <3>1. w = 1
        <4>1. new.eventType = events[1].eventType \/ w # 0
          BY <1>9
        <4>2. new.eventType = events[3].eventType \/ w # 2
          BY <1>9
        <4>3. QED
          BY <1>5, <1>6, <2>1, <4>1, <4>2
      <3>2. r.result.finalState = "ALLOW"
        <4>1. new.eventType = events[2].eventType
          BY <1>9, <3>1
        <4>2. QED
          BY <1>5, <2>1, <4>1
      <3>3. Verdict(r.gate, r.request, r.result.finalState, r.result.reason)
        BY <1>4, ResultsAnswer DEF Answers
      <3>4. QED
        BY <1>5, <1>9, <3>1, <3>2, <3>3 DEF Verdict
    <2>2. QED
      BY <1>8, <1>9, <1>12, <2>1 DEF RecordedReleasesWereDue, PipelineInv
  <1>19. WrittenSoFar(q, r, w + 1)'
    <2>1. ASSUME NEW k \in 1 .. (w + 1)
          PROVE  /\ IsEvent(log'[n + 1 - (w + 1) + k], q, r, k)
                 /\ log'[n + 1 - (w + 1) + k].entryHash = c + 1 - (w + 1) + k
      <3>1. CASE k = w + 1
        <4>1. n + 1 - (w + 1) + k = n + 1 /\ c + 1 - (w + 1) + k = c + 1
          BY <3>1
        <4>2. IsEvent(new, q, r, k) /\ new.entryHash = c + 1
          BY <1>2, <1>9, <1>11, <3>1 DEF IsEvent
        <4>3. QED
          BY <1>12, <4>1, <4>2
      <3>2. CASE k \in 1 .. w
        <4>1. /\ n + 1 - (w + 1) + k = n - w + k /\ n - w + k \in 1 .. n
              /\ c + 1 - (w + 1) + k = c - w + k
          BY <1>14, <3>2
        <4>2. QED
          BY <1>12, <1>14, <3>2, <4>1
      <3>3. QED
        BY <3>1, <3>2
    <2>2. \A b \in bundles : \A e \in b.eventChain : e.entryHash <= c + 1 - (w + 1)
      <3>1. c + 1 - (w + 1) = c - w
        OBVIOUS
      <3>2. QED
        BY <1>14, <3>1
    <2>3. w + 1 <= n + 1
      BY <1>14
    <2>4. Len(log') = n + 1 /\ clock' = c + 1 /\ bundles' = bundles
      BY <1>8, <1>11, <1>12
    <2>5. /\ w + 1 <= Len(log')
          /\ \A k \in 1 .. (w + 1) :
                /\ IsEvent(log'[Len(log') - (w + 1) + k], q, r, k)
                /\ log'[Len(log') - (w + 1) + k].entryHash = clock' - (w + 1) + k
          /\ \A b \in bundles' : \A e \in b.eventChain : e.entryHash <= clock' - (w + 1)
      <3>1. w + 1 <= Len(log')
        BY <2>3, <2>4
      <3>2. ASSUME NEW k \in 1 .. (w + 1)
            PROVE  /\ IsEvent(log'[Len(log') - (w + 1) + k], q, r, k)
                   /\ log'[Len(log') - (w + 1) + k].entryHash = clock' - (w + 1) + k
        <4>1. /\ Len(log') - (w + 1) + k = n + 1 - (w + 1) + k
              /\ clock' - (w + 1) + k = c + 1 - (w + 1) + k
          BY <2>4
        <4>2. QED
          BY <2>1, <4>1
      <3>3. \A b \in bundles' : \A e \in b.eventChain : e.entryHash <= clock' - (w + 1)
        BY <2>2, <2>4
      <3>4. QED
        BY <3>1, <3>2, <3>3
    <2>6. QED
      BY <2>5, Zenon DEF WrittenSoFar, IsEvent
  <1>20. RecordingInv'
    BY <1>6, <1>8, <1>19 DEF RecordingInv
  <1>21. ResultsInv'
    BY <1>8, ResultsStay
  <1>22. BundlesInv'
    BY <1>4, <1>8, BundlesStay
  <1>23. ManifestsInv'
    BY <1>8, <1>11 DEF PipelineInv, ManifestsInv, exportReferencesOriginalEvidence
  <1>24. QED
    BY <1>12, <1>13, <1>17, <1>18, <1>20, <1>21, <1>22, <1>23 DEF PipelineInv

\* The entry for a manifest is of no record, and appended when none is written.
LEMMA CreateManifestStep ==
    ASSUME PipelineInv, NEW b \in bundles, CreateManifest(b)
    PROVE  PipelineInv'
  <1>1. ResultsInv /\ LogInv
    BY DEF PipelineInv
  <1>2. PICK r \in results : BundleIsAbout(b, r)
    BY DEF PipelineInv, BundlesInv
  <1>3. PICK hashes : hashes = {e.entryHash : e \in b.eventChain}
    OBVIOUS
  <1>4. PICK new : new = [eventId     |-> Len(log) + 1,
                          requestId   |-> b.request.requestId,
                          eventType   |-> "EXPORT_MANIFEST_CREATED",
                          payloadHash |-> [sourceEventHashes |-> hashes],
                          entryHash   |-> clock + 1]
    OBVIOUS
  <1>5. PICK m : m = ExportManifest(b)
    OBVIOUS
  <1>6. /\ m.evidenceBundleId = b.evidenceBundleId
        /\ m.requestId = b.request.requestId
        /\ m.envelopeId = b.decision.requestId
        /\ m.sourceEventHashes = hashes
    BY <1>3, <1>5 DEF ExportManifest
  <1>7. /\ recording = Null /\ recording' = Null
        /\ clock < MaxAppends /\ clock' = clock + 1
        /\ log' = Append(log, new)
        /\ manifests' = manifests \cup {m}
        /\ UNCHANGED <<durable, results, registry, bundles, restarts>>
    BY <1>3, <1>4, <1>5, <1>6 DEF CreateManifest, append, Idle
  <1>8. /\ new.eventId = Len(log) + 1
        /\ new.eventType = "EXPORT_MANIFEST_CREATED"
        /\ new.entryHash = clock + 1
    BY <1>4
  <1>9. /\ b.request.requestId \in RequestIds
        /\ hashes \subseteq 1 .. clock
    BY <1>2, <1>3, RequestsAssumption DEF BundleIsAbout, GovernedRequestType
  <1>10. new \in PipelineEntry
    <2>1. Len(log) + 1 \in Nat /\ clock + 1 \in Nat
      BY <1>1 DEF LogInv
    <2>2. [sourceEventHashes |-> hashes] \in [sourceEventHashes : SUBSET Nat]
      BY <1>9
    <2>3. QED
      BY <1>4, <1>9, <2>1, <2>2 DEF PipelineEntry, EventTypes
  <1>11. PICK n \in Nat, c \in Nat : n = Len(log) /\ c = clock
    BY <1>1 DEF LogInv
  <1>12. /\ LogInv'
         /\ DOMAIN log = 1 .. n /\ DOMAIN log' = 1 .. (n + 1) /\ Len(log') = n + 1
         /\ log'[n + 1] = new
         /\ \A i \in 1 .. n : log'[i] = log[i]
         /\ Entries' = Entries \cup {new}
    BY <1>1, <1>7, <1>8, <1>10, <1>11, LogGrows
  <1>13. ChainsInv' /\ EndsInv'
    BY <1>7, <1>8, <1>11, <1>12, EvidenceGrows
  <1>14. OrderedAt(log', n + 1)
    BY <1>8, <1>12 DEF OrderedAt
  <1>15. RecordsAreOrdered'
    BY <1>12, <1>14, OrderGrows DEF PipelineInv
  <1>16. RecordedReleasesWereDue'
    BY <1>7, <1>8, <1>12 DEF RecordedReleasesWereDue, PipelineInv
  <1>17. RecordingInv'
    BY <1>7 DEF RecordingInv
  <1>18. ResultsInv'
    BY <1>7, ResultsStay
  <1>19. BundlesInv'
    BY <1>1, <1>7, BundlesStay
  <1>20. ManifestsInv'
    <2>1. exportReferencesOriginalEvidence(b, m)
      BY <1>3, <1>6 DEF exportReferencesOriginalEvidence
    <2>2. ASSUME NEW k \in manifests'
          PROVE  /\ k.requestId \in RequestIds /\ k.sourceEventHashes \subseteq 1 .. (c + 1)
                 /\ \E d \in bundles : exportReferencesOriginalEvidence(d, k)
      <3>1. CASE k = m
        <4>1. hashes \subseteq 1 .. (c + 1)
          BY <1>9, <1>11
        <4>2. QED
          BY <1>6, <1>9, <2>1, <3>1, <4>1
      <3>2. CASE k \in manifests
        BY <1>11, <3>2 DEF PipelineInv, ManifestsInv
      <3>3. QED
        BY <1>7, <3>1, <3>2
    <2>3. QED
      BY <1>7, <1>11, <2>2 DEF ManifestsInv, exportReferencesOriginalEvidence
  <1>21. QED
    BY <1>12, <1>13, <1>15, <1>16, <1>17, <1>18, <1>19, <1>20 DEF PipelineInv

\* A set of three entries at the end of a chain, with no evaluation after the
\* first of them, is the chain's own record.
LEMMA OwnRecordIs ==
    ASSUME NEW chain, NEW n \in Nat, NEW x \in chain, NEW y \in chain, NEW z \in chain,
           \A e \in chain : e.eventId \in 1 .. n,
           x.eventId = n - 2, y.eventId = n - 1, z.eventId = n,
           \A e \in chain : e.eventId >= n - 2 => e \in {x, y, z},
           x.eventType = "REQUEST_EVALUATED",
           y.eventType # "REQUEST_EVALUATED", z.eventType # "REQUEST_EVALUATED"
    PROVE  OwnRecord(chain) = {x, y, z}
  <1>1. ASSUME NEW f \in chain, f.eventType = "REQUEST_EVALUATED"
        PROVE  f.eventId <= n - 2
    <2>1. CASE f.eventId >= n - 2
      BY <1>1, <2>1
    <2>2. CASE ~ (f.eventId >= n - 2)
      BY <2>2
    <2>3. QED
      BY <2>1, <2>2
  <1>2. ASSUME NEW f \in chain, f.eventType = "REQUEST_EVALUATED"
        PROVE  f.eventId <= x.eventId /\ f.eventId <= y.eventId /\ f.eventId <= z.eventId
    BY <1>1, <1>2
  <1>3. ASSUME NEW e \in chain,
               \A f \in {f \in chain : f.eventType = "REQUEST_EVALUATED"} :
                   f.eventId <= e.eventId
        PROVE  e \in {x, y, z}
    <2>1. x.eventId <= e.eventId
      BY <1>3
    <2>2. QED
      BY <2>1
  <1>4. QED
    BY <1>2, <1>3 DEF OwnRecord

\* createBundle returns: all three events are at the end of the log.
LEMMA ReturnBundleStep ==
    ASSUME PipelineInv, ReturnBundle
    PROVE  PipelineInv'
  <1>1. PICK r \in results, q \in Requests, w \in 0 .. 3 :
            recording = [of |-> r, request |-> q, written |-> w] /\ WrittenSoFar(q, r, w)
    BY DEF PipelineInv, RecordingInv, ReturnBundle, Idle
  <1>2. PICK events : events = Events(r.result)
    OBVIOUS
  <1>3. recording.of = r /\ recording.request = q /\ recording.written = w
    BY <1>1
  <1>4. ResultsInv /\ LogInv
    BY DEF PipelineInv
  <1>5. /\ Len(events) = 3
        /\ events[1].eventType = "REQUEST_EVALUATED"
        /\ events[1].payload.finalState = r.result.finalState
        /\ events[1].payload.envelopeId = r.result.requestId
        /\ events[2].eventType = IF r.result.finalState = "ALLOW"
                                 THEN "RELEASE_AUTHORIZED" ELSE "ACTION_BLOCKED"
        /\ r.result.finalState # "ALLOW" => events[2].payload.reason = r.result.reason
        /\ events[3].eventType = "EVIDENCE_BUNDLE_CREATED"
    BY <1>2, <1>4, EventsOfResult
  <1>6. w = 3
    BY <1>2, <1>3, <1>5 DEF ReturnBundle
  <1>7. PICK n \in Nat, c \in Nat : n = Len(log) /\ c = clock /\ DOMAIN log = 1 .. n
    BY <1>4, LenProperties DEF LogInv
  <1>8. PICK x, y, z : x = log[n - 2] /\ y = log[n - 1] /\ z = log[n]
    OBVIOUS
  <1>9. /\ 3 <= n
        /\ IsEvent(x, q, r, 1) /\ IsEvent(y, q, r, 2) /\ IsEvent(z, q, r, 3)
        /\ z.entryHash = c
        /\ \A b \in bundles : \A e \in b.eventChain : e.entryHash <= c - 3
    <2>1. /\ 3 <= n
          /\ \A k \in 1 .. 3 : /\ IsEvent(log[n - 3 + k], q, r, k)
                               /\ log[n - 3 + k].entryHash = c - 3 + k
          /\ \A b \in bundles : \A e \in b.eventChain : e.entryHash <= c - 3
      BY <1>1, <1>6, <1>7 DEF WrittenSoFar
    <2>2. n - 3 + 1 = n - 2 /\ n - 3 + 2 = n - 1 /\ n - 3 + 3 = n /\ c - 3 + 3 = c
      OBVIOUS
    <2>3. 1 \in 1 .. 3 /\ 2 \in 1 .. 3 /\ 3 \in 1 .. 3
      OBVIOUS
    <2>4. QED
      BY <1>8, <2>1, <2>2, <2>3
  <1>10. PICK chain : chain = listByRequestId(q.requestId)
    OBVIOUS
  <1>11. PICK b : b = EvidenceBundle(r, q)
    OBVIOUS
  <1>12. /\ b.evidenceBundleId = r.result.requestId /\ b.request = q
         /\ b.decision = r.result /\ b.eventChain = chain /\ b.of = r /\ b.given = q
    BY <1>10, <1>11 DEF EvidenceBundle
  <1>13. /\ bundles' = bundles \cup {b} /\ recording' = Null
         /\ UNCHANGED <<durable, results, registry, log, clock, manifests, restarts>>
    BY <1>3, <1>11 DEF ReturnBundle
  <1>14. /\ x.eventType = "REQUEST_EVALUATED"
         /\ x.payloadHash.finalState = r.result.finalState
         /\ x.payloadHash.envelopeId = r.result.requestId
         /\ y.eventType = IF r.result.finalState = "ALLOW"
                          THEN "RELEASE_AUTHORIZED" ELSE "ACTION_BLOCKED"
         /\ r.result.finalState # "ALLOW" => y.payloadHash.reason = r.result.reason
         /\ z.eventType = "EVIDENCE_BUNDLE_CREATED"
         /\ x.requestId = q.requestId /\ y.requestId = q.requestId
         /\ z.requestId = q.requestId
    BY <1>2, <1>5, <1>9 DEF IsEvent
  <1>15. \A i \in 1 .. n : log[i].eventId = i /\ log[i].entryHash \in 1 .. c
    BY <1>4, <1>7 DEF LogInv
  <1>16. n - 2 \in 1 .. n /\ n - 1 \in 1 .. n /\ n \in 1 .. n
    BY <1>9
  <1>17. /\ x.eventId = n - 2 /\ y.eventId = n - 1 /\ z.eventId = n
         /\ x \in Entries /\ y \in Entries /\ z \in Entries
    BY <1>7, <1>8, <1>15, <1>16 DEF Entries
  <1>18. /\ x \in chain /\ y \in chain /\ z \in chain /\ chain \subseteq Entries
         /\ \A e \in chain : e.requestId = q.requestId
    BY <1>10, <1>14, <1>17 DEF listByRequestId
  <1>19. \A e \in Entries : e.eventId \in 1 .. n /\ e = log[e.eventId] /\ e.entryHash \in 1 .. c
    BY <1>7, <1>15 DEF Entries
  <1>20. OwnRecord(chain) = {x, y, z}
    <2>1. ASSUME NEW e \in chain, e.eventId >= n - 2
          PROVE  e \in {x, y, z}
      <3>1. e.eventId \in 1 .. n /\ e = log[e.eventId]
        BY <1>18, <1>19
      <3>2. e.eventId = n - 2 \/ e.eventId = n - 1 \/ e.eventId = n
        BY <2>1, <3>1
      <3>3. QED
        BY <1>8, <3>1, <3>2
    <2>2. \A e \in chain : e.eventId \in 1 .. n
      BY <1>18, <1>19
    <2>3. y.eventType # "REQUEST_EVALUATED" /\ z.eventType # "REQUEST_EVALUATED"
      BY <1>14
    <2>4. x.eventType = "REQUEST_EVALUATED"
      BY <1>14
    <2>5. QED
      BY <1>17, <1>18, <2>1, <2>2, <2>3, <2>4, OwnRecordIs
  <1>21. TellsItsDecision(b)
    <2>1. {e.eventType : e \in {x, y, z}} =
             {"REQUEST_EVALUATED", "EVIDENCE_BUNDLE_CREATED",
              IF b.decision.finalState = "ALLOW" THEN "RELEASE_AUTHORIZED"
                                                 ELSE "ACTION_BLOCKED"}
      BY <1>12, <1>14
    <2>2. ASSUME NEW e \in {x, y, z}
          PROVE  /\ e.eventType = "REQUEST_EVALUATED" =>
                       /\ e.payloadHash.finalState = b.decision.finalState
                       /\ e.payloadHash.envelopeId = b.decision.requestId
                 /\ e.eventType = "ACTION_BLOCKED" =>
                       e.payloadHash.reason = b.decision.reason
      BY <1>12, <1>14
    <2>3. QED
      BY <1>12, <1>20, <2>1, <2>2 DEF TellsItsDecision
  <1>22. BundleIsAbout(b, r)
    BY <1>7, <1>12, <1>18, <1>19 DEF BundleIsAbout
  <1>23. EndsAt(b, n)
    <2>1. chain = {e \in Entries : e.requestId = log[n].requestId /\ e.eventId <= n}
      BY <1>8, <1>10, <1>14, <1>19 DEF listByRequestId
    <2>2. QED
      BY <1>7, <1>8, <1>12, <1>14, <1>16, <2>1 DEF EndsAt
  <1>24. BundlesInv'
    <2>1. IsFiniteSet(bundles')
      BY <1>13, FS_AddElement DEF PipelineInv, BundlesInv
    <2>2. ASSUME NEW d \in bundles'
          PROVE  TellsItsDecision(d) /\ \E p \in results : BundleIsAbout(d, p)
      BY <1>13, <1>21, <1>22, <2>2 DEF PipelineInv, BundlesInv
    <2>3. QED
      BY <1>13, <2>1, <2>2 DEF BundlesInv, TellsItsDecision, BundleIsAbout
  <1>25. ChainsInv'
    <2>1. Entries' = Entries
      BY <1>13 DEF Entries
    <2>2. Known' = Known
      BY <1>12, <1>13, <1>18, <2>1 DEF Known
    <2>3. \A d \in bundles : z \notin d.eventChain
      BY <1>9
    <2>4. \A d \in bundles : d.eventChain # b.eventChain
      BY <1>12, <1>18, <2>3
    <2>5. QED
      BY <1>13, <2>2, <2>4 DEF PipelineInv, ChainsInv
  <1>26. EndsInv'
    <2>1. durable => \A d \in bundles' : \E k : EndsAt(d, k)
      BY <1>13, <1>23 DEF PipelineInv, EndsInv
    <2>2. QED
      BY <1>13, <2>1 DEF EndsInv, EndsAt, Entries
  <1>27. LogInv' /\ RecordsAreOrdered' /\ RecordedReleasesWereDue'
    BY <1>13 DEF PipelineInv, LogInv, RecordsAreOrdered, RecordedReleasesWereDue, Entries
  <1>28. ManifestsInv'
    BY <1>13 DEF PipelineInv, ManifestsInv, exportReferencesOriginalEvidence
  <1>29. ResultsInv' /\ RecordingInv'
    BY <1>13, ResultsStay DEF RecordingInv
  <1>30. QED
    BY <1>24, <1>25, <1>26, <1>27, <1>28, <1>29 DEF PipelineInv

LEMMA PipelineInit == Init => PipelineInv
  <1> SUFFICES ASSUME Init PROVE PipelineInv
    OBVIOUS
  <1>1. /\ results = {} /\ registry = {} /\ log = <<>> /\ clock = 0
        /\ recording = Null /\ bundles = {} /\ manifests = {}
        /\ restarts = 0 /\ durable \in BOOLEAN
    BY DEF Init
  <1>2. ResultsInv /\ BundlesInv
    BY <1>1, FS_EmptySet DEF ResultsInv, BundlesInv
  <1>3. log \in Seq(PipelineEntry) /\ Len(log) = 0 /\ DOMAIN log = {} /\ Entries = {}
    BY <1>1 DEF Entries
  <1>4. LogInv /\ RecordsAreOrdered /\ RecordedReleasesWereDue
    BY <1>1, <1>3, BoundsAssumption DEF LogInv, RecordsAreOrdered, RecordedReleasesWereDue
  <1>5. RecordingInv /\ EndsInv /\ ManifestsInv
    BY <1>1 DEF RecordingInv, EndsInv, ManifestsInv
  <1>6. ChainsInv
    BY <1>1, <1>3 DEF ChainsInv, Known
  <1>7. QED
    BY <1>2, <1>4, <1>5, <1>6 DEF PipelineInv

LEMMA PipelineSteps ==
    ASSUME PipelineInv, [Next]_vars
    PROVE  PipelineInv'
  <1>1. CASE \E g \in Gates, r \in Requests : Evaluate(g, r)
    BY <1>1, EvaluateStep
  <1>2. CASE \E r \in results, q \in Requests : CreateBundle(r, q)
    BY <1>2, CreateBundleStep
  <1>3. CASE AppendEvent
    BY <1>3, AppendEventStep
  <1>4. CASE AppendThrows
    BY <1>4, AppendThrowsStep
  <1>5. CASE ReturnBundle
    BY <1>5, ReturnBundleStep
  <1>6. CASE \E b \in bundles : CreateManifest(b)
    BY <1>6, CreateManifestStep
  <1>7. CASE Restart
    BY <1>7, RestartStep
  <1>8. CASE UNCHANGED vars
    <2>1. RecordingInv'
      BY <1>8 DEF vars, PipelineInv, RecordingInv, WrittenSoFar
    <2>2. ResultsInv'
      BY <1>8, ResultsStay DEF vars
    <2>3. QED
      BY <1>8, <2>1, <2>2, NothingWritten DEF vars, PipelineInv
  <1>9. QED
    BY <1>1, <1>2, <1>3, <1>4, <1>5, <1>6, <1>7, <1>8 DEF Next, Record

LEMMA PipelineInvariant == Spec => []PipelineInv
  <1>1. PipelineInv /\ [Next]_vars => PipelineInv'
    BY PipelineSteps
  <1>2. QED
    BY <1>1, PipelineInit, PTL DEF Spec

--------------------------------------------------------------------------------
(* What the invariant says of the system. *)

LEMMA TypesHold ==
    ASSUME PipelineInv
    PROVE  TypeOK
  <1>1. ResultsInv /\ LogInv
    BY DEF PipelineInv
  <1>2. \A r \in results :
           /\ r.id \in 1 .. Cardinality(results)
           /\ r.gate \in Gates /\ r.request \in Requests
           /\ r.result.requestId = r.request.requestId
           /\ r.request.requestId \in RequestIds
    BY <1>1, ResultsAnswer DEF ResultsInv
  <1>3. registry \subseteq {r.id : r \in results}
    BY <1>1 DEF ResultsInv
  <1>4. ASSUME NEW i \in DOMAIN log
        PROVE  /\ log[i].eventId = i
               /\ log[i].requestId \in RequestIds
               /\ log[i].eventType \in EventTypes
               /\ log[i].entryHash \in 1 .. clock
    <2>1. log[i] \in PipelineEntry
      BY <1>1, ElementOfSeq, LenProperties DEF LogInv
    <2>2. QED
      BY <1>1, <2>1 DEF LogInv, PipelineEntry
  <1>5. ASSUME recording # Null
        PROVE  /\ recording.of \in results /\ recording.request \in Requests
               /\ recording.written \in 0 .. Len(Events(recording.of.result))
    <2>1. PICK r \in results, q \in Requests, w \in 0 .. 3 :
              recording = [of |-> r, request |-> q, written |-> w]
      BY <1>5 DEF PipelineInv, RecordingInv
    <2>2. Len(Events(r.result)) = 3
      BY <1>1, EventsOfResult
    <2>3. recording.of = r /\ recording.request = q /\ recording.written = w
      BY <2>1
    <2>4. QED
      BY <2>2, <2>3
  <1>6. \A b \in bundles : /\ b.of \in results /\ b.request \in Requests
                           /\ \A e \in b.eventChain : e.requestId = b.request.requestId
    BY DEF PipelineInv, BundlesInv, BundleIsAbout
  <1>7. \A m \in manifests : /\ m.requestId \in RequestIds
                             /\ m.sourceEventHashes \subseteq 1 .. clock
    BY DEF PipelineInv, ManifestsInv
  <1>8. QED
    BY <1>1, <1>2, <1>3, <1>4, <1>5, <1>6, <1>7 DEF TypeOK, LogInv

LEMMA BundlesTell ==
    ASSUME PipelineInv
    PROVE  BundlesTellTheirDecision
  BY DEF PipelineInv, BundlesInv, TellsItsDecision, BundlesTellTheirDecision

\* The last entry of a chain is the one it ends at.
LEMMA ChainsLast ==
    ASSUME PipelineInv
    PROVE  EvidenceOutlivesProcess
  <1> SUFFICES ASSUME durable, NEW b \in bundles
               PROVE  b.eventChain = {e \in listByRequestId(b.request.requestId) :
                                        \E last \in b.eventChain : e.eventId <= last.eventId}
    BY DEF EvidenceOutlivesProcess
  <1>1. PICK n : EndsAt(b, n)
    BY DEF PipelineInv, EndsInv
  <1>2. PICK chain, last : chain = b.eventChain /\ last = log[n]
    OBVIOUS
  <1>3. /\ last \in Entries /\ last.eventId = n /\ n \in Int
        /\ last.requestId = b.request.requestId
        /\ chain = {e \in Entries : e.requestId = last.requestId /\ e.eventId <= n}
    BY <1>1, <1>2 DEF EndsAt, Entries, PipelineInv, LogInv
  <1>4. last \in chain
    BY <1>3
  <1>5. \A e \in Entries : e.eventId \in Int
    BY DEF Entries, PipelineInv, LogInv
  <1>6. ASSUME NEW e \in Entries, NEW f \in chain, e.eventId <= f.eventId
        PROVE  e.eventId <= n
    BY <1>3, <1>5, <1>6
  <1>7. QED
    BY <1>2, <1>3, <1>4, <1>6 DEF listByRequestId

LEMMA ManifestsTell ==
    ASSUME PipelineInv
    PROVE  ManifestsIdentifyTheirBundle
  <1> SUFFICES ASSUME NEW m \in manifests, NEW b \in bundles,
                      exportReferencesOriginalEvidence(b, m),
                      NEW c \in bundles, exportReferencesOriginalEvidence(c, m)
               PROVE  c = b
    BY DEF ManifestsIdentifyTheirBundle, PipelineInv, ManifestsInv
  <1>1. /\ m.sourceEventHashes = {e.entryHash : e \in b.eventChain}
        /\ m.sourceEventHashes = {e.entryHash : e \in c.eventChain}
    BY DEF exportReferencesOriginalEvidence
  <1>2. b.eventChain \subseteq Known /\ c.eventChain \subseteq Known
    BY DEF Known
  <1>3. \A e, f \in Known : e.entryHash = f.entryHash => e = f
    BY DEF PipelineInv, ChainsInv
  <1>4. b.eventChain \subseteq c.eventChain /\ c.eventChain \subseteq b.eventChain
    <2>1. ASSUME NEW e \in b.eventChain PROVE e \in c.eventChain
      <3>1. PICK f \in c.eventChain : f.entryHash = e.entryHash
        BY <1>1
      <3>2. QED
        BY <1>2, <1>3, <3>1
    <2>2. ASSUME NEW e \in c.eventChain PROVE e \in b.eventChain
      <3>1. PICK f \in b.eventChain : f.entryHash = e.entryHash
        BY <1>1
      <3>2. QED
        BY <1>2, <1>3, <3>1
    <2>3. QED
      BY <2>1, <2>2
  <1>5. b.eventChain = c.eventChain
    BY <1>4
  <1>6. QED
    BY <1>5 DEF PipelineInv, ChainsInv

LEMMA ReplayTells ==
    ASSUME PipelineInv
    PROVE  ReplayReproducesDecision
  <1> SUFFICES ASSUME NEW b \in bundles
               PROVE  /\ b.given = b.of.request => replayMatches(b.of.gate, b)
                      /\ \A g \in Gates : replayMatches(g, b) =>
                            (MayRelease(g, b.request) <=> b.decision.finalState = "ALLOW")
    BY DEF ReplayReproducesDecision
  <1>1. PICK r \in results : BundleIsAbout(b, r)
    BY DEF PipelineInv, BundlesInv
  <1>2. /\ b.of = r /\ b.given = b.request /\ b.decision = r.result
        /\ r.result = evaluate(r.gate, r.request) /\ r.result # Threw
        /\ b.request \in GovernedRequestType
    BY <1>1, RequestsAssumption DEF BundleIsAbout, PipelineInv, ResultsInv
  <1>3. b.given = b.of.request => replayMatches(b.of.gate, b)
    BY <1>2 DEF replayMatches
  <1>4. ASSUME NEW g \in Gates, replayMatches(g, b)
        PROVE  MayRelease(g, b.request) <=> b.decision.finalState = "ALLOW"
    <2>1. PICK replayed : replayed = evaluate(g, b.request)
      OBVIOUS
    <2>2. replayed # Threw /\ replayed.finalState = b.decision.finalState
      BY <1>4, <2>1 DEF replayMatches
    <2>3. Answers(g, b.request, replayed)
      BY <1>2, <2>1, <2>2, GatesAssumption, EvaluateAnswers
    <2>4. Verdict(g, b.request, replayed.finalState, replayed.reason)
      BY <2>3 DEF Answers
    <2>5. QED
      BY <2>2, <2>4, VerdictsDiffer
  <1>5. QED
    BY <1>3, <1>4

--------------------------------------------------------------------------------
(* Counting the events of the log. *)

OfType(t) == {i \in DOMAIN log : log[i].eventType = t}

LEMMA CountsAreNumbers ==
    ASSUME LogInv, NEW t
    PROVE  /\ IsFiniteSet(OfType(t)) /\ OfType(t) \subseteq DOMAIN log
           /\ Cardinality(OfType(t)) \in Nat
           /\ countOf(log, t) = Cardinality(OfType(t))
  <1>1. PICK n \in Nat : DOMAIN log = 1 .. n
    BY LenProperties DEF LogInv
  <1>2. IsFiniteSet(DOMAIN log)
    BY <1>1, FS_Interval
  <1>3. OfType(t) \subseteq DOMAIN log
    BY DEF OfType
  <1>4. IsFiniteSet(OfType(t))
    BY <1>2, <1>3, FS_Subset
  <1>5. QED
    BY <1>3, <1>4, FS_CardinalityType DEF countOf, OfType

\* Every entry of one kind directly follows one of another kind.
LEMMA NoMoreThanBefore ==
    ASSUME NEW S \in SUBSET Nat, NEW T, IsFiniteSet(T), \A i \in S : i - 1 \in T
    PROVE  IsFiniteSet(S) /\ Cardinality(S) <= Cardinality(T)
  <1> DEFINE f == [i \in S |-> i - 1]
  <1>1. f \in [S -> T]
    OBVIOUS
  <1>2. ASSUME NEW i \in S, NEW j \in S, f[i] = f[j] PROVE i = j
    BY <1>2
  <1>3. DOMAIN f = S
    OBVIOUS
  <1> HIDE DEF f
  <1>4. f \in Injection(S, T)
    BY <1>1, <1>2, <1>3 DEF Injection, IsInjective
  <1>5. QED
    BY <1>4, FS_Injection

LEMMA OutcomesCount ==
    ASSUME PipelineInv
    PROVE  LET outcomes == countOf(log, "RELEASE_AUTHORIZED") + countOf(log, "ACTION_BLOCKED")
           IN  /\ outcomes <= countOf(log, "REQUEST_EVALUATED")
               /\ countOf(log, "EVIDENCE_BUNDLE_CREATED") <= outcomes
  <1> DEFINE R == OfType("RELEASE_AUTHORIZED")
             A == OfType("ACTION_BLOCKED")
             E == OfType("REQUEST_EVALUATED")
             C == OfType("EVIDENCE_BUNDLE_CREATED")
  <1>1. LogInv
    BY DEF PipelineInv
  <1>2. /\ IsFiniteSet(R) /\ IsFiniteSet(A) /\ IsFiniteSet(E) /\ IsFiniteSet(C)
        /\ {Cardinality(R), Cardinality(A), Cardinality(E), Cardinality(C)} \subseteq Nat
        /\ countOf(log, "RELEASE_AUTHORIZED") = Cardinality(R)
        /\ countOf(log, "ACTION_BLOCKED") = Cardinality(A)
        /\ countOf(log, "REQUEST_EVALUATED") = Cardinality(E)
        /\ countOf(log, "EVIDENCE_BUNDLE_CREATED") = Cardinality(C)
    BY <1>1, CountsAreNumbers
  <1>3. R \cap A = {}
    BY DEF OfType
  <1>4. /\ IsFiniteSet(R \cup A)
        /\ Cardinality(R \cup A) = Cardinality(R) + Cardinality(A)
    <2>1. Cardinality(R \cap A) = 0
      BY <1>3, FS_EmptySet
    <2>2. /\ IsFiniteSet(R \cup A)
          /\ Cardinality(R \cup A) = Cardinality(R) + Cardinality(A) - Cardinality(R \cap A)
      BY <1>2, FS_Union
    <2>3. QED
      BY <1>2, <2>1, <2>2
  <1>5. PICK n \in Nat : DOMAIN log = 1 .. n
    BY <1>1, LenProperties DEF LogInv
  <1>6. \A i \in DOMAIN log : i > 1 => i - 1 \in DOMAIN log
    BY <1>5
  <1>7. \A i \in DOMAIN log : OrderedAt(log, i)
    BY DEF PipelineInv, RecordsAreOrdered, OrderedAt
  <1>8. \A i \in R \cup A : i - 1 \in E
    BY <1>6, <1>7 DEF OrderedAt, OfType
  <1>9. \A i \in C : i - 1 \in R \cup A
    BY <1>6, <1>7 DEF OrderedAt, OfType
  <1>10. (R \cup A) \in SUBSET Nat /\ C \in SUBSET Nat
    BY <1>5 DEF OfType
  <1>11. Cardinality(R \cup A) <= Cardinality(E)
    BY <1>2, <1>8, <1>10, NoMoreThanBefore
  <1>12. Cardinality(C) <= Cardinality(R \cup A)
    BY <1>4, <1>9, <1>10, NoMoreThanBefore
  <1>13. QED
    BY <1>2, <1>4, <1>11, <1>12

\* Different bundles end at different entries, each after an outcome of its own.
LEMMA BundlesCount ==
    ASSUME PipelineInv, durable, NEW B \in SUBSET bundles, NEW t,
           \A b \in B : t = IF b.decision.finalState = "ALLOW"
                            THEN "RELEASE_AUTHORIZED" ELSE "ACTION_BLOCKED"
    PROVE  Cardinality(B) <= countOf(log, t) /\ Cardinality(B) \in Nat
  <1>1. LogInv
    BY DEF PipelineInv
  <1>2. /\ IsFiniteSet(OfType(t)) /\ Cardinality(OfType(t)) = countOf(log, t)
    BY <1>1, CountsAreNumbers
  <1>3. \A b \in B : \E n : EndsAt(b, n)
    BY DEF PipelineInv, EndsInv
  <1> DEFINE end(b) == CHOOSE n : EndsAt(b, n)
             f == [b \in B |-> end(b) - 1]
  <1>4. ASSUME NEW b \in B
        PROVE  EndsAt(b, end(b)) /\ end(b) \in Int /\ f[b] = end(b) - 1
    <2>1. EndsAt(b, end(b))
      BY <1>3
    <2>2. f[b] = end(b) - 1
      OBVIOUS
    <2>3. PICK n : n = end(b)
      OBVIOUS
    <2> HIDE DEF end, f
    <2>4. EndsAt(b, n)
      BY <2>1, <2>3
    <2>5. n \in Int
      BY <1>1, <2>4 DEF EndsAt, LogInv
    <2>6. QED
      BY <2>1, <2>2, <2>3, <2>5
  <1>5. DOMAIN f = B /\ f = [b \in B |-> f[b]]
    OBVIOUS
  <1> HIDE DEF end, f
  <1>6. \A b \in B : f[b] \in OfType(t)
    BY <1>4 DEF EndsAt, OfType
  <1>7. ASSUME NEW b \in B, NEW c \in B, f[b] = f[c] PROVE b = c
    <2>1. PICK n : n = end(b) /\ n = end(c)
      BY <1>4, <1>7
    <2>2. EndsAt(b, n) /\ EndsAt(c, n)
      BY <1>4, <2>1
    <2>3. b.eventChain = c.eventChain
      BY <2>2 DEF EndsAt
    <2>4. QED
      BY <2>3 DEF PipelineInv, ChainsInv
  <1>8. f \in Injection(B, OfType(t))
    <2>1. f \in [B -> OfType(t)]
      BY <1>5, <1>6
    <2>2. IsInjective(f)
      BY <1>5, <1>7 DEF IsInjective
    <2>3. QED
      BY <2>1, <2>2 DEF Injection
  <1>9. IsFiniteSet(B) /\ Cardinality(B) <= Cardinality(OfType(t))
    BY <1>2, <1>8, FS_Injection
  <1>10. QED
    BY <1>2, <1>9, FS_CardinalityType

LEMMA SummaryCounts ==
    ASSUME PipelineInv
    PROVE  SummaryCountsDecisions
  <1> SUFFICES ASSUME durable PROVE SummaryCountsDecisions
    BY DEF SummaryCountsDecisions
  <1> DEFINE Returned(states) == {b \in bundles : b.decision.finalState \in states}
  <1>1. /\ Cardinality(Returned({"ALLOW"})) <= countOf(log, "RELEASE_AUTHORIZED")
        /\ Cardinality(Returned({"HOLD", "REJECT"})) <= countOf(log, "ACTION_BLOCKED")
    <2>1. Returned({"ALLOW"}) \in SUBSET bundles /\ Returned({"HOLD", "REJECT"}) \in SUBSET bundles
      OBVIOUS
    <2>2. \A b \in Returned({"ALLOW"}) :
             "RELEASE_AUTHORIZED" = IF b.decision.finalState = "ALLOW"
                                    THEN "RELEASE_AUTHORIZED" ELSE "ACTION_BLOCKED"
      OBVIOUS
    <2>3. \A b \in Returned({"HOLD", "REJECT"}) :
             "ACTION_BLOCKED" = IF b.decision.finalState = "ALLOW"
                                THEN "RELEASE_AUTHORIZED" ELSE "ACTION_BLOCKED"
      OBVIOUS
    <2> HIDE DEF Returned
    <2>4. QED
      BY <2>1, <2>2, <2>3, BundlesCount
  <1>2. /\ countOf(log, "RELEASE_AUTHORIZED") + countOf(log, "ACTION_BLOCKED")
              <= countOf(log, "REQUEST_EVALUATED")
        /\ countOf(log, "EVIDENCE_BUNDLE_CREATED")
              <= countOf(log, "RELEASE_AUTHORIZED") + countOf(log, "ACTION_BLOCKED")
    BY OutcomesCount
  <1>3. \A t \in EventTypes : countOf(log, t) \in Nat
    BY CountsAreNumbers DEF PipelineInv
  <1>4. /\ countOf(log, "RELEASE_AUTHORIZED") \in Nat /\ countOf(log, "ACTION_BLOCKED") \in Nat
        /\ countOf(log, "REQUEST_EVALUATED") \in Nat
        /\ countOf(log, "EVIDENCE_BUNDLE_CREATED") \in Nat
    BY <1>3 DEF EventTypes
  <1>5. PICK summary : summary = buildAuditSummary(log, bundles)
    OBVIOUS
  <1>6. /\ summary.inferredOutcomes.allow = countOf(log, "RELEASE_AUTHORIZED")
        /\ summary.inferredOutcomes.blocked = countOf(log, "ACTION_BLOCKED")
        /\ summary.inferredOutcomes.unknown =
              countOf(log, "REQUEST_EVALUATED") - countOf(log, "RELEASE_AUTHORIZED")
                  - countOf(log, "ACTION_BLOCKED")
        /\ summary.byEventType["REQUEST_EVALUATED"] = countOf(log, "REQUEST_EVALUATED")
        /\ summary.byEventType["EVIDENCE_BUNDLE_CREATED"] =
              countOf(log, "EVIDENCE_BUNDLE_CREATED")
    BY <1>5 DEF buildAuditSummary, inferredOutcomes, EventTypes
  <1>7. summary.inferredOutcomes.unknown \in
           0 .. (summary.byEventType["REQUEST_EVALUATED"]
                    - summary.byEventType["EVIDENCE_BUNDLE_CREATED"])
    BY <1>2, <1>4, <1>6
  <1>8. /\ summary.inferredOutcomes.allow >= Cardinality(Returned({"ALLOW"}))
        /\ summary.inferredOutcomes.blocked >= Cardinality(Returned({"HOLD", "REJECT"}))
    BY <1>1, <1>6
  <1>9. QED
    BY <1>5, <1>7, <1>8 DEF SummaryCountsDecisions

--------------------------------------------------------------------------------
(* The theorems. *)

\* The variables of the evidence pipeline have their types.
THEOREM PipelineTypeCorrect == Spec => []TypeOK
  <1>1. PipelineInv => TypeOK
    BY TypesHold
  <1>2. QED
    BY <1>1, PipelineInvariant, PTL

\* Wherever createBundle is cut off, by an append that throws or by the end of
\* the process, the audit log holds beginnings of whole records, each of one
\* decision and in the order in which createBundle appends.
THEOREM RecordsStayOrdered == Spec => []RecordsAreOrdered
  <1>1. PipelineInv => RecordsAreOrdered
    BY DEF PipelineInv
  <1>2. QED
    BY <1>1, PipelineInvariant, PTL

\* The audit log never claims a release without the decision that its release id
\* names, on a request against which nothing stands, whatever request the decision
\* was filed with.
THEOREM ReleasesWereDue == Spec => []RecordedReleasesWereDue
  <1>1. PipelineInv => RecordedReleasesWereDue
    BY DEF PipelineInv
  <1>2. QED
    BY <1>1, PipelineInvariant, PTL

\* A bundle that createBundle returned carries the complete record of the decision
\* in it.
THEOREM BundlesAreComplete == Spec => []BundlesTellTheirDecision
  <1>1. PipelineInv => BundlesTellTheirDecision
    BY BundlesTell
  <1>2. QED
    BY <1>1, PipelineInvariant, PTL

\* The chain of a bundle stays verifiable against a file-backed log, whatever
\* is appended later and however often the process restarts.
THEOREM ChainsOutliveProcess == Spec => []EvidenceOutlivesProcess
  <1>1. PipelineInv => EvidenceOutlivesProcess
    BY ChainsLast
  <1>2. QED
    BY <1>1, PipelineInvariant, PTL

\* An export manifest verifies against the bundle it was made of, and against
\* no other bundle there ever was.
THEOREM ManifestsIdentify == Spec => []ManifestsIdentifyTheirBundle
  <1>1. PipelineInv => ManifestsIdentifyTheirBundle
    BY ManifestsTell
  <1>2. QED
    BY <1>1, PipelineInvariant, PTL

\* Replaying a bundle of a decision and its own request on the gate of the decision
\* gives the original outcome, and replaying any bundle on any gate matches only if
\* that gate may release the request just when the decision in the bundle did.
THEOREM ReplayReproduces == Spec => []ReplayReproducesDecision
  <1>1. PipelineInv => ReplayReproducesDecision
    BY ReplayTells
  <1>2. QED
    BY <1>1, PipelineInvariant, PTL

\* The summary of a file-backed audit log counts every bundle that was returned
\* under its outcome, and no count of it is negative.
THEOREM SummaryCountsEveryBundle == Spec => []SummaryCountsDecisions
  <1>1. PipelineInv => SummaryCountsDecisions
    BY SummaryCounts
  <1>2. QED
    BY <1>1, PipelineInvariant, PTL
================================================================================
