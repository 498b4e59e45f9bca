--------------------------- MODULE GatedProgramProofs ---------------------------
(***************************************************************************)
(* Proofs about the programs built on the gate, JobQueue and GatedServices *)
(* for every set of gates, requests, reviewers, agents and scores, and all *)
(* bounds.                                                                 *)
(***************************************************************************)
EXTENDS JobQueue, GatedServices, GateChecksProofs, FiniteSetTheorems, TLAPS

--------------------------------------------------------------------------------
(* The inductive invariant. *)

Results == {evaluate(g, r) : g \in Gates, r \in GovernedRequestType}

Bundle ==
    [request    : GovernedRequestType,
     decision   : Results,
     eventChain : SUBSET Nat]

Job ==
    [request        : GovernedRequestType,
     status         : JobStatus,
     evidenceBundle : Bundle]

\* The entries that tell an outcome for an id, and what an entry tells.
OutcomesOf(id) ==
    {i \in DOMAIN log :
        /\ log[i].requestId = id
        /\ log[i].eventType \in {"RELEASE_AUTHORIZED", "ACTION_BLOCKED"}}

OutcomeAt(i) ==
    IF log[i].eventType = "RELEASE_AUTHORIZED" THEN "ALLOWED"
    ELSE JobStatusOf(log[i].payloadHash.finalState)

IsLastOutcome(id, i) == i \in OutcomesOf(id) /\ \A j \in OutcomesOf(id) : j <= i

TypeInv ==
    /\ gate \in Gates
    /\ handed \in Seq(Job)
    /\ jobs \in [RequestIds -> Nat]
    /\ log \in Seq(LogEntry)

\* Every job is in the log with its whole chain, and what the map points to is
\* the job of that id, with an outcome in the log that no other follows.
QueueInv ==
    /\ TypeInv
    /\ \A i \in DOMAIN handed : handed[i].evidenceBundle.eventChain \subseteq DOMAIN log
    /\ \A id \in RequestIds : jobs[id] # 0 =>
          /\ jobs[id] \in DOMAIN handed
          /\ handed[jobs[id]].request.requestId = id
          /\ \E i : IsLastOutcome(id, i) /\ handed[jobs[id]].status = OutcomeAt(i)

--------------------------------------------------------------------------------
(* What one evaluation records. *)

\* The log after a record of an answer: the outcomes of other ids are what they
\* were, and the id has a new last one.
LEMMA RecordKeepsOutcomes ==
    ASSUME TypeInv, NEW r \in GovernedRequestType,
           NEW result, result = evaluate(gate, r), result # Threw,
           log' = Recorded(r, result)
    PROVE  /\ log' \in Seq(LogEntry)
           /\ DOMAIN log \subseteq DOMAIN log'
           /\ \A id, i : id # r.requestId /\ IsLastOutcome(id, i) =>
                  IsLastOutcome(id, i)' /\ OutcomeAt(i)' = OutcomeAt(i)
           /\ \E i : /\ IsLastOutcome(r.requestId, i)'
                     /\ OutcomeAt(i)' = JobStatusOf(result.finalState)
  <1>1. gate \in GateType /\ log \in Seq(LogEntry)
    BY GatesAssumption DEF TypeInv
  <1>2. Answers(gate, r, result)
    BY <1>1, EvaluateAnswers
  <1>3. PICK n : n = Len(log)
    OBVIOUS
  <1>4. PICK k : k = n + 2
    OBVIOUS
  <1>5. log' = log \o NewEntries(log, r.requestId, Events(result))
    BY DEF Recorded
  <1>6. /\ log' \in Seq(LogEntry)
        /\ Len(log') = n + 3
        /\ \A i \in 1 .. n : log'[i] = log[i]
        /\ log'[n + 1] = EntryOf(log, 1, r, EvaluatedEvent(result))
        /\ log'[k] = EntryOf(log, 2, r, OutcomeEvent(result))
        /\ log'[n + 3] = EntryOf(log, 3, r, BundleEvent(result))
    <2>1. IsRecord(log, log', r, result)
      BY <1>1, <1>2, <1>5, RecordOfAnswer
    <2>2. QED
      BY <1>3, <1>4, <2>1 DEF IsRecord
  <1>7. n \in Nat /\ k = n + 2 /\ DOMAIN log = 1 .. n /\ DOMAIN log' = 1 .. (n + 3)
    BY <1>1, <1>3, <1>4, <1>6, LenProperties
  <1>8. /\ log'[n + 1].requestId = r.requestId
        /\ log'[k].requestId = r.requestId
        /\ log'[n + 3].requestId = r.requestId
        /\ log'[n + 1].eventType = "REQUEST_EVALUATED"
        /\ log'[k].eventType = IF result.finalState = "ALLOW" THEN "RELEASE_AUTHORIZED"
                               ELSE "ACTION_BLOCKED"
        /\ log'[n + 3].eventType = "EVIDENCE_BUNDLE_CREATED"
        /\ result.finalState # "ALLOW" =>
               log'[k].payloadHash.finalState = result.finalState
    BY <1>6 DEF EntryOf, Event, EvaluatedEvent, OutcomeEvent, ReleaseEvent, BlockedEvent,
                BundleEvent
  <1>9. ASSUME NEW id, NEW i, id # r.requestId, IsLastOutcome(id, i)
        PROVE  IsLastOutcome(id, i)' /\ OutcomeAt(i)' = OutcomeAt(i)
    <2>1. i \in 1 .. n /\ log'[i] = log[i]
      BY <1>6, <1>7, <1>9 DEF IsLastOutcome, OutcomesOf
    <2>2. \A j \in 1 .. (n + 3) : j \in 1 .. n \/ j = n + 1 \/ j = n + 2 \/ j = n + 3
      BY <1>7
    <2>3. OutcomesOf(id)' = OutcomesOf(id)
      <3>1. \A j \in 1 .. (n + 3) : log'[j].requestId = id => j \in 1 .. n
        BY <1>7, <1>8, <1>9, <2>2
      <3>2. \A j \in 1 .. n : j \in 1 .. (n + 3) /\ log'[j] = log[j]
        BY <1>6, <1>7
      <3>3. QED
        BY <1>7, <3>1, <3>2 DEF OutcomesOf
    <2>4. QED
      BY <1>9, <2>1, <2>3 DEF IsLastOutcome, OutcomeAt
  <1>10. IsLastOutcome(r.requestId, k)'
    <2>1. k \in 1 .. (n + 3)
      BY <1>7
    <2>2. k \in OutcomesOf(r.requestId)'
      BY <1>7, <1>8, <2>1 DEF OutcomesOf
    <2>3. \A j \in 1 .. (n + 3) : j <= k \/ j = n + 3
      BY <1>7
    <2>4. \A j \in OutcomesOf(r.requestId)' : j <= k
      BY <1>7, <1>8, <2>3 DEF OutcomesOf
    <2>5. QED
      BY <2>2, <2>4 DEF IsLastOutcome
  <1>11. OutcomeAt(k)' = JobStatusOf(result.finalState)
    <2>1. CASE result.finalState = "ALLOW"
      BY <1>8, <2>1 DEF OutcomeAt, JobStatusOf
    <2>2. CASE result.finalState # "ALLOW"
      <3>1. log'[k].eventType = "ACTION_BLOCKED"
        BY <1>8, <2>2
      <3>2. OutcomeAt(k)' = JobStatusOf(log'[k].payloadHash.finalState)
        BY <3>1 DEF OutcomeAt
      <3>3. QED
        BY <1>8, <2>2, <3>2
    <2>3. QED
      BY <2>1, <2>2
  <1>12. DOMAIN log \subseteq DOMAIN log'
    BY <1>7
  <1>13. QED
    BY <1>6, <1>9, <1>10, <1>11, <1>12

\* The bundle of an evaluation, and its chain in the log.
LEMMA BundleOfEvaluation ==
    ASSUME TypeInv, NEW r \in GovernedRequestType,
           NEW result, result = evaluate(gate, r),
           log' = Recorded(r, result), log' \in Seq(LogEntry)
    PROVE  /\ createBundle(r, result) \in Bundle
           /\ createBundle(r, result).eventChain \subseteq DOMAIN log'
  <1>1. createBundle(r, result) =
            [request |-> r, decision |-> result,
             eventChain |-> {i \in DOMAIN log' : log'[i].requestId = r.requestId}]
    BY DEF createBundle
  <1>2. DOMAIN log' = 1 .. Len(log') /\ Len(log') \in Nat
    BY LenProperties
  <1>3. result \in Results
    BY DEF Results, TypeInv
  <1>4. {i \in DOMAIN log' : log'[i].requestId = r.requestId} \in SUBSET Nat
    BY <1>2
  <1>5. QED
    BY <1>1, <1>3, <1>4 DEF Bundle

\* A review makes an approval artifact.
LEMMA ApprovalIsArtifact ==
    ASSUME NEW reviewer \in Reviewers, NEW now \in ClockReadings, NEW id \in RequestIds
    PROVE  ApprovalArtifactBy(reviewer, id, now) \in ApprovalArtifact
  <1>1. reviewer.approverAuthorityClass \in AuthorityLabels
    BY ReviewersAssumption, LabelsAssumption
    DEF Reviewer, HumanAuthorityClasses, CoreAuthorityClasses
  <1>2. reviewer.privilegedAuthSatisfied \in BOOLEAN /\ now \in Instant
    BY ReviewersAssumption, ClockAssumption DEF Reviewer, Instant
  <1>3. QED
    BY <1>1, <1>2 DEF ApprovalArtifactBy, ApprovalArtifact

--------------------------------------------------------------------------------
(* The steps. *)

LEMMA EnqueueKeeps ==
    ASSUME QueueInv, NEW r \in Requests, enqueue(r)
    PROVE  QueueInv'
  <1>1. PICK result : /\ result = evaluate(gate, r) /\ result # Threw
                      /\ log' = Recorded(r, result)
                      /\ handed' = Append(handed,
                             [request        |-> r,
                              status         |-> JobStatusOf(result.finalState),
                              evidenceBundle |-> createBundle(r, result)])
                      /\ jobs' = [jobs EXCEPT ![r.requestId] = Len(handed) + 1]
                      /\ gate' = gate
    BY DEF enqueue
  <1>2. r \in GovernedRequestType /\ r.requestId \in RequestIds /\ TypeInv
    BY RequestsAssumption DEF GovernedRequestType, QueueInv
  <1>3. /\ log' \in Seq(LogEntry)
        /\ DOMAIN log \subseteq DOMAIN log'
        /\ \A id, i : id # r.requestId /\ IsLastOutcome(id, i) =>
               IsLastOutcome(id, i)' /\ OutcomeAt(i)' = OutcomeAt(i)
        /\ \E i : /\ IsLastOutcome(r.requestId, i)'
                  /\ OutcomeAt(i)' = JobStatusOf(result.finalState)
    BY <1>1, <1>2, RecordKeepsOutcomes
  <1>4. PICK bundle \in Bundle : /\ bundle = createBundle(r, result)
                                 /\ bundle.eventChain \subseteq DOMAIN log'
    BY <1>1, <1>2, <1>3, BundleOfEvaluation
  <1>5. PICK job \in Job : /\ job.request = r /\ job.evidenceBundle = bundle
                           /\ job.status = JobStatusOf(result.finalState)
                           /\ handed' = Append(handed, job)
    BY <1>1, <1>2, <1>4 DEF Job, JobStatus, JobStatusOf
  <1>6. PICK last \in Nat \ {0} : last = Len(handed) + 1
    BY <1>2 DEF TypeInv
  <1>7. /\ handed' \in Seq(Job)
        /\ DOMAIN handed' = 1 .. last /\ DOMAIN handed = 1 .. (last - 1)
        /\ handed'[last] = job
        /\ \A i \in 1 .. (last - 1) : handed'[i] = handed[i]
    BY <1>2, <1>5, <1>6, AppendProperties, LenProperties DEF TypeInv
  <1>8. /\ jobs' \in [RequestIds -> Nat]
        /\ jobs'[r.requestId] = last
        /\ \A id \in RequestIds : id # r.requestId => jobs'[id] = jobs[id]
    BY <1>1, <1>2, <1>6 DEF TypeInv
  <1>9. TypeInv'
    BY <1>1, <1>2, <1>3, <1>7, <1>8 DEF TypeInv
  <1>10. ASSUME NEW i \in DOMAIN handed'
         PROVE  handed'[i].evidenceBundle.eventChain \subseteq DOMAIN log'
    <2>1. CASE i = last
      BY <1>4, <1>5, <1>7, <2>1
    <2>2. CASE i # last
      <3>1. i \in DOMAIN handed /\ handed'[i] = handed[i]
        BY <1>6, <1>7, <2>2
      <3>2. QED
        BY <1>3, <3>1 DEF QueueInv
    <2>3. QED
      BY <2>1, <2>2
  <1>11. ASSUME NEW id \in RequestIds, jobs'[id] # 0
         PROVE  /\ jobs'[id] \in DOMAIN handed'
                /\ handed'[jobs'[id]].request.requestId = id
                /\ \E i : /\ IsLastOutcome(id, i)'
                          /\ handed'[jobs'[id]].status = OutcomeAt(i)'
    <2>1. CASE id = r.requestId
      BY <1>3, <1>5, <1>6, <1>7, <1>8, <2>1
    <2>2. CASE id # r.requestId
      <3>1. jobs'[id] = jobs[id] /\ jobs[id] # 0
        BY <1>8, <1>11, <2>2
      <3>2. /\ jobs[id] \in 1 .. (last - 1)
            /\ handed[jobs[id]].request.requestId = id
            /\ \E i : IsLastOutcome(id, i) /\ handed[jobs[id]].status = OutcomeAt(i)
        BY <1>7, <3>1 DEF QueueInv
      <3>3. /\ handed'[jobs[id]] = handed[jobs[id]]
            /\ jobs[id] \in 1 .. last
        BY <1>6, <1>7, <3>2
      <3>4. QED
        BY <1>3, <1>7, <2>2, <3>1, <3>2, <3>3
    <2>3. QED
      BY <2>1, <2>2
  <1>12. QED
    BY <1>9, <1>10, <1>11 DEF QueueInv

\* What approve does to the job the map points to, for names that do not change.
LEMMA ApproveStep ==
    ASSUME QueueInv, NEW id \in RequestIds, NEW reviewer \in Reviewers,
           NEW now \in ClockReadings, approve(id, reviewer, now)
    PROVE  \E p \in DOMAIN handed, job \in Job, a \in ApprovalArtifact,
              approved \in GovernedRequestType, result \in Results :
              /\ p = jobs[id] /\ p # 0 /\ job = handed[p]
              /\ job.status = "HELD" /\ job.request.requestId = id
              /\ a = ApprovalArtifactBy(reviewer, id, now)
              /\ approved = [job.request EXCEPT !.approvalArtifact = a]
              /\ approved.requestId = id /\ approved.approvalArtifact = a
              /\ result = evaluate(gate, approved) /\ result # Threw
              /\ log' = Recorded(approved, result)
              /\ handed' = [handed EXCEPT ![p] = Reviewed(job, approved, result)]
              /\ gate' = gate /\ jobs' = jobs
  <1>1. PICK p : p = jobs[id]
    OBVIOUS
  <1>2. p # 0 /\ p \in DOMAIN handed /\ handed[p].request.requestId = id
    BY <1>1 DEF approve, QueueInv
  <1>3. PICK job \in Job : job = handed[p]
    <2>1. handed \in [1 .. Len(handed) -> Job]
      BY LenProperties DEF QueueInv, TypeInv
    <2>2. QED
      BY <1>2, <2>1
  <1>4. job.request \in GovernedRequestType
    BY DEF Job
  <1>5. PICK a \in ApprovalArtifact : a = ApprovalArtifactBy(reviewer, id, now)
    BY ApprovalIsArtifact
  <1>6. PICK approved \in GovernedRequestType :
            /\ approved = [job.request EXCEPT !.approvalArtifact = a]
            /\ approved.requestId = id /\ approved.approvalArtifact = a
    <2>1. [job.request EXCEPT !.approvalArtifact = a] \in GovernedRequestType
      BY <1>4 DEF GovernedRequestType
    <2>2. /\ [job.request EXCEPT !.approvalArtifact = a].requestId = id
          /\ [job.request EXCEPT !.approvalArtifact = a].approvalArtifact = a
      BY <1>2, <1>3, <1>4 DEF GovernedRequestType
    <2>3. QED
      BY <2>1, <2>2
  <1>7. PICK result \in Results : result = evaluate(gate, approved)
    BY DEF Results, QueueInv, TypeInv
  <1>8. /\ job.status = "HELD" /\ result # Threw
        /\ log' = Recorded(approved, result)
        /\ handed' = [handed EXCEPT ![p] = Reviewed(job, approved, result)]
        /\ gate' = gate /\ jobs' = jobs
    BY <1>1, <1>3, <1>5, <1>6, <1>7 DEF approve
  <1>9. QED
    BY <1>1, <1>2, <1>3, <1>5, <1>6, <1>7, <1>8

\* A job after its review.
LEMMA ReviewedJob ==
    ASSUME NEW job \in Job, job.status = "HELD",
           NEW g \in GateType,
           NEW approved \in GovernedRequestType, approved.requestId = job.request.requestId,
           NEW result, Answers(g, approved, result),
           createBundle(approved, result) \in Bundle,
           NEW after, after = Reviewed(job, approved, result)
    PROVE  /\ after \in Job
           /\ after.request.requestId = job.request.requestId
           /\ after.status = JobStatusOf(result.finalState)
           /\ after.evidenceBundle \in {job.evidenceBundle, createBundle(approved, result)}
  <1>1. CASE result.finalState = "ALLOW"
    <2>1. after = [request        |-> approved,
                   status         |-> "ALLOWED",
                   evidenceBundle |-> createBundle(approved, result)]
      BY <1>1 DEF Reviewed
    <2>2. QED
      BY <1>1, <2>1 DEF Job, JobStatus, JobStatusOf
  <1>2. CASE result.finalState = "REJECT"
    <2>1. after = [job EXCEPT !.status = "REJECTED"]
      BY <1>2 DEF Reviewed
    <2>2. QED
      BY <1>2, <2>1 DEF Job, JobStatus, JobStatusOf
  <1>3. CASE result.finalState = "HOLD"
    <2>1. after = job
      BY <1>3 DEF Reviewed
    <2>2. QED
      BY <1>3, <2>1 DEF Job, JobStatusOf
  <1>4. QED
    BY <1>1, <1>2, <1>3 DEF Answers

LEMMA ApproveKeeps ==
    ASSUME QueueInv, NEW jobId \in RequestIds, NEW reviewer \in Reviewers,
           NEW now \in ClockReadings, approve(jobId, reviewer, now)
    PROVE  QueueInv'
  <1>1. PICK p \in DOMAIN handed, job \in Job, approved \in GovernedRequestType,
             result \in Results :
            /\ p = jobs[jobId] /\ p # 0 /\ job = handed[p]
            /\ job.status = "HELD" /\ job.request.requestId = jobId
            /\ approved.requestId = jobId
            /\ result = evaluate(gate, approved) /\ result # Threw
            /\ log' = Recorded(approved, result)
            /\ handed' = [handed EXCEPT ![p] = Reviewed(job, approved, result)]
            /\ gate' = gate /\ jobs' = jobs
    BY ApproveStep
  <1>2. /\ TypeInv /\ gate \in GateType
        /\ Answers(gate, approved, result)
    BY <1>1, GatesAssumption, EvaluateAnswers DEF QueueInv, TypeInv
  <1>3. /\ log' \in Seq(LogEntry)
        /\ DOMAIN log \subseteq DOMAIN log'
        /\ \A id, i : id # jobId /\ IsLastOutcome(id, i) =>
               IsLastOutcome(id, i)' /\ OutcomeAt(i)' = OutcomeAt(i)
        /\ \E i : /\ IsLastOutcome(jobId, i)'
                  /\ OutcomeAt(i)' = JobStatusOf(result.finalState)
    BY <1>1, <1>2, RecordKeepsOutcomes
  <1>4. PICK bundle \in Bundle : /\ bundle = createBundle(approved, result)
                                 /\ bundle.eventChain \subseteq DOMAIN log'
    BY <1>1, <1>2, <1>3, BundleOfEvaluation
  <1>5. PICK after \in Job : /\ after = Reviewed(job, approved, result)
                             /\ after.request.requestId = jobId
                             /\ after.status = JobStatusOf(result.finalState)
                             /\ after.evidenceBundle \in {job.evidenceBundle, bundle}
    BY <1>1, <1>2, <1>4, ReviewedJob
  <1>6. /\ handed' \in Seq(Job)
        /\ DOMAIN handed' = DOMAIN handed
        /\ handed'[p] = after
        /\ \A i \in DOMAIN handed : i # p => handed'[i] = handed[i]
    BY <1>1, <1>2, <1>5 DEF TypeInv
  <1>7. TypeInv'
    BY <1>1, <1>2, <1>3, <1>6 DEF TypeInv
  <1>8. ASSUME NEW i \in DOMAIN handed'
        PROVE  handed'[i].evidenceBundle.eventChain \subseteq DOMAIN log'
    <2>1. handed[i].evidenceBundle.eventChain \subseteq DOMAIN log'
      BY <1>3, <1>6 DEF QueueInv
    <2>2. QED
      BY <1>1, <1>4, <1>5, <1>6, <2>1
  <1>9. ASSUME NEW id \in RequestIds, jobs'[id] # 0
        PROVE  /\ jobs'[id] \in DOMAIN handed'
               /\ handed'[jobs'[id]].request.requestId = id
               /\ \E i : /\ IsLastOutcome(id, i)'
                         /\ handed'[jobs'[id]].status = OutcomeAt(i)'
    <2>1. CASE id = jobId
      BY <1>1, <1>3, <1>5, <1>6, <2>1
    <2>2. CASE id # jobId
      <3>1. /\ jobs[id] \in DOMAIN handed
            /\ handed[jobs[id]].request.requestId = id
            /\ \E i : IsLastOutcome(id, i) /\ handed[jobs[id]].status = OutcomeAt(i)
        BY <1>1, <1>9 DEF QueueInv
      <3>2. jobs[id] # p
        BY <1>1, <2>2, <3>1
      <3>3. handed'[jobs[id]] = handed[jobs[id]]
        BY <1>6, <3>1, <3>2
      <3>4. QED
        BY <1>1, <1>3, <1>6, <2>2, <3>1, <3>3
    <2>3. QED
      BY <2>1, <2>2
  <1>10. QED
    BY <1>7, <1>8, <1>9 DEF QueueInv

LEMMA InitQueue == Init => QueueInv
  BY DEF Init, QueueInv, TypeInv

LEMMA StepQueue ==
    ASSUME QueueInv, [Next]_vars
    PROVE  QueueInv'
  <1>1. CASE UNCHANGED vars
    BY <1>1 DEF vars, QueueInv, TypeInv, IsLastOutcome, OutcomesOf, OutcomeAt
  <1>2. QED
    BY <1>1, EnqueueKeeps, ApproveKeeps DEF Next

--------------------------------------------------------------------------------
(* What follows from the invariant. *)

LEMMA LastOutcomeFound ==
    ASSUME NEW id, NEW i, IsLastOutcome(id, i), TypeInv
    PROVE  LastOutcome(id) = OutcomeAt(i)
  <1> DEFINE last == CHOOSE k \in OutcomesOf(id) : \A j \in OutcomesOf(id) : j <= k
  <1>1. /\ last \in OutcomesOf(id)
        /\ \A j \in OutcomesOf(id) : j <= last
    BY DEF IsLastOutcome
  <1>2. OutcomesOf(id) \subseteq Nat
    BY LenProperties DEF OutcomesOf, TypeInv
  <1> HIDE DEF last
  <1>3. last = i
    BY <1>1, <1>2 DEF IsLastOutcome
  <1>4. LastOutcome(id) = OutcomeAt(last)
    BY DEF LastOutcome, OutcomeAt, last, OutcomesOf
  <1>5. QED
    BY <1>3, <1>4

\* Every variable keeps its type, a job is in the map under the id of its request,
\* and the chain of its bundle is in the log (examples/async-queue/index.ts).
THEOREM QueueTypeCorrect == Spec => []TypeOK
  <1>1. ASSUME QueueInv PROVE TypeOK
    <2>1. \A i \in DOMAIN handed : handed[i] \in Job
      BY <1>1, LenProperties DEF QueueInv, TypeInv
    <2>2. \A i \in DOMAIN log : log[i] \in LogEntry
      BY <1>1, LenProperties DEF QueueInv, TypeInv
    <2>3. \A i \in DOMAIN handed : /\ handed[i].request \in GovernedRequestType
                                   /\ handed[i].status \in JobStatus
      BY <2>1 DEF Job
    <2>4. \A i \in DOMAIN log : log[i].eventType \in EventTypes
      BY <2>2 DEF LogEntry
    <2>5. QED
      BY <1>1, <2>3, <2>4 DEF TypeOK, QueueInv, TypeInv
  <1>2. QED
    BY <1>1, InitQueue, StepQueue, PTL DEF Spec

\* The job under an id has the status the audit log tells of that id last,
\* however often the id was enqueued and reviewed.
THEOREM QueueAgrees == Spec => []QueueAgreesWithLog
  <1>1. QueueInv => QueueAgreesWithLog
    BY LastOutcomeFound DEF QueueInv, QueueAgreesWithLog
  <1>2. QED
    BY <1>1, InitQueue, StepQueue, PTL DEF Spec

--------------------------------------------------------------------------------
(* The queue implements HumanReview. *)

\* The release conditions of the abstract queue are those of the gate.
LEMMA SameConditions ==
    ASSUME NEW g, NEW r
    PROVE  /\ Review!MayRelease(g, r) <=> MayRelease(g, r)
           /\ Review!AwaitsApproval(g, r) <=> AwaitsApproval(g, r)
  <1>1. /\ Review!ApprovalNeeded(g, r) <=> ApprovalNeeded(g, r)
        /\ Review!CanonicalClass(g, r) = CanonicalClass(g, r)
        /\ Review!KnownClasses(g) = KnownClasses(g)
        /\ \A b : Review!PolicyBehaviourIs(g, r, b) <=> PolicyBehaviourIs(g, r, b)
        /\ \A c : Review!MayApprove(g, r, c) <=> MayApprove(g, r, c)
    BY DEF Review!ApprovalNeeded, ApprovalNeeded, Review!RuleAsksApproval,
           RuleAsksApproval, Review!CanonicalClass, CanonicalClass,
           Review!KnownClasses, KnownClasses, Review!PolicyBehaviourIs, PolicyBehaviourIs,
           Review!MayApprove, MayApprove, Review!Keys, Keys,
           Review!HumanAuthorityClasses, HumanAuthorityClasses,
           Review!CoreAuthorityClasses, CoreAuthorityClasses
  <1>2. /\ Review!ApprovalGiven(g, r) <=> ApprovalGiven(g, r)
        /\ Review!DataMissing(g, r) <=> DataMissing(g, r)
    BY <1>1 DEF Review!ApprovalGiven, ApprovalGiven, Review!DataMissing, DataMissing,
                Review!InvalidDate, InvalidDate
  <1>3. Review!CoreActionClasses = CoreActionClasses /\ Review!ReasonCodes = ReasonCodes
    BY DEF Review!CoreActionClasses, CoreActionClasses, Review!ReasonCodes, ReasonCodes
  <1>4. \A reason : Review!StandsAgainst(g, r, reason) <=> StandsAgainst(g, r, reason)
    BY <1>1, <1>2, <1>3 DEF Review!StandsAgainst, StandsAgainst
  <1>5. QED
    BY <1>3, <1>4
    DEF Review!MayRelease, MayRelease, Review!AwaitsApproval, AwaitsApproval

\* The status of an answer is the outcome of the abstract queue.
LEMMA StatusIsOutcome ==
    ASSUME NEW r, NEW result, Answers(gate, r, result)
    PROVE  /\ JobStatusOf(result.finalState) = Review!Outcome(r)
           /\ result.finalState = "ALLOW" <=> Review!MayRelease(gate, r)
           /\ result.finalState = "HOLD" <=> Review!AwaitsApproval(gate, r)
  <1>1. /\ result.finalState = "ALLOW" <=> MayRelease(gate, r)
        /\ result.finalState = "HOLD" <=> AwaitsApproval(gate, r)
        /\ result.finalState \in {"ALLOW", "HOLD", "REJECT"}
    BY VerdictsDiffer DEF Answers
  <1>2. /\ result.finalState = "ALLOW" <=> Review!MayRelease(gate, r)
        /\ result.finalState = "HOLD" <=> Review!AwaitsApproval(gate, r)
    BY <1>1, SameConditions
  <1>3. QED
    BY <1>1, <1>2 DEF JobStatusOf, Review!Outcome

\* A request that carries an artifact does not await one.
LEMMA ArtifactEndsTheWait ==
    ASSUME NEW g, NEW r, r.approvalArtifact \in ApprovalArtifact
    PROVE  ~ AwaitsApproval(g, r)
  <1>1. r.approvalArtifact # Null
    BY NullAssumption
  <1>2. ~ StandsAgainst(g, r, "REQUIRED_APPROVAL_MISSING")
    BY <1>1 DEF StandsAgainst
  <1>3. "REQUIRED_APPROVAL_MISSING" \in ReasonCodes
    BY DEF ReasonCodes
  <1>4. QED
    BY <1>2, <1>3 DEF AwaitsApproval

\* The cases of the abstract queue.
CasesOf(s) == [i \in DOMAIN s |-> [request |-> s[i].request, status |-> s[i].status]]

LEMMA EnqueueSubmits ==
    ASSUME QueueInv, NEW r \in Requests, enqueue(r)
    PROVE  Review!Submit(r)
  <1>1. PICK result, bundle :
            /\ result = evaluate(gate, r) /\ result # Threw
            /\ handed' = Append(handed, [request        |-> r,
                                         status         |-> JobStatusOf(result.finalState),
                                         evidenceBundle |-> bundle])
            /\ gate' = gate
    BY DEF enqueue
  <1>2. /\ r \in GovernedRequestType /\ handed \in Seq(Job) /\ gate \in GateType
    BY RequestsAssumption, GatesAssumption DEF QueueInv, TypeInv
  <1>3. JobStatusOf(result.finalState) = Review!Outcome(r)
    BY <1>1, <1>2, EvaluateAnswers, StatusIsOutcome
  <1> DEFINE new == [request |-> r, status |-> Review!Outcome(r)]
             before == CasesOf(handed)
  <1>4. CasesOf(handed') = Append(before, new)
    <2>1. PICK n \in Nat : n = Len(handed) /\ DOMAIN handed = 1 .. n
      BY <1>2, LenProperties
    <2>2. PICK job : job.request = r /\ job.status = Review!Outcome(r)
                     /\ handed' = Append(handed, job)
      BY <1>1, <1>3
    <2>3. /\ DOMAIN handed' = 1 .. (n + 1) /\ handed'[n + 1] = job
          /\ \A i \in 1 .. n : handed'[i] = handed[i]
      BY <2>1, <2>2
    <2>4. /\ DOMAIN before = 1 .. n /\ Len(before) = n
          /\ \A i \in 1 .. n :
                before[i] = [request |-> handed[i].request, status |-> handed[i].status]
      BY <2>1 DEF CasesOf
    <2>5. CasesOf(handed') =
              [i \in 1 .. (n + 1) |->
                  [request |-> handed'[i].request, status |-> handed'[i].status]]
      BY <2>3 DEF CasesOf
    <2> HIDE DEF before
    <2>6. Append(before, new) = [i \in 1 .. (n + 1) |-> IF i = n + 1 THEN new ELSE before[i]]
      BY <2>4
    <2>7. \A i \in 1 .. (n + 1) :
              [request |-> handed'[i].request, status |-> handed'[i].status]
                  = IF i = n + 1 THEN new ELSE before[i]
      BY <2>2, <2>3, <2>4
    <2>8. QED
      BY <2>5, <2>6, <2>7
  <1>5. QED
    BY <1>1, <1>4 DEF Review!Submit, CasesOf

LEMMA ReviewStep ==
    ASSUME NEW p \in DOMAIN handed, NEW reviewer \in Reviewers, NEW now \in ClockReadings,
           NEW a, a = Review!ApprovalBy(reviewer, now, handed[p].request),
           Review!Release(p, a) \/ Review!Refuse(p, a)
    PROVE  Review!Next
  <1>1. /\ p \in DOMAIN CasesOf(handed)
        /\ CasesOf(handed)[p].request = handed[p].request
    BY DEF CasesOf
  <1> DEFINE mapped == CasesOf(handed)
  <1>2. /\ p \in DOMAIN mapped
        /\ a = Review!ApprovalBy(reviewer, now, mapped[p].request)
    BY <1>1
  <1> HIDE DEF mapped
  <1>3. \E i \in DOMAIN mapped, someone \in Reviewers, when \in ClockReadings :
            \/ Review!Release(i, Review!ApprovalBy(someone, when, mapped[i].request))
            \/ Review!Refuse(i, Review!ApprovalBy(someone, when, mapped[i].request))
    <2>1. \/ Review!Release(p, Review!ApprovalBy(reviewer, now, mapped[p].request))
          \/ Review!Refuse(p, Review!ApprovalBy(reviewer, now, mapped[p].request))
      BY <1>2 DEF Review!Release, Review!Refuse
    <2>2. CASE Review!Release(p, Review!ApprovalBy(reviewer, now, mapped[p].request))
      BY <1>2, <2>2 DEF Review!Release
    <2>3. CASE Review!Refuse(p, Review!ApprovalBy(reviewer, now, mapped[p].request))
      BY <1>2, <2>3 DEF Review!Refuse
    <2>4. QED
      BY <2>1, <2>2, <2>3
  <1>4. QED
    BY <1>3 DEF Review!Next, Review!Release, Review!Refuse, CasesOf, mapped

\* A review is the release or the refusal of the abstract case.
LEMMA ApproveReviews ==
    ASSUME QueueInv, NEW jobId \in RequestIds, NEW reviewer \in Reviewers,
           NEW now \in ClockReadings, approve(jobId, reviewer, now)
    PROVE  Review!Next
  <1>1. PICK p \in DOMAIN handed, job \in Job, a \in ApprovalArtifact,
             approved \in GovernedRequestType, result \in Results :
            /\ p = jobs[jobId] /\ p # 0 /\ job = handed[p]
            /\ job.status = "HELD" /\ job.request.requestId = jobId
            /\ a = ApprovalArtifactBy(reviewer, jobId, now)
            /\ approved = [job.request EXCEPT !.approvalArtifact = a]
            /\ approved.requestId = jobId /\ approved.approvalArtifact = a
            /\ result = evaluate(gate, approved) /\ result # Threw
            /\ log' = Recorded(approved, result)
            /\ handed' = [handed EXCEPT ![p] = Reviewed(job, approved, result)]
            /\ gate' = gate /\ jobs' = jobs
    BY ApproveStep
  <1>2. Answers(gate, approved, result)
    BY <1>1, GatesAssumption, EvaluateAnswers DEF QueueInv, TypeInv
  <1>3. /\ result.finalState = "ALLOW" <=> Review!MayRelease(gate, approved)
        /\ result.finalState \in {"ALLOW", "REJECT"}
    <2>1. ~ Review!AwaitsApproval(gate, approved)
      BY <1>1, ArtifactEndsTheWait, SameConditions
    <2>2. QED
      BY <1>2, <2>1, StatusIsOutcome DEF Answers
  <1> DEFINE before == CasesOf(handed)
             held   == before[p]
  <1>4. /\ DOMAIN before = DOMAIN handed /\ p \in DOMAIN before
        /\ held.request = job.request /\ held.status = "HELD"
        /\ held = [request |-> job.request, status |-> "HELD"]
    BY <1>1 DEF CasesOf
  <1>5. a = Review!ApprovalBy(reviewer, now, handed[p].request)
    BY <1>1 DEF ApprovalArtifactBy, Review!ApprovalBy
  <1>6. CasesOf(handed') =
            [before EXCEPT ![p] = [request |-> Reviewed(job, approved, result).request,
                                   status  |-> Reviewed(job, approved, result).status]]
    <2> DEFINE after == Reviewed(job, approved, result)
    <2> HIDE DEF after
    <2>1. /\ DOMAIN handed' = DOMAIN handed /\ handed'[p] = after
          /\ \A i \in DOMAIN handed : i # p => handed'[i] = handed[i]
      <3>1. handed' = [handed EXCEPT ![p] = after]
        BY <1>1 DEF after
      <3>2. handed \in [1 .. Len(handed) -> Job]
        BY LenProperties DEF QueueInv, TypeInv
      <3>3. QED
        BY <1>1, <3>1, <3>2
    <2>2. CasesOf(handed') =
              [i \in DOMAIN handed |->
                  [request |-> handed'[i].request, status |-> handed'[i].status]]
      BY <2>1 DEF CasesOf
    <2>3. [before EXCEPT ![p] = [request |-> after.request, status |-> after.status]]
              = [i \in DOMAIN handed |->
                    IF i = p THEN [request |-> after.request, status |-> after.status]
                    ELSE [request |-> handed[i].request, status |-> handed[i].status]]
      BY DEF CasesOf
    <2>4. QED
      BY <2>1, <2>2, <2>3 DEF after
  <1> DEFINE released == [held.request EXCEPT !.approvalArtifact = a]
  <1>7. released = approved
    BY <1>1, <1>4
  <1>8. CASE result.finalState = "ALLOW"
    <2>1. /\ Reviewed(job, approved, result).request = approved
          /\ Reviewed(job, approved, result).status = "ALLOWED"
      BY <1>8 DEF Reviewed
    <2>2. CasesOf(handed') =
              [before EXCEPT ![p] = [request |-> released, status |-> "ALLOWED"]]
      BY <1>6, <1>7, <2>1
    <2>3. Review!MayRelease(gate, released)
      BY <1>3, <1>7, <1>8
    <2> HIDE DEF released
    <2>4. Review!Release(p, a)
      BY <1>1, <1>4, <2>2, <2>3 DEF Review!Release, released, CasesOf
    <2>5. QED
      BY <1>5, <2>4, ReviewStep
  <1>9. CASE result.finalState = "REJECT"
    <2>1. /\ Reviewed(job, approved, result).request = job.request
          /\ Reviewed(job, approved, result).status = "REJECTED"
      BY <1>9 DEF Reviewed, Job
    <2>2. CasesOf(handed') = [before EXCEPT ![p].status = "REJECTED"]
      BY <1>4, <1>6, <2>1
    <2>3. ~ Review!MayRelease(gate, released)
      BY <1>3, <1>7, <1>9
    <2>4. Review!Refuse(p, a)
      BY <1>1, <1>4, <2>2, <2>3 DEF Review!Refuse, CasesOf
    <2>5. QED
      BY <1>5, <2>4, ReviewStep
  <1>10. QED
    BY <1>3, <1>8, <1>9

\* The queue decides a job at once unless the missing approval is all that stands
\* against it, and a held job by its first review; it releases with an approval
\* that counts and never touches a decided job (HumanReview; index.ts:100).
THEOREM QueueImplementsHumanReview == Spec => ImplementsHumanReview
  <1>1. Init => Review!Init
    BY DEF Init, Review!Init
  <1>2. ASSUME QueueInv, [Next]_vars PROVE [Review!Next]_(Review!vars)
    <2>1. CASE UNCHANGED vars
      BY <2>1 DEF vars, Review!vars
    <2>2. ASSUME NEW r \in Requests, enqueue(r) PROVE Review!Next
      BY <1>2, <2>2, EnqueueSubmits DEF Review!Next
    <2>3. ASSUME NEW jobId \in RequestIds, NEW reviewer \in Reviewers,
                 NEW now \in ClockReadings, approve(jobId, reviewer, now)
          PROVE  Review!Next
      BY <1>2, <2>3, ApproveReviews
    <2>4. QED
      BY <1>2, <2>1, <2>2, <2>3 DEF Next
  <1>3. QED
    BY <1>1, <1>2, InitQueue, StepQueue, PTL DEF Spec, ImplementsHumanReview, Review!Spec

--------------------------------------------------------------------------------
(* GatedServices: the inductive invariant. *)

\* The gate stays what it is, the entries of the log are numbered, and the first
\* of them is of an evaluation.
AuditInv ==
    /\ gate \in Gates \cup {DefaultGate}
    /\ log \in Seq(LogEntry)
    /\ \A i \in DOMAIN log : log[i].eventId = i
    /\ log # <<>> => log[1].eventType = "REQUEST_EVALUATED"

Decisions ==
    {[request |-> r, decision |-> evaluate(gate, r)] : r \in Bodies}

AnswerTo(bundle) ==
    [requestId  |-> bundle.request.requestId,
     finalState |-> bundle.decision.finalState]

RestInv ==
    /\ posts \in Seq(Bodies)
    /\ decisionHistory \in Seq(Decisions)
    /\ answers = [i \in DOMAIN decisionHistory |-> AnswerTo(decisionHistory[i])]

\* How a call of the middleware can end; it goes on if the request may be released.
Routings ==
    {q \in [request : GovernedRequestType, status : {"422", "500", "403", "202", "next"}] :
        q.status = "next" => MayRelease(gate, q.request)}

\* The calls that went on.
GoneOn(id) ==
    {i \in DOMAIN routed : routed[i].status = "next" /\ routed[i].request.requestId = id}

\* The ends of the whole records of releases.
Complete(id) ==
    {i \in DOMAIN log : /\ log[i].requestId = id
                        /\ log[i].eventType = "EVIDENCE_BUNDLE_CREATED"
                        /\ log[i - 1].eventType = "RELEASE_AUTHORIZED"}

RouteInv ==
    /\ routed \in Seq(Routings)
    /\ \A id \in RequestIds : Cardinality(GoneOn(id)) <= Cardinality(Complete(id))

RunOf(call) ==
    [request    |-> call.request,
     toolResult |-> executeIfAuthorized(call.tool, evaluate(gate, call.request))]

\* What a scenario of the agent may have done.
Runs == {RunOf(call) : call \in {c \in AgentCalls : evaluate(gate, c.request) # Threw}}

AgentInv == toolRuns \in Seq(Runs)

\* What the triage asks of the gate.
Transactions ==
    {[riskScore |-> score,
      request   |-> FraudRequest(score, sensitive, id, withApproval)] :
        score \in RiskScores, sensitive \in BOOLEAN, id \in RequestIds,
        withApproval \in BOOLEAN}

TriageOf(t, end) ==
    [riskScore |-> t.riskScore,
     request   |-> t.request,
     decision  |-> IF end = "recorded" THEN evaluate(gate, t.request) ELSE Threw]

Triages == {TriageOf(t, end) : t \in Transactions, end \in {"recorded", "threw"}}

TriageInv == triaged \in Seq(Triages)

ServicesInv == AuditInv /\ RestInv /\ RouteInv /\ AgentInv /\ TriageInv

--------------------------------------------------------------------------------
(* What createBundle leaves in the log, whole or in part. *)

\* The log grows by the first n events of the record of an answer.
Grows(r, res, n) ==
    /\ log' \in Seq(LogEntry)
    /\ Len(log') = Len(log) + n
    /\ \A i \in 1 .. Len(log) : log'[i] = log[i]
    /\ \A k \in 1 .. n : log'[Len(log) + k] = EntryOf(log, k, r, Events(res)[k])

LEMMA ThreeEvents ==
    ASSUME NEW g \in GateType, NEW r \in GovernedRequestType, NEW res, Answers(g, r, res)
    PROVE  /\ Len(Events(res)) = 3
           /\ Events(res)[1] = EvaluatedEvent(res)
           /\ Events(res)[2] = OutcomeEvent(res)
           /\ Events(res)[3] = BundleEvent(res)
  <1>1. PICK x : x = EvaluatedEvent(res)
    OBVIOUS
  <1>2. PICK y : y = OutcomeEvent(res)
    OBVIOUS
  <1>3. PICK z : z = BundleEvent(res)
    OBVIOUS
  <1>4. Events(res) = <<x, y, z>>
    BY <1>1, <1>2, <1>3, EventsOfAnswer
  <1>5. QED
    BY <1>1, <1>2, <1>3, <1>4

LEMMA WholeRecord ==
    ASSUME NEW g \in GateType, NEW r \in GovernedRequestType, NEW res, Answers(g, r, res),
           log \in Seq(LogEntry), log' = Recorded(r, res)
    PROVE  Grows(r, res, 3)
  <1>1. IsRecord(log, log', r, res)
    BY RecordOfAnswer DEF Recorded
  <1>2. PICK n : n = Len(log)
    OBVIOUS
  <1>3. /\ log' \in Seq(LogEntry) /\ Len(log') = n + 3
        /\ \A i \in 1 .. n : log'[i] = log[i]
    BY <1>1, <1>2 DEF IsRecord
  <1>4. /\ log'[n + 1] = EntryOf(log, 1, r, Events(res)[1])
        /\ log'[n + 2] = EntryOf(log, 2, r, Events(res)[2])
        /\ log'[n + 3] = EntryOf(log, 3, r, Events(res)[3])
    BY <1>1, <1>2, ThreeEvents DEF IsRecord
  <1>5. \A k \in 1 .. 3 : k = 1 \/ k = 2 \/ k = 3
    OBVIOUS
  <1>6. \A k \in 1 .. 3 : log'[n + k] = EntryOf(log, k, r, Events(res)[k])
    BY <1>4, <1>5
  <1>7. QED
    BY <1>2, <1>3, <1>6 DEF Grows

LEMMA PartOfRecord ==
    ASSUME NEW g \in GateType, NEW r \in GovernedRequestType, NEW res, Answers(g, r, res),
           log \in Seq(LogEntry), NEW n \in 0 .. (Len(Events(res)) - 1),
           log' = RecordedUpTo(r, res, n)
    PROVE  n \in 0 .. 2 /\ Grows(r, res, n)
  <1>1. Len(Events(res)) = 3 /\ n \in 0 .. 2 /\ n \in Int
    <2>1. Len(Events(res)) = 3
      BY ThreeEvents
    <2>2. QED
      BY <2>1
  <1>2. IsRecord(log, log \o NewEntries(log, r.requestId, Events(res)), r, res)
    BY RecordOfAnswer
  <1> DEFINE Entry(k) == EntryOf(log, k, r, Events(res)[k])
  <1>3. \A k \in 1 .. n : Entry(k) \in LogEntry
    <2>1. PICK m : m = Len(log)
      OBVIOUS
    <2>2. PICK whole : whole = log \o NewEntries(log, r.requestId, Events(res))
      OBVIOUS
    <2>3. /\ whole \in Seq(LogEntry) /\ Len(whole) = m + 3 /\ m \in Nat
          /\ whole[m + 1] = Entry(1) /\ whole[m + 2] = Entry(2)
      BY <1>2, <2>1, <2>2, ThreeEvents, LenProperties DEF IsRecord
    <2>4. m + 1 \in 1 .. Len(whole) /\ m + 2 \in 1 .. Len(whole)
      BY <2>3
    <2>5. Entry(1) \in LogEntry /\ Entry(2) \in LogEntry
      BY <2>3, <2>4
    <2> HIDE DEF Entry
    <2>6. QED
      BY <1>1, <2>5
  <1>4. PICK part : part = SubSeq(Events(res), 1, n)
    OBVIOUS
  <1>5. Len(part) = n /\ DOMAIN part = 1 .. n /\ \A k \in 1 .. n : part[k] = Events(res)[k]
    <2>1. PICK S : \A k \in 1 .. n : Events(res)[k] \in S
      <3>1. \A k \in 1 .. n : Events(res)[k] \in {Events(res)[j] : j \in 1 .. n}
        OBVIOUS
      <3>2. QED
        BY <3>1
    <2>2. /\ part \in Seq(S)
          /\ Len(part) = IF 1 <= n THEN n - 1 + 1 ELSE 0
          /\ \A i \in 1 .. n - 1 + 1 : part[i] = Events(res)[1 + i - 1]
      BY <1>1, <1>4, <2>1, SubSeqProperties
    <2>3. Len(part) = n /\ DOMAIN part = 1 .. n
      BY <1>1, <2>2, LenProperties
    <2>4. ASSUME NEW k \in 1 .. n PROVE part[k] = Events(res)[k]
      <3>1. k \in 1 .. n - 1 + 1 /\ 1 + k - 1 = k
        BY <1>1
      <3>2. QED
        BY <2>2, <3>1
    <2>5. QED
      BY <2>3, <2>4
  <1>6. PICK added : added = NewEntries(log, r.requestId, part)
    OBVIOUS
  <1>7. added = [k \in 1 .. n |-> Entry(k)]
    <2>1. added = [i \in 1 .. n |-> [eventId     |-> Len(log) + i,
                                    requestId   |-> r.requestId,
                                    eventType   |-> part[i].eventType,
                                    payloadHash |-> part[i].payload]]
      BY <1>5, <1>6 DEF NewEntries
    <2>2. \A k \in 1 .. n : Entry(k) = [eventId     |-> Len(log) + k,
                                        requestId   |-> r.requestId,
                                        eventType   |-> part[k].eventType,
                                        payloadHash |-> part[k].payload]
      BY <1>5 DEF EntryOf
    <2> HIDE DEF Entry
    <2>3. QED
      BY <2>1, <2>2
  <1> HIDE DEF Entry
  <1>8. added \in Seq(LogEntry) /\ Len(added) = n /\ \A k \in 1 .. n : added[k] = Entry(k)
    <2>1. n \in Nat
      BY <1>1
    <2>2. [k \in 1 .. n |-> Entry(k)] \in Seq(LogEntry)
      BY <1>3, <2>1, IsASeq
    <2>3. DOMAIN added = 1 .. n
      BY <1>7
    <2>4. Len(added) = n
      BY <1>7, <2>1, <2>2, <2>3, LenProperties
    <2>5. QED
      BY <1>7, <2>2, <2>4
  <1>9. log' = log \o added
    BY <1>4, <1>6 DEF RecordedUpTo
  <1>10. PICK m : m = Len(log)
    OBVIOUS
  <1>11. /\ log' \in Seq(LogEntry) /\ Len(log') = m + n /\ m \in Nat
         /\ \A i \in 1 .. m + n : log'[i] = IF i <= m THEN log[i] ELSE added[i - m]
    <2>1. PICK whole : whole = log \o added
      OBVIOUS
    <2>2. /\ whole \in Seq(LogEntry) /\ Len(whole) = Len(log) + Len(added)
          /\ \A i \in 1 .. Len(log) + Len(added) :
                whole[i] = IF i <= Len(log) THEN log[i] ELSE added[i - Len(log)]
      BY <1>8, <2>1, ConcatProperties
    <2>3. m \in Nat
      BY <1>10, LenProperties
    <2>4. log' = whole
      BY <1>9, <2>1
    <2>5. QED
      BY <1>8, <1>10, <2>2, <2>3, <2>4
  <1>12. \A i \in 1 .. m : log'[i] = log[i]
    BY <1>1, <1>11
  <1>13. ASSUME NEW k \in 1 .. n PROVE log'[m + k] = Entry(k)
    <2>1. m + k \in 1 .. m + n /\ ~ (m + k <= m) /\ m + k - m = k
      BY <1>1, <1>11
    <2>2. log'[m + k] = added[m + k - m]
      BY <1>11, <2>1
    <2>3. QED
      BY <1>8, <2>1, <2>2
  <1>14. QED
    BY <1>1, <1>10, <1>11, <1>12, <1>13 DEF Grows, Entry

\* The entries of a record, in their order.
LEMMA EntriesOfRecord ==
    ASSUME NEW g \in GateType, NEW r \in GovernedRequestType, NEW res, Answers(g, r, res)
    PROVE  /\ \A k : LET entry == EntryOf(log, k, r, Events(res)[k])
                     IN  entry.eventId = Len(log) + k /\ entry.requestId = r.requestId
           /\ EntryOf(log, 1, r, Events(res)[1]).eventType = "REQUEST_EVALUATED"
           /\ res.finalState = "ALLOW" =>
                 EntryOf(log, 2, r, Events(res)[2]).eventType = "RELEASE_AUTHORIZED"
           /\ EntryOf(log, 3, r, Events(res)[3]).eventType = "EVIDENCE_BUNDLE_CREATED"
  <1>1. \A k, event :
           /\ EntryOf(log, k, r, event).eventId = Len(log) + k
           /\ EntryOf(log, k, r, event).requestId = r.requestId
           /\ EntryOf(log, k, r, event).eventType = event.eventType
    BY DEF EntryOf
  <1>2. /\ Events(res)[1].eventType = "REQUEST_EVALUATED"
        /\ Events(res)[3].eventType = "EVIDENCE_BUNDLE_CREATED"
    <2>1. /\ EvaluatedEvent(res).eventType = "REQUEST_EVALUATED"
          /\ BundleEvent(res).eventType = "EVIDENCE_BUNDLE_CREATED"
      BY DEF EvaluatedEvent, BundleEvent, Event
    <2>2. QED
      BY <2>1, ThreeEvents
  <1>3. res.finalState = "ALLOW" => Events(res)[2].eventType = "RELEASE_AUTHORIZED"
    <2>1. res.finalState = "ALLOW" => OutcomeEvent(res).eventType = "RELEASE_AUTHORIZED"
      BY DEF OutcomeEvent, ReleaseEvent, Event
    <2>2. QED
      BY <2>1, ThreeEvents
  <1>4. QED
    BY <1>1, <1>2, <1>3

\* However much of a record is in the log: the log keeps its invariant and every
\* complete record of a release.
LEMMA GrowthKeeps ==
    ASSUME AuditInv, gate' = gate,
           NEW g \in GateType, NEW r \in GovernedRequestType, NEW res, Answers(g, r, res),
           NEW n \in 0 .. 3, Grows(r, res, n)
    PROVE  AuditInv' /\ \A id : Complete(id) \subseteq Complete(id)'
  <1>1. PICK m \in Nat : m = Len(log)
    BY LenProperties DEF AuditInv
  <1>2. /\ log \in Seq(LogEntry) /\ DOMAIN log = 1 .. m
        /\ log' \in Seq(LogEntry) /\ Len(log') = m + n /\ DOMAIN log' = 1 .. (m + n)
        /\ \A i \in 1 .. m : log'[i] = log[i]
        /\ \A k \in 1 .. n : log'[m + k] = EntryOf(log, k, r, Events(res)[k])
    BY <1>1, LenProperties DEF AuditInv, Grows
  <1>3. log # <<>> <=> m # 0
    BY <1>1, <1>2, EmptySeq
  <1>4. log' # <<>> <=> m + n # 0
    BY <1>2, EmptySeq
  <1>5. ASSUME NEW k \in 1 .. n PROVE log'[m + k].eventId = m + k
    <2>1. log'[m + k] = EntryOf(log, k, r, Events(res)[k])
      BY <1>2
    <2>2. EntryOf(log, k, r, Events(res)[k]).eventId = Len(log) + k
      BY EntriesOfRecord
    <2>3. QED
      BY <1>1, <2>1, <2>2
  <1>6. ASSUME NEW i \in 1 .. (m + n) PROVE log'[i].eventId = i
    <2>1. CASE i \in 1 .. m
      BY <1>2, <2>1 DEF AuditInv
    <2>2. CASE i \notin 1 .. m
      <3>1. PICK k \in 1 .. n : i = m + k
        <4>1. i - m \in 1 .. n /\ i = m + (i - m)
          BY <2>2
        <4>2. QED
          BY <4>1
      <3>2. QED
        BY <1>5, <3>1
    <2>3. QED
      BY <2>1, <2>2
  <1>7. ASSUME log' # <<>> PROVE log'[1].eventType = "REQUEST_EVALUATED"
    <2>1. CASE m # 0
      <3>1. 1 \in 1 .. m
        BY <2>1
      <3>2. QED
        BY <1>2, <1>3, <2>1, <3>1 DEF AuditInv
    <2>2. CASE m = 0
      <3>1. 1 \in 1 .. n /\ m + 1 = 1
        BY <1>4, <1>7, <2>2
      <3>2. log'[m + 1] = EntryOf(log, 1, r, Events(res)[1])
        BY <1>2, <3>1
      <3>3. log'[1] = EntryOf(log, 1, r, Events(res)[1])
        BY <3>1, <3>2
      <3>4. QED
        BY <3>3, EntriesOfRecord
    <2>3. QED
      BY <2>1, <2>2
  <1>8. AuditInv'
    BY <1>2, <1>6, <1>7 DEF AuditInv
  <1>9. ASSUME NEW id, NEW i \in Complete(id) PROVE i \in Complete(id)'
    <2>1. /\ i \in 1 .. m /\ log[i].requestId = id
          /\ log[i].eventType = "EVIDENCE_BUNDLE_CREATED"
          /\ log[i - 1].eventType = "RELEASE_AUTHORIZED"
      BY <1>2 DEF Complete
    <2>2. i # 1
      BY <1>2, <1>3, <2>1 DEF AuditInv
    <2>3. i - 1 \in 1 .. m /\ i \in 1 .. (m + n)
      BY <2>1, <2>2
    <2>4. log'[i] = log[i] /\ log'[i - 1] = log[i - 1]
      BY <1>2, <2>1, <2>3
    <2>5. QED
      BY <1>2, <2>1, <2>3, <2>4 DEF Complete
  <1>10. QED
    BY <1>8, <1>9

\* The whole record of a release ends with an entry that completes it.
LEMMA ReleaseCompletes ==
    ASSUME AuditInv,
           NEW g \in GateType, NEW r \in GovernedRequestType, NEW res, Answers(g, r, res),
           res.finalState = "ALLOW", Grows(r, res, 3)
    PROVE  \E i : i \in Complete(r.requestId)' /\ i \notin Complete(r.requestId)
  <1>1. PICK m \in Nat : m = Len(log)
    BY LenProperties DEF AuditInv
  <1>2. DOMAIN log = 1 .. m /\ DOMAIN log' = 1 .. (m + 3)
    BY <1>1, LenProperties DEF AuditInv, Grows
  <1>3. /\ log'[m + 2] = EntryOf(log, 2, r, Events(res)[2])
        /\ log'[m + 3] = EntryOf(log, 3, r, Events(res)[3])
    <2>1. 2 \in 1 .. 3 /\ 3 \in 1 .. 3
      OBVIOUS
    <2>2. QED
      BY <1>1, <2>1 DEF Grows
  <1>4. /\ log'[m + 2].eventType = "RELEASE_AUTHORIZED"
        /\ log'[m + 3].eventType = "EVIDENCE_BUNDLE_CREATED"
        /\ log'[m + 3].requestId = r.requestId
    BY <1>3, EntriesOfRecord
  <1>5. m + 3 \in 1 .. (m + 3) /\ m + 3 \notin 1 .. m /\ m + 3 - 1 = m + 2
    OBVIOUS
  <1>6. m + 3 \in Complete(r.requestId)'
    BY <1>2, <1>4, <1>5 DEF Complete
  <1>7. m + 3 \notin Complete(r.requestId)
    BY <1>2, <1>5 DEF Complete
  <1>8. QED
    BY <1>6, <1>7

--------------------------------------------------------------------------------
(* Counting. *)

\* Of two sets of places in lists of length m and k, the first not the larger, the
\* first becomes B and the second D, in a list of length l.
KeepsUp(m, k, l, A, B, C, D) ==
    /\ m \in Nat /\ k \in Nat /\ l \in Nat
    /\ A \in SUBSET (1 .. m) /\ C \in SUBSET (1 .. k) /\ D \in SUBSET (1 .. l)
    /\ Cardinality(A) <= Cardinality(C)
    /\ B \subseteq A \cup {m + 1} /\ C \subseteq D
    /\ B \subseteq A \/ \E i : i \in D /\ i \notin C

\* A set that gains an element keeps up with one that gains at most one.
LEMMA OneMore ==
    ASSUME NEW m, NEW k, NEW l, NEW A, NEW B, NEW C, NEW D,
           KeepsUp(m, k, l, A, B, C, D)
    PROVE  Cardinality(B) <= Cardinality(D)
  <1> USE DEF KeepsUp
  <1>1. IsFiniteSet(1 .. m) /\ IsFiniteSet(1 .. k) /\ IsFiniteSet(1 .. l)
    <2>1. 1 \in Int /\ m \in Int /\ k \in Int /\ l \in Int
      OBVIOUS
    <2>2. QED
      BY <2>1, FS_Interval
  <1>2. IsFiniteSet(A) /\ IsFiniteSet(C) /\ IsFiniteSet(D)
    BY <1>1, FS_Subset
  <1>3. Cardinality(A) \in Nat /\ Cardinality(C) \in Nat /\ Cardinality(D) \in Nat
    BY <1>2, FS_CardinalityType
  <1>4. CASE B \subseteq A
    <2>1. Cardinality(B) <= Cardinality(A) /\ Cardinality(C) <= Cardinality(D)
      BY <1>2, <1>4, FS_Subset
    <2>2. Cardinality(B) \in Nat
      BY <1>2, <1>4, FS_Subset, FS_CardinalityType
    <2>3. QED
      BY <1>3, <2>1, <2>2
  <1>5. ASSUME NEW i, i \in D, i \notin C PROVE Cardinality(B) <= Cardinality(D)
    <2>1. m + 1 \notin A
      OBVIOUS
    <2>2. /\ IsFiniteSet(A \cup {m + 1})
          /\ Cardinality(A \cup {m + 1}) = Cardinality(A) + 1
      BY <1>2, <2>1, FS_AddElement
    <2>3. IsFiniteSet(C \cup {i}) /\ Cardinality(C \cup {i}) = Cardinality(C) + 1
      BY <1>2, <1>5, FS_AddElement
    <2>4. Cardinality(B) <= Cardinality(A) + 1 /\ Cardinality(B) \in Nat
      <3>1. B \in SUBSET (A \cup {m + 1})
        OBVIOUS
      <3>2. IsFiniteSet(B) /\ Cardinality(B) <= Cardinality(A \cup {m + 1})
        BY <2>2, <3>1, FS_Subset
      <3>3. QED
        BY <2>2, <3>2, FS_CardinalityType
    <2>5. C \cup {i} \subseteq D
      BY <1>5
    <2>6. Cardinality(C) + 1 <= Cardinality(D)
      BY <1>2, <2>3, <2>5, FS_Subset
    <2>7. QED
      BY <1>3, <2>4, <2>6
  <1>6. QED
    BY <1>4, <1>5

--------------------------------------------------------------------------------
(* The parts of a step. *)

LEMMA SameGateSameSets ==
    ASSUME gate' = gate
    PROVE  /\ Decisions' = Decisions /\ Routings' = Routings
           /\ Runs' = Runs /\ Triages' = Triages
  <1>1. Decisions' = Decisions
    BY DEF Decisions
  <1>2. Routings' = Routings
    BY DEF Routings
  <1>3. Runs' = Runs
    BY DEF Runs, RunOf, executeIfAuthorized
  <1>4. Triages' = Triages
    BY DEF Triages, TriageOf
  <1>5. QED
    BY <1>1, <1>2, <1>3, <1>4

LEMMA DefaultGateType == DefaultGate \in GateType
  <1>1. /\ {} \in SUBSET AuthorityLabels /\ {} \in SUBSET ActionLabels
        /\ <<>> \in Seq(WorkflowRule)
    BY EmptySeq
  <1>2. /\ [c \in AuthorityLabels |-> Absent] \in Dictionary(AuthorityLabels, AuthorityLabels)
        /\ [w \in WorkflowLabels |-> Absent]
               \in Dictionary(WorkflowLabels, SUBSET AuthorityLabels)
        /\ [a \in ActionLabels |-> Absent] \in Dictionary(ActionLabels, PolicyActionBehavior)
    BY DEF Dictionary
  <1>3. [w \in WorkflowLabels |-> [a \in ActionLabels |-> Absent]]
            \in [WorkflowLabels -> Dictionary(ActionLabels, PolicyActionBehavior)]
    BY <1>2
  <1>4. QED
    BY <1>1, <1>2, <1>3 DEF DefaultGate, GateType

LEMMA GateTyped == AuditInv => gate \in GateType
  BY GatesAssumption, DefaultGateType DEF AuditInv

\* What createBundle does to the log, if it ends and if it throws.
LEMMA RecordKeeps ==
    ASSUME AuditInv, gate' = gate,
           NEW r \in GovernedRequestType,
           NEW res, res = evaluate(gate, r), res # Threw \/ r.shape # "unreadable",
           \/ log' = Recorded(r, res)
           \/ \E n \in 0 .. (Len(Events(res)) - 1) : log' = RecordedUpTo(r, res, n)
    PROVE  /\ Answers(gate, r, res)
           /\ AuditInv'
           /\ \A id : Complete(id) \subseteq Complete(id)'
           /\ log' = Recorded(r, res) /\ res.finalState = "ALLOW" =>
                 \E i : i \in Complete(r.requestId)' /\ i \notin Complete(r.requestId)
  <1>1. gate \in GateType /\ log \in Seq(LogEntry)
    BY GateTyped DEF AuditInv
  <1>2. Answers(gate, r, res)
    BY <1>1, EvaluateAnswers
  <1>3. CASE log' = Recorded(r, res)
    <2>1. Grows(r, res, 3)
      BY <1>1, <1>2, <1>3, WholeRecord
    <2>2. 3 \in 0 .. 3
      OBVIOUS
    <2>3. AuditInv' /\ \A id : Complete(id) \subseteq Complete(id)'
      BY <1>1, <1>2, <2>1, <2>2, GrowthKeeps
    <2>4. res.finalState = "ALLOW" =>
              \E i : i \in Complete(r.requestId)' /\ i \notin Complete(r.requestId)
      BY <1>1, <1>2, <2>1, ReleaseCompletes
    <2>5. QED
      BY <1>2, <2>3, <2>4
  <1>4. ASSUME NEW n \in 0 .. (Len(Events(res)) - 1), log' = RecordedUpTo(r, res, n)
        PROVE  AuditInv' /\ \A id : Complete(id) \subseteq Complete(id)'
    <2>1. n \in 0 .. 2 /\ Grows(r, res, n)
      BY <1>1, <1>2, <1>4, PartOfRecord
    <2>2. n \in 0 .. 3
      BY <2>1
    <2>3. QED
      BY <1>1, <1>2, <2>1, <2>2, GrowthKeeps
  <1>5. CASE log' # Recorded(r, res)
    BY <1>2, <1>4, <1>5
  <1>6. QED
    BY <1>3, <1>5

\* The count of RouteInv, if at most one call ends, and one that goes on with the
\* whole record of its release.
LEMMA RouteKeeps ==
    ASSUME AuditInv, AuditInv', RouteInv, gate' = gate,
           \A id : Complete(id) \subseteq Complete(id)',
           \/ routed' = routed
           \/ \E q \in Routings :
                 /\ routed' = Append(routed, q)
                 /\ q.status = "next" =>
                       \E i : /\ i \in Complete(q.request.requestId)'
                              /\ i \notin Complete(q.request.requestId)
    PROVE  RouteInv'
  <1>1. PICK m \in Nat : m = Len(routed)
    BY LenProperties DEF RouteInv
  <1>2. routed \in Seq(Routings) /\ DOMAIN routed = 1 .. m
    BY <1>1, LenProperties DEF RouteInv
  <1>3. PICK k \in Nat, l \in Nat : k = Len(log) /\ l = Len(log')
    BY LenProperties DEF AuditInv
  <1>4. \A id : Complete(id) \in SUBSET (1 .. k) /\ Complete(id)' \in SUBSET (1 .. l)
    BY <1>3, LenProperties DEF AuditInv, Complete
  <1>5. \A id : GoneOn(id) \in SUBSET (1 .. m)
    BY <1>2 DEF GoneOn
  <1>6. ASSUME routed' = routed PROVE RouteInv'
    <2>1. routed' \in Seq(Routings')
      BY <1>2, <1>6, SameGateSameSets
    <2>2. ASSUME NEW id \in RequestIds
          PROVE  Cardinality(GoneOn(id))' <= Cardinality(Complete(id))'
      <3>1. PICK A, B, C, D :
                A = GoneOn(id) /\ B = GoneOn(id)' /\ C = Complete(id) /\ D = Complete(id)'
        OBVIOUS
      <3>2. B = A
        BY <1>6, <3>1 DEF GoneOn
      <3>3. Cardinality(A) <= Cardinality(C)
        BY <3>1 DEF RouteInv
      <3>4. /\ A \in SUBSET (1 .. m) /\ C \in SUBSET (1 .. k) /\ D \in SUBSET (1 .. l)
            /\ C \subseteq D /\ B \subseteq A /\ B \subseteq A \cup {m + 1}
        BY <1>4, <1>5, <3>1, <3>2
      <3>5. Cardinality(B) <= Cardinality(D)
        <4>1. KeepsUp(m, k, l, A, B, C, D)
          BY <3>3, <3>4 DEF KeepsUp
        <4>2. QED
          BY <4>1, OneMore
      <3>6. QED
        BY <3>1, <3>5
    <2>3. QED
      BY <2>1, <2>2 DEF RouteInv
  <1>7. ASSUME NEW q \in Routings, routed' = Append(routed, q),
               q.status = "next" =>
                   \E i : /\ i \in Complete(q.request.requestId)'
                          /\ i \notin Complete(q.request.requestId)
        PROVE  RouteInv'
    <2>1. /\ routed' \in Seq(Routings) /\ DOMAIN routed' = 1 .. (m + 1)
          /\ \A j \in 1 .. m : routed'[j] = routed[j]
          /\ routed'[m + 1] = q
      BY <1>1, <1>2, <1>7, AppendProperties, LenProperties
    <2>2. routed' \in Seq(Routings')
      BY <2>1, SameGateSameSets
    <2>3. ASSUME NEW id \in RequestIds
          PROVE  Cardinality(GoneOn(id))' <= Cardinality(Complete(id))'
      <3>1. PICK A, B, C, D :
                A = GoneOn(id) /\ B = GoneOn(id)' /\ C = Complete(id) /\ D = Complete(id)'
        OBVIOUS
      <3>2. ASSUME NEW j \in B
            PROVE  j \in A \/ (j = m + 1 /\ q.status = "next" /\ q.request.requestId = id)
        <4>1. /\ j \in 1 .. (m + 1)
              /\ routed'[j].status = "next" /\ routed'[j].request.requestId = id
          BY <2>1, <3>1 DEF GoneOn
        <4>2. CASE j = m + 1
          BY <2>1, <4>1, <4>2
        <4>3. CASE j # m + 1
          <5>1. j \in 1 .. m
            BY <4>1, <4>3
          <5>2. QED
            <6>1. routed[j].status = "next" /\ routed[j].request.requestId = id
              BY <2>1, <4>1, <5>1
            <6>2. j \in GoneOn(id)
              BY <1>2, <5>1, <6>1 DEF GoneOn
            <6>3. QED
              BY <3>1, <6>2
        <4>4. QED
          BY <4>2, <4>3
      <3>3. Cardinality(A) <= Cardinality(C)
        BY <3>1 DEF RouteInv
      <3>4. /\ A \in SUBSET (1 .. m) /\ C \in SUBSET (1 .. k) /\ D \in SUBSET (1 .. l)
            /\ C \subseteq D
        BY <1>4, <1>5, <3>1
      <3>5. B \subseteq A \cup {m + 1}
        BY <3>2
      <3>6. B \subseteq A \/ \E j : j \in D /\ j \notin C
        <4>1. CASE q.status = "next" /\ q.request.requestId = id
          BY <1>7, <3>1, <4>1
        <4>2. CASE ~ (q.status = "next" /\ q.request.requestId = id)
          BY <3>2, <4>2
        <4>3. QED
          BY <4>1, <4>2
      <3>7. Cardinality(B) <= Cardinality(D)
        <4>1. KeepsUp(m, k, l, A, B, C, D)
          BY <3>3, <3>4, <3>5, <3>6 DEF KeepsUp
        <4>2. QED
          BY <4>1, OneMore
      <3>8. QED
        BY <3>1, <3>7
    <2>4. QED
      BY <2>2, <2>3 DEF RouteInv
  <1>8. QED
    BY <1>6, <1>7

--------------------------------------------------------------------------------
(* The steps of GatedServices. *)

LEMMA RestStays ==
    ASSUME RestInv, UNCHANGED <<gate, rest>>
    PROVE  RestInv'
  <1>1. UNCHANGED <<posts, decisionHistory, answers>> /\ Decisions' = Decisions
    BY SameGateSameSets DEF rest
  <1>2. QED
    BY <1>1 DEF RestInv, AnswerTo

LEMMA TriageStays ==
    ASSUME TriageInv, UNCHANGED <<gate, triaged>>
    PROVE  TriageInv'
  BY SameGateSameSets DEF TriageInv

LEMMA LogStays ==
    ASSUME AuditInv, UNCHANGED <<gate, log>>
    PROVE  AuditInv' /\ \A id : Complete(id) \subseteq Complete(id)'
  BY DEF AuditInv, Complete

LEMMA RouteStays ==
    ASSUME AuditInv, AuditInv', RouteInv, \A id : Complete(id) \subseteq Complete(id)',
           UNCHANGED <<gate, routed>>
    PROVE  RouteInv'
  BY RouteKeeps DEF RouteInv

LEMMA AgentStays ==
    ASSUME AgentInv, UNCHANGED <<gate, toolRuns>>
    PROVE  AgentInv'
  BY SameGateSameSets DEF AgentInv

LEMMA PostKeeps ==
    ASSUME ServicesInv, NEW request \in Bodies, Post(request)
    PROVE  ServicesInv'
  <1>1. posts' \in Seq(Bodies)
    BY AppendProperties DEF Post, ServicesInv, RestInv
  <1>2. RestInv'
    BY <1>1, SameGateSameSets DEF Post, ServicesInv, RestInv, AnswerTo
  <1>3. AuditInv' /\ \A id : Complete(id) \subseteq Complete(id)'
    BY LogStays DEF Post, ServicesInv
  <1>4. RouteInv' /\ AgentInv' /\ TriageInv'
    BY <1>3, RouteStays, AgentStays, TriageStays DEF Post, ServicesInv, calls
  <1>5. QED
    BY <1>2, <1>3, <1>4 DEF ServicesInv

LEMMA WaitingIsTyped ==
    ASSUME posts \in Seq(Bodies), NEW i \in DOMAIN posts
    PROVE  Waiting(i) \in Seq(Bodies) /\ posts[i] \in Bodies
  <1>1. PICK p \in Nat : p = Len(posts)
    BY LenProperties
  <1>2. DOMAIN posts = 1 .. p /\ i \in 1 .. p /\ \A j \in 1 .. p : posts[j] \in Bodies
    BY <1>1, LenProperties, ElementOfSeq
  <1>3. SubSeq(posts, 1, i - 1) \in Seq(Bodies)
    <2>1. 1 \in Int /\ i - 1 \in Int /\ \A j \in 1 .. (i - 1) : posts[j] \in Bodies
      BY <1>2
    <2>2. QED
      BY <2>1, SubSeqProperties
  <1>4. SubSeq(posts, i + 1, p) \in Seq(Bodies)
    <2>1. i + 1 \in Int /\ p \in Int /\ \A j \in (i + 1) .. p : posts[j] \in Bodies
      BY <1>2
    <2>2. QED
      BY <2>1, SubSeqProperties
  <1>5. QED
    BY <1>1, <1>2, <1>3, <1>4, ConcatProperties DEF Waiting

LEMMA BodyFailsKeeps ==
    ASSUME ServicesInv, NEW i \in DOMAIN posts, BodyFails(i)
    PROVE  ServicesInv'
  <1>1. posts' \in Seq(Bodies)
    BY WaitingIsTyped DEF BodyFails, ServicesInv, RestInv
  <1>2. RestInv'
    BY <1>1, SameGateSameSets DEF BodyFails, ServicesInv, RestInv, AnswerTo
  <1>3. AuditInv' /\ \A id : Complete(id) \subseteq Complete(id)'
    BY LogStays DEF BodyFails, ServicesInv
  <1>4. RouteInv' /\ AgentInv' /\ TriageInv'
    BY <1>3, RouteStays, AgentStays, TriageStays DEF BodyFails, ServicesInv, calls
  <1>5. QED
    BY <1>2, <1>3, <1>4 DEF ServicesInv

\* An answer joins the answers just as its bundle joins the history.
LEMMA AnswersFollow ==
    ASSUME RestInv, NEW bundle \in Decisions,
           decisionHistory' = Append(decisionHistory, bundle),
           answers' = Append(answers, AnswerTo(bundle))
    PROVE  /\ decisionHistory' \in Seq(Decisions)
           /\ answers' = [i \in DOMAIN decisionHistory' |-> AnswerTo(decisionHistory'[i])]
  <1> DEFINE S == {AnswerTo(b) : b \in Decisions}
  <1>1. PICK d \in Nat : d = Len(decisionHistory)
    BY LenProperties DEF RestInv
  <1>2. /\ decisionHistory \in Seq(Decisions) /\ DOMAIN decisionHistory = 1 .. d
        /\ \A i \in 1 .. d : decisionHistory[i] \in Decisions
    BY <1>1, LenProperties, ElementOfSeq DEF RestInv
  <1>3. /\ decisionHistory' \in Seq(Decisions) /\ DOMAIN decisionHistory' = 1 .. (d + 1)
        /\ \A i \in 1 .. d : decisionHistory'[i] = decisionHistory[i]
        /\ decisionHistory'[d + 1] = bundle
    BY <1>1, <1>2, AppendProperties, LenProperties
  <1>4. answers = [i \in 1 .. d |-> AnswerTo(decisionHistory[i])]
    BY <1>2 DEF RestInv
  <1> HIDE DEF S
  <1>5. \A i \in 1 .. d : AnswerTo(decisionHistory[i]) \in S
    BY <1>2 DEF S
  <1>6. [i \in 1 .. d |-> AnswerTo(decisionHistory[i])] \in Seq(S)
    BY <1>5, IsASeq
  <1>7. answers \in Seq(S) /\ Len(answers) = d /\ DOMAIN answers = 1 .. d
    <2>1. answers \in Seq(S) /\ DOMAIN answers = 1 .. d
      BY <1>4, <1>6
    <2>2. DOMAIN answers = 1 .. Len(answers) /\ Len(answers) \in Nat
      BY <2>1, LenProperties
    <2>3. QED
      BY <2>1, <2>2
  <1>8. AnswerTo(bundle) \in S
    BY DEF S
  <1>9. /\ answers' \in Seq(S) /\ DOMAIN answers' = 1 .. (d + 1)
        /\ \A i \in 1 .. d : answers'[i] = answers[i]
        /\ answers'[d + 1] = AnswerTo(bundle)
    BY <1>7, <1>8, AppendProperties, LenProperties
  <1>10. ASSUME NEW i \in 1 .. (d + 1) PROVE answers'[i] = AnswerTo(decisionHistory'[i])
    <2>1. CASE i = d + 1
      BY <1>3, <1>9, <2>1
    <2>2. CASE i # d + 1
      <3>1. i \in 1 .. d
        BY <2>2
      <3>2. QED
        BY <1>3, <1>4, <1>9, <3>1
    <2>3. QED
      BY <2>1, <2>2
  <1>11. answers' \in [1 .. (d + 1) -> S]
    BY <1>9, LenProperties
  <1>12. answers' = [i \in 1 .. (d + 1) |-> AnswerTo(decisionHistory'[i])]
    BY <1>10, <1>11
  <1>13. QED
    BY <1>3, <1>12

LEMMA EvaluateKeeps ==
    ASSUME ServicesInv, NEW i \in DOMAIN posts, Evaluate(i)
    PROVE  ServicesInv'
  <1>1. PICK request : request = posts[i]
    OBVIOUS
  <1>2. PICK result : result = evaluate(gate, request)
    OBVIOUS
  <1>3. request \in Bodies /\ request \in GovernedRequestType /\ posts' \in Seq(Bodies)
    BY <1>1, WaitingIsTyped, ServicesAssumption DEF Evaluate, ServicesInv, RestInv
  <1>4. /\ UNCHANGED <<program, gate, calls, triaged>>
        /\ result = Threw => UNCHANGED <<log, decisionHistory, answers>>
        /\ result # Threw =>
              /\ log' = Recorded(request, result)
              /\ decisionHistory' = Append(decisionHistory,
                                           [request |-> request, decision |-> result])
              /\ answers' = Append(answers, [requestId |-> request.requestId,
                                             finalState |-> result.finalState])
    BY <1>1, <1>2 DEF Evaluate
  <1>5. gate' = gate /\ RestInv
    BY <1>4 DEF ServicesInv
  <1>6. CASE result = Threw
    <2>1. RestInv'
      BY <1>3, <1>4, <1>5, <1>6, SameGateSameSets DEF RestInv, AnswerTo
    <2>2. AuditInv' /\ \A id : Complete(id) \subseteq Complete(id)'
      BY <1>4, <1>6, LogStays DEF ServicesInv
    <2>3. RouteInv' /\ AgentInv' /\ TriageInv'
      BY <1>4, <2>2, RouteStays, AgentStays, TriageStays DEF ServicesInv, calls
    <2>4. QED
      BY <2>1, <2>2, <2>3 DEF ServicesInv
  <1>7. CASE result # Threw
    <2>1. AuditInv' /\ \A id : Complete(id) \subseteq Complete(id)'
      BY <1>2, <1>3, <1>4, <1>7, RecordKeeps DEF ServicesInv
    <2>2. PICK bundle : bundle = [request |-> request, decision |-> result]
      OBVIOUS
    <2>3. bundle \in Decisions
      BY <1>2, <1>3, <2>2 DEF Decisions
    <2>4. AnswerTo(bundle) = [requestId |-> request.requestId,
                              finalState |-> result.finalState]
      BY <2>2 DEF AnswerTo
    <2>5. /\ decisionHistory' \in Seq(Decisions)
          /\ answers' = [j \in DOMAIN decisionHistory' |-> AnswerTo(decisionHistory'[j])]
      BY <1>4, <1>5, <1>7, <2>2, <2>3, <2>4, AnswersFollow
    <2>6. RestInv'
      BY <1>3, <1>5, <2>5, SameGateSameSets DEF RestInv, AnswerTo
    <2>7. RouteInv' /\ AgentInv' /\ TriageInv'
      BY <1>4, <2>1, RouteStays, AgentStays, TriageStays DEF ServicesInv, calls
    <2>8. QED
      BY <2>1, <2>6, <2>7 DEF ServicesInv
  <1>8. QED
    BY <1>6, <1>7

\* The end of a call of the middleware.
LEMMA RoutedKeeps ==
    ASSUME ServicesInv, UNCHANGED <<gate, toolRuns, rest, triaged>>,
           AuditInv', \A id : Complete(id) \subseteq Complete(id)',
           NEW request \in GovernedRequestType,
           NEW status \in {"422", "500", "403", "202", "next"}, Routed(request, status),
           status = "next" =>
               /\ MayRelease(gate, request)
               /\ \E i : /\ i \in Complete(request.requestId)'
                         /\ i \notin Complete(request.requestId)
    PROVE  ServicesInv'
  <1>1. PICK q : q = [request |-> request, status |-> status]
    OBVIOUS
  <1>2. q.request = request /\ q.status = status /\ routed' = Append(routed, q)
    BY <1>1 DEF Routed
  <1>3. q \in Routings
    BY <1>1 DEF Routings
  <1>4. RouteInv'
    BY <1>2, <1>3, RouteKeeps DEF ServicesInv
  <1>5. RestInv' /\ AgentInv' /\ TriageInv'
    BY RestStays, AgentStays, TriageStays DEF ServicesInv
  <1>6. QED
    BY <1>4, <1>5 DEF ServicesInv

LEMMA GateThrowsKeeps ==
    ASSUME ServicesInv, NEW request \in Bodies, GateThrows(request)
    PROVE  ServicesInv'
  <1>1. UNCHANGED <<gate, log, toolRuns, rest, triaged>> /\ Routed(request, "422")
    BY DEF GateThrows
  <1>2. AuditInv' /\ \A id : Complete(id) \subseteq Complete(id)'
    BY <1>1, LogStays DEF ServicesInv
  <1>3. QED
    BY <1>1, <1>2, RoutedKeeps, ServicesAssumption

LEMMA RecordThrowsKeeps ==
    ASSUME ServicesInv, NEW request \in Bodies, RecordThrows(request)
    PROVE  ServicesInv'
  <1>1. PICK result : result = evaluate(gate, request)
    OBVIOUS
  <1>2. /\ UNCHANGED <<gate, toolRuns, rest, triaged>> /\ Routed(request, "500")
        /\ result # Threw
        /\ \E n \in 0 .. (Len(Events(result)) - 1) :
              log' = RecordedUpTo(request, result, n)
    BY <1>1 DEF RecordThrows
  <1>3. request \in GovernedRequestType
    BY ServicesAssumption
  <1>4. AuditInv' /\ \A id : Complete(id) \subseteq Complete(id)'
    BY <1>1, <1>2, <1>3, RecordKeeps DEF ServicesInv
  <1>5. QED
    BY <1>2, <1>3, <1>4, RoutedKeeps

LEMMA DecideKeeps ==
    ASSUME ServicesInv, NEW request \in Bodies, Decide(request)
    PROVE  ServicesInv'
  <1>1. PICK result : result = evaluate(gate, request)
    OBVIOUS
  <1>2. /\ UNCHANGED <<gate, toolRuns, rest, triaged>> /\ Routed(request, StatusOf(result))
        /\ result # Threw
        /\ log' = Recorded(request, result)
    BY <1>1 DEF Decide
  <1>3. request \in GovernedRequestType
    BY ServicesAssumption
  <1>4. /\ Answers(gate, request, result) /\ AuditInv'
        /\ \A id : Complete(id) \subseteq Complete(id)'
        /\ result.finalState = "ALLOW" =>
              \E i : /\ i \in Complete(request.requestId)'
                     /\ i \notin Complete(request.requestId)
    BY <1>1, <1>2, <1>3, RecordKeeps DEF ServicesInv
  <1>5. /\ StatusOf(result) \in {"next", "403", "202"}
        /\ StatusOf(result) = "next" => result.finalState = "ALLOW"
    BY <1>4 DEF Answers, StatusOf
  <1>6. result.finalState = "ALLOW" => MayRelease(gate, request)
    BY <1>4, VerdictsDiffer DEF Answers
  <1>7. PICK status : status = StatusOf(result)
    OBVIOUS
  <1>8. QED
    BY <1>2, <1>3, <1>4, <1>5, <1>6, <1>7, RoutedKeeps

LEMMA ScenarioKeeps ==
    ASSUME ServicesInv, NEW call \in AgentCalls, runAgentScenario(call)
    PROVE  ServicesInv'
  <1>1. PICK run : run = RunOf(call)
    OBVIOUS
  <1>2. /\ UNCHANGED <<gate, log, routed, rest, triaged>>
        /\ toolRuns' = Append(toolRuns, run)
        /\ run \in Runs
    BY <1>1 DEF runAgentScenario, RunOf, Runs
  <1>3. toolRuns' \in Seq(Runs')
    BY <1>2, AppendProperties, SameGateSameSets DEF ServicesInv, AgentInv
  <1>4. AuditInv' /\ \A id : Complete(id) \subseteq Complete(id)'
    BY <1>2, LogStays DEF ServicesInv
  <1>5. RestInv' /\ RouteInv' /\ TriageInv'
    BY <1>2, <1>4, RestStays, RouteStays, TriageStays DEF ServicesInv
  <1>6. QED
    BY <1>3, <1>4, <1>5 DEF ServicesInv, AgentInv

\* What the triage asks of the gate, and with which approval.
LEMMA TriageAsks ==
    ASSUME NEW score \in RiskScores, NEW sensitive \in BOOLEAN, NEW id \in RequestIds,
           NEW withApproval \in BOOLEAN,
           NEW r, r = FraudRequest(score, sensitive, id, withApproval)
    PROVE  /\ r \in GovernedRequestType /\ r.shape = "ok"
           /\ r.workflowClass = "fraud_triage"
           /\ r.approvalArtifact # Null =>
                 /\ score >= Points(50)
                 /\ score >= Points(80) =>
                       r.approvalArtifact.approverAuthorityClass = "compliance_officer"
  <1>1. PICK risk : risk = classifyRisk(score)
    OBVIOUS
  <1>2. /\ score \in Int
        /\ \A action, class :
              /\ asks(action, class).action = action
              /\ asks(action, class).approvalRequired <=> class # Null
              /\ asks(action, class).approvalRequired \in BOOLEAN
              /\ asks(action, class).approverClass = class
    BY ServicesAssumption DEF asks
  <1>3. /\ risk.action \in {"allow", "hold", "escalate"} /\ risk.approvalRequired \in BOOLEAN
        /\ risk.approvalRequired =>
              /\ score >= Points(50)
              /\ risk.approverClass \in {"analyst", "compliance_officer"}
              /\ score >= Points(80) => risk.approverClass = "compliance_officer"
    <2>1. CASE score < Points(50)
      <3>1. risk = asks("allow", Null)
        BY <1>1, <2>1 DEF classifyRisk
      <3>2. QED
        BY <1>2, <3>1
    <2>2. CASE ~ score < Points(50) /\ score < Points(80)
      <3>1. risk = asks("hold", "analyst")
        BY <1>1, <2>2 DEF classifyRisk
      <3>2. score >= Points(50) /\ ~ score >= Points(80)
        BY <1>2, <2>2 DEF Points
      <3>3. QED
        BY <1>2, <3>1, <3>2
    <2>3. CASE ~ score < Points(50) /\ ~ score < Points(80)
      <3>1. risk = asks("escalate", "compliance_officer")
        BY <1>1, <2>3 DEF classifyRisk
      <3>2. score >= Points(50)
        BY <1>2, <2>3 DEF Points
      <3>3. QED
        BY <1>2, <3>1, <3>2
    <2>4. QED
      BY <2>1, <2>2, <2>3
  <1>4. PICK base : base = buildFraudRequest(score, sensitive, id)
    OBVIOUS
  <1>5. /\ base \in GovernedRequestType /\ base.shape = "ok"
        /\ base.workflowClass = "fraud_triage" /\ base.approvalArtifact = Null
    <2>1. /\ risk.action \in ActionLabels /\ "system" \in AuthorityLabels
          /\ "fraud_triage" \in WorkflowLabels /\ 1 \in Instant
      BY <1>3, LabelsAssumption DEF CoreActionClasses, CoreAuthorityClasses, Instant
    <2>2. QED
      BY <1>1, <1>3, <1>4, <2>1 DEF buildFraudRequest, GovernedRequestType, RequestShape
  <1>6. CASE ~ (withApproval /\ risk.approvalRequired)
    <2>1. r = base
      BY <1>1, <1>4, <1>6 DEF FraudRequest
    <2>2. QED
      BY <1>5, <2>1
  <1>7. CASE withApproval /\ risk.approvalRequired
    <2>1. PICK a : a = buildAnalystApproval(id, risk.approverClass, base.createdAt)
      OBVIOUS
    <2>2. r = [base EXCEPT !.approvalArtifact = a]
      BY <1>1, <1>4, <1>7, <2>1 DEF FraudRequest
    <2>3. base.createdAt = 1
      BY <1>4 DEF buildFraudRequest
    <2>4. a \in ApprovalArtifact /\ a.approverAuthorityClass = risk.approverClass
      <3>1. risk.approverClass \in AuthorityLabels /\ 1 + 1 \in Instant
        BY <1>3, <1>7, LabelsAssumption DEF CoreAuthorityClasses, Instant
      <3>2. QED
        BY <2>1, <2>3, <3>1 DEF buildAnalystApproval, ApprovalArtifact
    <2>5. /\ r \in GovernedRequestType /\ r.shape = base.shape
          /\ r.workflowClass = base.workflowClass /\ r.approvalArtifact = a
      BY <1>5, <2>2, <2>4 DEF GovernedRequestType
    <2>6. QED
      BY <1>3, <1>5, <1>7, <2>4, <2>5
  <1>8. QED
    BY <1>6, <1>7

LEMMA TriageKeeps ==
    ASSUME ServicesInv,
           NEW score \in RiskScores, NEW sensitive \in BOOLEAN, NEW id \in RequestIds,
           NEW withApproval \in BOOLEAN,
           processFraudTransaction(score, sensitive, id, withApproval)
    PROVE  ServicesInv'
  <1>1. PICK r : r = FraudRequest(score, sensitive, id, withApproval)
    OBVIOUS
  <1>2. PICK result : result = evaluate(gate, r)
    OBVIOUS
  <1>3. UNCHANGED <<gate, rest, routed, toolRuns>>
    BY DEF processFraudTransaction, calls
  <1>4. \/ /\ log' = Recorded(r, result)
           /\ triaged' = Append(triaged, [riskScore |-> score, request |-> r,
                                          decision |-> result])
        \/ /\ \E n \in 0 .. (Len(Events(result)) - 1) : log' = RecordedUpTo(r, result, n)
           /\ triaged' = Append(triaged, [riskScore |-> score, request |-> r,
                                          decision |-> Threw])
    BY <1>1, <1>2 DEF processFraudTransaction
  <1>5. r \in GovernedRequestType /\ r.shape # "unreadable"
    BY <1>1, TriageAsks
  <1>6. AuditInv' /\ \A i : Complete(i) \subseteq Complete(i)'
    BY <1>2, <1>3, <1>4, <1>5, RecordKeeps DEF ServicesInv
  <1>7. PICK t \in Transactions : t = [riskScore |-> score, request |-> r]
    <2>1. [riskScore |-> score,
           request   |-> FraudRequest(score, sensitive, id, withApproval)] \in Transactions
      BY SMTT(30) DEF Transactions
    <2>2. QED
      BY <1>1, <2>1
  <1>8. /\ TriageOf(t, "recorded") = [riskScore |-> score, request |-> r,
                                      decision |-> result]
        /\ TriageOf(t, "threw") = [riskScore |-> score, request |-> r,
                                   decision |-> Threw]
    BY <1>2, <1>7 DEF TriageOf
  <1>9. TriageOf(t, "recorded") \in Triages /\ TriageOf(t, "threw") \in Triages
    BY DEF Triages
  <1>10. triaged \in Seq(Triages) /\ Triages' = Triages
    BY <1>3, SameGateSameSets DEF ServicesInv, TriageInv
  <1>11. triaged' \in Seq(Triages)
    BY <1>4, <1>8, <1>9, <1>10, AppendProperties
  <1>12. RestInv' /\ RouteInv' /\ AgentInv'
    BY <1>3, <1>6, RestStays, RouteStays, AgentStays DEF ServicesInv
  <1>13. QED
    BY <1>6, <1>10, <1>11, <1>12 DEF ServicesInv, TriageInv

LEMMA InitServices == ServicesInit => ServicesInv
  <1> SUFFICES ASSUME ServicesInit PROVE ServicesInv
    OBVIOUS
  <1>1. AuditInv /\ RestInv /\ AgentInv /\ TriageInv
    BY EmptySeq DEF ServicesInit, AuditInv, RestInv, AgentInv, TriageInv
  <1>2. \A id : GoneOn(id) = {} /\ Complete(id) = {}
    BY DEF ServicesInit, GoneOn, Complete
  <1>3. RouteInv
    <2>1. \A id : Cardinality(GoneOn(id)) <= Cardinality(Complete(id))
      <3>1. Cardinality({}) = 0
        BY FS_EmptySet
      <3>2. QED
        BY <1>2, <3>1
    <2>2. routed \in Seq(Routings)
      BY EmptySeq DEF ServicesInit
    <2>3. QED
      BY <2>1, <2>2 DEF RouteInv
  <1>4. QED
    BY <1>1, <1>3 DEF ServicesInv

LEMMA StepServices ==
    ServicesInv /\ [ServicesNext]_servicesVars => ServicesInv'
  <1> SUFFICES ASSUME ServicesInv, [ServicesNext]_servicesVars PROVE ServicesInv'
    OBVIOUS
  <1>1. CASE UNCHANGED servicesVars
    <2>1. UNCHANGED <<gate, log, rest, routed, toolRuns, triaged>>
      BY <1>1 DEF servicesVars, calls
    <2>2. AuditInv' /\ \A id : Complete(id) \subseteq Complete(id)'
      BY <2>1, LogStays DEF ServicesInv
    <2>3. QED
      BY <2>1, <2>2, RestStays, RouteStays, AgentStays, TriageStays DEF ServicesInv
  <1>2. ASSUME NEW request \in Bodies, Post(request) PROVE ServicesInv'
    BY <1>2, PostKeeps
  <1>3. ASSUME NEW i \in DOMAIN posts, BodyFails(i) \/ Evaluate(i) PROVE ServicesInv'
    BY <1>3, BodyFailsKeeps, EvaluateKeeps
  <1>4. ASSUME NEW request \in Bodies, cerbaSealGate(request) PROVE ServicesInv'
    BY <1>4, GateThrowsKeeps, RecordThrowsKeeps, DecideKeeps DEF cerbaSealGate
  <1>5. ASSUME NEW call \in AgentCalls, runAgentScenario(call) PROVE ServicesInv'
    BY <1>5, ScenarioKeeps
  <1>6. ASSUME NEW score \in RiskScores, NEW sensitive \in BOOLEAN,
               NEW withApproval \in BOOLEAN, NEW id \in RequestIds,
               processFraudTransaction(score, sensitive, id, withApproval)
        PROVE  ServicesInv'
    BY <1>6, TriageKeeps
  <1>7. QED
    BY <1>1, <1>2, <1>3, <1>4, <1>5, <1>6 DEF ServicesNext

--------------------------------------------------------------------------------
(* What follows of GatedServices. *)

\* The type of every variable; the answers of the REST server are those of its
\* history, in the order of the history (rest-api-starter/index.ts:71).
THEOREM ServicesTypeCorrect ==
    ServicesSpec => []ServicesTypeOK
  <1>1. ASSUME ServicesInv PROVE ServicesTypeOK
    <2>1. gate \in Gates \cup {DefaultGate} /\ \A i \in DOMAIN posts : posts[i] \in Bodies
      BY <1>1, LenProperties, ElementOfSeq DEF ServicesInv, AuditInv, RestInv
    <2>2. \A i \in DOMAIN log : log[i].eventId = i /\ log[i].eventType \in EventTypes
      <3>1. \A i \in DOMAIN log : log[i] \in LogEntry
        BY <1>1, LenProperties, ElementOfSeq DEF ServicesInv, AuditInv
      <3>2. QED
        BY <1>1, <3>1 DEF ServicesInv, AuditInv, LogEntry
    <2>3. answers = [i \in DOMAIN decisionHistory |->
                        [requestId  |-> decisionHistory[i].request.requestId,
                         finalState |-> decisionHistory[i].decision.finalState]]
      BY <1>1 DEF ServicesInv, RestInv, AnswerTo
    <2>4. \A i \in DOMAIN routed :
              routed[i].status \in {"422", "500", "403", "202", "next"}
      <3>1. \A i \in DOMAIN routed : routed[i] \in Routings
        BY <1>1, LenProperties, ElementOfSeq DEF ServicesInv, RouteInv
      <3>2. QED
        BY <3>1 DEF Routings
    <2>5. ASSUME NEW i \in DOMAIN toolRuns
          PROVE  toolRuns[i].toolResult.toolName \in TOOLS
      <3>1. toolRuns[i] \in Runs
        BY <1>1, LenProperties, ElementOfSeq DEF ServicesInv, AgentInv
      <3>2. PICK call \in AgentCalls : toolRuns[i] = RunOf(call)
        BY <3>1 DEF Runs
      <3>3. call.tool \in TOOLS
        BY ServicesAssumption
      <3>4. toolRuns[i].toolResult =
                executeIfAuthorized(call.tool, evaluate(gate, call.request))
        BY <3>2 DEF RunOf
      <3>5. QED
        BY <3>3, <3>4 DEF executeIfAuthorized
    <2>6. ASSUME NEW i \in DOMAIN triaged PROVE triaged[i].riskScore \in RiskScores
      <3>1. triaged[i] \in Triages
        BY <1>1, LenProperties, ElementOfSeq DEF ServicesInv, TriageInv
      <3>2. PICK t \in Transactions, end \in {"recorded", "threw"} :
                triaged[i] = TriageOf(t, end)
        BY <3>1 DEF Triages
      <3>3. triaged[i].riskScore = t.riskScore /\ t.riskScore \in RiskScores
        BY <3>2 DEF TriageOf, Transactions
      <3>4. QED
        BY <3>3
    <2>7. QED
      BY <2>1, <2>2, <2>3, <2>4, <2>5, <2>6 DEF ServicesTypeOK
  <1>2. QED
    BY <1>1, InitServices, StepServices, PTL DEF ServicesSpec

\* A scenario whose tool acted is of a request that may be released.
LEMMA ActingRun ==
    ASSUME ServicesInv, NEW i \in DOMAIN toolRuns, toolRuns[i].toolResult.executed
    PROVE  MayRelease(gate, toolRuns[i].request)
  <1>1. toolRuns[i] \in Runs
    BY LenProperties, ElementOfSeq DEF ServicesInv, AgentInv
  <1>2. PICK call \in AgentCalls :
            evaluate(gate, call.request) # Threw /\ toolRuns[i] = RunOf(call)
    BY <1>1 DEF Runs
  <1>3. PICK result : result = evaluate(gate, call.request)
    OBVIOUS
  <1>4. PICK done : done = executeIfAuthorized(call.tool, result)
    OBVIOUS
  <1>5. toolRuns[i].request = call.request /\ toolRuns[i].toolResult = done
    BY <1>2, <1>3, <1>4 DEF RunOf
  <1>6. done.executed => result.finalState = "ALLOW"
    BY <1>4, Zenon DEF executeIfAuthorized
  <1>7. call.request \in GovernedRequestType /\ gate \in GateType
    BY ServicesAssumption, GateTyped DEF ServicesInv
  <1>8. Answers(gate, call.request, result)
    BY <1>2, <1>3, <1>7, EvaluateAnswers
  <1>9. QED
    BY <1>5, <1>6, <1>8, VerdictsDiffer DEF Answers

\* A route behind the middleware goes on for no request but one that may be released,
\* and no more often than the whole evidence of a release of that request is in the
\* log, whichever append fails (express-middleware/index.ts:82); the tool of a scenario
\* acts for no other either, though without evidence (tools.ts:22).
THEOREM ReleasesAreDue ==
    ServicesSpec => []ReleasedWorkIsDue
  <1>1. ASSUME ServicesInv PROVE ReleasedWorkIsDue
    <2>1. \A id \in RequestIds : Cardinality(GoneOn(id)) <= Cardinality(Complete(id))
      BY <1>1 DEF ServicesInv, RouteInv
    <2>2. ASSUME NEW id \in RequestIds, NEW i \in GoneOn(id)
          PROVE  MayRelease(gate, routed[i].request)
      <3>1. i \in DOMAIN routed /\ routed[i].status = "next"
        BY <2>2 DEF GoneOn
      <3>2. routed[i] \in Routings
        BY <1>1, <3>1, LenProperties, ElementOfSeq DEF ServicesInv, RouteInv
      <3>3. QED
        BY <3>1, <3>2 DEF Routings
    <2>3. \A i \in DOMAIN toolRuns :
              toolRuns[i].toolResult.executed => MayRelease(gate, toolRuns[i].request)
      BY <1>1, ActingRun
    <2>4. QED
      BY <2>1, <2>2, <2>3 DEF ReleasedWorkIsDue, GoneOn, Complete
  <1>2. QED
    BY <1>1, InitServices, StepServices, PTL DEF ServicesSpec

\* Nothing below a score of 50 is released, and from 80 on nothing without the
\* approval of a compliance officer, for whatever gate the triage is built with:
\* its workflow needs an approval under every policy
\* (fraud-workflow-starter/index.ts:8-18).
THEOREM BandsAreKept ==
    ServicesSpec => []TriageBandsAreKept
  <1>1. ASSUME ServicesInv PROVE TriageBandsAreKept
    <2> SUFFICES ASSUME NEW i \in DOMAIN triaged, triaged[i].decision # Threw,
                        triaged[i].decision.finalState = "ALLOW"
                 PROVE  /\ triaged[i].riskScore >= Points(50)
                        /\ triaged[i].request.approvalArtifact # Null
                        /\ triaged[i].riskScore >= Points(80) =>
                              triaged[i].request.approvalArtifact.approverAuthorityClass =
                                  "compliance_officer"
      BY DEF TriageBandsAreKept
    <2>1. triaged[i] \in Triages
      BY <1>1, LenProperties, ElementOfSeq DEF ServicesInv, TriageInv
    <2>2. PICK t \in Transactions, end \in {"recorded", "threw"} :
              triaged[i] = TriageOf(t, end)
      BY <2>1 DEF Triages
    <2>3. PICK r : r = t.request
      OBVIOUS
    <2>4. PICK result : result = evaluate(gate, r)
      OBVIOUS
    <2>5. /\ triaged[i].riskScore = t.riskScore /\ triaged[i].request = r
          /\ triaged[i].decision = result
      BY <2>2, <2>3, <2>4 DEF TriageOf
    <2>6. PICK score \in RiskScores, sensitive \in BOOLEAN, id \in RequestIds,
               withApproval \in BOOLEAN :
              t = [riskScore |-> score,
                   request   |-> FraudRequest(score, sensitive, id, withApproval)]
      BY SMTT(30) DEF Transactions
    <2>7. t.riskScore = score /\ r = FraudRequest(score, sensitive, id, withApproval)
      BY <2>3, <2>6
    <2>8. /\ r \in GovernedRequestType /\ r.shape = "ok"
          /\ r.workflowClass = "fraud_triage"
          /\ r.approvalArtifact # Null =>
                /\ score >= Points(50)
                /\ score >= Points(80) =>
                      r.approvalArtifact.approverAuthorityClass = "compliance_officer"
      BY <2>7, TriageAsks
    <2>9. gate \in GateType
      BY <1>1, GateTyped DEF ServicesInv
    <2>10. Answers(gate, r, result)
      BY <2>4, <2>8, <2>9, EvaluateAnswers
    <2>11. MayRelease(gate, r)
      BY <2>5, <2>10, VerdictsDiffer DEF Answers
    <2>12. r.approvalArtifact # Null
      <3>1. ApprovalNeeded(gate, r)
        BY <2>8 DEF ApprovalNeeded
      <3>2. ~ StandsAgainst(gate, r, "REQUIRED_APPROVAL_MISSING")
        BY <2>11 DEF MayRelease, ReasonCodes
      <3>3. QED
        BY <3>1, <3>2 DEF StandsAgainst
    <2>13. QED
      BY <2>5, <2>7, <2>8, <2>12
  <1>2. QED
    BY <1>1, InitServices, StepServices, PTL DEF ServicesSpec

\* A step of the history adds a decision at its end, or none.
LEMMA HistoryGrows ==
    ASSUME ServicesInv, [ServicesNext]_servicesVars
    PROVE  \/ decisionHistory' = decisionHistory
           \/ \E bundle \in Decisions :
                 decisionHistory' = Append(decisionHistory, bundle)
  <1>1. CASE UNCHANGED servicesVars
    BY <1>1 DEF servicesVars, rest
  <1>2. ASSUME NEW request \in Bodies, Post(request)
        PROVE  decisionHistory' = decisionHistory
    BY <1>2 DEF Post
  <1>3. ASSUME NEW i \in DOMAIN posts, BodyFails(i)
        PROVE  decisionHistory' = decisionHistory
    BY <1>3 DEF BodyFails
  <1>4. ASSUME NEW i \in DOMAIN posts, Evaluate(i)
        PROVE  \/ decisionHistory' = decisionHistory
               \/ \E bundle \in Decisions :
                     decisionHistory' = Append(decisionHistory, bundle)
    <2>1. PICK request : request = posts[i]
      OBVIOUS
    <2>2. PICK bundle :
              bundle = [request |-> request, decision |-> evaluate(gate, request)]
      OBVIOUS
    <2>3. request \in Bodies
      BY <2>1, WaitingIsTyped DEF ServicesInv, RestInv
    <2>4. bundle \in Decisions
      BY <2>2, <2>3 DEF Decisions
    <2>5. \/ decisionHistory' = decisionHistory
          \/ decisionHistory' = Append(decisionHistory, bundle)
      BY <1>4, <2>1, <2>2 DEF Evaluate
    <2>6. QED
      BY <2>4, <2>5
  <1>5. ASSUME NEW request \in Bodies, cerbaSealGate(request)
        PROVE  decisionHistory' = decisionHistory
    BY <1>5 DEF cerbaSealGate, GateThrows, RecordThrows, Decide, rest
  <1>6. ASSUME NEW call \in AgentCalls, runAgentScenario(call)
        PROVE  decisionHistory' = decisionHistory
    BY <1>6 DEF runAgentScenario, rest
  <1>7. ASSUME NEW score \in RiskScores, NEW sensitive \in BOOLEAN,
               NEW withApproval \in BOOLEAN, NEW id \in RequestIds,
               processFraudTransaction(score, sensitive, id, withApproval)
        PROVE  decisionHistory' = decisionHistory
    BY <1>7 DEF processFraudTransaction, rest
  <1>8. QED
    BY <1>1, <1>2, <1>3, <1>4, <1>5, <1>6, <1>7 DEF ServicesNext

\* The places of the history with a decision about id, of which the first is found.
FoundFor(id) ==
    {i \in DOMAIN decisionHistory : decisionHistory[i].request.requestId = id}

FirstOf(S) == CHOOSE i \in S : \A j \in S : i <= j

LEMMA LookupIsFirst ==
    ASSUME NEW id
    PROVE  GetDecision(id) = IF FoundFor(id) = {} THEN Null
                             ELSE decisionHistory[FirstOf(FoundFor(id))]
  BY DEF GetDecision, FoundFor, FirstOf

\* A set keeps its least element when greater ones join it.
LEMMA FirstStays ==
    ASSUME NEW d \in Nat, NEW S \in SUBSET (1 .. d), S # {},
           NEW T \in SUBSET (1 .. (d + 1)), S \subseteq T, T \subseteq S \cup {d + 1}
    PROVE  FirstOf(S) \in S /\ FirstOf(T) = FirstOf(S)
  <1>1. S \in SUBSET Nat
    OBVIOUS
  <1>2. PICK n \in S : \A m \in S : n <= m
    BY <1>1, LeastExists
  <1>3. FirstOf(S) = n
    <2>1. \A k \in S : (\A m \in S : k <= m) => k = n
      BY <1>1, <1>2
    <2>2. QED
      BY <1>2, <2>1 DEF FirstOf
  <1>4. n \in T /\ \A m \in T : n <= m
    BY <1>2
  <1>5. FirstOf(T) = n
    <2>1. \A k \in T : (\A m \in T : k <= m) => k = n
      BY <1>4
    <2>2. QED
      BY <1>4, <2>1 DEF FirstOf
  <1>6. QED
    BY <1>2, <1>3, <1>5

\* A decision that a client has looked up is what every later lookup of the same
\* request id answers: the history only grows at its end, and the first decision
\* is what is looked up (rest-api-starter/index.ts:106).
THEOREM LookupsAreStable ==
    ServicesSpec => LookupIsStable
  <1>1. ASSUME ServicesInv, [ServicesNext]_servicesVars, NEW id \in RequestIds,
               GetDecision(id) # Null
        PROVE  GetDecision(id)' = GetDecision(id)
    <2>1. PICK d \in Nat : d = Len(decisionHistory)
      BY <1>1, LenProperties DEF ServicesInv, RestInv
    <2>2. decisionHistory \in Seq(Decisions) /\ DOMAIN decisionHistory = 1 .. d
      BY <1>1, <2>1, LenProperties DEF ServicesInv, RestInv
    <2>3. CASE decisionHistory' = decisionHistory
      BY <2>3 DEF GetDecision
    <2>4. ASSUME NEW bundle \in Decisions,
                 decisionHistory' = Append(decisionHistory, bundle)
          PROVE  GetDecision(id)' = GetDecision(id)
      <3>1. /\ DOMAIN decisionHistory' = 1 .. (d + 1)
            /\ \A i \in 1 .. d : decisionHistory'[i] = decisionHistory[i]
        BY <2>1, <2>2, <2>4, AppendProperties, LenProperties
      <3>2. PICK S, T : S = FoundFor(id) /\ T = FoundFor(id)'
        OBVIOUS
      <3>3. S \in SUBSET (1 .. d) /\ S # {}
        BY <1>1, <2>2, <3>2, LookupIsFirst DEF FoundFor
      <3>4. T \in SUBSET (1 .. (d + 1))
        BY <3>1, <3>2 DEF FoundFor
      <3>5. S \subseteq T
        BY <2>2, <3>1, <3>2 DEF FoundFor
      <3>6. T \subseteq S \cup {d + 1}
        <4>1. ASSUME NEW i \in T, i # d + 1 PROVE i \in S
          <5>1. i \in 1 .. d
            BY <3>4, <4>1
          <5>2. QED
            BY <2>2, <3>1, <3>2, <4>1, <5>1 DEF FoundFor
        <4>2. QED
          BY <4>1
      <3>7. FirstOf(S) \in S /\ FirstOf(T) = FirstOf(S)
        BY <3>3, <3>4, <3>5, <3>6, FirstStays
      <3>8. GetDecision(id) = decisionHistory[FirstOf(S)]
        BY <3>2, <3>3, LookupIsFirst
      <3>9. GetDecision(id)' = decisionHistory'[FirstOf(T)]
        <4>1. T # {}
          BY <3>3, <3>5
        <4>2. GetDecision(id)' = IF FoundFor(id)' = {} THEN Null
                                 ELSE decisionHistory'[FirstOf(FoundFor(id)')]
          BY DEF GetDecision, FoundFor, FirstOf
        <4>3. QED
          BY <3>2, <4>1, <4>2
      <3>10. QED
        BY <3>1, <3>3, <3>7, <3>8, <3>9
    <2>5. QED
      BY <1>1, <2>3, <2>4, HistoryGrows
  <1>2. ServicesInv /\ [ServicesNext]_servicesVars =>
            [\A id \in RequestIds :
                GetDecision(id) # Null => GetDecision(id)' = GetDecision(id)]_servicesVars
    BY <1>1
  <1>3. QED
    BY <1>2, InitServices, StepServices, PTL DEF ServicesSpec, LookupIsStable
================================================================================
