-------------------------------- MODULE JobQueue -------------------------------
(***************************************************************************)
(* The job queue of examples/async-queue: a worker enqueues proposals, the *)
(* gate decides or holds them, a reviewer approves a held job, which is    *)
(* then evaluated again with the approval attached.  A Job is an object    *)
(* that the caller of enqueue keeps, and the map of the queue points to    *)
(* the job enqueued last under an id.  Both handlers are synchronous, and  *)
(* the in-memory audit log does not fail.  A handler that throws before it *)
(* changes anything is not a step.                                         *)
(***************************************************************************)
EXTENDS GatedProgram

CONSTANTS
    Requests,       \* the requests workers enqueue
    Reviewers,      \* the reviewers, with the class they act in
    ClockReadings,  \* what the clock may show when an approval is given
    MaxJobs         \* bound on the number of jobs, for model checking

Reviewer ==
    [approverAuthorityClass  : HumanAuthorityClasses,
     privilegedAuthSatisfied : BOOLEAN]

ASSUME RequestsAssumption == Requests \subseteq GovernedRequestType
ASSUME ReviewersAssumption == Reviewers \subseteq Reviewer
ASSUME ClockAssumption == ClockReadings \subseteq Nat
ASSUME MaxJobsAssumption == MaxJobs \in Nat

VARIABLES
    handed,  \* the Job objects, in the order enqueue handed them out
    jobs     \* the map of the queue: the place in handed of the job with an id, or 0

vars == <<gate, handed, jobs, log>>

--------------------------------------------------------------------------------
(* The bundle that createBundle returns, with its chain as the ids of the events. *)

createBundle(request, result) ==
    LET entries == Recorded(request, result)
    IN  [request    |-> request,
         decision   |-> result,
         eventChain |-> {i \in DOMAIN entries :
                            entries[i].requestId = request.requestId}]

--------------------------------------------------------------------------------
(* enqueue and approve *)

JobStatusOf(finalState) ==
    CASE finalState = "ALLOW" -> "ALLOWED"
      [] finalState = "HOLD"  -> "HELD"
      [] OTHER                -> "REJECTED"

Init ==
    /\ gate \in Gates
    /\ handed = <<>>
    /\ jobs = [id \in RequestIds |-> 0]
    /\ log = <<>>

\* Mutant: an id that is known keeps its job, although the proposal was
\* evaluated and recorded.
enqueue_KeepsKnown(r) ==
    LET result == evaluate(gate, r)
    IN  /\ Len(handed) < MaxJobs
        /\ result # Threw
        /\ log' = Recorded(r, result)
        /\ handed' = Append(handed,
                         [request        |-> r,
                          status         |-> JobStatusOf(result.finalState),
                          evidenceBundle |-> createBundle(r, result)])
        /\ jobs' = [jobs EXCEPT ![r.requestId] = IF @ = 0 THEN Len(handed) + 1 ELSE @]
        /\ UNCHANGED gate

\* Mutant: the bundle is written to an audit log of its own.
enqueue_OtherLog(r) ==
    LET result == evaluate(gate, r)
    IN  /\ Len(handed) < MaxJobs
        /\ result # Threw
        /\ handed' = Append(handed,
                         [request        |-> r,
                          status         |-> JobStatusOf(result.finalState),
                          evidenceBundle |-> createBundle(r, result)])
        /\ jobs' = [jobs EXCEPT ![r.requestId] = Len(handed) + 1]
        /\ UNCHANGED <<gate, log>>

\* Whatever the map held under the id is replaced.
enqueue(r) ==
    LET result == evaluate(gate, r)
    IN  /\ Len(handed) < MaxJobs
        /\ result # Threw
        /\ log' = Recorded(r, result)
        /\ handed' = Append(handed,
                         [request        |-> r,
                          status         |-> JobStatusOf(result.finalState),
                          evidenceBundle |-> createBundle(r, result)])
        /\ jobs' = [jobs EXCEPT ![r.requestId] = Len(handed) + 1]
        /\ UNCHANGED gate

ApprovalArtifactBy(reviewer, jobId, now) ==
    [forRequestId            |-> jobId,
     approverAuthorityClass  |-> reviewer.approverAuthorityClass,
     privilegedAuthSatisfied |-> reviewer.privilegedAuthSatisfied,
     immutableSignature      |-> "signed",
     approvedAt              |-> now]

\* The job after its request was evaluated with the approval.  On another HOLD
\* approve throws and leaves the job alone, but the evaluation is recorded.
Reviewed(job, approvedRequest, result) ==
    CASE result.finalState = "ALLOW" ->
            [request        |-> approvedRequest,
             status         |-> "ALLOWED",
             evidenceBundle |-> createBundle(approvedRequest, result)]
      [] result.finalState = "REJECT" -> [job EXCEPT !.status = "REJECTED"]
      [] OTHER -> job

\* Mutant: the status of the job is not looked at.
approve_AnyStatus(jobId, reviewer, now) ==
    LET job      == handed[jobs[jobId]]
        approved == [job.request EXCEPT
                        !.approvalArtifact = ApprovalArtifactBy(reviewer, jobId, now)]
        result   == evaluate(gate, approved)
    IN  /\ jobs[jobId] # 0
        /\ result # Threw
        /\ log' = Recorded(approved, result)
        /\ handed' = [handed EXCEPT ![jobs[jobId]] = Reviewed(job, approved, result)]
        /\ UNCHANGED <<gate, jobs>>

approve(jobId, reviewer, now) ==
    LET job      == handed[jobs[jobId]]
        approved == [job.request EXCEPT
                        !.approvalArtifact = ApprovalArtifactBy(reviewer, jobId, now)]
        result   == evaluate(gate, approved)
    IN  /\ jobs[jobId] # 0
        /\ job.status = "HELD"
        /\ result # Threw
        /\ log' = Recorded(approved, result)
        /\ handed' = [handed EXCEPT ![jobs[jobId]] = Reviewed(job, approved, result)]
        /\ UNCHANGED <<gate, jobs>>

Next ==
    \/ \E r \in Requests : enqueue(r)
    \/ \E jobId \in RequestIds, reviewer \in Reviewers, now \in ClockReadings :
          approve(jobId, reviewer, now)

Spec == Init /\ [][Next]_vars

--------------------------------------------------------------------------------
(* Properties *)

JobStatus == {"HELD", "ALLOWED", "REJECTED"}

\* The type of every variable; a job is in the map under the id of its request,
\* and a bundle's chain is in the log.
TypeOK ==
    /\ gate \in Gates
    /\ \A i \in DOMAIN handed :
          /\ handed[i].request \in GovernedRequestType
          /\ handed[i].status \in JobStatus
          /\ handed[i].evidenceBundle.eventChain \subseteq DOMAIN log
    /\ \A id \in RequestIds :
          \/ jobs[id] = 0
          \/ jobs[id] \in DOMAIN handed /\ handed[jobs[id]].request.requestId = id
    /\ \A i \in DOMAIN log : log[i].eventType \in EventTypes

Review == INSTANCE HumanReview WITH
    cases <- [i \in DOMAIN handed |-> [request |-> handed[i].request,
                                       status  |-> handed[i].status]]

\* The queue promises what HumanReview says of the jobs it hands out: held only
\* for want of an approval, decided by the first review, released only with an
\* approval that counts, final once decided, and never held again after a
\* review ("HOLD -> should not happen after valid approval", index.ts:100).
ImplementsHumanReview == Review!Spec

\* The outcome the audit log tells of an id last.
LastOutcome(id) ==
    LET outcomes == {i \in DOMAIN log :
                        /\ log[i].requestId = id
                        /\ log[i].eventType \in {"RELEASE_AUTHORIZED", "ACTION_BLOCKED"}}
        last     == CHOOSE i \in outcomes : \A j \in outcomes : j <= i
    IN  IF log[last].eventType = "RELEASE_AUTHORIZED" THEN "ALLOWED"
        ELSE JobStatusOf(log[last].payloadHash.finalState)

\* The queue and the audit log tell the same story: the job the map holds under
\* an id has the status of the last outcome recorded for it, whatever was
\* enqueued under that id before.
QueueAgreesWithLog ==
    \A id \in RequestIds :
        jobs[id] # 0 => handed[jobs[id]].status = LastOutcome(id)
================================================================================
