------------------------------ MODULE HumanReview ------------------------------
(***************************************************************************)
(* What a queue with human review promises: a case is decided at once      *)
(* unless the missing approval is all that stands against it; a held case  *)
(* is decided by the first review, and only an approval that makes its     *)
(* request releasable releases it.  A decided case is never touched again. *)
(***************************************************************************)
EXTENDS ReleaseConditions, Sequences

CONSTANTS Gates, Requests, Reviewers, ClockReadings

VARIABLES gate, cases

vars == <<gate, cases>>

Outcome(r) ==
    CASE MayRelease(gate, r)     -> "ALLOWED"
      [] AwaitsApproval(gate, r) -> "HELD"
      [] OTHER                   -> "REJECTED"

ApprovalBy(reviewer, now, r) ==
    [forRequestId            |-> r.requestId,
     approverAuthorityClass  |-> reviewer.approverAuthorityClass,
     privilegedAuthSatisfied |-> reviewer.privilegedAuthSatisfied,
     immutableSignature      |-> "signed",
     approvedAt              |-> now]

Init == gate \in Gates /\ cases = <<>>

Submit(r) ==
    /\ cases' = Append(cases, [request |-> r, status |-> Outcome(r)])
    /\ UNCHANGED gate

Release(i, approval) ==
    LET approved == [cases[i].request EXCEPT !.approvalArtifact = approval]
    IN  /\ cases[i].status = "HELD"
        /\ MayRelease(gate, approved)
        /\ cases' = [cases EXCEPT ![i] = [request |-> approved, status |-> "ALLOWED"]]
        /\ UNCHANGED gate

Refuse(i, approval) ==
    LET approved == [cases[i].request EXCEPT !.approvalArtifact = approval]
    IN  /\ cases[i].status = "HELD"
        /\ ~ MayRelease(gate, approved)
        /\ cases' = [cases EXCEPT ![i].status = "REJECTED"]
        /\ UNCHANGED gate

Next ==
    \/ \E r \in Requests : Submit(r)
    \/ \E i \in DOMAIN cases, reviewer \in Reviewers, now \in ClockReadings :
          LET approval == ApprovalBy(reviewer, now, cases[i].request)
          IN  Release(i, approval) \/ Refuse(i, approval)

Spec == Init /\ [][Next]_vars
================================================================================
