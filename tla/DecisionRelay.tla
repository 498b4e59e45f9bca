------------------------------ MODULE DecisionRelay ------------------------------
(***************************************************************************)
(* What a service that reports decisions to a third party promises: a      *)
(* case is decided once, by the verdict the gate's promise gives for its   *)
(* request, and the third party is told of each case at most once, in any  *)
(* order.  A held case is told as held and never revisited: only another   *)
(* case, with another request, can be released in its place.               *)
(***************************************************************************)
EXTENDS ReleaseConditions

CONSTANTS
    Gate,       \* the gate that decides
    CaseNames,  \* what names a case
    Requests    \* the requests that are submitted

VARIABLES
    decided,  \* the decisions: [case, request, finalState, reason]
    told      \* the cases the third party was told of, in that order

vars == <<decided, told>>

Cases == {d.case : d \in decided}
Told  == {told[i] : i \in DOMAIN told}

Init == decided = {} /\ told = <<>>

Decide ==
    /\ \E case \in CaseNames \ Cases, request \in Requests,
          finalState \in {"ALLOW", "HOLD", "REJECT"},
          reason \in ReasonCodes \cup {"DECISION_ALLOWED"} :
           /\ decided' = decided \cup
                 {[case |-> case, request |-> request,
                   finalState |-> finalState, reason |-> reason]}
           /\ Verdict(Gate, request, finalState, reason)
    /\ UNCHANGED told

Tell ==
    /\ \E case \in Cases \ Told : told' = Append(told, case)
    /\ UNCHANGED decided

Next == Decide \/ Tell

Spec == Init /\ [][Next]_vars
================================================================================
