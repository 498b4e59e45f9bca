----------------------------- MODULE GateDecision ------------------------------
(***************************************************************************)
(* What the execution gate promises, with no evaluation order and no       *)
(* intermediate state: a call to evaluate is answered in one step, by      *)
(* ALLOW when nothing stands against the request, by HOLD when a required  *)
(* approval that is not there is all that stands against it, and otherwise *)
(* by REJECT for one of the reasons that do - which one, the promise       *)
(* leaves open.  Only a call whose request cannot be read at all is not    *)
(* answered: it throws.                                                    *)
(***************************************************************************)
EXTENDS ReleaseConditions

CONSTANTS
    Gates,      \* the gates callers construct
    Requests    \* the requests callers submit

VARIABLES
    call,       \* the call in progress: [gate, request], or Null
    decisions,  \* the decisions given: [gate, request, finalState, reason]
    unanswered  \* the calls that threw: [gate, request]

vars == <<call, decisions, unanswered>>

--------------------------------------------------------------------------------

Init == call = Null /\ decisions = {} /\ unanswered = {}

Submit ==
    /\ call = Null
    /\ call' \in [gate : Gates, request : Requests]
    /\ UNCHANGED <<decisions, unanswered>>

Answer ==
    /\ call # Null
    /\ call.request.shape # "unreadable"
    /\ \E finalState \in {"ALLOW", "HOLD", "REJECT"},
          reason \in ReasonCodes \cup {"DECISION_ALLOWED"} :
           /\ Verdict(call.gate, call.request, finalState, reason)
           /\ decisions' = decisions \cup
                 {[gate |-> call.gate, request |-> call.request,
                   finalState |-> finalState, reason |-> reason]}
    /\ call' = Null
    /\ UNCHANGED unanswered

Throw ==
    /\ call # Null
    /\ call.request.shape = "unreadable"
    /\ unanswered' = unanswered \cup {call}
    /\ call' = Null
    /\ UNCHANGED decisions

Next == Submit \/ Answer \/ Throw

Spec == Init /\ [][Next]_vars
================================================================================
