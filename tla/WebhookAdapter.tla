----------------------------- MODULE WebhookAdapter -----------------------------
(***************************************************************************)
(* The webhook adapter of examples/webhook-adapter: POST /event is read,   *)
(* evaluated, recorded and answered, and the decision is posted to the     *)
(* callback URL.  The listener is asynchronous and has two awaits, the     *)
(* body and the callback, at which calls of it overlap; between them it    *)
(* runs to the callback's dispatch in one step.  Senders post what they    *)
(* like, a request they posted before included.  The process may end at    *)
(* any point, with its in-memory audit log.                                *)
(***************************************************************************)
EXTENDS EvidenceRecords, FiniteSets

CONSTANTS
    Gate,         \* the gate of the adapter: a configuration, no policy pack
    Requests,     \* the requests senders post
    NotJson,      \* a body that is no JSON
    MaxEvents,    \* bounds for model checking: calls of the listener
    MaxRestarts   \* and restarts of the process

ASSUME GateAssumption == Gate \in GateType
ASSUME RequestsAssumption == Requests \subseteq GovernedRequestType
ASSUME NotJsonAssumption == NotJson \notin GovernedRequestType
ASSUME BoundsAssumption == {MaxEvents, MaxRestarts} \subseteq Nat

VARIABLES
    handlers,  \* the calls of the listener, in the order they began
    log,       \* the audit log of the running process
    received,  \* the callbacks the target received, in their order, each as
               \* the place in handlers of the call it is from
    restarts   \* how often the process restarted

vars == <<handlers, log, received, restarts>>

Bodies == Requests \cup {NotJson}

\* The status codes of the answers; NoAnswer while there is none.
NoAnswer == 0

Handler ==
    [body       : Bodies,
     process    : 0 .. MaxRestarts,
     stage      : {"reading", "posting", "ended"},
     answer     : {NoAnswer, 202, 400, 422},
     finalState : {Null, "ALLOW", "HOLD", "REJECT"},
     reason     : {Null, "DECISION_ALLOWED"} \cup ReasonCodes,
     callback   : {"none", "sent", "received", "lost"}]

--------------------------------------------------------------------------------
(* The listener *)

Init == handlers = <<>> /\ log = <<>> /\ received = <<>> /\ restarts = 0

Post(body) ==
    /\ Len(handlers) < MaxEvents
    /\ handlers' = Append(handlers,
                      [body |-> body, process |-> restarts, stage |-> "reading",
                       answer |-> NoAnswer, finalState |-> Null, reason |-> Null,
                       callback |-> "none"])
    /\ UNCHANGED <<log, received, restarts>>

EndWith(h, code) ==
    /\ handlers' = [handlers EXCEPT ![h].stage = "ended", ![h].answer = code]
    /\ UNCHANGED <<log, received, restarts>>

\* readBody rejects: the connection fails, or the sender takes too long.
ReadFails(h) ==
    /\ handlers[h].stage = "reading"
    /\ EndWith(h, 400)

RefuseBody(h) ==
    /\ handlers[h].stage = "reading"
    /\ handlers[h].body = NotJson
    /\ EndWith(h, 400)

RefuseRequest(h) ==
    /\ handlers[h].stage = "reading"
    /\ handlers[h].body # NotJson
    /\ evaluate(Gate, handlers[h].body) = Threw
    /\ EndWith(h, 422)

\* Mutant: an id that has a record is not recorded again, so that a sender's
\* retry would leave the log alone.
Accept_OncePerId(h) ==
    LET request == handlers[h].body
        result  == evaluate(Gate, request)
    IN  /\ handlers[h].stage = "reading"
        /\ request # NotJson
        /\ result # Threw
        /\ log' = IF \E i \in DOMAIN log : log[i].requestId = request.requestId
                  THEN log
                  ELSE log \o NewEntries(log, request.requestId, Events(result))
        /\ handlers' = [handlers EXCEPT ![h].stage = "posting", ![h].answer = 202,
                                        ![h].finalState = result.finalState,
                                        ![h].reason = result.reason,
                                        ![h].callback = "sent"]
        /\ UNCHANGED <<received, restarts>>

\* Mutant: a held event is answered and kept until it is resolved.
Accept_KeepsHeld(h) ==
    LET request == handlers[h].body
        result  == evaluate(Gate, request)
    IN  /\ handlers[h].stage = "reading"
        /\ request # NotJson
        /\ result # Threw
        /\ log' = log \o NewEntries(log, request.requestId, Events(result))
        /\ handlers' = [handlers EXCEPT
              ![h].stage = "posting", ![h].answer = 202,
              ![h].finalState = result.finalState, ![h].reason = result.reason,
              ![h].callback = IF result.finalState = "HOLD" THEN "none" ELSE "sent"]
        /\ UNCHANGED <<received, restarts>>

\* evaluate, createBundle, the answer and the dispatch of the callback.
Accept(h) ==
    LET request == handlers[h].body
        result  == evaluate(Gate, request)
    IN  /\ handlers[h].stage = "reading"
        /\ request # NotJson
        /\ result # Threw
        /\ log' = log \o NewEntries(log, request.requestId, Events(result))
        /\ handlers' = [handlers EXCEPT ![h].stage = "posting", ![h].answer = 202,
                                        ![h].finalState = result.finalState,
                                        ![h].reason = result.reason,
                                        ![h].callback = "sent"]
        /\ UNCHANGED <<received, restarts>>

Serve(h) == ReadFails(h) \/ RefuseBody(h) \/ RefuseRequest(h) \/ Accept(h)

\* Mutant: a callback that failed is posted again.
EndPost_Retries(h) ==
    /\ handlers[h].stage = "posting"
    /\ handlers[h].callback # "lost"
    /\ \E callback \in {handlers[h].callback, "sent"} :
          handlers' = [handlers EXCEPT ![h].stage = "ended", ![h].callback = callback]
    /\ UNCHANGED <<log, received, restarts>>

\* The await of postToCallback ends: the target answered, with whatever status,
\* or fetch failed, before or after the callback arrived.  It is all the same.
EndPost(h) ==
    /\ handlers[h].stage = "posting"
    /\ handlers' = [handlers EXCEPT ![h].stage = "ended"]
    /\ UNCHANGED <<log, received, restarts>>

--------------------------------------------------------------------------------
(* The network, the target and the process *)

Arrive(h) ==
    /\ handlers[h].callback = "sent"
    /\ handlers' = [handlers EXCEPT ![h].callback = "received"]
    /\ received' = Append(received, h)
    /\ UNCHANGED <<log, restarts>>

\* The target cannot be reached, or refuses the callback.
Lose(h) ==
    /\ handlers[h].callback = "sent"
    /\ handlers' = [handlers EXCEPT ![h].callback = "lost"]
    /\ UNCHANGED <<log, received, restarts>>

Deliver(h) == Arrive(h) \/ Lose(h)

Restart ==
    /\ restarts < MaxRestarts
    /\ restarts' = restarts + 1
    /\ handlers' = [h \in DOMAIN handlers |-> [handlers[h] EXCEPT !.stage = "ended"]]
    /\ log' = <<>>
    /\ UNCHANGED received

Next ==
    \/ \E body \in Bodies : Post(body)
    \/ \E h \in DOMAIN handlers : Serve(h) \/ EndPost(h) \/ Deliver(h)
    \/ Restart

\* The event loop serves every body that was read, Node ends a request that is
\* not (requestTimeout), and fetch does not wait for ever; senders need not post.
Fairness ==
    \A h \in 1 .. MaxEvents :
        /\ WF_vars(h \in DOMAIN handlers /\ Serve(h))
        /\ WF_vars(h \in DOMAIN handlers /\ EndPost(h))
        /\ WF_vars(h \in DOMAIN handlers /\ Deliver(h))

Spec == Init /\ [][Next]_vars /\ Fairness

--------------------------------------------------------------------------------
(* Properties *)

\* The type of every variable; a callback is on its way or beyond just if the
\* event was accepted, and the target has each callback it received once.
TypeOK ==
    /\ handlers \in Seq(Handler)
    /\ \A h \in DOMAIN handlers :
          /\ handlers[h].callback # "none" <=> handlers[h].answer = 202
          /\ handlers[h].callback = "received" <=>
                \E i \in DOMAIN received : received[i] = h
    /\ \A i \in DOMAIN log : log[i].eventType \in EventTypes
    /\ \A i, j \in DOMAIN received :
          /\ received[i] \in DOMAIN handlers
          /\ received[i] = received[j] => i = j
    /\ restarts \in 0 .. MaxRestarts

\* The events the running process accepted with one of these outcomes.
AcceptedHere(id, finalStates) ==
    {h \in DOMAIN handlers :
        /\ handlers[h].process = restarts
        /\ handlers[h].answer = 202
        /\ handlers[h].body.requestId = id
        /\ handlers[h].finalState \in finalStates}

Logged(id, type) ==
    {i \in DOMAIN log : log[i].requestId = id /\ log[i].eventType = type}

\* Nothing is called back without evidence and no evidence is without its
\* callback: however the calls of the listener overlap and whatever senders
\* post twice, the running process has as many releases, blocks and bundles on
\* record for an id as it dispatched callbacks of that kind (index.ts:99, 122).
EvidenceMatchesCallbacks ==
    \A id \in RequestIds :
        /\ Cardinality(Logged(id, "RELEASE_AUTHORIZED")) =
               Cardinality(AcceptedHere(id, {"ALLOW"}))
        /\ Cardinality(Logged(id, "ACTION_BLOCKED")) =
               Cardinality(AcceptedHere(id, {"HOLD", "REJECT"}))
        /\ Cardinality(Logged(id, "EVIDENCE_BUNDLE_CREATED")) =
               Cardinality(AcceptedHere(id, {"ALLOW", "HOLD", "REJECT"}))

Relay == INSTANCE DecisionRelay WITH
    CaseNames <- 1 .. MaxEvents,
    decided <- {[case |-> h, request |-> handlers[h].body,
                 finalState |-> handlers[h].finalState,
                 reason |-> handlers[h].reason] :
                   h \in {k \in DOMAIN handlers : handlers[k].answer = 202}},
    told <- received

\* To the target the adapter is a relay of verdicts: a callback tells the one
\* decision on its event, each is told at most once and in no certain order,
\* and what was held is told as held - "Callback will be sent when resolved"
\* (index.ts:118) comes true only by another event.
ImplementsDecisionRelay == Relay!Spec

Settled(h) ==
    /\ handlers[h].stage = "ended"
    /\ handlers[h].answer = NoAnswer => handlers[h].process < restarts
    /\ handlers[h].answer = 202 => handlers[h].callback \in {"received", "lost"}

\* Every event comes to an end: it is answered and, if it was accepted, its
\* callback reaches the target or is lost, unless the process ended before the
\* event was served; an approval the event waits for delays nothing (index.ts:122).
EventsAreSettled ==
    \A h \in 1 .. MaxEvents :
        h \in DOMAIN handlers ~> (h \in DOMAIN handlers /\ Settled(h))
================================================================================
