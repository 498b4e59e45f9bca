-------------------------- MODULE WebhookAdapterProofs --------------------------
(***************************************************************************)
(* Proofs about WebhookAdapter, for every gate, every set of requests and  *)
(* all bounds: however the calls of the listener overlap, whatever senders *)
(* post again, whatever the network loses, and whenever the process        *)
(* restarts.                                                               *)
(***************************************************************************)
EXTENDS WebhookAdapter, GateChecksProofs, FiniteSetTheorems, TLAPS

--------------------------------------------------------------------------------
(* The inductive invariant. *)

\* What holds of one call of the listener: while it reads it is of the running
\* process and not answered, and what it accepted is what evaluate returns.
HandlerInv(h) ==
    /\ h.process <= restarts
    /\ h.stage = "reading" => h.answer = NoAnswer /\ h.process = restarts
    /\ h.callback # "none" <=> h.answer = 202
    /\ h.answer = 202 =>
          /\ h.body \in Requests
          /\ Answers(Gate, h.body, evaluate(Gate, h.body))
          /\ h.finalState = evaluate(Gate, h.body).finalState
          /\ h.reason = evaluate(Gate, h.body).reason

CallsInv ==
    /\ handlers \in Seq(Handler)
    /\ Len(handlers) <= MaxEvents
    /\ restarts \in 0 .. MaxRestarts
    /\ \A h \in DOMAIN handlers : HandlerInv(handlers[h])

ReceivedInv ==
    /\ received \in Seq(Nat)
    /\ \A i, j \in DOMAIN received :
          /\ received[i] \in DOMAIN handlers
          /\ received[i] = received[j] => i = j
    /\ \A h \in DOMAIN handlers :
          handlers[h].callback = "received" <=> \E i \in DOMAIN received : received[i] = h

\* As many entries of the type are on record for the id as events were accepted
\* with these outcomes.
Counted(id, type, states) ==
    Cardinality(Logged(id, type)) = Cardinality(AcceptedHere(id, states))

EvidenceInv ==
    /\ log \in Seq(LogEntry)
    /\ \A id \in RequestIds :
          /\ Counted(id, "RELEASE_AUTHORIZED", {"ALLOW"})
          /\ Counted(id, "ACTION_BLOCKED", {"HOLD", "REJECT"})
          /\ Counted(id, "EVIDENCE_BUNDLE_CREATED", {"ALLOW", "HOLD", "REJECT"})

AdapterInv == CallsInv /\ ReceivedInv /\ EvidenceInv

--------------------------------------------------------------------------------
(* A step of one call. *)

\* The call h becomes new, and the others are what they were.
Becomes(h, new) ==
    /\ new \in Handler
    /\ Len(handlers') = Len(handlers)
    /\ DOMAIN handlers' = DOMAIN handlers
    /\ handlers' \in Seq(Handler)
    /\ handlers'[h] = new
    /\ \A k \in DOMAIN handlers : k # h => handlers'[k] = handlers[k]

LEMMA CallBecomes ==
    ASSUME handlers \in Seq(Handler), NEW h \in DOMAIN handlers, NEW new \in Handler,
           handlers' = [handlers EXCEPT ![h] = new]
    PROVE  Becomes(h, new)
  <1>1. DOMAIN handlers = 1 .. Len(handlers)
    BY LenProperties
  <1>2. /\ [handlers EXCEPT ![h] = new] \in Seq(Handler)
        /\ Len([handlers EXCEPT ![h] = new]) = Len(handlers)
        /\ \A j \in 1 .. Len(handlers) :
              [handlers EXCEPT ![h] = new][j] = IF j = h THEN new ELSE handlers[j]
    BY <1>1, ExceptSeq
  <1>3. QED
    BY <1>1, <1>2 DEF Becomes

\* The decisions, as the abstract relay sees them.
DecidedEvents ==
    {[case |-> h, request |-> handlers[h].body,
      finalState |-> handlers[h].finalState, reason |-> handlers[h].reason] :
        h \in {k \in DOMAIN handlers : handlers[k].answer = 202}}

LEMMA DecidedCases ==
    Relay!Cases = {h \in DOMAIN handlers : handlers[h].answer = 202}
  <1>1. Relay!Cases = {d.case : d \in DecidedEvents}
    BY DEF Relay!Cases, DecidedEvents
  <1>2. ASSUME NEW h \in DOMAIN handlers, handlers[h].answer = 202
        PROVE  h \in {d.case : d \in DecidedEvents}
    <2>1. PICK d : d = [case |-> h, request |-> handlers[h].body,
                        finalState |-> handlers[h].finalState,
                        reason |-> handlers[h].reason]
      OBVIOUS
    <2>2. d.case = h
      BY <2>1
    <2>3. d \in DecidedEvents
      BY <1>2, <2>1 DEF DecidedEvents
    <2>4. QED
      BY <2>2, <2>3
  <1>3. ASSUME NEW d \in DecidedEvents
        PROVE  d.case \in DOMAIN handlers /\ handlers[d.case].answer = 202
    BY DEF DecidedEvents
  <1>4. QED
    BY <1>1, <1>2, <1>3

\* A step that accepts nothing keeps the account of the log and the decisions.
LEMMA NothingAccepted ==
    ASSUME CallsInv, EvidenceInv, NEW h \in DOMAIN handlers, NEW new, Becomes(h, new),
           new.body = handlers[h].body, new.process = handlers[h].process,
           new.answer = 202 <=> handlers[h].answer = 202,
           new.finalState = handlers[h].finalState, new.reason = handlers[h].reason,
           UNCHANGED <<log, restarts>>, HandlerInv(new)
    PROVE  CallsInv' /\ EvidenceInv' /\ DecidedEvents' = DecidedEvents
  <1>1. /\ DOMAIN handlers' = DOMAIN handlers
        /\ Len(handlers') = Len(handlers)
        /\ handlers' \in Seq(Handler)
        /\ handlers'[h] = new
        /\ \A k \in DOMAIN handlers : k # h => handlers'[k] = handlers[k]
    BY DEF Becomes
  <1>2. \A k \in DOMAIN handlers :
           /\ handlers'[k].body = handlers[k].body
           /\ handlers'[k].process = handlers[k].process
           /\ handlers'[k].answer = 202 <=> handlers[k].answer = 202
           /\ handlers'[k].finalState = handlers[k].finalState
           /\ handlers'[k].reason = handlers[k].reason
    BY <1>1
  <1>3. CallsInv'
    <2>1. \A k \in DOMAIN handlers' : HandlerInv(handlers'[k])
      BY <1>1 DEF CallsInv
    <2>2. QED
      BY <1>1, <2>1 DEF CallsInv, HandlerInv
  <1>4. EvidenceInv'
    <2>1. \A id, states : AcceptedHere(id, states)' = AcceptedHere(id, states)
      BY <1>1, <1>2 DEF AcceptedHere
    <2>2. \A id, type : Logged(id, type)' = Logged(id, type)
      BY DEF Logged
    <2>3. QED
      BY <2>1, <2>2 DEF EvidenceInv, Counted
  <1>5. DecidedEvents' = DecidedEvents
    BY <1>1, <1>2 DEF DecidedEvents
  <1>6. QED
    BY <1>3, <1>4, <1>5

\* The callbacks received are what they were if nothing arrives.
LEMMA NothingArrives ==
    ASSUME ReceivedInv, NEW h \in DOMAIN handlers, NEW new, Becomes(h, new),
           new.callback = "received" <=> handlers[h].callback = "received",
           received' = received
    PROVE  ReceivedInv'
  <1>1. /\ DOMAIN handlers' = DOMAIN handlers
        /\ handlers'[h] = new
        /\ \A k \in DOMAIN handlers : k # h => handlers'[k] = handlers[k]
    BY DEF Becomes
  <1>2. \A k \in DOMAIN handlers :
           handlers'[k].callback = "received" <=> handlers[k].callback = "received"
    BY <1>1
  <1>3. QED
    BY <1>1, <1>2 DEF ReceivedInv

--------------------------------------------------------------------------------
(* The steps. *)

LEMMA CallType ==
    ASSUME CallsInv, NEW h \in DOMAIN handlers
    PROVE  /\ handlers[h] \in Handler /\ HandlerInv(handlers[h])
           /\ handlers \in Seq(Handler)
  BY ElementOfSeq, LenProperties DEF CallsInv

\* A call that is refused was not decided, and is not.
LEMMA RefuseStep ==
    ASSUME AdapterInv, NEW h \in DOMAIN handlers, handlers[h].stage = "reading",
           NEW code \in {400, 422}, EndWith(h, code)
    PROVE  AdapterInv' /\ DecidedEvents' = DecidedEvents /\ received' = received
  <1>1. CallsInv /\ EvidenceInv /\ ReceivedInv
    BY DEF AdapterInv
  <1>2. PICK new : new = [handlers[h] EXCEPT !.stage = "ended", !.answer = code]
    OBVIOUS
  <1>3. handlers[h] \in Handler /\ HandlerInv(handlers[h])
    BY <1>1, CallType
  <1>4. /\ new \in Handler
        /\ new.body = handlers[h].body /\ new.process = handlers[h].process
        /\ new.stage = "ended" /\ new.answer = code
        /\ new.finalState = handlers[h].finalState /\ new.reason = handlers[h].reason
        /\ new.callback = handlers[h].callback
    <2>1. code \in {NoAnswer, 202, 400, 422} /\ "ended" \in {"reading", "posting", "ended"}
      OBVIOUS
    <2>2. PICK ended : ended = [handlers[h] EXCEPT !.stage = "ended"]
      OBVIOUS
    <2>3. /\ ended \in Handler /\ ended.stage = "ended"
          /\ ended.body = handlers[h].body /\ ended.process = handlers[h].process
          /\ ended.finalState = handlers[h].finalState /\ ended.reason = handlers[h].reason
          /\ ended.callback = handlers[h].callback
      BY <1>3, <2>2 DEF Handler
    <2>4. new = [ended EXCEPT !.answer = code]
      BY <1>2, <2>2
    <2>5. QED
      BY <2>1, <2>3, <2>4 DEF Handler
  <1>5. handlers' = [handlers EXCEPT ![h] = new]
    BY <1>2 DEF EndWith
  <1>6. Becomes(h, new)
    BY <1>1, <1>4, <1>5, CallBecomes DEF CallsInv
  <1>7. handlers[h].answer = NoAnswer /\ code # 202 /\ NoAnswer # 202
    BY <1>3 DEF HandlerInv, NoAnswer
  <1>8. HandlerInv(new)
    <2>1. handlers[h].callback = "none" /\ handlers[h].process <= restarts
      BY <1>3, <1>7 DEF HandlerInv, Handler
    <2>2. QED
      BY <1>4, <1>7, <2>1 DEF HandlerInv
  <1>9. UNCHANGED <<log, received, restarts>>
    BY DEF EndWith
  <1>10. CallsInv' /\ EvidenceInv' /\ DecidedEvents' = DecidedEvents
    BY <1>1, <1>4, <1>6, <1>7, <1>8, <1>9, NothingAccepted
  <1>11. ReceivedInv'
    BY <1>1, <1>4, <1>6, <1>9, NothingArrives
  <1>12. QED
    BY <1>9, <1>10, <1>11 DEF AdapterInv

LEMMA EndPostStep ==
    ASSUME AdapterInv, NEW h \in DOMAIN handlers, EndPost(h)
    PROVE  AdapterInv' /\ DecidedEvents' = DecidedEvents /\ received' = received
  <1>1. CallsInv /\ EvidenceInv /\ ReceivedInv
    BY DEF AdapterInv
  <1>2. PICK new : new = [handlers[h] EXCEPT !.stage = "ended"]
    OBVIOUS
  <1>3. handlers[h] \in Handler /\ HandlerInv(handlers[h])
    BY <1>1, CallType
  <1>4. /\ new \in Handler
        /\ new.body = handlers[h].body /\ new.process = handlers[h].process
        /\ new.stage = "ended" /\ new.answer = handlers[h].answer
        /\ new.finalState = handlers[h].finalState /\ new.reason = handlers[h].reason
        /\ new.callback = handlers[h].callback
    BY <1>2, <1>3 DEF Handler
  <1>5. handlers' = [handlers EXCEPT ![h] = new] /\ UNCHANGED <<log, received, restarts>>
    BY <1>2 DEF EndPost
  <1>6. Becomes(h, new)
    BY <1>1, <1>4, <1>5, CallBecomes DEF CallsInv
  <1>7. HandlerInv(new)
    BY <1>3, <1>4 DEF HandlerInv
  <1>8. CallsInv' /\ EvidenceInv' /\ DecidedEvents' = DecidedEvents
    BY <1>1, <1>4, <1>5, <1>6, <1>7, NothingAccepted
  <1>9. ReceivedInv'
    BY <1>1, <1>4, <1>5, <1>6, NothingArrives
  <1>10. QED
    BY <1>5, <1>8, <1>9 DEF AdapterInv

\* A callback that was sent becomes one that was received or lost.
LEMMA CallbackBecomes ==
    ASSUME AdapterInv, NEW h \in DOMAIN handlers, handlers[h].callback = "sent",
           NEW c \in {"received", "lost"},
           handlers' = [handlers EXCEPT ![h].callback = c],
           UNCHANGED <<log, restarts>>
    PROVE  /\ CallsInv' /\ EvidenceInv' /\ DecidedEvents' = DecidedEvents
           /\ handlers[h].answer = 202
           /\ \E new : Becomes(h, new) /\ new.callback = c
  <1>1. CallsInv /\ EvidenceInv
    BY DEF AdapterInv
  <1>2. PICK new : new = [handlers[h] EXCEPT !.callback = c]
    OBVIOUS
  <1>3. handlers[h] \in Handler /\ HandlerInv(handlers[h])
    BY <1>1, CallType
  <1>4. /\ new \in Handler
        /\ new.body = handlers[h].body /\ new.process = handlers[h].process
        /\ new.stage = handlers[h].stage /\ new.answer = handlers[h].answer
        /\ new.finalState = handlers[h].finalState /\ new.reason = handlers[h].reason
        /\ new.callback = c
    BY <1>2, <1>3 DEF Handler
  <1>5. handlers' = [handlers EXCEPT ![h] = new]
    BY <1>2
  <1>6. Becomes(h, new)
    BY <1>1, <1>4, <1>5, CallBecomes DEF CallsInv
  <1>7. handlers[h].answer = 202
    BY <1>3 DEF HandlerInv
  <1>8. HandlerInv(new)
    BY <1>3, <1>4, <1>7 DEF HandlerInv
  <1>9. CallsInv' /\ EvidenceInv' /\ DecidedEvents' = DecidedEvents
    BY <1>1, <1>4, <1>6, <1>8, NothingAccepted
  <1>10. QED
    BY <1>4, <1>6, <1>7, <1>9

LEMMA LoseStep ==
    ASSUME AdapterInv, NEW h \in DOMAIN handlers, Lose(h)
    PROVE  AdapterInv' /\ DecidedEvents' = DecidedEvents /\ received' = received
  <1>1. /\ handlers[h].callback = "sent"
        /\ handlers' = [handlers EXCEPT ![h].callback = "lost"]
        /\ UNCHANGED <<log, received, restarts>>
    BY DEF Lose
  <1>2. /\ CallsInv' /\ EvidenceInv' /\ DecidedEvents' = DecidedEvents
        /\ \E new : Becomes(h, new) /\ new.callback = "lost"
    BY <1>1, CallbackBecomes
  <1>3. ReceivedInv'
    BY <1>1, <1>2, NothingArrives DEF AdapterInv
  <1>4. QED
    BY <1>1, <1>2, <1>3 DEF AdapterInv

\* The callback of a call that was accepted arrives for the first time.
LEMMA ArriveStep ==
    ASSUME AdapterInv, NEW h \in DOMAIN handlers, Arrive(h)
    PROVE  /\ AdapterInv' /\ DecidedEvents' = DecidedEvents
           /\ h \in Relay!Cases \ Relay!Told
           /\ received' = Append(received, h)
  <1>1. /\ handlers[h].callback = "sent"
        /\ handlers' = [handlers EXCEPT ![h].callback = "received"]
        /\ received' = Append(received, h)
        /\ UNCHANGED <<log, restarts>>
    BY DEF Arrive
  <1>2. /\ CallsInv' /\ EvidenceInv' /\ DecidedEvents' = DecidedEvents
        /\ handlers[h].answer = 202
        /\ \E new : Becomes(h, new) /\ new.callback = "received"
    BY <1>1, CallbackBecomes
  <1>3. /\ DOMAIN handlers' = DOMAIN handlers
        /\ handlers'[h].callback = "received"
        /\ \A k \in DOMAIN handlers : k # h => handlers'[k] = handlers[k]
    BY <1>2 DEF Becomes
  <1>4. ReceivedInv
    BY DEF AdapterInv
  <1>5. \A i \in DOMAIN received : received[i] # h
    BY <1>1, <1>4 DEF ReceivedInv
  <1>6. h \in Nat
    BY LenProperties DEF AdapterInv, CallsInv
  <1>7. PICK n \in Nat : n = Len(received) /\ DOMAIN received = 1 .. n
    BY <1>4, LenProperties DEF ReceivedInv
  <1>8. /\ received' \in Seq(Nat) /\ Len(received') = n + 1
        /\ received'[n + 1] = h
        /\ \A i \in 1 .. n : received'[i] = received[i]
    BY <1>1, <1>4, <1>6, <1>7, AppendProperties DEF ReceivedInv
  <1>9. DOMAIN received' = 1 .. (n + 1)
    BY <1>8, LenProperties
  <1>10. \A i \in 1 .. (n + 1) : i \in 1 .. n \/ i = n + 1
    OBVIOUS
  <1>11. n + 1 \in 1 .. (n + 1) /\ \A i \in 1 .. n : i \in 1 .. (n + 1)
    OBVIOUS
  <1>12. ASSUME NEW i \in DOMAIN received', NEW j \in DOMAIN received'
         PROVE  /\ received'[i] \in DOMAIN handlers'
                /\ received'[i] = received'[j] => i = j
    <2>1. \A k \in 1 .. n : received[k] \in DOMAIN handlers /\ received[k] # h
      BY <1>4, <1>5, <1>7 DEF ReceivedInv
    <2>2. \A k, l \in 1 .. n : received[k] = received[l] => k = l
      BY <1>4, <1>7 DEF ReceivedInv
    <2>3. /\ i \in 1 .. n \/ i = n + 1
          /\ j \in 1 .. n \/ j = n + 1
      BY <1>9, <1>10
    <2>4. received'[i] \in DOMAIN handlers'
      BY <1>3, <1>8, <2>1, <2>3
    <2>5. received'[i] = received'[j] => i = j
      BY <1>8, <2>1, <2>2, <2>3
    <2>6. QED
      BY <2>4, <2>5
  <1>13. ASSUME NEW k \in DOMAIN handlers
         PROVE  handlers'[k].callback = "received" <=>
                   \E i \in DOMAIN received' : received'[i] = k
    <2>1. CASE k = h
      BY <1>3, <1>8, <1>9, <1>11, <2>1
    <2>2. CASE k # h
      <3>1. handlers'[k].callback = "received" <=> \E i \in DOMAIN received : received[i] = k
        BY <1>3, <1>4, <2>2 DEF ReceivedInv
      <3>2. ASSUME NEW i \in DOMAIN received', received'[i] = k
            PROVE  i \in DOMAIN received /\ received[i] = k
        BY <1>7, <1>8, <1>9, <1>10, <2>2, <3>2
      <3>3. ASSUME NEW i \in DOMAIN received, received[i] = k
            PROVE  i \in DOMAIN received' /\ received'[i] = k
        BY <1>7, <1>8, <1>9, <1>11, <3>3
      <3>4. QED
        BY <3>1, <3>2, <3>3
    <2>3. QED
      BY <2>1, <2>2
  <1>14. ReceivedInv'
    BY <1>3, <1>8, <1>12, <1>13 DEF ReceivedInv
  <1>15. h \in Relay!Cases
    BY <1>2, DecidedCases
  <1>16. h \notin Relay!Told
    BY <1>5 DEF Relay!Told
  <1>17. QED
    BY <1>1, <1>2, <1>14, <1>15, <1>16 DEF AdapterInv

\* What Accept does to its call, to the log and to the decisions.
Accepted(h, request, result, new) ==
    /\ request \in Requests /\ request \in GovernedRequestType
    /\ result = evaluate(Gate, request) /\ Answers(Gate, request, result)
    /\ handlers[h].stage = "reading" /\ handlers[h].answer # 202
    /\ handlers[h].body = request /\ handlers[h].process = restarts
    /\ new.body = request /\ new.process = restarts /\ new.stage = "posting"
    /\ new.answer = 202
    /\ new.finalState = result.finalState /\ new.reason = result.reason
    /\ handlers[h].callback = "none" /\ new.callback = "sent"
    /\ Becomes(h, new)
    /\ IsRecord(log, log', request, result)
    /\ UNCHANGED <<received, restarts>>

LEMMA AcceptIs ==
    ASSUME AdapterInv, NEW h \in DOMAIN handlers, Accept(h)
    PROVE  \E request, result, new : Accepted(h, request, result, new)
  <1>1. CallsInv /\ EvidenceInv
    BY DEF AdapterInv
  <1>2. PICK old : old = handlers[h]
    OBVIOUS
  <1>3. old \in Handler /\ HandlerInv(old)
    BY <1>1, <1>2, CallType
  <1>4. PICK request, result : request = old.body /\ result = evaluate(Gate, request)
    OBVIOUS
  <1>5. /\ old.stage = "reading" /\ request # NotJson /\ result # Threw
        /\ log' = log \o NewEntries(log, request.requestId, Events(result))
        /\ UNCHANGED <<received, restarts>>
    BY <1>2, <1>4 DEF Accept
  <1>6. request \in Requests /\ request \in GovernedRequestType
    BY <1>3, <1>4, <1>5, RequestsAssumption DEF Handler, Bodies
  <1>7. Answers(Gate, request, result)
    BY <1>4, <1>5, <1>6, GateAssumption, EvaluateAnswers
  <1>8. IsRecord(log, log', request, result)
    BY <1>1, <1>5, <1>6, <1>7, GateAssumption, RecordOfAnswer DEF EvidenceInv
  <1>9. old.process = restarts /\ old.answer # 202 /\ old.callback = "none"
    BY <1>3, <1>5 DEF HandlerInv, NoAnswer, Handler
  <1>10. PICK new : new = [old EXCEPT !.stage = "posting", !.answer = 202,
                                      !.finalState = result.finalState,
                                      !.reason = result.reason, !.callback = "sent"]
    OBVIOUS
  <1>11. handlers' = [handlers EXCEPT ![h] = new]
    <2>1. handlers' = [handlers EXCEPT ![h].stage = "posting", ![h].answer = 202,
                                       ![h].finalState = result.finalState,
                                       ![h].reason = result.reason,
                                       ![h].callback = "sent"]
      BY <1>2, <1>4 DEF Accept
    <2>2. PICK h1 : h1 = [handlers EXCEPT ![h].stage = "posting"]
      OBVIOUS
    <2>3. PICK h2 : h2 = [h1 EXCEPT ![h].answer = 202]
      OBVIOUS
    <2>4. PICK h3 : h3 = [h2 EXCEPT ![h].finalState = result.finalState]
      OBVIOUS
    <2>5. PICK h4 : h4 = [h3 EXCEPT ![h].reason = result.reason]
      OBVIOUS
    <2>6. handlers' = [h4 EXCEPT ![h].callback = "sent"]
      BY <2>1, <2>2, <2>3, <2>4, <2>5
    <2>7. h1 = [handlers EXCEPT ![h] = [old EXCEPT !.stage = "posting"]]
      BY <1>2, <2>2
    <2>8. h2 = [handlers EXCEPT ![h] = [old EXCEPT !.stage = "posting", !.answer = 202]]
      BY <2>3, <2>7
    <2>9. h3 = [handlers EXCEPT ![h] = [old EXCEPT !.stage = "posting", !.answer = 202,
                                                   !.finalState = result.finalState]]
      BY <2>4, <2>8
    <2>10. h4 = [handlers EXCEPT ![h] = [old EXCEPT !.stage = "posting", !.answer = 202,
                                                    !.finalState = result.finalState,
                                                    !.reason = result.reason]]
      BY <2>5, <2>9
    <2>11. QED
      BY <1>10, <2>6, <2>10
  <1>12. new = [body |-> old.body, process |-> old.process, stage |-> "posting",
                answer |-> 202, finalState |-> result.finalState,
                reason |-> result.reason, callback |-> "sent"]
    <2>1. old = [body |-> old.body, process |-> old.process, stage |-> old.stage,
                 answer |-> old.answer, finalState |-> old.finalState,
                 reason |-> old.reason, callback |-> old.callback]
      BY <1>3 DEF Handler
    <2>2. QED
      BY <1>10, <2>1
  <1>13. /\ result.finalState \in {"ALLOW", "HOLD", "REJECT"}
         /\ result.reason \in ReasonCodes \cup {"DECISION_ALLOWED"}
    BY <1>7 DEF Answers
  <1>14. new \in Handler
    <2>1. old.body \in Bodies /\ old.process \in 0 .. MaxRestarts
      BY <1>3 DEF Handler
    <2>2. 202 \in {NoAnswer, 202, 400, 422}
      OBVIOUS
    <2>3. QED
      BY <1>12, <1>13, <2>1, <2>2 DEF Handler
  <1>15. Becomes(h, new)
    BY <1>1, <1>11, <1>14, CallBecomes DEF CallsInv
  <1>16. Accepted(h, request, result, new)
    BY <1>2, <1>4, <1>5, <1>6, <1>7, <1>8, <1>9, <1>12, <1>15 DEF Accepted
  <1>17. QED
    BY <1>16

\* The set of the calls accepted in the running process is finite, and so is
\* that of the entries.
LEMMA CountedSetsFinite ==
    ASSUME CallsInv, EvidenceInv, NEW id, NEW type, NEW states
    PROVE  /\ IsFiniteSet(Logged(id, type)) /\ IsFiniteSet(AcceptedHere(id, states))
           /\ Cardinality(Logged(id, type)) \in Nat
           /\ Cardinality(AcceptedHere(id, states)) \in Nat
  <1>1. DOMAIN log = 1 .. Len(log) /\ Len(log) \in Nat
    BY LenProperties DEF EvidenceInv
  <1>2. DOMAIN handlers = 1 .. Len(handlers) /\ Len(handlers) \in Nat
    BY LenProperties DEF CallsInv
  <1>3. IsFiniteSet(DOMAIN log) /\ IsFiniteSet(DOMAIN handlers)
    BY <1>1, <1>2, FS_Interval
  <1>4. Logged(id, type) \subseteq DOMAIN log /\ AcceptedHere(id, states) \subseteq DOMAIN handlers
    BY DEF Logged, AcceptedHere
  <1>5. IsFiniteSet(Logged(id, type)) /\ IsFiniteSet(AcceptedHere(id, states))
    BY <1>3, <1>4, FS_Subset
  <1>6. QED
    BY <1>5, FS_CardinalityType

\* One entry of the type for an event with one of these outcomes, and none for
\* another event: the k-th of the three.
LEMMA AcceptCounts ==
    ASSUME CallsInv, EvidenceInv, NEW h \in DOMAIN handlers, NEW request, NEW result, NEW new,
           Accepted(h, request, result, new),
           NEW id, NEW type, NEW states, NEW k \in 1 .. 3,
           \A j \in 1 .. 3 : log'[Len(log) + j].eventType = type
                                 <=> j = k /\ result.finalState \in states,
           Counted(id, type, states)
    PROVE  Counted(id, type, states)'
  <1>1. PICK n \in Nat : n = Len(log) /\ DOMAIN log = 1 .. n
    BY LenProperties DEF EvidenceInv
  <1>2. /\ log' \in Seq(LogEntry) /\ Len(log') = n + 3
        /\ \A i \in 1 .. n : log'[i] = log[i]
        /\ \A j \in 1 .. 3 : log'[n + j].requestId = request.requestId
    <2>1. IsRecord(log, log', request, result)
      BY DEF Accepted
    <2>2. /\ log'[n + 1].requestId = request.requestId
          /\ log'[n + 2].requestId = request.requestId
          /\ log'[n + 3].requestId = request.requestId
      BY <1>1, <2>1 DEF IsRecord, EntryOf
    <2>3. QED
      BY <1>1, <2>1, <2>2 DEF IsRecord
  <1>3. DOMAIN log' = 1 .. (n + 3)
    BY <1>2, LenProperties
  <1>4. \A j \in 1 .. 3 : log'[n + j].eventType = type <=> j = k /\ result.finalState \in states
    BY <1>1
  <1>5. /\ \A i \in 1 .. (n + 3) : i \in 1 .. n \/ \E j \in 1 .. 3 : i = n + j
        /\ \A i \in 1 .. n : i \in 1 .. (n + 3)
        /\ \A j \in 1 .. 3 : n + j \in 1 .. (n + 3) /\ n + j \notin 1 .. n
    <2>1. ASSUME NEW i \in 1 .. (n + 3), i \notin 1 .. n PROVE \E j \in 1 .. 3 : i = n + j
      <3>1. i - n \in 1 .. 3 /\ i = n + (i - n)
        BY <2>1
      <3>2. QED
        BY <3>1
    <2>2. QED
      BY <2>1
  <1>6. /\ handlers'[h] = new /\ DOMAIN handlers' = DOMAIN handlers
        /\ \A i \in DOMAIN handlers : i # h => handlers'[i] = handlers[i]
        /\ new.process = restarts /\ new.answer = 202 /\ new.body = request
        /\ new.finalState = result.finalState
        /\ handlers[h].answer # 202 /\ restarts' = restarts
    BY DEF Accepted, Becomes
  <1>7. /\ IsFiniteSet(Logged(id, type)) /\ IsFiniteSet(AcceptedHere(id, states))
    BY CountedSetsFinite
  <1>8. h \notin AcceptedHere(id, states)
    BY <1>6 DEF AcceptedHere
  <1>9. CASE id = request.requestId /\ result.finalState \in states
    <2>1. Logged(id, type)' = Logged(id, type) \cup {n + k}
      <3>1. ASSUME NEW i \in Logged(id, type)' PROVE i \in Logged(id, type) \cup {n + k}
        BY <1>1, <1>2, <1>3, <1>4, <1>5, <3>1 DEF Logged
      <3>2. Logged(id, type) \subseteq Logged(id, type)'
        BY <1>1, <1>2, <1>3, <1>5 DEF Logged
      <3>3. n + k \in Logged(id, type)'
        BY <1>2, <1>3, <1>4, <1>5, <1>9 DEF Logged
      <3>4. QED
        BY <3>1, <3>2, <3>3
    <2>2. n + k \notin Logged(id, type)
      BY <1>1, <1>5 DEF Logged
    <2>3. AcceptedHere(id, states)' = AcceptedHere(id, states) \cup {h}
      BY <1>6, <1>9 DEF AcceptedHere
    <2>4. Cardinality(Logged(id, type)') = Cardinality(Logged(id, type)) + 1
      BY <1>7, <2>1, <2>2, FS_AddElement
    <2>5. Cardinality(AcceptedHere(id, states)') = Cardinality(AcceptedHere(id, states)) + 1
      BY <1>7, <1>8, <2>3, FS_AddElement
    <2>6. QED
      BY <2>4, <2>5 DEF Counted
  <1>10. CASE ~ (id = request.requestId /\ result.finalState \in states)
    <2>1. Logged(id, type)' = Logged(id, type)
      <3>1. ASSUME NEW i \in Logged(id, type)' PROVE i \in Logged(id, type)
        BY <1>1, <1>2, <1>3, <1>4, <1>5, <1>10, <3>1 DEF Logged
      <3>2. Logged(id, type) \subseteq Logged(id, type)'
        BY <1>1, <1>2, <1>3, <1>5 DEF Logged
      <3>3. QED
        BY <3>1, <3>2
    <2>2. AcceptedHere(id, states)' = AcceptedHere(id, states)
      BY <1>6, <1>8, <1>10 DEF AcceptedHere
    <2>3. QED
      BY <2>1, <2>2 DEF Counted
  <1>11. QED
    BY <1>9, <1>10

\* evaluate, createBundle and the answer, as one step: a decision and its record.
LEMMA AcceptStep ==
    ASSUME AdapterInv, NEW h \in DOMAIN handlers, Accept(h)
    PROVE  /\ AdapterInv' /\ received' = received
           /\ \E request, result, new : /\ Accepted(h, request, result, new)
                                        /\ DecidedEvents' = DecidedEvents \cup
                                              {[case |-> h, request |-> request,
                                                finalState |-> result.finalState,
                                                reason |-> result.reason]}
  <1>1. PICK request, result, new : Accepted(h, request, result, new)
    BY AcceptIs
  <1>2. CallsInv /\ EvidenceInv /\ ReceivedInv
    BY DEF AdapterInv
  <1>3. /\ handlers'[h] = new /\ DOMAIN handlers' = DOMAIN handlers
        /\ Len(handlers') = Len(handlers) /\ handlers' \in Seq(Handler)
        /\ \A i \in DOMAIN handlers : i # h => handlers'[i] = handlers[i]
        /\ UNCHANGED <<received, restarts>>
        /\ handlers[h].answer # 202
    BY <1>1 DEF Accepted, Becomes
  <1>4. CallsInv'
    <2>1. HandlerInv(new)
      <3>1. "posting" # "reading" /\ "sent" # "none" /\ restarts <= restarts
        BY <1>2 DEF CallsInv
      <3>2. QED
        BY <1>1, <3>1 DEF Accepted, HandlerInv
    <2>2. \A i \in DOMAIN handlers' : HandlerInv(handlers'[i])
      BY <1>2, <1>3, <2>1 DEF CallsInv
    <2>3. QED
      BY <1>2, <1>3, <2>2 DEF CallsInv, HandlerInv
  <1>5. ReceivedInv'
    <2>1. /\ Becomes(h, new) /\ received' = received
          /\ new.callback = "received" <=> handlers[h].callback = "received"
      BY <1>1 DEF Accepted
    <2>2. QED
      BY <1>2, <2>1, NothingArrives
  <1>6. EvidenceInv'
    <2>1. PICK n : n = Len(log)
      OBVIOUS
    <2>2. /\ log' \in Seq(LogEntry)
          /\ log'[n + 1].eventType = "REQUEST_EVALUATED"
          /\ log'[n + 2].eventType = IF result.finalState = "ALLOW"
                                     THEN "RELEASE_AUTHORIZED" ELSE "ACTION_BLOCKED"
          /\ log'[n + 3].eventType = "EVIDENCE_BUNDLE_CREATED"
          /\ result.finalState \in {"ALLOW", "HOLD", "REJECT"}
      BY <1>1, <2>1
      DEF Accepted, IsRecord, EntryOf, EvaluatedEvent, OutcomeEvent, ReleaseEvent,
          BlockedEvent, BundleEvent, Event, Answers
    <2>3. \A j \in 1 .. 3 : j = 1 \/ j = 2 \/ j = 3
      OBVIOUS
    <2>4. \A j \in 1 .. 3 : log'[n + j].eventType = "RELEASE_AUTHORIZED"
                                <=> j = 2 /\ result.finalState \in {"ALLOW"}
      BY <2>2, <2>3
    <2>5. \A j \in 1 .. 3 : log'[n + j].eventType = "ACTION_BLOCKED"
                                <=> j = 2 /\ result.finalState \in {"HOLD", "REJECT"}
      BY <2>2, <2>3
    <2>6. \A j \in 1 .. 3 : log'[n + j].eventType = "EVIDENCE_BUNDLE_CREATED"
                                <=> j = 3 /\ result.finalState \in {"ALLOW", "HOLD", "REJECT"}
      BY <2>2, <2>3
    <2>7. ASSUME NEW id \in RequestIds
          PROVE  /\ Counted(id, "RELEASE_AUTHORIZED", {"ALLOW"})'
                 /\ Counted(id, "ACTION_BLOCKED", {"HOLD", "REJECT"})'
                 /\ Counted(id, "EVIDENCE_BUNDLE_CREATED", {"ALLOW", "HOLD", "REJECT"})'
      <3>1. /\ Counted(id, "RELEASE_AUTHORIZED", {"ALLOW"})
            /\ Counted(id, "ACTION_BLOCKED", {"HOLD", "REJECT"})
            /\ Counted(id, "EVIDENCE_BUNDLE_CREATED", {"ALLOW", "HOLD", "REJECT"})
        BY <1>2 DEF EvidenceInv
      <3>2. 2 \in 1 .. 3 /\ 3 \in 1 .. 3
        OBVIOUS
      <3>3. Counted(id, "RELEASE_AUTHORIZED", {"ALLOW"})'
        BY <1>1, <1>2, <2>1, <2>4, <3>1, <3>2, AcceptCounts
      <3>4. Counted(id, "ACTION_BLOCKED", {"HOLD", "REJECT"})'
        BY <1>1, <1>2, <2>1, <2>5, <3>1, <3>2, AcceptCounts
      <3>5. Counted(id, "EVIDENCE_BUNDLE_CREATED", {"ALLOW", "HOLD", "REJECT"})'
        BY <1>1, <1>2, <2>1, <2>6, <3>1, <3>2, AcceptCounts
      <3>6. QED
        BY <3>3, <3>4, <3>5
    <2>8. QED
      BY <2>2, <2>7 DEF EvidenceInv
  <1>7. DecidedEvents' = DecidedEvents \cup
           {[case |-> h, request |-> request, finalState |-> result.finalState,
             reason |-> result.reason]}
    <2>1. {k \in DOMAIN handlers' : handlers'[k].answer = 202} =
              {k \in DOMAIN handlers : handlers[k].answer = 202} \cup {h}
      BY <1>1, <1>3 DEF Accepted
    <2>2. \A k \in {k \in DOMAIN handlers : handlers[k].answer = 202} :
              handlers'[k] = handlers[k]
      BY <1>3
    <2>3. [case |-> h, request |-> handlers'[h].body,
           finalState |-> handlers'[h].finalState, reason |-> handlers'[h].reason] =
              [case |-> h, request |-> request, finalState |-> result.finalState,
               reason |-> result.reason]
      BY <1>1, <1>3 DEF Accepted
    <2>4. QED
      BY <2>1, <2>2, <2>3 DEF DecidedEvents
  <1>8. QED
    BY <1>1, <1>3, <1>4, <1>5, <1>6, <1>7 DEF AdapterInv

LEMMA PostStep ==
    ASSUME AdapterInv, NEW body \in Bodies, Post(body)
    PROVE  AdapterInv' /\ DecidedEvents' = DecidedEvents /\ received' = received
  <1>1. CallsInv /\ EvidenceInv /\ ReceivedInv
    BY DEF AdapterInv
  <1>2. PICK new : new = [body |-> body, process |-> restarts, stage |-> "reading",
                          answer |-> NoAnswer, finalState |-> Null, reason |-> Null,
                          callback |-> "none"]
    OBVIOUS
  <1>3. /\ Len(handlers) < MaxEvents
        /\ handlers' = Append(handlers, new)
        /\ UNCHANGED <<log, received, restarts>>
    BY <1>2 DEF Post
  <1>4. new \in Handler
    <2>1. NoAnswer \in {NoAnswer, 202, 400, 422} /\ restarts \in 0 .. MaxRestarts
      BY <1>1 DEF CallsInv
    <2>2. QED
      BY <1>2, <2>1 DEF Handler
  <1>5. /\ new.process = restarts /\ new.answer = NoAnswer /\ new.callback = "none"
        /\ new.answer # 202
    BY <1>2 DEF NoAnswer
  <1>6. HandlerInv(new)
    BY <1>1, <1>5 DEF HandlerInv, CallsInv
  <1>7. PICK n \in Nat : n = Len(handlers) /\ DOMAIN handlers = 1 .. n
    BY <1>1, LenProperties DEF CallsInv
  <1>8. /\ handlers' \in Seq(Handler) /\ Len(handlers') = n + 1
        /\ handlers'[n + 1] = new
        /\ \A i \in 1 .. n : handlers'[i] = handlers[i]
    BY <1>1, <1>3, <1>4, <1>7, AppendProperties DEF CallsInv
  <1>9. DOMAIN handlers' = 1 .. (n + 1)
    BY <1>8, LenProperties
  <1>10. /\ \A i \in 1 .. (n + 1) : i \in 1 .. n \/ i = n + 1
         /\ \A i \in 1 .. n : i \in 1 .. (n + 1)
         /\ n + 1 \notin 1 .. n
    OBVIOUS
  <1>11. CallsInv'
    <2>1. \A i \in DOMAIN handlers' : HandlerInv(handlers'[i])
      BY <1>1, <1>6, <1>7, <1>8, <1>9, <1>10 DEF CallsInv
    <2>2. n + 1 <= MaxEvents
      BY <1>3, <1>7, BoundsAssumption
    <2>3. QED
      BY <1>1, <1>3, <1>8, <2>1, <2>2 DEF CallsInv, HandlerInv
  <1>12. EvidenceInv'
    <2>1. \A id, states : AcceptedHere(id, states)' = AcceptedHere(id, states)
      BY <1>3, <1>5, <1>7, <1>8, <1>9, <1>10 DEF AcceptedHere
    <2>2. \A id, type : Logged(id, type)' = Logged(id, type)
      BY <1>3 DEF Logged
    <2>3. QED
      BY <1>1, <1>3, <2>1, <2>2 DEF EvidenceInv, Counted
  <1>13. ReceivedInv'
    <2>1. \A i \in DOMAIN received : received[i] \in 1 .. n
      BY <1>1, <1>7 DEF ReceivedInv
    <2>2. QED
      BY <1>1, <1>3, <1>5, <1>7, <1>8, <1>9, <1>10, <2>1 DEF ReceivedInv
  <1>14. DecidedEvents' = DecidedEvents
    <2>1. {k \in DOMAIN handlers' : handlers'[k].answer = 202} =
              {k \in DOMAIN handlers : handlers[k].answer = 202}
      BY <1>5, <1>7, <1>8, <1>9, <1>10
    <2>2. \A k \in {k \in DOMAIN handlers : handlers[k].answer = 202} :
              handlers'[k] = handlers[k]
      BY <1>7, <1>8
    <2>3. QED
      BY <2>1, <2>2 DEF DecidedEvents
  <1>15. QED
    BY <1>3, <1>11, <1>12, <1>13, <1>14 DEF AdapterInv

\* A restart ends every call, and the log with the process it is about.
LEMMA RestartStep ==
    ASSUME AdapterInv, Restart
    PROVE  AdapterInv' /\ DecidedEvents' = DecidedEvents /\ received' = received
  <1>1. CallsInv /\ EvidenceInv /\ ReceivedInv
    BY DEF AdapterInv
  <1>2. /\ restarts < MaxRestarts /\ restarts' = restarts + 1
        /\ log' = <<>> /\ received' = received
        /\ handlers' = [h \in DOMAIN handlers |-> [handlers[h] EXCEPT !.stage = "ended"]]
    BY DEF Restart
  <1>3. PICK n \in Nat : n = Len(handlers) /\ DOMAIN handlers = 1 .. n
    BY <1>1, LenProperties DEF CallsInv
  <1>4. DOMAIN handlers' = 1 .. n
    BY <1>2, <1>3
  <1>5. ASSUME NEW h \in 1 .. n
        PROVE  /\ handlers'[h] \in Handler
               /\ handlers'[h].body = handlers[h].body
               /\ handlers'[h].process = handlers[h].process
               /\ handlers'[h].stage = "ended"
               /\ handlers'[h].answer = handlers[h].answer
               /\ handlers'[h].finalState = handlers[h].finalState
               /\ handlers'[h].reason = handlers[h].reason
               /\ handlers'[h].callback = handlers[h].callback
    <2>1. handlers[h] \in Handler
      BY <1>1, <1>3, CallType
    <2>2. handlers'[h] = [handlers[h] EXCEPT !.stage = "ended"]
      BY <1>2, <1>3
    <2>3. QED
      BY <2>1, <2>2 DEF Handler
  <1>6. handlers' \in Seq(Handler) /\ Len(handlers') = n
    <2>1. handlers' \in [1 .. n -> Handler]
      BY <1>2, <1>3, <1>4, <1>5
    <2>2. handlers' \in Seq(Handler)
      BY <2>1, SeqDef
    <2>3. QED
      BY <1>4, <2>2, LenProperties
  <1>7. restarts \in Nat /\ restarts' \in 0 .. MaxRestarts
    BY <1>1, <1>2, BoundsAssumption DEF CallsInv
  <1>8. \A h \in 1 .. n : handlers'[h].process \in Nat /\ handlers'[h].process < restarts'
    <2>1. ASSUME NEW h \in 1 .. n
          PROVE  handlers[h].process \in Nat /\ handlers[h].process <= restarts
      BY <1>1, <1>3, CallType DEF HandlerInv, Handler
    <2>2. \A p \in Nat : p <= restarts => p < restarts'
      BY <1>2, <1>7
    <2>3. QED
      BY <1>5, <2>1, <2>2
  <1>9. CallsInv'
    <2>1. ASSUME NEW h \in 1 .. n PROVE HandlerInv(handlers[h])'
      <3>1. HandlerInv(handlers[h])
        BY <1>1, <1>3, CallType
      <3>2. handlers'[h].process <= restarts'
        BY <1>7, <1>8
      <3>3. QED
        BY <1>5, <3>1, <3>2 DEF HandlerInv
    <2>2. QED
      BY <1>1, <1>3, <1>4, <1>6, <1>7, <2>1 DEF CallsInv
  <1>10. EvidenceInv'
    <2>1. \A id, states : AcceptedHere(id, states)' = {}
      BY <1>4, <1>7, <1>8 DEF AcceptedHere
    <2>2. \A id, type : Logged(id, type)' = {}
      BY <1>2 DEF Logged
    <2>3. log' \in Seq(LogEntry)
      BY <1>2
    <2>4. QED
      BY <2>1, <2>2, <2>3 DEF EvidenceInv, Counted
  <1>11. ReceivedInv'
    BY <1>1, <1>2, <1>3, <1>4, <1>5 DEF ReceivedInv
  <1>12. DecidedEvents' = DecidedEvents
    <2>1. {k \in DOMAIN handlers' : handlers'[k].answer = 202} =
              {k \in DOMAIN handlers : handlers[k].answer = 202}
      BY <1>3, <1>4, <1>5
    <2>2. \A k \in {k \in DOMAIN handlers : handlers[k].answer = 202} :
              /\ handlers'[k].body = handlers[k].body
              /\ handlers'[k].finalState = handlers[k].finalState
              /\ handlers'[k].reason = handlers[k].reason
      BY <1>3, <1>5
    <2>3. QED
      BY <2>1, <2>2 DEF DecidedEvents
  <1>13. QED
    BY <1>2, <1>9, <1>10, <1>11, <1>12 DEF AdapterInv

LEMMA AdapterInit == Init => AdapterInv
  <1> SUFFICES ASSUME Init PROVE AdapterInv
    OBVIOUS
  <1>1. handlers = <<>> /\ log = <<>> /\ received = <<>> /\ restarts = 0
    BY DEF Init
  <1>2. /\ handlers \in Seq(Handler) /\ Len(handlers) = 0 /\ DOMAIN handlers = {}
        /\ log \in Seq(LogEntry) /\ DOMAIN log = {}
        /\ received \in Seq(Nat) /\ DOMAIN received = {}
    BY <1>1
  <1>3. CallsInv
    BY <1>1, <1>2, BoundsAssumption DEF CallsInv
  <1>4. ReceivedInv
    BY <1>2 DEF ReceivedInv
  <1>5. EvidenceInv
    BY <1>2 DEF EvidenceInv, Counted, Logged, AcceptedHere
  <1>6. QED
    BY <1>3, <1>4, <1>5 DEF AdapterInv

\* A step of the adapter keeps the invariant.  It decides one case, or tells of
\* one, or does nothing that the abstract relay sees.
AdapterStep ==
    \/ UNCHANGED <<DecidedEvents, received>>
    \/ \E h \in DOMAIN handlers : /\ h \in Relay!Cases \ Relay!Told
                                  /\ received' = Append(received, h)
                                  /\ DecidedEvents' = DecidedEvents
    \/ \E h \in DOMAIN handlers : \E request, result, new :
          /\ Accepted(h, request, result, new)
          /\ received' = received
          /\ DecidedEvents' = DecidedEvents \cup
                {[case |-> h, request |-> request,
                  finalState |-> result.finalState, reason |-> result.reason]}

LEMMA AdapterSteps ==
    ASSUME AdapterInv, [Next]_vars
    PROVE  AdapterInv' /\ AdapterStep
  <1>1. ASSUME NEW body \in Bodies, Post(body) PROVE AdapterInv' /\ AdapterStep
    BY <1>1, PostStep DEF AdapterStep
  <1>2. ASSUME NEW h \in DOMAIN handlers, Serve(h) PROVE AdapterInv' /\ AdapterStep
    <2>1. CASE ReadFails(h)
      BY <2>1, RefuseStep DEF AdapterStep, ReadFails
    <2>2. CASE RefuseBody(h)
      BY <2>2, RefuseStep DEF AdapterStep, RefuseBody
    <2>3. CASE RefuseRequest(h)
      BY <2>3, RefuseStep DEF AdapterStep, RefuseRequest
    <2>4. CASE Accept(h)
      BY <2>4, AcceptStep DEF AdapterStep
    <2>5. QED
      BY <1>2, <2>1, <2>2, <2>3, <2>4 DEF Serve
  <1>3. ASSUME NEW h \in DOMAIN handlers, EndPost(h) PROVE AdapterInv' /\ AdapterStep
    BY <1>3, EndPostStep DEF AdapterStep
  <1>4. ASSUME NEW h \in DOMAIN handlers, Arrive(h) PROVE AdapterInv' /\ AdapterStep
    BY <1>4, ArriveStep DEF AdapterStep
  <1>5. ASSUME NEW h \in DOMAIN handlers, Lose(h) PROVE AdapterInv' /\ AdapterStep
    BY <1>5, LoseStep DEF AdapterStep
  <1>6. CASE Restart
    BY <1>6, RestartStep DEF AdapterStep
  <1>7. CASE UNCHANGED vars
    <2>1. UNCHANGED <<handlers, log, received, restarts>>
      BY <1>7 DEF vars
    <2>2. CallsInv' /\ ReceivedInv'
      BY <2>1 DEF AdapterInv, CallsInv, HandlerInv, ReceivedInv
    <2>3. EvidenceInv'
      <3>1. \A id, states : AcceptedHere(id, states)' = AcceptedHere(id, states)
        BY <2>1 DEF AcceptedHere
      <3>2. \A id, type : Logged(id, type)' = Logged(id, type)
        BY <2>1 DEF Logged
      <3>3. QED
        BY <2>1, <3>1, <3>2 DEF AdapterInv, EvidenceInv, Counted
    <2>4. DecidedEvents' = DecidedEvents
      BY <2>1 DEF DecidedEvents
    <2>5. QED
      BY <2>1, <2>2, <2>3, <2>4 DEF AdapterInv, AdapterStep
  <1>8. QED
    BY <1>1, <1>2, <1>3, <1>4, <1>5, <1>6, <1>7 DEF Next, Deliver

LEMMA AdapterInvariant == Spec => []AdapterInv
  <1>1. AdapterInv /\ [Next]_vars => AdapterInv'
    BY AdapterSteps
  <1>2. QED
    BY <1>1, AdapterInit, PTL DEF Spec

--------------------------------------------------------------------------------
(* The safety invariants. *)

\* The variables of the adapter have their types; a callback is on its way or
\* beyond just if its event was accepted, and no callback arrives twice.
THEOREM AdapterTypeCorrect == Spec => []TypeOK
  <1>1. ASSUME AdapterInv PROVE TypeOK
    <2>1. ASSUME NEW i \in DOMAIN log PROVE log[i].eventType \in EventTypes
      <3>1. log[i] \in LogEntry
        BY <1>1, ElementOfSeq, LenProperties DEF AdapterInv, EvidenceInv
      <3>2. QED
        BY <3>1 DEF LogEntry
    <2>2. \A h \in DOMAIN handlers : handlers[h].callback # "none" <=> handlers[h].answer = 202
      BY <1>1 DEF AdapterInv, CallsInv, HandlerInv
    <2>3. QED
      BY <1>1, <2>1, <2>2 DEF TypeOK, AdapterInv, CallsInv, ReceivedInv
  <1>2. QED
    BY <1>1, AdapterInvariant, PTL

\* Nothing is called back without evidence and no evidence is without its
\* callback, however the calls overlap and whatever is posted twice.
THEOREM EvidenceMatches == Spec => []EvidenceMatchesCallbacks
  <1>1. AdapterInv => EvidenceMatchesCallbacks
    BY DEF AdapterInv, EvidenceInv, Counted, EvidenceMatchesCallbacks
  <1>2. QED
    BY <1>1, AdapterInvariant, PTL

--------------------------------------------------------------------------------
(* The adapter implements DecisionRelay. *)

\* The verdicts of the abstract relay are those of the gate.
LEMMA SameVerdicts ==
    ASSUME NEW g, NEW r, NEW finalState, NEW reason
    PROVE  Relay!Verdict(g, r, finalState, reason) <=> Verdict(g, r, finalState, reason)
  <1>1. /\ Relay!ApprovalNeeded(g, r) <=> ApprovalNeeded(g, r)
        /\ Relay!CanonicalClass(g, r) = CanonicalClass(g, r)
        /\ Relay!KnownClasses(g) = KnownClasses(g)
        /\ \A b : Relay!PolicyBehaviourIs(g, r, b) <=> PolicyBehaviourIs(g, r, b)
        /\ \A c : Relay!MayApprove(g, r, c) <=> MayApprove(g, r, c)
    BY DEF Relay!ApprovalNeeded, ApprovalNeeded, Relay!RuleAsksApproval,
           RuleAsksApproval, Relay!CanonicalClass, CanonicalClass,
           Relay!KnownClasses, KnownClasses, Relay!PolicyBehaviourIs, PolicyBehaviourIs,
           Relay!MayApprove, MayApprove, Relay!Keys, Keys,
           Relay!HumanAuthorityClasses, HumanAuthorityClasses,
           Relay!CoreAuthorityClasses, CoreAuthorityClasses
  <1>2. /\ Relay!ApprovalGiven(g, r) <=> ApprovalGiven(g, r)
        /\ Relay!DataMissing(g, r) <=> DataMissing(g, r)
    BY <1>1 DEF Relay!ApprovalGiven, ApprovalGiven, Relay!DataMissing, DataMissing,
                Relay!InvalidDate, InvalidDate
  <1>3. Relay!CoreActionClasses = CoreActionClasses /\ Relay!ReasonCodes = ReasonCodes
    BY DEF Relay!CoreActionClasses, CoreActionClasses, Relay!ReasonCodes, ReasonCodes
  <1>4. \A code : Relay!StandsAgainst(g, r, code) <=> StandsAgainst(g, r, code)
    BY <1>1, <1>2, <1>3 DEF Relay!StandsAgainst, StandsAgainst
  <1>5. /\ Relay!MayRelease(g, r) <=> MayRelease(g, r)
        /\ Relay!AwaitsApproval(g, r) <=> AwaitsApproval(g, r)
    BY <1>3, <1>4
    DEF Relay!MayRelease, MayRelease, Relay!AwaitsApproval, AwaitsApproval
  <1>6. QED
    BY <1>3, <1>4, <1>5 DEF Relay!Verdict, Verdict

\* To the target the adapter is a relay of verdicts: each callback tells the one
\* decision on its event, each is told at most once and in no certain order, and
\* what was held is told as held (index.ts:118).
THEOREM AdapterImplementsRelay == Spec => ImplementsDecisionRelay
  <1>1. ASSUME Init PROVE Relay!Init
    <2>1. handlers = <<>> /\ received = <<>>
      BY <1>1 DEF Init
    <2>2. DecidedEvents = {}
      BY <2>1 DEF DecidedEvents
    <2>3. QED
      BY <2>1, <2>2 DEF Relay!Init, DecidedEvents
  <1>2. ASSUME AdapterInv, [Next]_vars PROVE [Relay!Next]_(Relay!vars)
    <2>1. AdapterStep
      BY <1>2, AdapterSteps
    <2>2. CASE UNCHANGED <<DecidedEvents, received>>
      BY <2>2 DEF Relay!vars, DecidedEvents
    <2>3. CASE \E h \in DOMAIN handlers : /\ h \in Relay!Cases \ Relay!Told
                                          /\ received' = Append(received, h)
                                          /\ DecidedEvents' = DecidedEvents
      <3>1. Relay!Tell
        BY <2>3 DEF Relay!Tell, DecidedEvents
      <3>2. QED
        BY <3>1 DEF Relay!Next
    <2>4. ASSUME NEW h \in DOMAIN handlers, NEW request, NEW result, NEW new,
                 Accepted(h, request, result, new),
                 received' = received,
                 DecidedEvents' = DecidedEvents \cup
                    {[case |-> h, request |-> request,
                      finalState |-> result.finalState, reason |-> result.reason]}
          PROVE  Relay!Decide
      <3>1. h \in 1 .. MaxEvents
        BY <1>2, LenProperties, BoundsAssumption DEF AdapterInv, CallsInv
      <3>2. h \notin Relay!Cases
        BY <2>4, DecidedCases DEF Accepted
      <3>3. /\ result.finalState \in {"ALLOW", "HOLD", "REJECT"}
            /\ result.reason \in ReasonCodes \cup {"DECISION_ALLOWED"}
            /\ Verdict(Gate, request, result.finalState, result.reason)
            /\ request \in Requests
        BY <2>4 DEF Accepted, Answers
      <3>4. PICK finalState, reason : finalState = result.finalState /\ reason = result.reason
        OBVIOUS
      <3>5. Relay!Verdict(Gate, request, finalState, reason)
        BY <3>3, <3>4, SameVerdicts
      <3>6. reason \in Relay!ReasonCodes \cup {"DECISION_ALLOWED"}
        BY <3>3, <3>4 DEF Relay!ReasonCodes, ReasonCodes
      <3>7. DecidedEvents' = DecidedEvents \cup
               {[case |-> h, request |-> request, finalState |-> finalState,
                 reason |-> reason]}
        BY <2>4, <3>4
      <3>8. QED
        BY <2>4, <3>1, <3>2, <3>3, <3>4, <3>5, <3>6, <3>7 DEF Relay!Decide, DecidedEvents
    <2>5. QED
      BY <2>1, <2>2, <2>3, <2>4 DEF AdapterStep, Relay!Next
  <1>3. QED
    BY <1>1, <1>2, AdapterInvariant, PTL DEF Spec, ImplementsDecisionRelay, Relay!Spec
================================================================================
