# CerbaSeal-Core in TLA+

CerbaSeal is a gate between systems that propose actions (mostly AI systems) and
systems that execute them. A caller submits a governed request; the gate answers
ALLOW with a release authorization, HOLD when a human approval is missing, or
REJECT; the evidence layer writes the decision to a hash-chained audit log, from
which bundles are exported and decisions replayed. This directory models that
program, model-checks it with TLC and proves its main results with TLAPS.

Line numbers refer to the repository (`src/services/execution/execution-gate-service.ts`
is called *the gate* below).

## 1. The system

| Component | State it keeps | Operations | Talks to |
|---|---|---|---|
| Execution gate (`src/services/execution/execution-gate-service.ts`) | per instance: allowed classes and policy pack, fixed at construction; per process: the registry of issued results | `evaluate`, `assertIsGateIssued` | nobody; pure and synchronous |
| Configuration and policy loading (`src/config/*`) | none | `loadCerbaSealConfig`, `loadCerbaSealPolicy`, `buildAllowedAuthorityClasses` | file system, once at start-up |
| Audit log (source not in the repository snapshot; used everywhere) | the chain of entries, in memory or as a JSONL file | `append`, `list`, `listByRequestId`, `verifyChain` | file system |
| Evidence bundle service | none of its own | `createBundle`: three appends and a snapshot | gate registry, audit log |
| Export manifest service | none | `createAuthorityPackageManifest`: manifest and one append | audit log |
| Replay service | a gate | `replay`, `exportReferencesOriginalEvidence` | gate |
| Executors (`tools.ts`, `mock-execution-system.ts`, `examples/agent-gate`, `http-wrapper`) | none | execute if ALLOW and released | gate results |
| Diagnostics (`diagnostic-report-service.ts`) and operator actions | none | a report, and next actions, from a request and a result | gate results |
| Support checks (`system-health`, `system-integrity`) | none | self-checks | gate, log, evidence |
| Setup wizard, verification, deployed server (`scripts/setup.ts`, `deployment-starter/`) | the two files; a gate built at start-up; a file-backed log | write the files, try three scenarios, `POST /evaluate` | file system, gate, log |
| Workflow mapping wizard (React demo, `pages/wizard.tsx`) | the answers, the step, the state of a download | edit, next, back, jump, download | the browser; generates policy packs and tests for the gate |
| Async queue (`examples/async-queue`) | jobs by id and their status | `enqueue`, `approve` | gate, evidence |
| Webhook adapter (`examples/webhook-adapter`) | none beyond the log | `POST /event`, callback | gate, evidence, a remote endpoint |
| REST starter, Express middleware, fraud triage | a history list; none; a file-backed log | HTTP handlers; `processFraudTransaction` | gate, evidence, log, the user's route |
| Audit export (`examples/audit-export`) | none | parse a log file and summarise it | files |
| Proof export, verification and evidence report (`scripts/export-proof.ts`, `verify-proof.ts`, `generate-evidence-report.ts`) | the snapshot file, the evidence package | run the checks and write what they reported, compare with its checksums, make three documents of it | the working tree, git, the key of the environment |
| Browser demo, review portal, other pages of the React demo, PDF and report scripts, formatters | presentation only | | |

### What is hard in it

* `evaluate` is one synchronous function with sixteen ordered stages, two views of
  the request (the caller's and the policy's), and a catch block that has to
  produce a well-formed result from a request that may be arbitrarily broken.
* Requests come from JSON: a member left out is `undefined`, and several checks
  compare with `null` only.
* A HOLD is the beginning of a protocol: approve, resubmit, be released. Nothing
  in the gate remembers the held request.
* `createBundle` appends three entries one after the other and reads the log
  back: an append that throws, or a crash, leaves part of a record. Nothing ties
  the request it is given to the result it is given, so that a decision can be filed
  with a request it does not answer.
* Replay re-evaluates on another gate, perhaps with another policy pack.
* The examples keep mutable state keyed by `requestId` and call out to endpoints
  that may not answer; the webhook adapter's handlers overlap at their awaits.
* A deployed gate is built once from two files that are written in two steps,
  edited by hand, verified by another process and damaged in between; one loader
  swallows errors, the other throws.
* The React wizard builds its package asynchronously while the answers change.
* The proof snapshot is made by commands that run for minutes on a tree that may change
  under them, and is a file that is committed, merged and edited before it is believed.

### What makes each component correct

* Gate: fail closed (no ALLOW unless nothing stands against the request), HOLD
  only when the missing approval is the only obstacle, a policy pack only
  restricts, the trace tells what was checked, every call is answered.
* Evidence: only issued results are recorded, the record of a decision is
  complete and agrees with it, the chain verifies, also after a restart.
* Replay and export: replaying a decision with its own request on an equal gate
  reproduces it, what was filed with another request passes replay only if that would
  be released alike, a manifest refers to the bundle it was made from.
* Queue and adapters: a job is released only on an ALLOW with an approval for it,
  a decision reaches its consumer at most once and every event is settled.
* Servers: an answer has its entry in the log, a looked-up decision stays the same,
  a route behind the middleware goes on only for a recorded release.
* Deployment: damage, half-written files and a mix of two generations of them never
  release more than one whole generation would, and what verification passed refuses an AI.
* Wizard: no way through the form reaches the summary with invalid answers, the
  package saved is the one on display, and it requires an approval.
* Proof snapshot: what is verified or reported as passed is one export all of whose
  commands passed, and two exports compare equal just if they reported the same.

## 2. Modules

| Module | What it models |
|---|---|
| `GovernedRequest` | the vocabulary: request, approval artifact, configuration, policy pack |
| `ReleaseConditions` | when a request is released, held or rejected by the gate as it is built, with no order of evaluation; it follows the code in two points where documents ask for more, which `MCGateClaims` states |
| `GateDecision` | the abstract specification of the gate: a call is answered in one step with a verdict |
| `GateChecks`, `GateChecksProofs` | the checks of the gate, each as the fault it raises, and `evaluate` as a function; lemmas about what it returns |
| `ExecutionGate` | `evaluate` stage by stage, the registry, the fallback |
| `ExecutionGateProofs` | theorems about `ExecutionGate`, `Diagnostics` and the refinement |
| `EvidenceRecords` | the events `createBundle` writes for a result |
| `EvidencePipeline` | callers, `createBundle` event by event on any request with any issued result, manifests, replay, restarts |
| `EvidencePipelineProofs` | theorems about `EvidencePipeline` and `AuditExport` |
| `HumanReview` | the abstract specification of a queue with human review |
| `GatedProgram` | what a program built on the gate has: a gate and the audit log `createBundle` appends to |
| `JobQueue` | `enqueue` and `approve` of `examples/async-queue` |
| `Diagnostics` | the diagnostic report and the operator action, as functions of request and result |
| `AuditExport` | the summary `examples/audit-export` makes of a log |
| `DecisionRelay` | the abstract specification of a service that reports decisions: decide each case once, tell it at most once |
| `WebhookAdapter`, `WebhookAdapterProofs` | the listener of `examples/webhook-adapter`, the network to the callback URL, restarts, with fairness; theorems about them |
| `ConfigurationFiles` | the two files and their loaders, from contents (or damage) to a gate |
| `Deployment`, `DeploymentProofs` | setup wizard, hand edits, `verify.ts` and the server of `deployment-starter`, and theorems about them |
| `GatedServices` | four programs: the REST starter with its history, a route behind the Express middleware, the scenarios of `examples/agent-gate`, the fraud triage |
| `GatedProgramProofs` | theorems about `JobQueue` and `GatedServices`, which rest on the same lemmas about the log |
| `Wizard`, `WizardProofs` | the workflow mapping wizard of the React demo, and theorems about it |
| `ProofSnapshot`, `ProofSnapshotProofs` | proof export, its verification and the evidence report, and theorems about them |
| `RequestFixtures` | requests, approvals and gates for TLC |
| `MCExecutionGate`, `MCEvidencePipeline`, `MCJobQueue`, `MCWebhookAdapter`, `MCDeployment`, `MCGatedServices`, `MCWizard`, `MCProofSnapshot` | instances for TLC |
| `MCGateClaims` | statements of documents and comments about the gate that the code does not keep, one instance each |

`GateChecks` is used twice: `ExecutionGate` runs the checks as steps, so that what
has been established when can be stated and proved; the components that call the
gate (all the modules from `EvidencePipeline` on) use the function `evaluate`, since the call is
synchronous. `EvaluateIsFunction`, which is proved, is the bridge: every result the
stages issue is the one the function returns.

### How `ExecutionGate` corresponds to the code

| Variable | Code |
|---|---|
| `stage` | the position in `evaluate` |
| `gate` | `this` (configuration and policy pack) |
| `request` | the argument |
| `effective` | the local `effectiveRequest` |
| `checked` | the local `checkedInvariants` |
| `fault` | the exception being thrown: a reason code, or "TypeError" for anything that is not a `CerbaSealError` |
| `issued` | `_gateIssuedResults`, with the call each result answers |
| `rethrown` | calls that ended with an exception |
| `evaluations` | a counter that bounds the calls; not in the code |

Each `assert…` function is an action of the same name: it adds its invariant to
`checked` and raises the fault its `…Fault` operator computes, or goes on to the
next stage. `BlockByActionPolicy` and `DeriveApprovalRequirement` are the policy
stages between them, `EnforceApprovalChain`/`SkipApprovalChain` the one after.
`ReturnAllow`, `ReturnBlocked`, `ReturnFallback` and `Rethrow` are the four ways
out. The stages are separate actions although the code is synchronous, so that
invariants can speak about what has been established when; since one call is in
progress at a time this adds no interleavings.

Abstractions: a text that the gate only tests for presence is reduced to the
outcome of the test. `shape` sums up the members `assertRequestShape` reads: "ok",
"blank" (an empty text), "broken" (missing, so that reading it throws), and
"unreadable" (request or proposal missing, so that the fallback throws as well).
Times are natural numbers, with `InvalidDate` for NaN.
`fault` and `checked` keep their last value between calls, which no code reads.

### How `EvidencePipeline` corresponds to the code

| Variable | Code |
|---|---|
| `results` | the `GateResult` objects callers hold, with the request and gate of the call that issued them |
| `registry` | `_gateIssuedResults`: a `WeakSet`, so it is empty after a restart |
| `log` | the entries of the audit log |
| `clock` | how many entries were ever appended; stands for what makes entry hashes differ |
| `recording` | a call of `createBundle` in progress: its result (`of`), its `request`, its position |
| `bundles`, `manifests` | what `createBundle` and `createAuthorityPackageManifest` returned |
| `durable` | whether the log is `FileBackedAppendOnlyLogService` |
| `restarts` | a counter that bounds restarts; not in the code |

`CreateBundle`, `AppendEvent` and `ReturnBundle` are the steps of one call. It takes any
issued result with any request, since `assertIsGateIssued` is all it asks: the entries and
the chain are then those of the request's id, the ids in the payloads those of the result.
A bundle's `of` and `given` are the arguments it was made of and are read by properties only.
`AppendThrows` is an append that fails: the exception leaves `createBundle`, which
has no handler. `Restart` may come between any two steps. As the process does one
thing at a time (no `await` anywhere in it), everything but `Restart` waits for
`createBundle` to end. The audit log itself is not in the repository snapshot;
`append`, `listByRequestId` and what a restart does to it are modelled from their
use in `src/` and `test/persistent-audit-log.test.ts`. Chains and manifests are
sets: entries carry their number, so the order is in them.

### How `JobQueue` corresponds to the code

`handed` are the `Job` objects in the order `enqueue` returned them, `jobs` the map
from id to the object enqueued last, `log` the in-memory audit log. `enqueue` and
`approve` are synchronous and one action each, with the evaluation and the three
appends they make. Objects and map are kept apart because callers hold the object:
a second job with a known id replaces the entry in the map, not the object.
Reviewers are records of class and authentication, the clock any of a few
readings, since request and approval are stamped by different clocks.

### How `WebhookAdapter` corresponds to the code

`handlers` are the calls of the listener, each with the await it is at: `reading`
(`readBody`), `posting` (`postToCallback`), `ended`. Between the two awaits Node runs
it to completion, so evaluation, the three appends, the answer and the dispatch are
one action, `Accept`. A callback is `sent`, then `received` or `lost`, independently
of when the await ends: `postToCallback` ignores both the status and the failure.
Senders repeat requests; `Restart` loses handlers and log, not callbacks on their way.

### How `Deployment` and `ConfigurationFiles` correspond to the code

A file is what the loader reads of it, or `Missing` or `Damaged`. `files` is what is
stored and `meant` what whoever changed it last meant to store. Setup means both files from
its start (`Generation` of the answers) and comes to them one after the other:
`writeFileSync` empties a file before it fills it, so `BeginSetup`, `WriteSetupConfig`,
`BeginSetupPolicy` and `WriteSetupPolicy` pass through a damaged configuration, a new one
beside the old policy pack, and a damaged policy pack, and `SetupEnds` may stop at any of
them. `inForce` is the whole generation that the stored policy pack is of: until setup has
come to its policy pack, that is the one before setup, both files of it. It is what a
server is measured by. `Start` builds the gate, or fails as `loadCerbaSealPolicy` throws;
`Serve` is one handler, with an append that may throw; `CutOff` ends the process
between append and answer. The log keeps one entry per decision over all processes.
`verify.ts` reads the files at the root of the repository, the server those of
`CONFIG_PATH` and `POLICY_PATH`: the model is of the default, where they are the same.

### How `GatedServices` corresponds to the code

Four programs that share the gate's functions, of which a behaviour runs one
(`program`). The REST server has one await, the body, so posts wait in `posts` and
the rest of the handler is one action; its log is in memory and does not throw. The
middleware is synchronous; `RecordThrows` is an append that throws in `createBundle`,
outside the `try` block. What the user's route does after `next()` is not part of the
repository: `routed` remembers that it went on. `onHold` is not used in the repository.
The agent scenarios run with a gate of their own (`DefaultGate`), no middleware and no
evidence: `runAgentScenario` evaluates and hands the result to `executeIfAuthorized`, which
looks at neither log nor tool. Scores of the triage are in tenths of a point, as the code
compares any numbers. `Waiting(i)` are the posts left once the ith
has its body. The names every specification has are `ServicesInit`, `ServicesNext`,
`ServicesTypeOK` and so on, so that one module can prove about this one and `JobQueue`.

### How `Wizard` corresponds to the code

`form`, `step` and `error` are the React state of `Wizard`, `downloading` and
`downloaded` that of `Step6`, which is lost when the step is left. `inFlight` are the
calls of `generateAsync` under way with the answers they were started with. Each step
page is an action that changes one answer; texts are from small sets that have blank
texts and texts of which `toSnakeCase` leaves nothing. The test of `reversible` in
`validateStep` is left out: the member always has a value.

### How `ProofSnapshot` corresponds to the code

`export` is a run of `export-proof.ts`: `RunCommand` runs the next command on the tree
as it is then, `AssembleManifest` reads HEAD and key and empties the file, `WriteSnapshot`
fills it. What a command reports for a tree is the constant `Outcome`; the entry of the
manifest is derived from it as in the code. A checksum is the list of what is hashed, an
HMAC a record of key and checksum, so that equal hashes mean equal contents. `exported`
remembers every manifest with the trees its commands saw. `verify-proof.ts` changes
nothing and is the predicate `verifyProof`, with whatever key the reader has; it hashes
the members in the order of the export, the report in the order of the file
(`rearranged`). `report` is a run of `generate-evidence-report.ts`, which reads once and
writes three documents. Branch and package version go with the commit, and the validators
are any list of the three.

### What `Diagnostics` and `AuditExport` show

Both are functions, used in properties on states of the gate and of the pipeline.
A report and the operator's action agree on what to do but not always on how severe
it is: for AI_CANNOT_AUTHORIZE, LOGGING_NOT_READY and the faults of an approval artifact
the report says WARNING and the operator's action CRITICAL. A check of INV-03 looks at
the caller's request for a missing approval only, so it passes for an approval that
is invalid or that only the policy pack asks for. No report can be made of a request
without provenance, trust state or, if sensitive, controls: the explanation reads them
and throws. The audit export counts releases and blocks by event type and what is left
as unknown; a log of the deployed server, which has one type of event, is all unknown.

## 3. Runs

| Run | Instance | Question |
|---|---|---|
| `gate` | 5 gates (no policy pack; roles and chains; rules and action policies; two rules for one workflow; action policies only), 2 base requests and all their variations in at most two of 17 members; a second call by 11 requests on 4 gates, with fairness; 87,502 states | does every call get the verdict of the promise, with an honest trace, is every intermediate state as `GateInv` says, do the support services blame what stopped it, does an approval release what was held, is every call answered |
| `evidence` | 2 gates, 2 requests, two evaluations, each recorded with either request, up to 7 appends, one restart; 414,816 states | does what is left in log, bundles and manifests after failures, restarts and mismatched recordings tell the decisions made, and does the audit export count them |
| `queue` | 2 gates, 4 requests under 2 ids, 3 reviewers, 2 clock readings, 3 jobs; 12,340 states | does the queue keep the promise of `HumanReview`, and agree with its audit log |
| `webhook` | 1 gate, 3 requests under 2 ids and a body that is no JSON, 3 events, 1 restart, with fairness; 51,330 states | does the adapter keep the promise of `DecisionRelay`, with evidence for each callback, and is every event settled |
| `deployment` | 3 policy packs (none, one that maps "ai", an ill-typed one), 2 configurations, 1 set of answers to setup with 3 approvers, 4 requests; 2 changes, 2 starts, 2 calls; 506,160 states | can damage, a setup that ends in or between its files, edits or the end of a process release what no whole generation would, or answer what is not logged |
| `services` | 2 gates, 5 posts, 3 agent scenarios, 4 scores; 3 posts, 3 routed calls, 3 scenarios or 2 transactions; 35,314 states | does a route or a tool go on only for what may be released, the route only on a recorded release, is a lookup stable, are the bands kept |
| `wizard` | 3 workflow names, 2 action names, 3 role names, 5 classes, 2 actions, 2 approvers; 9 changes of answers, 2 downloads; 141,926 states | can the form be left invalid, is the saved package the one on display, does it require an approval |
| `proof` | 4 trees (one fails its tests, one has no invariants), 1 validator, 2 keys (symmetric); 1 change of tree, commit or key, 2 exports, 1 merge or edit, 2 reports; 794,370 states | is what verifies, and what is reported as passed, one export that passed |
| `Claim…` | one gate and one request each, or the instance of `wizard` | does the code keep what a document or comment says; TLC shows that it does not |

The `Claim…` runs, each listed with its quotation under "findings" in `PROJECT.json`:

| Run | The code |
|---|---|
| `ClaimAiNeverAuthorizes` | applies the AI boundary to the mapped role |
| `ClaimPolicyPackRef` | releases a request that leaves `policyPackRef` out, which INV-01 of the invariant registry forbids: the gate compares with `null` |
| `ClaimAnyRule` | reads the first rule for a workflow, where the comment on it lets any rule require an approval |
| `ClaimScenarioTests` | generates tests that the gate cannot pass: no policy pack reference, and a reason it does not have |

Disagreements between documents and code that were met and have no run:

* `deployment-starter/README.md:83` has the image include the default
  `cerbaseal.policy.json`, and lines 44-51 show it starting. That file has a text under
  `_comment` in `approvalChains` (line 13) and `actionPolicies` (line 18), entries of the
  wrong type at which `loadCerbaSealPolicy` throws (169, 184), when the server's module is
  loaded: it never starts. `Deployment` has the case (a policy pack with an ill-typed section).
* `docs/governance-vocabulary.md:56` calls the evidence bundle a "record of the request, the
  decision, the release or block": `createBundle` makes one of any request with any issued
  result. What the model says of such bundles is in `RecordedReleasesWereDue` (by the release
  id, not the id it is filed under) and `ReplayReproducesDecision`.
* `CERBASEAL_PILOT_READINESS_BINDER.md:915`, "Re-run `pnpm verify:proof` [...] If
  enforcement state has not changed, the checksum matches. If changed, the script exits
  non-zero": the script compares the snapshot with its own checksums, and succeeds after
  any change of the repository.
* `test/adversarial-integrity.test.ts:83` wants a missing `approvalArtifact` held; one
  that is left out, not `null`, is rejected as malformed.
* `cerbaseal-policy.ts:64`: an extended authority class in an approval chain never
  satisfies it, since `assertApprovalState` knows the four human classes only.
* `cerbaseal.config.json:2`: extended action classes are read by no code.
* `README.md:33`, "No unhandled error propagates to the caller": a call without a
  readable request ends with the first exception (`Rethrow`).
* `async-queue/index.ts:62`: a held job is dropped from the map when another one with
  its id is enqueued (`QueueAgreesWithLog` speaks of the job in the map).
* The transaction escalation template (line 110) wants a reused `requestId` rejected;
  the gate keeps no memory of ids.
* `docs/demo/enforcement-loop.md:96` knows "no path through the system that leaves no
  record"; `examples/agent-gate` and `http-wrapper.ts` write no evidence.
* The queue's README (line 94) counts four audit entries where hold and release write six.
* `webhook-adapter/index.ts:118` answers a held event with "Callback will be sent when
  resolved"; the callback with HOLD is sent at once and nothing resolves it
  (`DecisionRelay` says so).
* `wizard.tsx:383` hands off an action as "may proceed without approval"; the package
  requires an approval for the whole workflow (`PackagesRequireApproval`).
* `docs/client-adoption/training/operator-guide.md:162` and `generate-evidence-report.ts:168`
  have `verify:proof` verify the audit chain; it never reads a log.
* `export-proof.ts:149` wants `stableChecksum` to confirm that "enforcement state has not
  changed"; an uncommitted change that leaves the numbers as they are leaves it as it is
  (`ExportsAreComparable` says what it does compare).
* `generate-evidence-report.ts:301` says that a signature "proves the snapshot was produced
  by a system holding the signing key"; the report checks that there is one, not whose.
* `setup.ts:119` offers "system" as an approver's class, by which no approval is valid.

Why the bounds are enough. A call reads one request and one gate; calls share
nothing but the registry, to which they only add. So one call on every relevant
request covers `evaluate`, and two calls cover the properties that relate two
results. `MCNext` makes a second call only after one of eleven requests on four gates,
by one of these: held ones, what comes back for them, and those that make the gate throw
(`FewRequests`). Variation in pairs is what tells the order of two stages apart, since the
first fault wins; the faults of three stages add no new order. The five gates
between them have every policy member in every value that a stage distinguishes:
mapped and unmapped roles, a role mapped to "ai", rules of both kinds, two for one
workflow, an empty and a non-empty chain, all three action behaviours.

In `evidence`, seven appends are two complete records and a manifest between, after or
instead of parts of them, on both sides of a restart; a third record would add nothing
that two do not show, as a chain is compared with the log as a whole. Beside the record
being written the log holds at most one that broke off (`MaxBrokenOff`): more of them
are repetitions of it. The two requests are decided differently by the two gates, so
that all three outcomes occur, and replays that match and do not match, of a decision
with its own request and with the other, a release filed under the id of a rejected
request among them; two evaluations may be of one request id or of two. In `queue`,
three jobs are two under one id and one beside them; every outcome of enqueueing and of
reviewing occurs.

In `webhook`, three events are a held one, its approved resubmission (or the same one
again) and one beside them, before and after a restart. In `deployment`, two changes are
one to each file or one undone by another, setup counting as one; two starts are a
server before and after a change, with verification between; what a third would add is a
repetition. One set of answers is enough, as no answer but the approvers takes part in
what is released; its three approvers share a role name, and one has no core class. Its
policy packs are the dangerous ones, those that relax the AI boundary or lose a
requirement when they are not read. In `wizard`, nine changes fill in every required
answer (seven) and change two more, before, during or after a download. In `services`,
three posts are a held request, its resubmission and another id; three routed calls are
every pair of outcomes with a third between; the scores are the limits of the bands and
half a point below. In `proof`, two exports and a merge are the least that mixes
members; one change falls before, within or between them; one validator stands for
three, as all are treated alike.

Deadlock is not checked: the number of calls, jobs and appends is bounded, and a
component nobody calls does nothing.

Fairness: `WF_vars(Evaluate)` in `FairSpec` of `ExecutionGate` and in `MCSpec`, the same
with the bound on second calls. `evaluate` has no `await`, no callback
and no loop, so a call that has begun runs to its end. Nothing is assumed about
callers. In `WebhookAdapter`, for each call of the listener: the body is served
(Node's event loop runs a handler whose await is over, and `requestTimeout` ends a
request whose body does not come), the await of the callback ends (`fetch` fails when
the connection does), and a callback that was sent arrives or is lost. Not assumed: that
a callback ever arrives, that senders post, or that a process restarts.

## 4. Proofs

`ExecutionGateProofs` holds for every set of labels, gates and requests, and every
number of calls:

| Theorem | Says |
|---|---|
| `TypeCorrect` | `Spec => []TypeOK` |
| `StagesAreSound` | `Spec => []GateInv` |
| `VerdictsAreSound` | `Spec => []VerdictsSound` |
| `GateImplementsDecision` | `Spec => ImplementsGateDecision` |
| `PolicyPackNeverRelaxes` | `Spec => []PolicyOnlyRestricts` |
| `ApprovalReleasesHeld` | `Spec => []ApprovedResubmissionAllowed` |
| `HoldsReportRequirement` | `Spec => []HoldReportsRequirement` |
| `EvaluateIsDeterministic` | `Spec => []EvaluateIsFunction` |
| `TracesMatchVerdicts` | `Spec => []TraceMatchesVerdict` |
| `ReportsBlame` | `Spec => []ReportsBlameTheCause` |

The argument. `VerdictsSound`, the property callers rely on, is not inductive: that a
result about to be returned is right depends on all that the stages before it have
established, and on why an exception is on its way. `GateInv` says just that: at
each stage the conditions of the earlier stages hold of the *caller's* request
(`EstablishedAt`), the effective request is the caller's or the policy's view of it
depending on the stage (`ViewAt`), and an exception in the catch block has its
cause in the request (`Justified`), in particular REQUIRED_APPROVAL_MISSING only
arises when nothing else stands against the request. The inductive invariant is
`SoundInv == TypeInv /\ GateInv /\ VerdictsSound`, proved action by action;
`VerdictsSound` itself follows when a result is issued. The refinement uses the
same invariant: every stage stutters, the returns are `Answer`, the rethrow is
`Throw`. `PolicyPackNeverRelaxes` and `ApprovalReleasesHeld` follow from `VerdictsSound`
without induction.

What is issued is exactly what the function returns needs more than soundness: `TraceInv`
gives at each stage the exact trace so far, that all earlier checks passed, and in the
catch block that the fault is that of the first check that fails. The trace of a result is
then an initial part of `InvariantOrder`, whole for ALLOW (`TracesMatchVerdicts`), and its
reason names the check that stopped it, which is what report and operator action read
(`ReportsBlame`).

`GateChecksProofs` has the lemmas about `evaluate` as a function that the proofs below
cite. `EvaluateAnswers` says that whatever it returns is the verdict of
`ReleaseConditions` (ALLOW just if the request `MayRelease`, and so on) with the fields
that go with it; `EventsOfAnswer` and `RecordOfAnswer` say what `createBundle` writes
for such a result. `FirstRuleIsAnyRule` says where the code's reading of the rules is
that of its comment: for policy packs with at most one rule per workflow. They rest on
one lemma per group of checks: `CallerChecksSound`, `PolicyChecksSound`,
`ArtifactCheckSound`, `ApprovalCheckSound`, `ChainCheckSound`.

`EvidencePipelineProofs` holds for every set of gates and requests and all bounds:

| Theorem | Says |
|---|---|
| `PipelineTypeCorrect` | `Spec => []TypeOK` |
| `RecordsStayOrdered` | `Spec => []RecordsAreOrdered` |
| `ReleasesWereDue` | `Spec => []RecordedReleasesWereDue` |
| `BundlesAreComplete` | `Spec => []BundlesTellTheirDecision` |
| `ChainsOutliveProcess` | `Spec => []EvidenceOutlivesProcess` |
| `ManifestsIdentify` | `Spec => []ManifestsIdentifyTheirBundle` |
| `ReplayReproduces` | `Spec => []ReplayReproducesDecision` |
| `SummaryCountsEveryBundle` | `Spec => []SummaryCountsDecisions` |

The argument. `PipelineInv` has a part per thing that exists. What makes the others
inductive is `RecordingInv`: while `createBundle` is at its w-th append, the last w
entries of the log are the first w events of the record of its result, filed under the
id of its request, with consecutive numbers, and no bundle knows of them
(`WrittenSoFar`). So the outcome always follows its evaluation directly, and a bundle,
when returned, ends with a whole record of its own. `EndsInv` remembers where in a
durable log that was, which no later entry disturbs. An entry is determined by its hash
and a bundle by its chain (`ChainsInv`), as `clock` never returns; that manifests
identify their bundle follows. Results stay what `evaluate` returns (`ResultsInv`), from
which `RecordedReleasesWereDue` and replay follow by `EvaluateAnswers`: a release names
its decision by its release id, whichever request it is filed with, and a replay that
matches says of the request in the bundle, on the gate of the replay, what the decision
says. For the summary, each bundle that was returned is mapped to the release or block
entry its chain ends with, and different chains end differently.

`GatedProgramProofs` holds for every set of gates, requests, reviewers, clock readings,
agent calls and scores, and every number of jobs, posts and calls:

| Theorem | Says |
|---|---|
| `QueueTypeCorrect` | `Spec => []TypeOK` |
| `QueueAgrees` | `Spec => []QueueAgreesWithLog` |
| `QueueImplementsHumanReview` | `Spec => ImplementsHumanReview` |
| `ServicesTypeCorrect` | `ServicesSpec => []ServicesTypeOK` |
| `ReleasesAreDue` | `ServicesSpec => []ReleasedWorkIsDue` |
| `BandsAreKept` | `ServicesSpec => []TriageBandsAreKept` |
| `LookupsAreStable` | `ServicesSpec => LookupIsStable` |

The argument for the queue. `QueueInv` says of every id in the map that its job has an
outcome in the log that no other outcome of the id follows, and that the status is that
outcome; an evaluation adds a new last outcome for its id and leaves those of other ids
alone (`RecordKeepsOutcomes`). In the refinement `enqueue` and `approve` are each a step of
`HumanReview`; that a release is by a valid approval is `EvaluateAnswers`.

The argument for the services. `ServicesInv` has a part for the log and one for each
program. What ties the route to the log is a count (`RouteInv`): for no request id did
more calls of the middleware go on than there are whole records of a release, although
calls share ids, appends fail and entries do not say which call they are of. A record,
whole (`WholeRecord`) or cut off at any append (`PartOfRecord`), keeps every complete
one (`GrowthKeeps`): a complete record is an entry *and* the one before it, so this
needs that the first entry of a log is never the last of a record, which is the last
part of `AuditInv`. Only the whole record of a release lets the route go on, and it adds
a complete record too (`ReleaseCompletes`, `OneMore`). A call goes on, and a tool acts,
for an ALLOW only, and by `EvaluateAnswers` its request may then be released
(`Routings`, `AgentInv`, `ActingRun`). In the same way `TriageInv` says of what the
calls of the triage are made; its workflow needs an approval under every policy pack, so
an ALLOW means that an approval was attached, which the bands do from a score of 50 on
(`TriageAsks`). `LookupIsStable` is about two states: the history only grows at its end
(`HistoryGrows`), and the least place of a set stays the least when a greater one joins
(`FirstStays`).

`WebhookAdapterProofs` holds for every gate, every set of bodies and all bounds:

| Theorem | Says |
|---|---|
| `AdapterTypeCorrect` | `Spec => []TypeOK` |
| `EvidenceMatches` | `Spec => []EvidenceMatchesCallbacks` |
| `AdapterImplementsRelay` | `Spec => ImplementsDecisionRelay` |

The argument. `AdapterInv`: a call that was answered 202 has the outcome `evaluate` returns
for its body, and one that still reads is of the running process (`CallsInv`); callbacks
arrive at most once and are of calls that sent one (`ReceivedInv`); and for each id the
entries of each kind are as many as the events accepted since the last restart
(`EvidenceInv`, a statement about cardinalities, since senders repeat requests and no entry
says which event it is of). A step of one call leaves the counts alone unless it is
`Accept`, which adds one event and one entry of each of its kinds; a restart empties both.
The refinement takes `AdapterInv` too (`AdapterStep`): `Accept` decides a case, an arrival
tells it, the rest stutters.

`DeploymentProofs` holds for all files, answers and requests, and every order of edits,
damage, starts and calls:

| Theorem | Says |
|---|---|
| `DeploymentTypeCorrect` | `Spec => []TypeOK` |
| `DamageRestricts` | `Spec => []DamageOnlyRestricts` |
| `VerifiedGatesAreSafe` | `Spec => []VerifiedGatesRefuseAi` |
| `AnswersHaveEntries` | `Spec => []AnswersAreAudited` |

The argument. The configuration is what was meant or damaged, the policy pack what is in
force or damaged, and where the two generations differ in their configurations the meant
one is that of setup (`FilesInv`), which extends no classes. A damaged configuration or
that of setup beside an older policy pack loses authority classes only, and a damaged
policy file stops the start, so a running gate is `Narrower` than that of the generation
in force (`LoadedIsNarrower`), and what a narrower gate releases is releasable under the
wider one (`NarrowerRestricts`); `CallsInv` keeps that for calls already made.
`VerifiedGatesRefuseAi` is not about a single request: verification tries three fixed
ones, and a gate that allows *any* request of an AI would have mapped "ai" to a class,
which the AI scenario of `verify.ts` would have shown, as it differs from the allowed
one in actor and approval only (`PassingRefusesAi`). `AnswersAreAudited` counts entries
against calls, cut-off ones included, and is inductive with the type of the log.

`WizardProofs` holds for every set of texts, every limit of actions and every bound:

| Theorem | Says |
|---|---|
| `WizardTypeCorrect` | `Spec => []TypeOK` |
| `NavigationValidates` | `Spec => []NavigationIsValidated` |
| `DownloadsAreCurrent` | `Spec => []DownloadedIsCurrent` |
| `PackagesAreGuarded` | `Spec => []PackagesRequireApproval` |

The argument. `GoodForm` (no list of the form is empty) is what every page keeps,
proved once per way of editing (`Edits`, `PageStep`); type correctness follows action by
action. `NavigationIsValidated` is inductive with it: a page changes answers of its own
step only (`SameAnswers`), which no other step's validation reads (`SameValidation`),
and the only way forward is over `validateStep`. `DownloadedIsCurrent` needs
`MountedIsCurrent`: a download whose summary is still there was started with the
answers on display, at step 6; leaving the summary, which comes before any change of an
answer, makes that vacuous. `PackagesRequireApproval` is about what `evaluate` returns on
the gate of a saved package: every form saved or on its way passed the fourth step
(`PackagesChecked`), so it has an approver with a class; its policy pack then has a rule and
a chain for the workflow with just the chosen classes (`PackageGate`), and by
`EvaluateAnswers` what such a gate releases of the workflow was approved by one of them.

`ProofSnapshotProofs` holds for every set of trees and keys, every list of validators,
every outcome of the commands and every bound:

| Theorem | Says |
|---|---|
| `SnapshotTypeCorrect` | `Spec => []TypeOK` |
| `VerifiedSnapshotsAreExports` | `Spec => []VerifiedIsAsExported` |
| `ReportedPassesAreEarned` | `Spec => []ReportedPassIsEarned` |
| `ExportsCompare` | `Spec => []ExportsAreComparable` |

The argument. A file that was merged or edited has members of anywhere, so nothing about
them is invariant but where its seals are from: `Traceable` says that the manifest
checksum, and the signature if there is one, are each of some export. Merging and editing
keep that (`MergeTraceable`, `EditTraceable`), and so do the report and the documents, which
copy what they read. `Sealed`, of every export, says that its commands passed, that its
snapshot reports them and that checksums and signature are its own. A snapshot whose
manifest checksum fits is then that export (`TracedIsVouched`). That a document's PASS is
earned needs in addition that it was computed from the snapshot it tells of (`ReadersInv`).

Assumptions. The modules' `ASSUME`s: types of the constants, `Null` and `Absent` different
from labels and outcomes (`NullAssumption`), the answers and edits well-typed
(`AnswersAssumption`, `EditsAssumption`), and of the texts of the wizard what `toSnakeCase`
does to them (`TextsAssumption`, `ProbesAssumption`); TLC evaluates each. No theorem
restricts the policy packs, but for `FirstRuleIsAnyRule`, which is about those with at most
one rule per workflow (`OneRulePerWorkflow`): the promise of `ReleaseConditions` has the
first rule decide, as the code does (`Array.find`, line 490).

Proved and part of no run: `HoldReportsRequirement`, `ExportsAreComparable` and
`FirstRuleIsAnyRule`.

Model-checked only: `CallsAreAnswered` and `EventsAreSettled`, as liveness under fairness
is beyond the prover. Every other property of a passing run is a theorem. Nothing here is
recursive, so no property was left out for that reason. The inductive invariants
(`SoundInv`, `PipelineInv`, `QueueInv`, `ServicesInv` and so on) live in the proof modules.

## 5. Plan

Done, in this order:

1. `GovernedRequest`, `ReleaseConditions`, `GateDecision`: vocabulary and promise.
2. `GateChecks`, `ExecutionGate` and the claims about them.
3. `ExecutionGateProofs`: verdicts, refinement, policy, resubmission.
4. `EvidenceRecords`, `EvidencePipeline`; `HumanReview`, `JobQueue`.
5. `DecisionRelay`, `WebhookAdapter`: overlapping handlers, lost callbacks, liveness.
6. `ConfigurationFiles`, `Deployment`: damage, half-written files, verification, server.
7. `GatedServices`: history, middleware, agent scenarios, fraud triage.
8. `Wizard`, `WizardProofs`: the form, its package, and their proofs.
9. `Diagnostics`, `AuditExport`.
10. `ProofSnapshot`, `ProofSnapshotProofs`: export, merges and edits, verification, report.

11. `GateChecksProofs`: what `evaluate` returns, as a function; `EvaluateIsFunction`,
    `TraceMatchesVerdict` and `ReportsBlameTheCause` of the gate.
12. `EvidencePipelineProofs`, `WebhookAdapterProofs` and, of `GatedProgramProofs`, the
    queue: records, bundles, manifests, replay and summary; the refinements of
    `HumanReview` and `DecisionRelay`.
13. `DeploymentProofs`; `PackagesRequireApproval` of the wizard.
14. The services in `GatedProgramProofs`: releases, bands, lookups.
15. Any request with any issued result in `EvidencePipeline`, generations of files in
    `Deployment`, policy packs with several rules for one workflow everywhere.

Of the components that are listed in section 1 nothing that keeps state is left but what
section 6 names.

## 6. Not modelled, and why

* Hashing, serialisation and time stamps as such: entries and payloads stand for
  their hashes, and instants are numbers. `verifyChain` on a tampered file belongs to
  the audit log, whose source is not in the snapshot.
* The support self-checks: they run the modelled services on four fixed requests and
  look for fields that the results always have; what they look at is covered by the
  properties of gate, evidence and replay.
* More than half of the implementation's lines are generators of PDF documents
  (`scripts/generate-*-pdf.*`, `generate-repo-breakdown`, `archive/scripts`) and the pages
  and the vendored component library of the React demo; formatters, review portal data,
  browser demo and auditor view are of the same kind. They lay out text, and keep no
  state that another part reads. So the map covers the enforcement path, its examples
  and the deployment almost wholly, and little of the rest.
* The checklist and the handoff pack of the wizard, and `generate-pilot-config.ts`: text
  made of the answers.
* The `onHold` option of the middleware: no code in the repository passes one.
* `attached_assets/` and generated files.
