------------------------------ MODULE ProofSnapshot -----------------------------
(***************************************************************************)
(* The proof snapshot of the repository: export-proof.ts runs six commands *)
(* on the working tree and writes what they reported, with checksums and   *)
(* perhaps a signature; verify-proof.ts and generate-evidence-report.ts    *)
(* read it.  Developers go on changing and committing the tree, the key of *)
(* the environment is replaced, people edit and merge the file, and any of *)
(* the scripts can be cut off.  What is hashed stands for its SHA-256.     *)
(***************************************************************************)
EXTENDS Naturals, Sequences, FiniteSets

CONSTANTS
    Sources,        \* the contents of the working tree
    Validators,     \* the validators, in their order
    Outcome,        \* [source][command]: whether it passes, and the number that is
                    \* read from its output, 0 if none is recognised
    SigningKeys,    \* the keys that are long enough
    None,           \* no key, no file, no signature
    Damaged,        \* a file that is no JSON
    MaxChanges,     \* bounds for model checking: changes of tree and key,
    MaxExports,     \* exports,
    MaxEdits,       \* edits of the file,
    MaxReports      \* and reports

\* The scripts of package.json that are run.
ValidatorCommands ==
    {"demo:web:validate", "demo:support:validate", "review:validate"}

Commands ==
    <<"test", "check:invariants">> \o Validators \o <<"audit:repo">>

ASSUME ValidatorsAssumption == Validators \in Seq(ValidatorCommands)

ASSUME OutcomeAssumption ==
    Outcome \in [Sources -> [DOMAIN Commands -> [ok : BOOLEAN, read : Nat]]]
ASSUME BoundsAssumption == {MaxChanges, MaxExports, MaxEdits, MaxReports} \subseteq Nat

VARIABLES
    source,     \* the working tree
    head,       \* HEAD, as the number of commits
    key,        \* CERBASEAL_SIGNING_KEY, None if it is too short
    export,     \* the run of export-proof.ts: the commands run so far, and what it writes
    file,       \* docs/reports/proof-snapshot.json
    exported,   \* every snapshot written, with the trees its commands ran on and the key
    report,     \* the run of generate-evidence-report.ts: what it read, what it wrote
    package,    \* the evidence package
    changes, exports, edits, reports

vars == <<source, head, key, export, file, exported, report, package,
          changes, exports, edits, reports>>

--------------------------------------------------------------------------------
(* The snapshot *)

\* What the manifest says of a command.  The suite's total is the number that
\* passed; a repository without invariants has none uncovered and not all covered.
Entry(command, outcome) ==
    [count  |-> outcome.read,
     passed |-> CASE command = "test"             -> TRUE
                  [] command = "check:invariants" -> outcome.ok /\ outcome.read > 0
                  [] OTHER                        -> outcome.ok]

EntryFor(n, s) == Entry(Commands[n], Outcome[s][n])

\* Branch and version go with the commit.
stablePayload(s) == <<s.gitCommit, s.results>>

manifestBody(s) == <<s.generatedAt, s.gitCommit, s.results>>

createHmac(k, checksum) == [key |-> k, over |-> checksum]

\* What the export writes at a time, on a commit, with a key.
Manifest(time, commit, results, k) ==
    LET body == [generatedAt |-> time, gitCommit |-> commit, results |-> results]
    IN  [generatedAt      |-> time,
         gitCommit        |-> commit,
         results          |-> results,
         manifestChecksum |-> manifestBody(body),
         stableChecksum   |-> stablePayload(body),
         hmacSignature    |-> IF k = None THEN None ELSE createHmac(k, stablePayload(body)),
         rearranged       |-> FALSE]

IsSnapshot(f) == f \notin {None, Damaged}

\* Mutant: one checksum is thought to be enough.
verifyProof_StableOnly(f, k) ==
    /\ IsSnapshot(f)
    /\ f.stableChecksum = stablePayload(f)
    /\ k # None /\ f.hmacSignature # None =>
          f.hmacSignature = createHmac(k, f.stableChecksum)

\* The exit code of verify-proof.ts is 0.  It puts the members into the order of
\* the export before it hashes them.
verifyProof(f, k) ==
    /\ IsSnapshot(f)
    /\ f.stableChecksum = stablePayload(f)
    /\ f.manifestChecksum = manifestBody(f)
    /\ k # None /\ f.hmacSignature # None =>
          f.hmacSignature = createHmac(k, f.stableChecksum)

--------------------------------------------------------------------------------
(* The evidence package *)

\* The report hashes the members in the order of the file.
verifyManifestChecksum(s) == ~ s.rearranged /\ s.manifestChecksum = manifestBody(s)

generateGovernanceSummary(s) ==
    [snapshot    |-> s,
     overallPass |-> /\ \A n \in DOMAIN s.results : s.results[n].passed
                     /\ verifyManifestChecksum(s)]

generateDecisionSummary(s) ==
    [snapshot         |-> s,
     checksumVerified |-> verifyManifestChecksum(s),
     hmacSigned       |-> s.hmacSignature # None]

generateAuditIntegritySummary(s) ==
    [snapshot |-> s, verified |-> verifyManifestChecksum(s)]

--------------------------------------------------------------------------------

Idle == [state |-> "idle", seen |-> <<>>, results |-> <<>>, manifest |-> None]

Init ==
    /\ source \in Sources
    /\ head = 1
    /\ key \in SigningKeys \cup {None}
    /\ export = Idle
    /\ file = None
    /\ exported = {}
    /\ report = [written |-> 0, snapshot |-> None]
    /\ package = [governance |-> None, decision |-> None, audit |-> None]
    /\ changes = 0 /\ exports = 0 /\ edits = 0 /\ reports = 0

\* A change of the tree, a commit of it (or of the snapshot) or a new key.
Develop ==
    /\ changes < MaxChanges
    /\ changes' = changes + 1
    /\ \/ /\ source' \in Sources \ {source}
          /\ UNCHANGED <<head, key>>
       \/ /\ head' = head + 1
          /\ UNCHANGED <<source, key>>
       \/ /\ key' \in (SigningKeys \cup {None}) \ {key}
          /\ UNCHANGED <<source, head>>
    /\ UNCHANGED <<export, file, exported, report, package, exports, edits, reports>>

--------------------------------------------------------------------------------
(* export-proof.ts *)

BeginExport ==
    /\ export.state = "idle"
    /\ exports < MaxExports
    /\ exports' = exports + 1
    /\ export' = [Idle EXCEPT !.state = "running"]
    /\ UNCHANGED <<source, head, key, file, exported, report, package,
                   changes, edits, reports>>

\* Mutant: a command whose outcome is not among the steps.
RunCommand_NoStep ==
    /\ export.state = "running"
    /\ Len(export.results) < Len(Commands)
    /\ export' =
          [export EXCEPT
              !.results = Append(@, EntryFor(Len(export.results) + 1, source))]
    /\ UNCHANGED <<source, head, key, file, exported, report, package,
                   changes, exports, edits, reports>>

\* The next command runs on the tree as it is now.
RunCommand ==
    /\ export.state = "running"
    /\ Len(export.results) < Len(Commands)
    /\ export' =
          [export EXCEPT
              !.seen    = Append(@, source),
              !.results = Append(@, EntryFor(Len(export.results) + 1, source))]
    /\ UNCHANGED <<source, head, key, file, exported, report, package,
                   changes, exports, edits, reports>>

\* Mutant: the numbers of the manifest are trusted.
allPassed_ByNumbers(e) == \A n \in DOMAIN e.results : e.results[n].passed

\* Every command ended with exit code 0.
allPassed(e) == \A n \in DOMAIN e.seen : Outcome[e.seen[n]][n].ok

AbortExport ==
    /\ export.state = "running"
    /\ Len(export.results) = Len(Commands)
    /\ ~ allPassed(export)
    /\ export' = Idle
    /\ UNCHANGED <<source, head, key, file, exported, report, package,
                   changes, exports, edits, reports>>

\* HEAD, clock and key are read when the commands are over, and the file is
\* emptied before it is filled.
AssembleManifest ==
    /\ export.state = "running"
    /\ Len(export.results) = Len(Commands)
    /\ allPassed(export)
    /\ LET manifest == Manifest(exports, head, export.results, key)
       IN  /\ export' = [export EXCEPT !.state = "writing", !.manifest = manifest]
           /\ exported' = exported \cup
                 {[snapshot |-> manifest, seen |-> export.seen, key |-> key]}
    /\ file' = Damaged
    /\ UNCHANGED <<source, head, key, report, package, changes, exports, edits, reports>>

WriteSnapshot ==
    /\ export.state = "writing"
    /\ file' = export.manifest
    /\ export' = Idle
    /\ UNCHANGED <<source, head, key, exported, report, package,
                   changes, exports, edits, reports>>

\* The script is cut off.
ExportEnds ==
    /\ export.state # "idle"
    /\ export' = Idle
    /\ UNCHANGED <<source, head, key, file, exported, report, package,
                   changes, exports, edits, reports>>

--------------------------------------------------------------------------------
(* The file in other hands *)

Members == {"generatedAt", "gitCommit", "results", "manifestChecksum",
            "stableChecksum", "hmacSignature"}

\* A merge takes some members from one export and the others from another.
MergeSnapshots ==
    /\ edits < MaxEdits
    /\ edits' = edits + 1
    /\ \E a, b \in exported, from \in SUBSET Members :
          file' = [member \in DOMAIN a.snapshot |->
                      IF member \in from THEN a.snapshot[member] ELSE b.snapshot[member]]
    /\ UNCHANGED <<source, head, key, export, exported, report, package,
                   changes, exports, reports>>

\* A number is corrected by hand, the signature is dropped, or the file is stored
\* in another order or with a member of someone else's.
EditSnapshot ==
    /\ edits < MaxEdits
    /\ edits' = edits + 1
    /\ IsSnapshot(file)
    /\ \/ \E n \in DOMAIN file.results :
             file' = [file EXCEPT !.results[n].count = @ + 1]
       \/ file' = [file EXCEPT !.hmacSignature = None]
       \/ file' = [file EXCEPT !.rearranged = TRUE]
    /\ UNCHANGED <<source, head, key, export, exported, report, package,
                   changes, exports, reports>>

--------------------------------------------------------------------------------
(* generate-evidence-report.ts *)

BeginReport ==
    /\ report.snapshot = None
    /\ reports < MaxReports
    /\ IsSnapshot(file)
    /\ reports' = reports + 1
    /\ report' = [written |-> 0, snapshot |-> file]
    /\ UNCHANGED <<source, head, key, export, file, exported, package,
                   changes, exports, edits>>

\* The three documents are written one after the other.
WriteDocument ==
    /\ report.snapshot # None
    /\ LET s == report.snapshot
       IN  CASE report.written = 0 ->
                  package' = [package EXCEPT !.governance = generateGovernanceSummary(s)]
             [] report.written = 1 ->
                  package' = [package EXCEPT !.decision = generateDecisionSummary(s)]
             [] report.written = 2 ->
                  package' = [package EXCEPT !.audit = generateAuditIntegritySummary(s)]
    /\ report' = IF report.written < 2
                 THEN [report EXCEPT !.written = @ + 1]
                 ELSE [written |-> 0, snapshot |-> None]
    /\ UNCHANGED <<source, head, key, export, file, exported,
                   changes, exports, edits, reports>>

ReportEnds ==
    /\ report.snapshot # None
    /\ report' = [written |-> 0, snapshot |-> None]
    /\ UNCHANGED <<source, head, key, export, file, exported, package,
                   changes, exports, edits, reports>>

Next ==
    \/ Develop
    \/ BeginExport \/ RunCommand \/ AbortExport \/ AssembleManifest
    \/ WriteSnapshot \/ ExportEnds
    \/ MergeSnapshots \/ EditSnapshot
    \/ BeginReport \/ WriteDocument \/ ReportEnds

Spec == Init /\ [][Next]_vars

--------------------------------------------------------------------------------
(* Properties *)

EntryType == [count : Nat, passed : BOOLEAN]
Entries == [DOMAIN Commands -> EntryType]

Payload == Nat \X Entries
Signatures == [key : SigningKeys, over : Payload]

Snapshots ==
    [generatedAt      : Nat,
     gitCommit        : Nat,
     results          : Entries,
     manifestChecksum : Nat \X Nat \X Entries,
     stableChecksum   : Payload,
     hmacSignature    : Signatures \cup {None},
     rearranged       : BOOLEAN]

\* None and Damaged are not values of any other type.
ASSUME NoneAssumption ==
    /\ {None, Damaged} \cap Snapshots = {}
    /\ None \notin SigningKeys
    /\ None \notin Signatures
    /\ None \notin [snapshot : Snapshots, overallPass : BOOLEAN]
    /\ None \notin [snapshot : Snapshots, checksumVerified : BOOLEAN, hmacSigned : BOOLEAN]
    /\ None \notin [snapshot : Snapshots, verified : BOOLEAN]

\* The type of every variable; an export has as many results as trees it has seen.
TypeOK ==
    /\ source \in Sources
    /\ head \in Nat
    /\ key \in SigningKeys \cup {None}
    /\ export \in [state    : {"idle", "running", "writing"},
                   seen     : Seq(Sources),
                   results  : Seq(EntryType),
                   manifest : Snapshots \cup {None}]
    /\ Len(export.seen) = Len(export.results) /\ Len(export.seen) <= Len(Commands)
    /\ export.state = "writing" => export.manifest # None
    /\ file \in Snapshots \cup {None, Damaged}
    /\ exported \subseteq [snapshot : Snapshots,
                           seen     : [DOMAIN Commands -> Sources],
                           key      : SigningKeys \cup {None}]
    /\ report \in [written : 0 .. 2, snapshot : Snapshots \cup {None}]
    /\ package \in
          [governance : [snapshot : Snapshots, overallPass : BOOLEAN] \cup {None},
           decision   : [snapshot : Snapshots, checksumVerified : BOOLEAN,
                         hmacSigned : BOOLEAN] \cup {None},
           audit      : [snapshot : Snapshots, verified : BOOLEAN] \cup {None}]
    /\ {changes, exports, edits, reports} \subseteq Nat

\* The members of a snapshot are all of one export, every command of which passed
\* on the tree it ran on and reported what the snapshot says.
Vouched(s) ==
    \E e \in exported :
        /\ manifestBody(e.snapshot) = manifestBody(s)
        /\ \A n \in DOMAIN Commands :
              /\ Outcome[e.seen[n]][n].ok
              /\ s.results[n] = EntryFor(n, e.seen[n])

\* However exports end, trees change under them and files are merged or edited, a
\* snapshot that verify:proof accepts, with whatever key the reader has, is the
\* report of one passing export; and if it has checked a signature, a holder of
\* the reader's key exported these very results (verify-proof.ts:65-144).
VerifiedIsAsExported ==
    \A k \in SigningKeys \cup {None} :
        verifyProof(file, k) =>
            /\ Vouched(file)
            /\ k # None /\ file.hmacSignature # None =>
                  \E e \in exported :
                      e.key = k /\ stablePayload(e.snapshot) = stablePayload(file)

\* A document of the evidence package that says PASS, or that the checksum is
\* verified, tells of one passing export, also when the package was left with
\* documents of different snapshots; and a PASS is not of a repository without
\* invariants (generate-evidence-report.ts:56, 76, 223, 280).
ReportedPassIsEarned ==
    /\ package.governance # None /\ package.governance.overallPass =>
          /\ Vouched(package.governance.snapshot)
          /\ package.governance.snapshot.results[2].count > 0
    /\ package.decision # None /\ package.decision.checksumVerified =>
          Vouched(package.decision.snapshot)
    /\ package.audit # None /\ package.audit.verified =>
          Vouched(package.audit.snapshot)

\* Two exports have the same stableChecksum just if HEAD was the same and all
\* commands reported the same, whenever they were made and whichever key signed
\* them: reviewers compare it across time (README.md:25).
ExportsAreComparable ==
    \A d, e \in exported :
        d.snapshot.stableChecksum = e.snapshot.stableChecksum <=>
            /\ d.snapshot.gitCommit = e.snapshot.gitCommit
            /\ \A n \in DOMAIN Commands : EntryFor(n, d.seen[n]) = EntryFor(n, e.seen[n])
================================================================================
