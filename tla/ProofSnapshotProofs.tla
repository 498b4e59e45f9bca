--------------------------- MODULE ProofSnapshotProofs --------------------------
(***************************************************************************)
(* Proofs about ProofSnapshot, for every set of trees and keys, every list *)
(* of validators and every bound.                                          *)
(***************************************************************************)
EXTENDS ProofSnapshot, TLAPS

--------------------------------------------------------------------------------
(* Snapshots *)

\* A list between two first entries and a last one.
LEMMA FramedList ==
    ASSUME NEW S, NEW a \in S, NEW b \in S, NEW c \in S, NEW list \in Seq(S)
    PROVE  /\ Len(<<a, b>> \o list \o <<c>>) \in Nat
           /\ Len(<<a, b>> \o list \o <<c>>) >= 3
           /\ DOMAIN (<<a, b>> \o list \o <<c>>) = 1 .. Len(<<a, b>> \o list \o <<c>>)
           /\ (<<a, b>> \o list \o <<c>>)[2] = b
  <1> DEFINE front == <<a, b>> \o list
  <1>1. front \in Seq(S) /\ Len(front) = Len(list) + 2 /\ front[2] = b
    OBVIOUS
  <1>2. Len(list) \in Nat
    OBVIOUS
  <1> HIDE DEF front
  <1>3. /\ front \o <<c>> \in Seq(S)
        /\ Len(front \o <<c>>) = Len(front) + 1
        /\ (front \o <<c>>)[2] = front[2]
    BY <1>1, <1>2
  <1>4. /\ Len(front \o <<c>>) \in Nat /\ Len(front \o <<c>>) >= 3
        /\ DOMAIN (front \o <<c>>) = 1 .. Len(front \o <<c>>)
        /\ (front \o <<c>>)[2] = b
    BY <1>1, <1>2, <1>3
  <1>5. QED
    BY <1>4 DEF front

\* The commands are a list whose second one checks the invariants.
LEMMA CommandList ==
    /\ Len(Commands) \in Nat
    /\ DOMAIN Commands = 1 .. Len(Commands)
    /\ 2 \in DOMAIN Commands
    /\ Commands[2] = "check:invariants"
  <1> DEFINE S == ValidatorCommands \cup
                  {"test", "check:invariants", "audit:repo"}
  <1>1. "test"\in S /\ "check:invariants" \in S /\ "audit:repo" \in S
    OBVIOUS
  <1>2. ValidatorCommands \subseteq S
    OBVIOUS
  <1> HIDE DEF S
  <1>3. Validators \in Seq(S)
    BY <1>2, ValidatorsAssumption
  <1>4. /\ Len(Commands) \in Nat
        /\ Len(Commands) >= 3
        /\ DOMAIN Commands = 1 .. Len(Commands)
        /\ Commands[2] = "check:invariants"
    BY <1>1, <1>3, FramedList DEF Commands
  <1>5. QED
    BY <1>4

\* What the manifest says of a command has the type of an entry.
LEMMA EntryForType ==
    ASSUME NEW n \in DOMAIN Commands, NEW s \in Sources
    PROVE  EntryFor(n, s) \in EntryType
  <1>1. Outcome[s][n] \in [ok : BOOLEAN, read : Nat]
    BY OutcomeAssumption
  <1>2. QED
    BY <1>1 DEF EntryFor, Entry, EntryType

\* The export writes a snapshot.
LEMMA ManifestType ==
    ASSUME NEW time \in Nat, NEW commit \in Nat, NEW results \in Entries,
           NEW k \in SigningKeys \cup {None}
    PROVE  Manifest(time, commit, results, k) \in Snapshots
  BY DEF Manifest, Snapshots, manifestBody, stablePayload, createHmac, Signatures, Payload

\* A merge of two snapshots is one.
LEMMA MergeType ==
    ASSUME NEW a \in Snapshots, NEW b \in Snapshots, NEW from
    PROVE  [member \in DOMAIN a |-> IF member \in from THEN a[member] ELSE b[member]]
               \in Snapshots
  BY DEF Snapshots

--------------------------------------------------------------------------------
(* Type correctness *)

\* Initially every variable has its type.
LEMMA InitType == Init => TypeOK
  BY DEF Init, TypeOK, Idle, BoundsAssumption

\* The export keeps the types.
LEMMA ExportType ==
    TypeOK /\ (BeginExport \/ RunCommand \/ AbortExport \/ AssembleManifest
               \/ WriteSnapshot \/ ExportEnds) => TypeOK'
  <1> SUFFICES ASSUME TypeOK,
                      BeginExport \/ RunCommand \/ AbortExport \/ AssembleManifest
                      \/ WriteSnapshot \/ ExportEnds
               PROVE  TypeOK'
    OBVIOUS
  <1> USE DEF TypeOK
  <1>i. Idle \in [state : {"idle", "running", "writing"}, seen : Seq(Sources),
                  results : Seq(EntryType), manifest : Snapshots \cup {None}]
        /\ Idle.state = "idle" /\ Len(Idle.seen) = 0 /\ Len(Idle.results) = 0
    BY DEF Idle
  <1>1. CASE BeginExport
    <2>1. /\ [Idle EXCEPT !.state = "running"]
                \in [state : {"idle", "running", "writing"}, seen : Seq(Sources),
                     results : Seq(EntryType), manifest : Snapshots \cup {None}]
          /\ [Idle EXCEPT !.state = "running"].state = "running"
          /\ [Idle EXCEPT !.state = "running"].seen = Idle.seen
          /\ [Idle EXCEPT !.state = "running"].results = Idle.results
      BY <1>i
    <2>2. QED
      BY <1>1, <1>i, <2>1, CommandList DEF BeginExport
  <1>2. CASE RunCommand
    <2> DEFINE n == Len(export.results) + 1
    <2>1. n \in DOMAIN Commands
      BY <1>2, CommandList DEF RunCommand
    <2>2. EntryFor(n, source) \in EntryType
      BY <2>1, EntryForType
    <2>3. export' = [export EXCEPT !.seen = Append(@, source),
                                   !.results = Append(@, EntryFor(n, source))]
      BY <1>2 DEF RunCommand
    <2> HIDE DEF n
    <2>4. export' \in [state : {"idle", "running", "writing"}, seen : Seq(Sources),
                       results : Seq(EntryType), manifest : Snapshots \cup {None}]
      <3>1. /\ Append(export.seen, source) \in Seq(Sources)
            /\ Append(export.results, EntryFor(n, source)) \in Seq(EntryType)
        BY <2>2
      <3>2. QED
        BY <2>3, <3>1
    <2>5. /\ export'.seen = Append(export.seen, source)
          /\ export'.results = Append(export.results, EntryFor(n, source))
          /\ export'.state = "running"
      BY <1>2, <2>3 DEF RunCommand
    <2>6. Len(export'.seen) = Len(export'.results) /\ Len(export'.seen) <= Len(Commands)
      <3>1. /\ export.seen \in Seq(Sources) /\ export.results \in Seq(EntryType)
            /\ Len(export.seen) = Len(export.results) /\ source \in Sources
            /\ Len(export.results) < Len(Commands)
        BY <1>2 DEF RunCommand
      <3>2. /\ Len(Append(export.seen, source)) = Len(export.seen) + 1
            /\ Len(Append(export.results, EntryFor(n, source))) = Len(export.results) + 1
            /\ Len(export.seen) \in Nat
        BY <2>2, <3>1
      <3>3. QED
        BY <2>5, <3>1, <3>2, CommandList
    <2>7. QED
      BY <1>2, <2>4, <2>5, <2>6 DEF RunCommand
  <1>3. CASE AbortExport
    BY <1>3, <1>i, CommandList DEF AbortExport
  <1>4. CASE AssembleManifest
    <2>1. export.results \in Entries /\ export.seen \in [DOMAIN Commands -> Sources]
      BY <1>4, CommandList DEF AssembleManifest, Entries
    <2>2. Manifest(exports, head, export.results, key) \in Snapshots
      BY <2>1, ManifestType
    <2>3. Manifest(exports, head, export.results, key) # None
      BY <2>2, NoneAssumption
    <2>4. PICK manifest \in Snapshots :
             /\ manifest # None
             /\ export' = [export EXCEPT !.state = "writing", !.manifest = manifest]
             /\ exported' = exported \cup
                   {[snapshot |-> manifest, seen |-> export.seen, key |-> key]}
      BY <1>4, <2>2, <2>3 DEF AssembleManifest
    <2>5. /\ export' \in [state : {"idle", "running", "writing"}, seen : Seq(Sources),
                          results : Seq(EntryType), manifest : Snapshots \cup {None}]
          /\ export'.seen = export.seen /\ export'.results = export.results
          /\ export'.manifest # None
      BY <2>4
    <2>6. exported' \subseteq [snapshot : Snapshots, seen : [DOMAIN Commands -> Sources],
                               key : SigningKeys \cup {None}]
      BY <2>1, <2>4
    <2>7. QED
      BY <1>4, <2>5, <2>6 DEF AssembleManifest
  <1>5. CASE WriteSnapshot
    BY <1>5, <1>i, CommandList DEF WriteSnapshot
  <1>6. CASE ExportEnds
    BY <1>6, <1>i, CommandList DEF ExportEnds
  <1>7. QED
    BY <1>1, <1>2, <1>3, <1>4, <1>5, <1>6

\* So do changes of the tree and of the file.
LEMMA EditType == TypeOK /\ (Develop \/ MergeSnapshots \/ EditSnapshot) => TypeOK'
  <1> SUFFICES ASSUME TypeOK, Develop \/ MergeSnapshots \/ EditSnapshot
               PROVE  TypeOK'
    OBVIOUS
  <1>1. CASE Develop
    BY <1>1 DEF Develop, TypeOK
  <1>2. CASE MergeSnapshots
    <2>1. file' \in Snapshots
      <3>1. PICK a \in exported, b \in exported, from \in SUBSET Members :
               file' = [member \in DOMAIN a.snapshot |->
                          IF member \in from THEN a.snapshot[member]
                          ELSE b.snapshot[member]]
        BY <1>2 DEF MergeSnapshots
      <3>2. a.snapshot \in Snapshots /\ b.snapshot \in Snapshots
        BY DEF TypeOK
      <3>3. QED
        BY <3>1, <3>2, MergeType
    <2>2. /\ edits' = edits + 1
          /\ UNCHANGED <<source, head, key, export, exported, report, package,
                         changes, exports, reports>>
      BY <1>2 DEF MergeSnapshots
    <2>3. QED
      BY <2>1, <2>2 DEF TypeOK
  <1>3. CASE EditSnapshot
    <2>1. file \in Snapshots
      BY <1>3 DEF EditSnapshot, IsSnapshot, TypeOK
    <2>2. ASSUME NEW n \in DOMAIN file.results
          PROVE  [file EXCEPT !.results[n].count = @ + 1] \in Snapshots
      <3>1. file.results \in Entries
        BY <2>1 DEF Snapshots
      <3>2. [file.results EXCEPT ![n].count = @ + 1] \in Entries
        BY <3>1 DEF Entries, EntryType
      <3>3. [file EXCEPT !.results = [file.results EXCEPT ![n].count = @ + 1]] \in Snapshots
        BY <2>1, <3>2 DEF Snapshots
      <3>4. QED
        BY <3>3
    <2>3. [file EXCEPT !.hmacSignature = None] \in Snapshots
          /\ [file EXCEPT !.rearranged = TRUE] \in Snapshots
      BY <2>1 DEF Snapshots
    <2>4. file' \in Snapshots
      BY <1>3, <2>2, <2>3 DEF EditSnapshot
    <2>5. QED
      BY <1>3, <2>4 DEF EditSnapshot, TypeOK
  <1>4. QED
    BY <1>1, <1>2, <1>3

\* So does the report.
LEMMA ReportType == TypeOK /\ (BeginReport \/ WriteDocument \/ ReportEnds) => TypeOK'
  <1> SUFFICES ASSUME TypeOK, BeginReport \/ WriteDocument \/ ReportEnds
               PROVE  TypeOK'
    OBVIOUS
  <1>1. CASE BeginReport
    BY <1>1 DEF BeginReport, IsSnapshot, TypeOK
  <1>2. CASE WriteDocument
    <2>1. report.snapshot \in Snapshots
      BY <1>2 DEF WriteDocument, TypeOK
    <2>2. /\ generateGovernanceSummary(report.snapshot)
                \in [snapshot : Snapshots, overallPass : BOOLEAN]
          /\ generateDecisionSummary(report.snapshot)
                \in [snapshot : Snapshots, checksumVerified : BOOLEAN, hmacSigned : BOOLEAN]
          /\ generateAuditIntegritySummary(report.snapshot)
                \in [snapshot : Snapshots, verified : BOOLEAN]
      BY <2>1 DEF generateGovernanceSummary, generateDecisionSummary,
                  generateAuditIntegritySummary, verifyManifestChecksum
    <2>3. report' \in [written : 0 .. 2, snapshot : Snapshots \cup {None}]
      BY <1>2 DEF WriteDocument, TypeOK
    <2>4. package' \in
            [governance : [snapshot : Snapshots, overallPass : BOOLEAN] \cup {None},
             decision   : [snapshot : Snapshots, checksumVerified : BOOLEAN,
                           hmacSigned : BOOLEAN] \cup {None},
             audit      : [snapshot : Snapshots, verified : BOOLEAN] \cup {None}]
      <3>1. report.written \in {0, 1, 2}
        BY DEF TypeOK
      <3>2. \/ package' = [package EXCEPT
                  !.governance = generateGovernanceSummary(report.snapshot)]
            \/ package' = [package EXCEPT
                  !.decision = generateDecisionSummary(report.snapshot)]
            \/ package' = [package EXCEPT
                  !.audit = generateAuditIntegritySummary(report.snapshot)]
        BY <1>2, <3>1 DEF WriteDocument
      <3>3. QED
        BY <2>2, <3>2 DEF TypeOK
    <2>5. UNCHANGED <<source, head, key, export, file, exported,
                      changes, exports, edits, reports>>
      BY <1>2 DEF WriteDocument
    <2>6. QED
      BY <2>3, <2>4, <2>5 DEF TypeOK
  <1>3. CASE ReportEnds
    BY <1>3 DEF ReportEnds, TypeOK
  <1>4. QED
    BY <1>1, <1>2, <1>3

\* Every variable of ProofSnapshot keeps its type; each export has as many results
\* as trees it has seen.
THEOREM SnapshotTypeCorrect == Spec => []TypeOK
  <1>1. TypeOK /\ [Next]_vars => TypeOK'
    <2>1. TypeOK /\ UNCHANGED vars => TypeOK'
      BY DEF TypeOK, vars
    <2>2. QED
      BY <2>1, ExportType, EditType, ReportType DEF Next
  <1>2. QED
    BY <1>1, InitType, PTL DEF Spec

--------------------------------------------------------------------------------
(* Where checksums and signatures come from *)

\* An export whose commands passed, as its snapshot says, sealed by its checksums
\* and, if there was a key, by a signature.
Sealed(e) ==
    /\ \A n \in DOMAIN Commands :
          Outcome[e.seen[n]][n].ok /\ e.snapshot.results[n] = EntryFor(n, e.seen[n])
    /\ e.snapshot.manifestChecksum = manifestBody(e.snapshot)
    /\ e.snapshot.stableChecksum = stablePayload(e.snapshot)
    /\ e.snapshot.hmacSignature =
          IF e.key = None THEN None ELSE createHmac(e.key, stablePayload(e.snapshot))

\* The manifest checksum and the signature are each of some export, whatever the
\* other members say.
Traceable(s, E) ==
    /\ \E e \in E : s.manifestChecksum = manifestBody(e.snapshot)
    /\ s.hmacSignature # None =>
          \E e \in E : /\ e.key # None
                       /\ s.hmacSignature = createHmac(e.key, stablePayload(e.snapshot))

ExportInv ==
    /\ \A e \in exported : Sealed(e)
    /\ \A n \in 1 .. Len(export.seen) : export.results[n] = EntryFor(n, export.seen[n])
    /\ export.state = "writing" => Traceable(export.manifest, exported)

ReadersInv ==
    /\ IsSnapshot(file) => Traceable(file, exported)
    /\ report.snapshot # None => Traceable(report.snapshot, exported)
    /\ package.governance # None =>
          /\ Traceable(package.governance.snapshot, exported)
          /\ package.governance = generateGovernanceSummary(package.governance.snapshot)
    /\ package.decision # None =>
          /\ Traceable(package.decision.snapshot, exported)
          /\ package.decision = generateDecisionSummary(package.decision.snapshot)
    /\ package.audit # None =>
          /\ Traceable(package.audit.snapshot, exported)
          /\ package.audit = generateAuditIntegritySummary(package.audit.snapshot)

\* More exports take nothing away.
LEMMA TraceableMonotonic ==
    ASSUME NEW s, NEW E, NEW F, E \subseteq F, Traceable(s, E)
    PROVE  Traceable(s, F)
  BY DEF Traceable

\* What is written is sealed.
LEMMA ManifestSealed ==
    ASSUME NEW time, NEW commit, NEW results, NEW k,
           NEW seen, \A n \in DOMAIN Commands :
               Outcome[seen[n]][n].ok /\ results[n] = EntryFor(n, seen[n])
    PROVE  Sealed([snapshot |-> Manifest(time, commit, results, k),
                   seen |-> seen, key |-> k])
  BY DEF Sealed, Manifest, manifestBody, stablePayload

\* A sealed snapshot can be traced to its export.
LEMMA SealedTraceable ==
    ASSUME NEW E, NEW e \in E, Sealed(e)
    PROVE  Traceable(e.snapshot, E)
  BY DEF Sealed, Traceable

\* A merge takes its checksum and its signature from one of two exports.
LEMMA MergeTraceable ==
    ASSUME NEW E, NEW a \in E, NEW b \in E, Sealed(a), Sealed(b),
           a.snapshot \in Snapshots, b.snapshot \in Snapshots, NEW from
    PROVE  Traceable([member \in DOMAIN a.snapshot |->
                         IF member \in from THEN a.snapshot[member] ELSE b.snapshot[member]],
                     E)
  <1> DEFINE f == [member \in DOMAIN a.snapshot |->
                      IF member \in from THEN a.snapshot[member] ELSE b.snapshot[member]]
  <1>1. /\ f.manifestChecksum \in {a.snapshot.manifestChecksum, b.snapshot.manifestChecksum}
        /\ f.hmacSignature \in {a.snapshot.hmacSignature, b.snapshot.hmacSignature}
    BY DEF Snapshots
  <1> HIDE DEF f
  <1>2. Traceable(a.snapshot, E) /\ Traceable(b.snapshot, E)
    BY SealedTraceable
  <1>3. Traceable(f, E)
    BY <1>1, <1>2 DEF Traceable
  <1>4. QED
    BY <1>3 DEF f

--------------------------------------------------------------------------------
(* The exports *)

\* Only what was run is written, and only if all of it passed.
LEMMA ExportKeepsSeals ==
    TypeOK /\ ExportInv /\ [Next]_vars => ExportInv' /\ exported \subseteq exported'
  <1> SUFFICES ASSUME TypeOK, ExportInv, [Next]_vars
               PROVE  ExportInv' /\ exported \subseteq exported'
    OBVIOUS
  <1>1. CASE RunCommand
    <2>1. /\ export.seen \in Seq(Sources) /\ export.results \in Seq(EntryType)
          /\ source \in Sources /\ Len(export.seen) = Len(export.results)
          /\ Len(export.results) < Len(Commands)
      BY <1>1 DEF RunCommand, TypeOK
    <2> DEFINE n == Len(export.results) + 1
               entry == EntryFor(n, source)
    <2>2. /\ export'.seen = Append(export.seen, source)
          /\ export'.results = Append(export.results, entry)
          /\ export'.state = "running"
          /\ exported' = exported
      BY <1>1 DEF RunCommand, TypeOK
    <2>3. entry \in EntryType
      <3>1. n \in DOMAIN Commands
        BY <2>1, CommandList
      <3> HIDE DEF n
      <3>2. QED
        BY <2>1, <3>1, EntryForType
    <2>4. ASSUME NEW m \in 1 .. Len(export'.seen)
          PROVE  export'.results[m] = EntryFor(m, export'.seen[m])
      <3>1. m \in 1 .. Len(export.seen) \/ m = n
        BY <2>1, <2>2
      <3> HIDE DEF entry
      <3>2. CASE m \in 1 .. Len(export.seen)
        <4>1. export'.results[m] = export.results[m] /\ export'.seen[m] = export.seen[m]
          BY <2>1, <2>2, <2>3, <3>2
        <4>2. QED
          BY <3>2, <4>1 DEF ExportInv
      <3>3. CASE m = n
        <4>1. export'.results[m] = entry /\ export'.seen[m] = source
          BY <2>1, <2>2, <2>3, <3>3
        <4>2. QED
          BY <3>3, <4>1 DEF entry
      <3>4. QED
        BY <3>1, <3>2, <3>3
    <2>5. QED
      BY <2>2, <2>4 DEF ExportInv
  <1>2. CASE AssembleManifest
    <2> DEFINE manifest == Manifest(exports, head, export.results, key)
               e == [snapshot |-> manifest, seen |-> export.seen, key |-> key]
    <2>1. /\ Len(export.results) = Len(Commands) /\ Len(export.seen) = Len(export.results)
          /\ export.seen \in Seq(Sources) /\ allPassed(export)
      BY <1>2 DEF AssembleManifest, TypeOK
    <2>2. DOMAIN export.seen = DOMAIN Commands
      BY <2>1, CommandList
    <2>3. \A n \in DOMAIN Commands :
             /\ Outcome[export.seen[n]][n].ok
             /\ export.results[n] = EntryFor(n, export.seen[n])
      BY <2>1, <2>2, CommandList DEF allPassed, ExportInv
    <2>4. Sealed(e)
      BY <2>3, ManifestSealed
    <2>5. /\ exported' = exported \cup {e}
          /\ export'.manifest = manifest /\ export'.state = "writing"
          /\ export'.seen = export.seen /\ export'.results = export.results
      BY <1>2 DEF AssembleManifest, TypeOK
    <2>6. Traceable(manifest, exported')
      BY <2>4, <2>5, SealedTraceable
    <2> HIDE DEF manifest, e
    <2>7. QED
      BY <2>4, <2>5, <2>6 DEF ExportInv
  <1>3. CASE BeginExport \/ AbortExport \/ WriteSnapshot \/ ExportEnds
    <2>1. Len(Idle.seen) = 0 /\ Idle.state = "idle"
      BY DEF Idle
    <2>2. /\ [Idle EXCEPT !.state = "running"].seen = Idle.seen
          /\ [Idle EXCEPT !.state = "running"].state = "running"
      BY DEF Idle
    <2>3. exported' = exported /\ export' \in {Idle, [Idle EXCEPT !.state = "running"]}
      BY <1>3 DEF BeginExport, AbortExport, WriteSnapshot, ExportEnds
    <2>4. Len(export'.seen) = 0 /\ export'.state # "writing"
      BY <2>1, <2>2, <2>3
    <2>5. QED
      BY <2>3, <2>4 DEF ExportInv
  <1>4. CASE UNCHANGED <<export, exported>>
    BY <1>4 DEF ExportInv
  <1>5. QED
    BY <1>1, <1>2, <1>3, <1>4 DEF Next, vars, Develop, MergeSnapshots, EditSnapshot,
       BeginReport, WriteDocument, ReportEnds

--------------------------------------------------------------------------------
(* The readers *)

\* Editing a snapshot leaves its checksum as it was, and its signature or none.
LEMMA EditTraceable ==
    TypeOK /\ ReadersInv /\ EditSnapshot => Traceable(file', exported)
  <1> SUFFICES ASSUME TypeOK, ReadersInv, EditSnapshot
               PROVE  Traceable(file', exported)
    OBVIOUS
  <1>1. file \in Snapshots /\ Traceable(file, exported)
    BY DEF EditSnapshot, IsSnapshot, TypeOK, ReadersInv
  <1>2. /\ file'.manifestChecksum = file.manifestChecksum
        /\ file'.hmacSignature \in {file.hmacSignature, None}
    BY <1>1 DEF EditSnapshot, Snapshots
  <1>3. QED
    BY <1>1, <1>2 DEF Traceable

\* Nothing else is ever read.
LEMMA ReadersKeepTraces ==
    TypeOK /\ ExportInv /\ ReadersInv /\ [Next]_vars => ReadersInv'
  <1> SUFFICES ASSUME TypeOK, ExportInv, ReadersInv, [Next]_vars
               PROVE  ReadersInv'
    OBVIOUS
  <1>1. exported \subseteq exported'
    BY ExportKeepsSeals
  <1>2. \A s : Traceable(s, exported) => Traceable(s, exported')
    BY <1>1, TraceableMonotonic
  <1>3. CASE AssembleManifest
    <2>1. file' = Damaged /\ UNCHANGED <<report, package>>
      BY <1>3 DEF AssembleManifest
    <2>2. QED
      BY <1>2, <2>1 DEF ReadersInv, IsSnapshot
  <1>4. CASE WriteSnapshot
    <2>1. Traceable(export.manifest, exported)
      BY <1>4 DEF WriteSnapshot, ExportInv
    <2>2. file' = export.manifest /\ UNCHANGED <<exported, report, package>>
      BY <1>4 DEF WriteSnapshot
    <2>3. QED
      BY <2>1, <2>2 DEF ReadersInv
  <1>5. CASE MergeSnapshots
    <2>1. PICK a \in exported, b \in exported, from \in SUBSET Members :
             file' = [member \in DOMAIN a.snapshot |->
                        IF member \in from THEN a.snapshot[member] ELSE b.snapshot[member]]
      BY <1>5 DEF MergeSnapshots
    <2>2. /\ Sealed(a) /\ Sealed(b)
          /\ a.snapshot \in Snapshots /\ b.snapshot \in Snapshots
      BY DEF ExportInv, TypeOK
    <2>3. Traceable(file', exported)
      BY <2>1, <2>2, MergeTraceable
    <2>4. UNCHANGED <<exported, report, package>>
      BY <1>5 DEF MergeSnapshots
    <2>5. QED
      BY <2>3, <2>4 DEF ReadersInv
  <1>6. CASE EditSnapshot
    <2>1. Traceable(file', exported)
      BY <1>6, EditTraceable
    <2>2. UNCHANGED <<exported, report, package>>
      BY <1>6 DEF EditSnapshot
    <2>3. QED
      BY <2>1, <2>2 DEF ReadersInv
  <1>7. CASE BeginReport
    <2>1. /\ IsSnapshot(file) /\ report'.snapshot = file
          /\ UNCHANGED <<file, exported, package>>
      BY <1>7 DEF BeginReport
    <2>2. QED
      BY <2>1 DEF ReadersInv
  <1>8. CASE WriteDocument
    <2> DEFINE s == report.snapshot
    <2>1. Traceable(s, exported) /\ UNCHANGED <<file, exported>>
      BY <1>8 DEF WriteDocument, ReadersInv
    <2>2. report'.snapshot \in {s, None}
      BY <1>8 DEF WriteDocument, TypeOK
    <2>3. \/ package' = [package EXCEPT !.governance = generateGovernanceSummary(s)]
          \/ package' = [package EXCEPT !.decision = generateDecisionSummary(s)]
          \/ package' = [package EXCEPT !.audit = generateAuditIntegritySummary(s)]
      <3>1. report.written \in {0, 1, 2}
        BY DEF TypeOK
      <3>2. QED
        BY <1>8, <3>1 DEF WriteDocument
    <2>4. /\ generateGovernanceSummary(s).snapshot = s
          /\ generateDecisionSummary(s).snapshot = s
          /\ generateAuditIntegritySummary(s).snapshot = s
      BY DEF generateGovernanceSummary, generateDecisionSummary,
             generateAuditIntegritySummary
    <2>5. /\ package'.governance \in {package.governance, generateGovernanceSummary(s)}
          /\ package'.decision \in {package.decision, generateDecisionSummary(s)}
          /\ package'.audit \in {package.audit, generateAuditIntegritySummary(s)}
      BY <2>3 DEF TypeOK
    <2> HIDE DEF s
    <2>6. QED
      BY <2>1, <2>2, <2>4, <2>5 DEF ReadersInv, s
  <1>9. CASE ReportEnds
    <2>1. report'.snapshot = None /\ UNCHANGED <<file, exported, package>>
      BY <1>9 DEF ReportEnds
    <2>2. QED
      BY <2>1 DEF ReadersInv
  <1>10. CASE UNCHANGED <<file, exported, report, package>>
    BY <1>10 DEF ReadersInv
  <1>11. QED
    BY <1>3, <1>4, <1>5, <1>6, <1>7, <1>8, <1>9, <1>10
       DEF Next, vars, Develop, BeginExport, RunCommand, AbortExport, ExportEnds

\* In every reachable state exports are sealed and what is read can be traced.
LEMMA SnapshotsInv == Spec => [](TypeOK /\ ExportInv /\ ReadersInv)
  <1>1. Init => ExportInv /\ ReadersInv
    <2>1. Len(<<>>) = 0
      OBVIOUS
    <2>2. QED
      BY <2>1 DEF Init, ExportInv, ReadersInv, Idle, IsSnapshot
  <1>2. TypeOK /\ ExportInv /\ ReadersInv /\ [Next]_vars => ExportInv' /\ ReadersInv'
    BY ExportKeepsSeals, ReadersKeepTraces
  <1>3. QED
    BY <1>1, <1>2, SnapshotTypeCorrect, PTL DEF Spec

--------------------------------------------------------------------------------
(* What the readers may conclude *)

\* A snapshot whose manifest checksum fits is all of one export.
LEMMA TracedIsVouched ==
    ASSUME ExportInv, NEW s, Traceable(s, exported), s.manifestChecksum = manifestBody(s)
    PROVE  Vouched(s)
  <1>1. PICK e \in exported : s.manifestChecksum = manifestBody(e.snapshot)
    BY DEF Traceable
  <1>2. Sealed(e)
    BY DEF ExportInv
  <1>3. manifestBody(e.snapshot) = manifestBody(s)
    BY <1>1
  <1>4. e.snapshot.results = s.results
    BY <1>3 DEF manifestBody
  <1>5. QED
    BY <1>2, <1>3, <1>4 DEF Vouched, Sealed

\* Two exports have the same stableChecksum just if HEAD was the same and all
\* commands reported the same.
THEOREM ExportsCompare == Spec => []ExportsAreComparable
  <1>1. ASSUME TypeOK, ExportInv
        PROVE  ExportsAreComparable
    <2> SUFFICES ASSUME NEW d \in exported, NEW e \in exported
                 PROVE  d.snapshot.stableChecksum = e.snapshot.stableChecksum <=>
                           /\ d.snapshot.gitCommit = e.snapshot.gitCommit
                           /\ \A n \in DOMAIN Commands :
                                 EntryFor(n, d.seen[n]) = EntryFor(n, e.seen[n])
      BY DEF ExportsAreComparable
    <2>1. Sealed(d) /\ Sealed(e)
      BY <1>1 DEF ExportInv
    <2>2. d.snapshot.results \in Entries /\ e.snapshot.results \in Entries
      BY <1>1 DEF TypeOK, Snapshots
    <2>3. d.snapshot.results = e.snapshot.results <=>
             \A n \in DOMAIN Commands : d.snapshot.results[n] = e.snapshot.results[n]
      BY <2>2 DEF Entries
    <2>4. d.snapshot.stableChecksum = e.snapshot.stableChecksum <=>
             /\ d.snapshot.gitCommit = e.snapshot.gitCommit
             /\ d.snapshot.results = e.snapshot.results
      BY <2>1 DEF Sealed, stablePayload
    <2>5. QED
      BY <2>1, <2>3, <2>4 DEF Sealed
  <1>2. QED
    BY <1>1, SnapshotsInv, PTL

\* What verify:proof accepts is the report of one passing export, and a signature
\* it has checked was made by a holder of the key over these results.
THEOREM VerifiedSnapshotsAreExports == Spec => []VerifiedIsAsExported
  <1>1. ASSUME ExportInv, ReadersInv
        PROVE  VerifiedIsAsExported
    <2> SUFFICES ASSUME NEW k \in SigningKeys \cup {None}, verifyProof(file, k)
                 PROVE  /\ Vouched(file)
                        /\ k # None /\ file.hmacSignature # None =>
                              \E e \in exported :
                                 /\ e.key = k
                                 /\ stablePayload(e.snapshot) = stablePayload(file)
      BY DEF VerifiedIsAsExported
    <2>1. Traceable(file, exported) /\ file.manifestChecksum = manifestBody(file)
      BY <1>1 DEF verifyProof, ReadersInv
    <2>2. Vouched(file)
      BY <1>1, <2>1, TracedIsVouched
    <2>3. ASSUME k # None, file.hmacSignature # None
          PROVE  \E e \in exported :
                    e.key = k /\ stablePayload(e.snapshot) = stablePayload(file)
      <3>1. PICK e \in exported :
               file.hmacSignature = createHmac(e.key, stablePayload(e.snapshot))
        BY <2>1, <2>3 DEF Traceable
      <3>2. /\ file.hmacSignature = createHmac(k, file.stableChecksum)
            /\ file.stableChecksum = stablePayload(file)
        BY <2>3 DEF verifyProof
      <3>3. e.key = k /\ stablePayload(e.snapshot) = stablePayload(file)
        BY <3>1, <3>2 DEF createHmac
      <3>4. QED
        BY <3>3
    <2>4. QED
      BY <2>2, <2>3
  <1>2. QED
    BY <1>1, SnapshotsInv, PTL

\* A document of the evidence package that says PASS or verified tells of one
\* passing export, and a PASS is not of a repository without invariants.
THEOREM ReportedPassesAreEarned == Spec => []ReportedPassIsEarned
  <1>1. ASSUME TypeOK, ExportInv, ReadersInv
        PROVE  ReportedPassIsEarned
    <2>1. ASSUME package.governance # None, package.governance.overallPass
          PROVE  /\ Vouched(package.governance.snapshot)
                 /\ package.governance.snapshot.results[2].count > 0
      <3> DEFINE s == package.governance.snapshot
      <3>1. /\ Traceable(s, exported)
            /\ package.governance = generateGovernanceSummary(s)
        BY <1>1, <2>1 DEF ReadersInv
      <3> HIDE DEF s
      <3>2. /\ s.manifestChecksum = manifestBody(s)
            /\ \A n \in DOMAIN s.results : s.results[n].passed
        BY <2>1, <3>1 DEF generateGovernanceSummary, verifyManifestChecksum
      <3>3. Vouched(s)
        BY <1>1, <3>1, <3>2, TracedIsVouched
      <3>4. s.results[2].count > 0
        <4>1. s.results \in Entries
          BY <1>1, <2>1 DEF TypeOK, Snapshots, s
        <4>2. 2 \in DOMAIN Commands /\ DOMAIN s.results = DOMAIN Commands
          BY <4>1, CommandList DEF Entries
        <4>3. s.results[2].passed /\ s.results[2].count \in Nat
          BY <3>2, <4>1, <4>2 DEF Entries, EntryType
        <4>4. PICK tree : s.results[2] = Entry("check:invariants", Outcome[tree][2])
          BY <3>3, <4>2, CommandList DEF Vouched, EntryFor
        <4> DEFINE outcome == Outcome[tree][2]
        <4>5. /\ Entry("check:invariants", outcome).count = outcome.read
              /\ Entry("check:invariants", outcome).passed => outcome.read > 0
          BY DEF Entry
        <4> HIDE DEF outcome
        <4>6. s.results[2] = Entry("check:invariants", outcome)
          BY <4>4 DEF outcome
        <4>7. QED
          BY <4>3, <4>5, <4>6
      <3>5. QED
        BY <3>3, <3>4 DEF s
    <2>2. ASSUME package.decision # None, package.decision.checksumVerified
          PROVE  Vouched(package.decision.snapshot)
      <3> DEFINE s == package.decision.snapshot
      <3>1. Traceable(s, exported) /\ package.decision = generateDecisionSummary(s)
        BY <1>1, <2>2 DEF ReadersInv
      <3> HIDE DEF s
      <3>2. s.manifestChecksum = manifestBody(s)
        <4>1. generateDecisionSummary(s).checksumVerified = verifyManifestChecksum(s)
          BY DEF generateDecisionSummary
        <4>2. QED
          BY <2>2, <3>1, <4>1 DEF verifyManifestChecksum
      <3>3. Vouched(s)
        BY <1>1, <3>1, <3>2, TracedIsVouched
      <3>4. QED
        BY <3>3 DEF s
    <2>3. ASSUME package.audit # None, package.audit.verified
          PROVE  Vouched(package.audit.snapshot)
      <3> DEFINE s == package.audit.snapshot
      <3>1. Traceable(s, exported) /\ package.audit = generateAuditIntegritySummary(s)
        BY <1>1, <2>3 DEF ReadersInv
      <3> HIDE DEF s
      <3>2. s.manifestChecksum = manifestBody(s)
        <4>1. generateAuditIntegritySummary(s).verified = verifyManifestChecksum(s)
          BY DEF generateAuditIntegritySummary
        <4>2. QED
          BY <2>3, <3>1, <4>1 DEF verifyManifestChecksum
      <3>3. Vouched(s)
        BY <1>1, <3>1, <3>2, TracedIsVouched
      <3>4. QED
        BY <3>3 DEF s
    <2>4. QED
      BY <2>1, <2>2, <2>3 DEF ReportedPassIsEarned
  <1>2. QED
    BY <1>1, SnapshotsInv, PTL
================================================================================
