------------------------- MODULE PairPublicationProofs -------------------------
(***************************************************************************)
(* Proofs about PairPublication for any number of builds, deaths and       *)
(* failed calls, any kinds of sessions, with or without torn writes.       *)
(***************************************************************************)
EXTENDS PairPublication, TLAPS

USE PublicationAssumption

PriorOK(e) ==
  \/ e.primary.prior = NoFile /\ e.evidence.prior = NoFile
  \/ \E n \in Nodes : e.primary.prior = Image(n) /\ e.evidence.prior = Sums(n)

\* What a record calls finished is finished, and newer than the prior pair.
Made(e) ==
  /\ e.primary.id # NoFile => e.primary.prior.node < e.primary.id.node
  /\ e.primary.stage \in {"hybrid", "seal-planned"} => e.primary.id.data = "hybrid"
  /\ e.primary.stage = "sealed" => e.primary.id = Image(e.primary.id.node)
  /\ e.evidence.stage = "writing" => e.digest # 0 /\ e.evidence.id.node = e.digest
  /\ e.evidence.stage = "ready" => e.evidence.id = Sums(e.digest)
  /\ e.evidence.stage = "removed" => e.primary.stage = "removed"

Numbered(e, n) == /\ e.primary.id.node <= n /\ e.primary.prior.node <= n
                  /\ e.evidence.id.node <= n /\ e.evidence.prior.node <= n

ExtOK(e) == e \in ExtRecord /\ ValidExt(e) /\ PriorOK(e) /\ Made(e)
RecordsInv == \A j \in {journal, pending, mem} : ExtOK(j.ext) /\ Numbered(j.ext, builds + 1)
FilesInv   == \A r \in Roles, s \in Places : files[r][s].node <= builds + 1

\* What the session knows at each step of a build ...
Started == BuildSites \ {"build.begin"}
Created == Started \ {"build.create"}
Named   == Created \ {"build.record"}
StageAt(s) ==
  CASE s \in {"build.create", "build.record"} -> "planned"
    [] s = "build.write" -> "created"
    [] s \in {"build.generate", "build.generating", "build.generated"} -> "building"
    [] s = "build.mutate" -> "generated"
    [] s \in {"build.mutating", "build.hybrid", "build.mutated"} -> "mutating"
    [] s = "build.seal" -> "hybrid"
    [] OTHER -> "seal-planned"
BuildOK ==
  /\ pc \in Started => /\ mem.ext.phase = "building"
                       /\ mem.ext.primary.stage = StageAt(pc)
                       /\ mem.ext.evidence.stage = "planned"
  /\ pc \in Created => /\ Candidate("primary") # NoFile
                       /\ mem.ext.primary.prior.node < Candidate("primary").node
  /\ pc \in Named => SameNode(Candidate("primary"), mem.ext.primary.id)
  /\ pc \in {"build.mutated", "build.seal"} => Candidate("primary").data = "hybrid"
  /\ pc = "build.sealed" => Candidate("primary") = Image(Candidate("primary").node)

\* ... and of a publication.
Writing == {"publish.payload", "publish.chmod", "publish.ready"}
Acting  == {"publish.act", "publish.bump"}
PublishOK ==
  /\ pc \in Writing \cup {"publish.record", "publish.evidence"} => mem.ext.digest # 0
  /\ pc \in Writing \cup {"publish.record"} =>
       mem.ext.phase = "sealed" /\ Candidate("evidence").node = mem.ext.digest
  /\ pc = "publish.record" => mem.ext.evidence.stage = "planned"
  /\ pc \in Writing => mem.ext.evidence.stage = "writing"
  /\ pc = "publish.ready" => Candidate("evidence") = Sums(mem.ext.digest)
  /\ pc \in Acting \cup {"publish.next"} =>
       mem.ext.phase \in {"publishing", "published", "complete"}
  /\ pc \in Acting => mem.ext.index < NumActions /\ mem.ext.pend

\* A session that may still build has been let in while a build is left.
CountOK ==
  /\ pc = "idle" => io = "idle"
  /\ pc # "idle" => kind # "none"
  /\ pc \in {"build.begin", "build.create"} => kind = "build"
  /\ after = "fresh" => pc \in CleanSites \cup {"enter.external"}
  /\ kind = "build" /\ (after = "fresh" \/ pc \in EnterSites \cup {"build.begin", "build.create"})
       => builds < MaxBuilds

SiteInv == BuildOK /\ PublishOK /\ CountOK
PairInv == TypeOK /\ RecordsInv /\ FilesInv /\ SiteInv /\ FinalsMatch
--------------------------------------------------------------------------------
LEMMA FilesAre ==
  /\ NoFile \in File
  /\ \A n \in Nodes : Empty(n) \in File /\ Image(n) \in File /\ Sums(n) \in File
  /\ \A f \in File : f.node \in Nat /\ (f.node = 0 <=> f = NoFile)
  BY DEF File, NoFile, Empty, Image, Sums, Nodes

LEMMA NothingIs ==
  /\ NoExt \in ExtRecord /\ ExtOK(NoExt) /\ \A n \in Nat : Numbered(NoExt, n)
  /\ NoJournal \in Journal /\ Fresh \in Journal /\ Torn \in Journal
  /\ NoJournal.ext = NoExt /\ Fresh.ext = NoExt /\ Torn.ext = NoExt
  <1>1. NoExt \in ExtRecord
    BY FilesAre DEF NoExt, NewExt, NewSlot, ExtRecord, Slot, ExtPhases, NumActions,
                    PrimaryStages, EvidenceStages, Roles
  <1>2. ExtOK(NoExt) /\ \A n \in Nat : Numbered(NoExt, n)
    BY <1>1 DEF ExtOK, ValidExt, PriorOK, Made, Numbered, NoExt, NewExt, NewSlot, Roles, NoFile
  <1>3. /\ NoJournal \in Journal /\ Fresh \in Journal /\ Torn \in Journal
        /\ NoJournal.ext = NoExt /\ Fresh.ext = NoExt /\ Torn.ext = NoExt
    BY <1>1 DEF NoJournal, Fresh, Torn, Journal
  <1> QED  BY <1>1, <1>2, <1>3

\* A change of the publication record leaves the rest of the journal alone.
LEMMA PutIs ==
  ASSUME mem \in Journal, NEW e \in ExtRecord, PutExt(e)
  PROVE  /\ mem' \in Journal /\ mem'.ext = e
         /\ mem'.phase = mem.phase /\ mem'.res = mem.res
  BY DEF PutExt, Journal

LEMMA RecordIs ==
  ASSUME NEW e \in ExtRecord
  PROVE  /\ e.phase \in ExtPhases \cup {"none"} /\ e.index \in 0..NumActions
         /\ e.pend \in BOOLEAN /\ e.digest \in Nodes \cup {0}
         /\ e.primary.stage \in PrimaryStages /\ e.primary.id \in File /\ e.primary.prior \in File
         /\ e.evidence.stage \in EvidenceStages /\ e.evidence.id \in File /\ e.evidence.prior \in File
         /\ e.primary \in Slot(PrimaryStages) /\ e.evidence \in Slot(EvidenceStages)
  BY DEF ExtRecord, Slot

LEMMA FileAt ==
  ASSUME TypeOK, NEW r \in Roles, NEW s \in Places
  PROVE  files[r][s] \in File
  BY DEF TypeOK
--------------------------------------------------------------------------------
(* The changes of the publication record keep it good *)

Publishing == {"publishing", "published", "complete"}
LEMMA AdvanceIs ==
  ASSUME NEW e, ExtOK(e), e.phase \in Publishing \cup {"ready"},
         NEW i \in 0..NumActions,
         NEW d, d = [e EXCEPT !.index = i, !.pend = FALSE, !.phase = PhaseOf(i)]
  PROVE  ExtOK(d) /\ \A n \in Nat : Numbered(e, n) => Numbered(d, n)
  <1> DEFINE q == PhaseOf(i)
  <1>1. q \in Publishing /\ (q = "complete" => i = NumActions)
    BY DEF PhaseOf, Publishing, NumActions
  <1>2. /\ d \in ExtRecord /\ d.phase = q /\ d.index = i /\ d.pend = FALSE /\ d.digest = e.digest
        /\ d.primary = e.primary /\ d.evidence = e.evidence
    <2> HIDE DEF q
    <2> QED  BY <1>1 DEF ExtOK, ExtRecord, ExtPhases, Publishing, q
  <1>3. ValidExt(d)
    BY <1>1, <1>2 DEF ExtOK, ValidExt, Publishing
  <1> QED  BY <1>2, <1>3 DEF ExtOK, PriorOK, Made, Numbered

LEMMA IndexIs ==
  ASSUME NEW e, ExtOK(e), e.phase \in Publishing
  PROVE  /\ e.phase = PhaseOf(e.index) /\ (e.pend => e.index < NumActions)
         /\ e.index \in 0..NumActions /\ (e.phase = "complete" <=> e.index = NumActions)
  BY RecordIs DEF ExtOK, ValidExt, Publishing, PhaseOf, NumActions

\* A preflight that succeeds only completes what the record had announced.
LEMMA PreflightedIs ==
  ASSUME TypeOK, NEW e, ExtOK(e), PreflightOK(e), NEW n \in Nat, Numbered(e, n)
  PROVE  ExtOK(Preflighted(e)) /\ Numbered(Preflighted(e), n)
  <1> DEFINE d == Preflighted(e)
  <1> SUFFICES ExtOK(d) /\ Numbered(d, n)
    OBVIOUS
  <1>1. CASE e.phase \in {"publishing", "published"}
    <2>1. d = Reconciled(e)
      BY <1>1 DEF Preflighted
    <2>2. CASE e.pend
      <3> DEFINE i == IF ActionDone(e) THEN e.index + 1 ELSE e.index
      <3>1. i \in 0..NumActions
        BY <1>1, <2>2, IndexIs DEF Publishing, NumActions
      <3>2. d = [e EXCEPT !.index = i, !.pend = FALSE, !.phase = PhaseOf(i)]
        BY <2>1, <2>2 DEF Reconciled
      <3> HIDE DEF d, i
      <3>3. e.phase \in Publishing \cup {"ready"}
        BY <1>1 DEF Publishing
      <3>4. ExtOK(d) /\ \A m \in Nat : Numbered(e, m) => Numbered(d, m)
        BY <3>1, <3>2, <3>3, AdvanceIs, ZenonT(60)
      <3> QED  BY <3>4
    <2>3. CASE ~e.pend
      BY <2>1, <2>3 DEF Reconciled
    <2> QED  BY <2>2, <2>3
  <1>2. CASE /\ e.phase = "building" /\ e.primary.stage = "seal-planned" /\ SealDone(e.primary)
    <2> DEFINE f == Candidate("primary")
    <2>1. f \in File
      BY FileAt DEF Candidate, Roles, Places
    <2>2. d = [e EXCEPT !.primary.id = f, !.primary.stage = "sealed", !.phase = "sealed"]
      BY <1>2 DEF Preflighted
    <2>3. e \in ExtRecord /\ e.primary.id \in File /\ e.primary.id # NoFile
      BY <1>2, RecordIs DEF ExtOK, ValidExt
    <2>4. f = Image(e.primary.id.node)
      BY <1>2, <2>3 DEF SealDone, ExtOK, Made, File, Image
    <2> HIDE DEF f
    <2>5. /\ d.phase = "sealed" /\ d.index = e.index /\ d.pend = e.pend /\ d.digest = e.digest
          /\ d.primary = [e.primary EXCEPT !.id = f, !.stage = "sealed"] /\ d.evidence = e.evidence
      BY <2>2, <2>3 DEF ExtRecord
    <2>6. /\ d.primary \in Slot(PrimaryStages) /\ d.primary.id = f /\ d.primary.stage = "sealed"
          /\ d.primary.prior = e.primary.prior
      BY <2>1, <2>3, <2>5, RecordIs DEF Slot, PrimaryStages
    <2>7. d \in ExtRecord
      BY <2>2, <2>3, <2>5, <2>6 DEF ExtRecord, ExtPhases
    <2>8. f # NoFile /\ f.node = e.primary.id.node
      BY <2>3, <2>4, FilesAre DEF File, Image, NoFile, Nodes
    <2> HIDE DEF d
    <2>9. ValidExt(d)
      BY <1>2, <2>5, <2>6, <2>8 DEF ExtOK, ValidExt, Made
    <2>10. PriorOK(d)
      BY <2>5, <2>6 DEF ExtOK, PriorOK
    <2>11. Made(d) /\ Numbered(d, n)
      BY <1>2, <2>3, <2>4, <2>5, <2>6, <2>8 DEF ExtOK, Made, Numbered
    <2> QED  BY <2>7, <2>9, <2>10, <2>11 DEF ExtOK
  <1>3. CASE /\ e.phase \notin {"publishing", "published"}
             /\ ~(e.phase = "building" /\ e.primary.stage = "seal-planned" /\ SealDone(e.primary))
    BY <1>3 DEF Preflighted
  <1> QED  BY <1>1, <1>2, <1>3
--------------------------------------------------------------------------------
(* What a step leaves alone *)

Ground == TypeOK /\ RecordsInv /\ FilesInv /\ FinalsMatch

LEMMA Outside ==
  ASSUME pc' \notin BuildSites \cup PublishSites
  PROVE  BuildOK' /\ PublishOK'
  BY DEF BuildOK, PublishOK, Started, Created, Named, Writing, Acting, BuildSites, PublishSites

LEMMA RecordsFrom ==
  ASSUME RecordsInv, builds \in Nat, builds' \in Nat, builds <= builds',
         mem \in Journal, journal \in Journal, pending \in Journal,
         \A j \in {journal', pending', mem'} :
           \/ j \in {journal, pending, mem, NoJournal, Torn, Fresh}
           \/ ExtOK(j.ext) /\ Numbered(j.ext, builds' + 1)
  PROVE  RecordsInv'
  <1>1. \A j \in {journal, pending, mem, NoJournal, Torn, Fresh} :
           ExtOK(j.ext) /\ Numbered(j.ext, builds + 1)
    BY NothingIs DEF RecordsInv
  <1>2. ASSUME NEW e, ExtOK(e), Numbered(e, builds + 1)
        PROVE  Numbered(e, builds' + 1)
    <2>1. /\ e.primary.id.node \in Nat /\ e.primary.prior.node \in Nat
          /\ e.evidence.id.node \in Nat /\ e.evidence.prior.node \in Nat
      BY <1>2, RecordIs, FilesAre DEF ExtOK
    <2> QED  BY <1>2, <2>1 DEF Numbered
  <1>3. \A j \in {journal', pending', mem'} : ExtOK(j.ext) /\ Numbered(j.ext, builds' + 1)
    BY <1>1, <1>2
  <1> QED  BY <1>3 DEF RecordsInv

LEMMA FilesSame ==
  ASSUME FilesInv, FinalsMatch, files' = files, builds' = builds
  PROVE  FilesInv' /\ FinalsMatch'
  BY DEF FilesInv, FinalsMatch

\* A step that only changes the record.
LEMMA QuietIs ==
  ASSUME Ground, Quiet, mem' \in Journal, pc' \in Sites, io' \in {"idle", "write", "replace"},
         ExtOK(mem'.ext), Numbered(mem'.ext, builds + 1)
  PROVE  Ground'
  <1> USE DEF Ground, Quiet, disk, flags, bounds
  <1>1. RecordsInv'
    BY RecordsFrom DEF TypeOK
  <1>2. TypeOK'
    BY DEF TypeOK
  <1> QED  BY <1>1, <1>2, FilesSame

LEMMA MemIs ==
  ASSUME Ground
  PROVE  /\ mem \in Journal /\ mem.ext \in ExtRecord /\ ExtOK(mem.ext)
         /\ Numbered(mem.ext, builds + 1) /\ builds \in Nat
  BY DEF Ground, TypeOK, RecordsInv, ExtOK

LEMMA QuietSame ==
  ASSUME Ground, Quiet, UNCHANGED mem, pc' \in Sites, io' \in {"idle", "write", "replace"}
  PROVE  Ground'
  BY MemIs, QuietIs

LEMMA QuietPut ==
  ASSUME Ground, Quiet, NEW e, PutExt(e), ExtOK(e), Numbered(e, builds + 1),
         pc' \in Sites, io' \in {"idle", "write", "replace"}
  PROVE  Ground' /\ mem'.ext = e
  BY MemIs, PutIs, QuietIs DEF ExtOK

\* A step that only changes a candidate.
LEMMA CandidateIs ==
  ASSUME TypeOK, NEW r \in Roles, NEW f \in File,
         files' = [files EXCEPT ![r]["candidate"] = f]
  PROVE  /\ files' \in [Roles -> [Places -> File]]
         /\ \A q \in Roles, s \in Places :
              files'[q][s] = IF q = r /\ s = "candidate" THEN f ELSE files[q][s]
  BY DEF TypeOK, Places

LEMMA CandidateKeeps ==
  ASSUME TypeOK, FilesInv, FinalsMatch, NEW r \in Roles, NEW f \in File,
         files' = [files EXCEPT ![r]["candidate"] = f],
         builds' \in Nat, builds <= builds', f.node <= builds' + 1
  PROVE  FilesInv' /\ FinalsMatch'
  <1>1. \A q \in Roles : files'[q]["final"] = files[q]["final"]
    BY CandidateIs DEF Places
  <1>2. FinalsMatch'
    BY <1>1 DEF FinalsMatch, Roles
  <1>3. \A q \in Roles, s \in Places : files[q][s].node \in Nat
    BY FileAt, FilesAre
  <1>4. FilesInv'
    BY <1>3, CandidateIs DEF FilesInv, TypeOK
  <1> QED  BY <1>2, <1>4

\* The sessions and journals of a step that raises or ends the session.
LEMMA RaiseIs ==
  ASSUME NEW s \in Sites, RaiseFrom(s), TypeOK
  PROVE  /\ pc' \in {"idle"} \cup CleanSites /\ io' = "idle"
         /\ mem' \in {mem, NoJournal} /\ persisted' \in {persisted, NoJournal}
         /\ kind' \in {"none", "build", "finish", "other"} /\ after' \in {"end", "fresh"}
         /\ {preserve', acked', failed'} \subseteq BOOLEAN
         /\ pc' = "idle" \/ (kind' = kind /\ after' = after)
         /\ pc' = "idle" => Exit
  BY DEF RaiseFrom, Exit, Goto, Keep, CleanSites, EnterSites, TypeOK
--------------------------------------------------------------------------------
(* Exceptions, deaths, the journal and the beginning of a session *)

\* Exceptions and deaths lead out of the body and keep or forget the record.
LEMMA LeavingKeeps ==
  ASSUME PairInv, pc # "idle", NEW s \in Sites, RaiseFrom(s), UNCHANGED <<files, builds>>,
         journal' \in {journal, pending}, pending' \in {pending, NoJournal, Torn},
         crashes' \in 0..MaxCrashes, faults' \in 0..MaxFaults
  PROVE  PairInv'
  <1> USE DEF PairInv
  <1>0. TypeOK
    OBVIOUS
  <1>1. TypeOK'
    BY <1>0, RaiseIs, NothingIs DEF TypeOK, Sites
  <1>2. RecordsInv'
    <2>1. builds \in Nat /\ mem \in Journal /\ journal \in Journal /\ pending \in Journal
      BY DEF TypeOK
    <2> QED  BY <1>0, <2>1, RaiseIs, RecordsFrom
  <1>3. FilesInv' /\ FinalsMatch'
    BY FilesSame
  <1>4. BuildOK' /\ PublishOK'
    BY <1>0, RaiseIs, Outside DEF CleanSites, BuildSites, PublishSites
  <1>5. CountOK'
    <2>1. CASE pc' = "idle"
      BY <1>0, <2>1, RaiseIs DEF CountOK, Exit, EnterSites
    <2>2. CASE pc' # "idle"
      <3>1. pc' \in CleanSites /\ kind' = kind /\ after' = after
        BY <1>0, <2>2, RaiseIs
      <3> QED  BY <3>1 DEF CountOK, SiteInv, CleanSites, EnterSites
    <2> QED  BY <2>1, <2>2
  <1> QED  BY <1>1, <1>2, <1>3, <1>4, <1>5 DEF SiteInv

LEMMA RaiseKeeps == PairInv /\ pc # "idle" /\ Raise => PairInv'
  <1> SUFFICES ASSUME PairInv, pc # "idle", Raise
               PROVE  PairInv'
    OBVIOUS
  <1>1. pc \in Sites /\ crashes \in 0..MaxCrashes /\ faults \in 0..MaxFaults
    BY DEF PairInv, TypeOK
  <1> QED  BY <1>1, LeavingKeeps DEF Raise, disk, bounds

LEMMA FaultKeeps == PairInv /\ Fault => PairInv'
  <1> SUFFICES ASSUME PairInv, Fault
               PROVE  PairInv'
    OBVIOUS
  <1>1. pc \in Sites /\ crashes' \in 0..MaxCrashes /\ faults' \in 0..MaxFaults
    BY DEF PairInv, TypeOK, Fault
  <1>2. journal' \in {journal, pending} /\ pending' \in {pending, NoJournal, Torn}
    BY DEF Fault
  <1> QED  BY <1>1, <1>2, LeavingKeeps DEF Fault

LEMMA ExitRaises ==
  ASSUME Exit
  PROVE  RaiseFrom("body") /\ "body" \in Sites
  BY DEF RaiseFrom, EnterSites, Sites

LEMMA CrashKeeps == PairInv /\ Crash => PairInv'
  <1> SUFFICES ASSUME PairInv, Crash
               PROVE  PairInv'
    OBVIOUS
  <1>1. crashes' \in 0..MaxCrashes /\ faults' \in 0..MaxFaults
    BY DEF PairInv, TypeOK, Crash
  <1>2. journal' \in {journal, pending} /\ pending' \in {pending, NoJournal, Torn}
    BY DEF Crash
  <1>3. RaiseFrom("body") /\ "body" \in Sites
    BY ExitRaises DEF Crash
  <1> QED  BY <1>1, <1>2, <1>3, LeavingKeeps DEF Crash

LEMMA WritePendingKeeps == PairInv /\ WritePending => PairInv'
  <1> SUFFICES ASSUME PairInv, WritePending
               PROVE  PairInv'
    OBVIOUS
  <1>0. pc # "idle"
    BY DEF WritePending, PairInv, SiteInv, CountOK
  <1>1. CASE Raise
    BY <1>0, <1>1, RaiseKeeps
  <1>2. CASE /\ pending' = mem /\ io' = "replace"
             /\ UNCHANGED <<files, journal, mem, persisted, pc, flags, bounds>>
    <2> USE <1>2 DEF PairInv
    <2>1. TypeOK'
      BY DEF TypeOK, flags, bounds
    <2>2. RecordsInv'
      BY RecordsFrom DEF TypeOK, bounds
    <2>3. FilesInv' /\ FinalsMatch'
      BY FilesSame DEF bounds
    <2>4. SiteInv'
      BY <1>0 DEF SiteInv, BuildOK, PublishOK, CountOK, Candidate, flags, bounds
    <2> QED  BY <2>1, <2>2, <2>3, <2>4
  <1> QED  BY <1>1, <1>2 DEF WritePending

LEMMA ReplaceJournalKeeps == PairInv /\ ReplaceJournal => PairInv'
  <1> SUFFICES ASSUME PairInv, ReplaceJournal
               PROVE  PairInv'
    OBVIOUS
  <1> USE DEF PairInv, ReplaceJournal
  <1>1. TypeOK'
    BY NothingIs DEF TypeOK, flags, bounds
  <1>2. RecordsInv'
    BY RecordsFrom DEF TypeOK, bounds
  <1>3. FilesInv' /\ FinalsMatch'
    BY FilesSame DEF bounds
  <1>4. SiteInv'
    BY DEF SiteInv, BuildOK, PublishOK, CountOK, Candidate, flags, bounds
  <1> QED  BY <1>1, <1>2, <1>3, <1>4

LEMMA StartKeeps ==
  ASSUME PairInv, NEW k \in Kinds, Start(k)
  PROVE  PairInv'
  <1> USE DEF PairInv, Start, disk, bounds
  <1>1. TypeOK'
    BY DEF TypeOK, Sites, EnterSites
  <1>2. RecordsInv'
    BY RecordsFrom DEF TypeOK
  <1>3. FilesInv' /\ FinalsMatch'
    BY FilesSame
  <1>4. BuildOK' /\ PublishOK'
    BY Outside DEF BuildSites, PublishSites
  <1>5. CountOK'
    BY DEF CountOK, SiteInv, CleanSites, TypeOK
  <1> QED  BY <1>1, <1>2, <1>3, <1>4, <1>5 DEF SiteInv

LEMMA EnterReconcileKeeps == PairInv /\ EnterReconcile => PairInv'
  <1> SUFFICES ASSUME PairInv, EnterReconcile
               PROVE  PairInv'
    OBVIOUS
  <1>1. CASE Raise
    BY <1>1, RaiseKeeps DEF EnterReconcile, At
  <1>2. CASE /\ journal' \in {journal, pending} /\ pending' \in {pending, NoJournal}
             /\ Goto("enter.load") /\ UNCHANGED <<files, mem, persisted, flags, bounds>>
             /\ At("enter.pending")
    <2> USE <1>2 DEF PairInv, Goto, At, flags, bounds
    <2>1. TypeOK'
      BY NothingIs DEF TypeOK, Sites, EnterSites
    <2>2. RecordsInv'
      BY RecordsFrom DEF TypeOK
    <2>3. FilesInv' /\ FinalsMatch'
      BY FilesSame
    <2>4. BuildOK' /\ PublishOK'
      BY Outside DEF BuildSites, PublishSites
    <2>5. CountOK'
      BY DEF CountOK, SiteInv, CleanSites, EnterSites
    <2> QED  BY <2>1, <2>2, <2>3, <2>4, <2>5 DEF SiteInv
  <1> QED  BY <1>1, <1>2 DEF EnterReconcile, disk
LEMMA EnterLoadKeeps == PairInv /\ EnterLoad => PairInv'
  <1> SUFFICES ASSUME PairInv, EnterLoad
               PROVE  PairInv'
    OBVIOUS
  <1> USE DEF PairInv, At
  <1>0. TypeOK /\ journal \in Journal /\ builds + 1 \in Nat /\ ExtOK(journal.ext)
        /\ Numbered(journal.ext, builds + 1) /\ pc = "enter.load"
    BY DEF TypeOK, EnterLoad, RecordsInv
  <1>1. /\ mem' \in Journal /\ ExtOK(mem'.ext) /\ Numbered(mem'.ext, builds + 1)
        /\ persisted' \in Journal
    <2>1. CASE mem' = Fresh /\ persisted' = NoJournal
      BY <1>0, <2>1, NothingIs
    <2>2. CASE persisted' = journal /\ mem' = [journal EXCEPT !.ext = Preflighted(journal.ext)]
               /\ (journal.ext = NoExt \/ PreflightOK(journal.ext))
      <3>1. journal.ext = NoExt => PreflightOK(journal.ext)
        BY DEF PreflightOK, NoExt, NewExt
      <3>2. ExtOK(Preflighted(journal.ext)) /\ Numbered(Preflighted(journal.ext), builds + 1)
        BY <1>0, <2>2, <3>1, PreflightedIs
      <3>3. mem' \in Journal /\ mem'.ext = Preflighted(journal.ext)
        BY <1>0, <2>2, <3>2 DEF Journal, ExtOK
      <3> QED  BY <1>0, <2>2, <3>2, <3>3
    <2> QED  BY <2>1, <2>2 DEF EnterLoad
  <1>2. /\ pc' \in {"body", "clean.preflight", "enter.external"} /\ io' \in {"idle", "write"}
        /\ after' \in {after, "fresh"} /\ (after' = "fresh" => pc' # "body" \/ after = "fresh")
        /\ kind' = kind
    BY DEF EnterLoad, Goto, Persist
  <1>3. TypeOK'
    BY <1>1, <1>2 DEF EnterLoad, TypeOK, disk, bounds, Sites, EnterSites, CleanSites
  <1>4. RecordsInv'
    BY <1>0, <1>1, RecordsFrom DEF TypeOK, EnterLoad, disk, bounds
  <1>5. FilesInv' /\ FinalsMatch'
    BY FilesSame DEF EnterLoad, disk, bounds
  <1>6. BuildOK' /\ PublishOK'
    BY <1>2, Outside DEF BuildSites, PublishSites
  <1>7. CountOK'
    <2>1. after = "fresh" => FALSE
      BY <1>0 DEF CountOK, SiteInv, CleanSites
    <2> QED  BY <1>0, <1>2, <2>1 DEF CountOK, SiteInv, CleanSites, EnterSites, EnterLoad, bounds
  <1> QED  BY <1>3, <1>4, <1>5, <1>6, <1>7 DEF SiteInv

LEMMA EnterRefusedKeeps == PairInv /\ EnterRefused => PairInv'
  BY RaiseKeeps DEF EnterRefused, At

LEMMA Grounded == PairInv => Ground
  BY DEF PairInv, Ground

\* A step of the session that asks nothing of its next site.
LEMMA Elsewhere ==
  ASSUME PairInv, Ground', pc # "idle", UNCHANGED <<kind, builds>>, after' \in {after, "end"},
         pc' \in {"build.begin", "publish.digest", "publish.start", "publish.phase",
                  "finish.view", "finish.route", "other.acquire", "other.work",
                  "body", "enter.external"} \cup CleanSites,
         pc' \in EnterSites \cup {"build.begin"} => pc \in EnterSites,
         pc' = "build.begin" => kind = "build",
         after' = "fresh" => pc' \in CleanSites
  PROVE  PairInv'
  <1>1. BuildOK'
    BY DEF BuildOK, Started, Created, Named, CleanSites, BuildSites
  <1>2. PublishOK'
    BY DEF PublishOK, Writing, Acting, CleanSites
  <1>3. CountOK'
    BY DEF PairInv, SiteInv, CountOK, CleanSites, EnterSites
  <1> QED  BY <1>1, <1>2, <1>3 DEF PairInv, SiteInv, Ground

\* A partial checksum file is dropped together with its place in the record.
LEMMA DropPartialIs ==
  ASSUME PairInv, NEW s, DropPartialEvidence(s), mem.ext.evidence.stage = "writing"
  PROVE  /\ files' \in [Roles -> [Places -> File]] /\ FilesInv' /\ FinalsMatch'
         /\ mem' \in Journal /\ RecordsInv'
  <1> DEFINE e == mem.ext
             d == [e EXCEPT !.evidence.stage = "planned", !.evidence.id = NoFile]
  <1>1. mem \in Journal /\ e \in ExtRecord /\ ExtOK(e) /\ Numbered(e, builds + 1) /\ builds \in Nat
    BY Grounded, MemIs
  <1>2. /\ files' = [files EXCEPT !["evidence"]["candidate"] = NoFile]
        /\ PutExt(d) /\ UNCHANGED <<journal, pending, persisted, builds>>
    BY DEF DropPartialEvidence, bounds
  <1>3. files' \in [Roles -> [Places -> File]] /\ FilesInv' /\ FinalsMatch'
    <2>1. NoFile \in File /\ NoFile.node = 0 /\ "evidence" \in Roles
      BY FilesAre DEF NoFile, Roles
    <2>2. files' \in [Roles -> [Places -> File]]
      BY <1>2, <2>1, CandidateIs DEF PairInv
    <2>3. NoFile.node <= builds' + 1 /\ builds' \in Nat /\ builds <= builds'
      BY <1>1, <1>2, <2>1
    <2>4. FilesInv' /\ FinalsMatch'
      BY <1>2, <2>1, <2>3, CandidateKeeps DEF PairInv
    <2> QED  BY <2>2, <2>4
  <1> HIDE DEF e
  <1>4. /\ d.evidence = [stage |-> "planned", id |-> NoFile, prior |-> e.evidence.prior]
        /\ d.primary = e.primary /\ d.phase = e.phase /\ d.index = e.index
        /\ d.pend = e.pend /\ d.digest = e.digest
    BY <1>1, RecordIs DEF ExtRecord, Slot
  <1>5. d \in ExtRecord
    <2>1. d.evidence \in Slot(EvidenceStages)
      BY <1>1, <1>4, RecordIs, FilesAre DEF Slot, EvidenceStages
    <2> QED  BY <1>1, <2>1 DEF ExtRecord
  <1> HIDE DEF d
  <1>6. ExtOK(d) /\ Numbered(d, builds + 1)
    <2>1. e.evidence.stage = "writing" /\ e.phase = "sealed"
      BY <1>1, RecordIs DEF e, ExtOK, ValidExt, NoExt, NewExt, NewSlot
    <2>2. ValidExt(d)
      BY <1>1, <1>4, <2>1, RecordIs DEF ExtOK, ValidExt
    <2>3. PriorOK(d) /\ Made(d)
      BY <1>1, <1>4 DEF ExtOK, PriorOK, Made
    <2>4. Numbered(d, builds + 1)
      BY <1>1, <1>4 DEF Numbered, NoFile
    <2> QED  BY <1>5, <2>2, <2>3, <2>4 DEF ExtOK
  <1>7. mem' \in Journal /\ mem'.ext = d
    BY <1>1, <1>2, <1>5, PutIs
  <1>8. RecordsInv'
    BY <1>1, <1>2, <1>6, <1>7, RecordsFrom DEF PairInv, TypeOK
  <1> QED  BY <1>3, <1>7, <1>8

LEMMA EnterExternalKeeps == PairInv /\ EnterExternal => PairInv'
  <1> SUFFICES ASSUME PairInv, EnterExternal
               PROVE  PairInv'
    OBVIOUS
  <1>0. Ground /\ pc = "enter.external"
    BY Grounded DEF EnterExternal, At
  <1>1. CASE Raise
    BY <1>0, <1>1, RaiseKeeps
  <1>2. CASE Goto("clean.preflight") /\ UNCHANGED mem /\ Quiet
    <2>1. Ground'
      BY <1>0, <1>2, QuietSame DEF Goto, Sites, CleanSites
    <2> QED  BY <1>0, <1>2, <2>1, Elsewhere DEF Goto, Quiet, flags, bounds, CleanSites, EnterSites
  <1>3. CASE /\ after' = "end" /\ preserve' = TRUE /\ UNCHANGED <<kind, acked, failed>>
             /\ mem.ext.evidence.stage = "writing" /\ DropPartialEvidence("body")
    <2>1. Ground'
      <3>1. TypeOK'
        BY <1>3, DropPartialIs
           DEF PairInv, TypeOK, DropPartialEvidence, Persist, bounds, Sites, EnterSites
      <3> QED  BY <1>3, <3>1, DropPartialIs DEF Ground
    <2> QED  BY <1>0, <1>3, <2>1, Elsewhere
             DEF DropPartialEvidence, Persist, bounds, EnterSites
  <1>4. CASE /\ after' = "end" /\ preserve' = TRUE /\ UNCHANGED <<kind, acked, failed>>
             /\ Goto("body") /\ UNCHANGED <<disk, mem, persisted, bounds>>
    <2>1. Ground'
      <3>1. TypeOK'
        BY <1>4 DEF PairInv, TypeOK, Goto, disk, bounds, Sites, EnterSites
      <3>2. RecordsInv' /\ FilesInv' /\ FinalsMatch'
        BY <1>4, FilesSame DEF PairInv, RecordsInv, disk, bounds
      <3> QED  BY <3>1, <3>2 DEF Ground
    <2> QED  BY <1>0, <1>4, <2>1, Elsewhere DEF Goto, bounds, EnterSites
  <1> QED  BY <1>1, <1>2, <1>3, <1>4 DEF EnterExternal

LEMMA BodyKeeps == PairInv /\ Body => PairInv'
  <1> SUFFICES ASSUME PairInv, Body
               PROVE  PairInv'
    OBVIOUS
  <1>1. /\ pc = "body" /\ Quiet /\ UNCHANGED mem /\ io' = "idle"
        /\ pc' \in {"build.begin", "finish.view", "clean.preflight", "other.acquire"}
        /\ pc' = "build.begin" => kind = "build"
    <2>1. kind \in {"build", "finish", "other"}
      BY DEF Body, At, PairInv, SiteInv, CountOK, TypeOK
    <2> QED  BY <2>1 DEF Body, At, Goto
  <1>2. Ground'
    BY <1>1, Grounded, QuietSame DEF Sites, BuildSites, CleanSites
  <1> QED  BY <1>1, <1>2, Elsewhere DEF Quiet, flags, bounds, EnterSites, CleanSites, PairInv, SiteInv, CountOK
--------------------------------------------------------------------------------
(* A build *)

\* A record whose primary takes another stage and identity.
Restaged(e, t, f, ph) ==
  [phase |-> ph, index |-> e.index, pend |-> e.pend, digest |-> e.digest,
   primary |-> [stage |-> t, id |-> f, prior |-> e.primary.prior], evidence |-> e.evidence]

LEMMA RestagedIs ==
  ASSUME NEW e \in ExtRecord, NEW t \in PrimaryStages, NEW f \in File, NEW ph \in ExtPhases
  PROVE  Restaged(e, t, f, ph) \in ExtRecord
  BY DEF Restaged, ExtRecord, Slot

Around(e, p, q) == [phase |-> q, index |-> e.index, pend |-> e.pend, digest |-> e.digest,
                    primary |-> p, evidence |-> e.evidence]
LEMMA AroundIs ==
  ASSUME NEW e \in ExtRecord, NEW p1, NEW p2, NEW q
  PROVE  /\ [e EXCEPT !.primary = p1] = Around(e, p1, e.phase)
         /\ [Around(e, p1, q) EXCEPT !.primary = p2] = Around(e, p2, q)
         /\ [Around(e, p1, e.phase) EXCEPT !.phase = q] = Around(e, p1, q)
         /\ Around(e, p1, q).primary = p1
  BY DEF Around, ExtRecord

LEMMA SlotIs ==
  ASSUME NEW e \in ExtRecord, NEW t, NEW f
  PROVE  LET p == [stage |-> t, id |-> e.primary.id, prior |-> e.primary.prior]
         IN  /\ [e.primary EXCEPT !.stage = t] = p
             /\ [p EXCEPT !.id = f] = [stage |-> t, id |-> f, prior |-> e.primary.prior]
  BY DEF ExtRecord, Slot

LEMMA RestageIs ==
  ASSUME NEW e \in ExtRecord, NEW t, NEW f
  PROVE  [e EXCEPT !.primary.stage = t, !.primary.id = f] = Restaged(e, t, f, e.phase)
  <1> DEFINE p1 == [stage |-> t, id |-> e.primary.id, prior |-> e.primary.prior]
             p2 == [stage |-> t, id |-> f, prior |-> e.primary.prior]
  <1>1. [e.primary EXCEPT !.stage = t] = p1 /\ [p1 EXCEPT !.id = f] = p2
    BY SlotIs
  <1> HIDE DEF p1, p2
  <1>2. /\ [e EXCEPT !.primary = p1] = Around(e, p1, e.phase)
        /\ [Around(e, p1, e.phase) EXCEPT !.primary = p2] = Around(e, p2, e.phase)
        /\ Around(e, p1, e.phase).primary = p1
    BY AroundIs
  <1>3. [e EXCEPT !.primary.stage = t, !.primary.id = f] = Around(e, p2, e.phase)
    BY <1>1, <1>2, Zenon
  <1> QED  BY <1>3 DEF Around, Restaged, p2

LEMMA ResealIs ==
  ASSUME NEW e \in ExtRecord, NEW t, NEW ph, NEW f
  PROVE  [e EXCEPT !.primary.stage = t, !.phase = ph, !.primary.id = f] = Restaged(e, t, f, ph)
  <1> DEFINE p1 == [stage |-> t, id |-> e.primary.id, prior |-> e.primary.prior]
             p2 == [stage |-> t, id |-> f, prior |-> e.primary.prior]
  <1>1. [e.primary EXCEPT !.stage = t] = p1 /\ [p1 EXCEPT !.id = f] = p2
    BY SlotIs
  <1> HIDE DEF p1, p2
  <1>2. /\ [e EXCEPT !.primary = p1] = Around(e, p1, e.phase)
        /\ [Around(e, p1, e.phase) EXCEPT !.phase = ph] = Around(e, p1, ph)
        /\ [Around(e, p1, ph) EXCEPT !.primary = p2] = Around(e, p2, ph)
        /\ Around(e, p1, ph).primary = p1
    BY AroundIs
  <1>3. [e EXCEPT !.primary.stage = t, !.phase = ph, !.primary.id = f] = Around(e, p2, ph)
    BY <1>1, <1>2, ZenonT(60)
  <1> QED  BY <1>3 DEF Around, Restaged, p2

LEMMA PrimaryIs ==
  ASSUME NEW e, ExtOK(e), NEW n \in Nat, Numbered(e, n),
         e.phase = "building", e.evidence.stage = "planned",
         NEW t \in {"created", "building", "generated", "mutating", "hybrid", "seal-planned"},
         NEW f \in File, f # NoFile, e.primary.prior.node < f.node, f.node <= n,
         t \in {"hybrid", "seal-planned"} => f.data = "hybrid"
  PROVE  ExtOK(Restaged(e, t, f, "building")) /\ Numbered(Restaged(e, t, f, "building"), n)
  <1> DEFINE d == Restaged(e, t, f, "building")
  <1>1. e \in ExtRecord
    BY DEF ExtOK
  <1>2. d \in ExtRecord
    BY <1>1, RestagedIs DEF PrimaryStages, ExtPhases
  <1>3. ValidExt(d)
    BY <1>1, RecordIs DEF ExtOK, ValidExt, Restaged
  <1>4. PriorOK(d) /\ Made(d) /\ Numbered(d, n)
    BY <1>1 DEF ExtOK, PriorOK, Made, Numbered, Restaged
  <1> QED  BY <1>2, <1>3, <1>4 DEF ExtOK

LEMMA SealIs ==
  ASSUME NEW e, ExtOK(e), NEW n \in Nat, Numbered(e, n),
         e.phase = "building", e.evidence.stage = "planned",
         NEW f \in File, f = Image(f.node), e.primary.prior.node < f.node, f.node <= n
  PROVE  ExtOK(Restaged(e, "sealed", f, "sealed")) /\ Numbered(Restaged(e, "sealed", f, "sealed"), n)
  <1> DEFINE d == Restaged(e, "sealed", f, "sealed")
  <1>1. e \in ExtRecord /\ f # NoFile
    BY DEF ExtOK, Image, NoFile
  <1>2. d \in ExtRecord
    BY <1>1, RestagedIs DEF PrimaryStages, ExtPhases
  <1>3. ValidExt(d)
    BY <1>1, RecordIs DEF ExtOK, ValidExt, Restaged
  <1>4. PriorOK(d) /\ Made(d) /\ Numbered(d, n)
    BY <1>1 DEF ExtOK, PriorOK, Made, Numbered, Restaged
  <1> QED  BY <1>2, <1>3, <1>4 DEF ExtOK

LEMMA CandidateFacts ==
  ASSUME PairInv, NEW r \in Roles
  PROVE  /\ Candidate(r) \in File /\ Candidate(r).node \in Nat /\ Candidate(r).node <= builds + 1
         /\ (Candidate(r) = NoFile <=> Candidate(r).node = 0)
  BY FileAt, FilesAre DEF PairInv, Candidate, FilesInv, Places

Later  == {"building", "generated", "mutating", "hybrid", "seal-planned"}
Hybrid == {"hybrid", "seal-planned"}
Ends   == {"build.mutated", "build.sealed"}

\* The next recorded stage of a build: the candidate is the one of this build.
LEMMA StageKeeps ==
  ASSUME PairInv, NEW site \in Named, NEW from, NEW to, NEW next \in Named,
         Stage(site, from, to, next), StageAt(site) = from, StageAt(next) = to,
         to \in Later, to \in Hybrid => Candidate("primary").data = "hybrid",
         next \notin Ends, next = "build.seal" => to = "hybrid"
  PROVE  PairInv'
  <1> DEFINE e == mem.ext
             f == Candidate("primary")
             d == [e EXCEPT !.primary.stage = to, !.primary.id = f]
  <1>0. pc = site /\ SameNode(f, e.primary.id) /\ PutExt(d) /\ Quiet
        /\ pc' = next /\ io' = "write" /\ next \in Started /\ next \in Created /\ next \in BuildSites
    BY DEF Stage, At, Persist, Named, Created, Started
  <1>1. /\ mem \in Journal /\ e \in ExtRecord /\ ExtOK(e) /\ Numbered(e, builds + 1)
        /\ builds + 1 \in Nat
    BY Grounded, MemIs
  <1>2. /\ e.phase = "building" /\ e.evidence.stage = "planned" /\ f # NoFile
        /\ e.primary.prior.node < f.node
    BY <1>0 DEF PairInv, SiteInv, BuildOK, Named, Created
  <1>3. f \in File /\ f.node <= builds + 1
    BY CandidateFacts DEF Roles
  <1> HIDE DEF e, f, d
  <1>4. to \in Hybrid => f.data = "hybrid"
    BY DEF f
  <1>5. ExtOK(d) /\ Numbered(d, builds + 1) /\ d = Restaged(e, to, f, "building")
    <2>1. to \in {"created", "building", "generated", "mutating", "hybrid", "seal-planned"}
      BY DEF Later
    <2>2. ExtOK(Restaged(e, to, f, "building")) /\ Numbered(Restaged(e, to, f, "building"), builds + 1)
      BY <1>1, <1>2, <1>3, <1>4, <2>1, PrimaryIs DEF Hybrid
    <2>3. d = Restaged(e, to, f, e.phase)
      BY <1>1, RestageIs, Zenon DEF d
    <2> QED  BY <1>2, <2>2, <2>3
  <1>6. Ground' /\ mem'.ext = d
    BY <1>0, <1>5, Grounded, QuietPut DEF Sites
  <1>7. Candidate("primary")' = f
    BY <1>0 DEF Quiet, disk, Candidate, f
  <1>8. BuildOK'
    BY <1>0, <1>2, <1>4, <1>5, <1>6, <1>7 DEF BuildOK, SameNode, Restaged, Hybrid, Ends
  <1>9. PublishOK'
    BY <1>0 DEF PublishOK, Writing, Acting, BuildSites
  <1>10. CountOK'
    BY <1>0 DEF CountOK, PairInv, SiteInv, Quiet, flags, bounds, Named, Created, Started,
                BuildSites, EnterSites, CleanSites
  <1> QED  BY <1>6, <1>8, <1>9, <1>10 DEF PairInv, SiteInv, Ground

LEMMA StagesKeep ==
  PairInv /\ (BeginWrite \/ FinishWrite \/ BeginMutation \/ FinishMutation \/ PlanSeal) => PairInv'
  <1> SUFFICES ASSUME PairInv,
                      BeginWrite \/ FinishWrite \/ BeginMutation \/ FinishMutation \/ PlanSeal
               PROVE  PairInv'
    OBVIOUS
  <1> USE DEF StageAt, Named, Created, Started, BuildSites, Later, Hybrid, Ends
  <1>1. CASE BeginWrite
    BY <1>1, StageKeeps DEF BeginWrite
  <1>2. CASE FinishWrite
    BY <1>2, StageKeeps DEF FinishWrite
  <1>3. CASE BeginMutation
    BY <1>3, StageKeeps DEF BeginMutation
  <1>4. CASE FinishMutation
    <2>1. Candidate("primary").data = "hybrid"
      BY <1>4 DEF FinishMutation, Stage, At, PairInv, SiteInv, BuildOK
    <2> QED  BY <1>4, <2>1, StageKeeps DEF FinishMutation
  <1>5. CASE PlanSeal
    <2>1. Candidate("primary").data = "hybrid"
      BY <1>5 DEF PlanSeal, Stage, At, PairInv, SiteInv, BuildOK
    <2> QED  BY <1>5, <2>1, StageKeeps DEF PlanSeal
  <1> QED  BY <1>1, <1>2, <1>3, <1>4, <1>5
LEMMA WriteIs ==
  ASSUME PairInv, NEW site, NEW data, NEW mode, NEW next, Write(site, data, mode, next)
  PROVE  files' = [files EXCEPT !["primary"]["candidate"] =
                     [node |-> Candidate("primary").node, data |-> data, mode |-> mode]]
  <1> DEFINE c == Candidate("primary")
             g == [node |-> c.node, data |-> data, mode |-> mode]
             c1 == [node |-> c.node, data |-> data, mode |-> c.mode]
             f1 == [files EXCEPT !["primary"]["candidate"].data = data]
             f2 == [files EXCEPT !["primary"]["candidate"] = c1]
  <1>1. c \in [node : Nat, data : {"none", "empty", "partial", "image", "hybrid", "sums"},
               mode : {"none", "private", "sealed"}]
    BY CandidateFacts DEF Roles, File, NoFile, Nodes
  <1>2. [c EXCEPT !.data = data] = c1 /\ [c1 EXCEPT !.mode = mode] = g
    BY <1>1
  <1>3. files \in [Roles -> [Places -> File]] /\ "primary" \in Roles /\ "candidate" \in Places
    BY DEF PairInv, TypeOK, Roles, Places
  <1>4. f1 = f2
    BY <1>2, Zenon DEF Candidate
  <1>5. f2["primary"]["candidate"] = c1
    BY <1>3
  <1>6. [f2 EXCEPT !["primary"]["candidate"].mode = mode] = [f2 EXCEPT !["primary"]["candidate"] = g]
    BY <1>2, <1>5, Zenon
  <1>7. [f2 EXCEPT !["primary"]["candidate"] = g] = [files EXCEPT !["primary"]["candidate"] = g]
    BY <1>3
  <1>8. files' = [f1 EXCEPT !["primary"]["candidate"].mode = mode]
    BY DEF Write
  <1> QED  BY <1>4, <1>6, <1>7, <1>8

\* A write to the candidate of this build.
LEMMA WriteKeeps ==
  ASSUME PairInv, NEW site \in Named, NEW data \in {"partial", "image", "hybrid"},
         NEW mode \in {"private", "sealed"}, NEW next \in Named,
         Write(site, data, mode, next), StageAt(next) = StageAt(site),
         next \in {"build.mutated", "build.seal"} => data = "hybrid",
         next = "build.sealed" => data = "hybrid" /\ mode = "sealed"
  PROVE  PairInv'
  <1> DEFINE g == [node |-> Candidate("primary").node, data |-> data, mode |-> mode]
  <1>0. /\ pc = site /\ pc' = next /\ io' = "idle"
        /\ UNCHANGED <<journal, pending, mem, persisted, flags, bounds>>
    BY DEF Write, At, Goto
  <1>1. /\ site \in BuildSites /\ next \in BuildSites /\ site \in Created /\ next \in Created
        /\ site \in Started /\ next \in Started /\ next \notin EnterSites \cup CleanSites
        /\ next \notin {"build.begin", "build.create", "idle"} /\ next \notin PublishSites
    BY DEF Named, Created, Started, BuildSites, EnterSites, CleanSites, PublishSites
  <1>2. /\ Candidate("primary") \in File /\ Candidate("primary").node \in Nat
        /\ Candidate("primary").node <= builds + 1 /\ Candidate("primary") # NoFile
    BY <1>0, <1>1, CandidateFacts DEF PairInv, SiteInv, BuildOK, Roles
  <1>3. g \in File /\ g # NoFile /\ g.node = Candidate("primary").node
    BY <1>2 DEF File, NoFile
  <1>4. files' = [files EXCEPT !["primary"]["candidate"] = g] /\ "primary" \in Roles
    BY WriteIs DEF Roles
  <1> HIDE DEF g
  <1>5. files' \in [Roles -> [Places -> File]] /\ Candidate("primary")' = g
    <2>1. TypeOK
      BY DEF PairInv
    <2>2. /\ files' \in [Roles -> [Places -> File]]
          /\ \A q \in Roles, s \in Places :
               files'[q][s] = IF q = "primary" /\ s = "candidate" THEN g ELSE files[q][s]
      BY <1>3, <1>4, <2>1, CandidateIs, ZenonT(60)
    <2> QED  BY <2>2, <1>4 DEF Candidate, Places
  <1>6. FilesInv' /\ FinalsMatch'
    <2>1. TypeOK /\ FilesInv /\ FinalsMatch /\ builds' \in Nat /\ builds <= builds'
      BY <1>0 DEF PairInv, TypeOK, bounds
    <2>2. g.node <= builds' + 1
      BY <1>0, <1>2, <1>3 DEF bounds
    <2> QED  BY <2>1, <2>2, <1>3, <1>4, CandidateKeeps, Zenon
  <1>7. TypeOK' /\ RecordsInv'
    BY <1>0, <1>1, <1>5 DEF PairInv, TypeOK, RecordsInv, flags, bounds, Sites
  <1>8. BuildOK'
    <2>1. /\ mem.ext.phase = "building" /\ mem.ext.primary.stage = StageAt(next)
          /\ mem.ext.evidence.stage = "planned"
          /\ mem.ext.primary.prior.node < Candidate("primary").node
          /\ SameNode(Candidate("primary"), mem.ext.primary.id)
      BY <1>0, <1>1 DEF PairInv, SiteInv, BuildOK
    <2> QED  BY <2>1, <1>0, <1>3, <1>5 DEF BuildOK, SameNode, Image, g
  <1>9. PublishOK'
    BY <1>0, <1>1 DEF PublishOK, Writing, Acting, PublishSites
  <1>10. CountOK'
    BY <1>0, <1>1 DEF CountOK, PairInv, SiteInv, flags, bounds, EnterSites, CleanSites,
                      BuildSites
  <1> QED  BY <1>6, <1>7, <1>8, <1>9, <1>10 DEF PairInv, SiteInv

LEMMA WritesKeep ==
  PairInv /\ (GenerateSome \/ GenerateRest \/ MutateSome \/ MutateRest \/ Seal) => PairInv'
  <1> SUFFICES ASSUME PairInv,
                      GenerateSome \/ GenerateRest \/ MutateSome \/ MutateRest \/ Seal
               PROVE  PairInv'
    OBVIOUS
  <1> USE DEF StageAt, Named, Created, Started, BuildSites
  <1>1. CASE GenerateSome
    BY <1>1, WriteKeeps DEF GenerateSome
  <1>2. CASE GenerateRest
    BY <1>2, WriteKeeps DEF GenerateRest
  <1>3. CASE MutateSome
    BY <1>3, WriteKeeps DEF MutateSome
  <1>4. CASE MutateRest
    BY <1>4, WriteKeeps DEF MutateRest
  <1>5. CASE Seal
    BY <1>5, WriteKeeps DEF Seal
  <1> QED  BY <1>1, <1>2, <1>3, <1>4, <1>5

LEMMA BuildBeginKeeps == PairInv /\ BuildBegin => PairInv'
  <1> SUFFICES ASSUME PairInv, BuildBegin
               PROVE  PairInv'
    OBVIOUS
  <1>0. pc = "build.begin"
    BY DEF BuildBegin, At
  <1>1. CASE Raise
    BY <1>0, <1>1, RaiseKeeps
  <1>2. CASE ValidPair /\ PutExt(NewExt("building", PriorPair)) /\ Persist("build.create") /\ Quiet
    <2> DEFINE e == NewExt("building", PriorPair)
    <2>1. /\ PriorPair["primary"] = files["primary"]["final"]
          /\ PriorPair["evidence"] = files["evidence"]["final"]
          /\ PriorPair["primary"] \in File /\ PriorPair["evidence"] \in File
      BY FileAt DEF PairInv, PriorPair, Roles, Places
    <2>2. e \in ExtRecord
      BY <2>1, FilesAre DEF NewExt, NewSlot, ExtRecord, Slot, ExtPhases, NumActions,
                            PrimaryStages, EvidenceStages
    <2>3. PriorOK(e)
      BY <1>2 DEF ValidPair, PriorOK, NewExt, NewSlot, Roles
    <2>4. ValidExt(e) /\ Made(e)
      BY DEF ValidExt, Made, NewExt, NewSlot
    <2>5. Numbered(e, builds + 1)
      <3>1. PriorPair["primary"].node <= builds + 1 /\ PriorPair["evidence"].node <= builds + 1
        BY <2>1 DEF PairInv, FilesInv, Roles, Places
      <3> QED  BY <3>1 DEF Numbered, NewExt, NewSlot, NoFile, PairInv, TypeOK
    <2>6. /\ e.phase = "building" /\ e.primary.stage = "planned" /\ e.evidence.stage = "planned"
      BY DEF NewExt, NewSlot
    <2> HIDE DEF e
    <2>7. ExtOK(e)
      BY <2>2, <2>3, <2>4 DEF ExtOK
    <2>8. Ground' /\ mem'.ext = e
      <3>1. pc' \in Sites /\ io' \in {"idle", "write", "replace"} /\ PutExt(e)
        BY <1>2 DEF Persist, Sites, BuildSites, e
      <3> QED  BY <3>1, <1>2, <2>5, <2>7, Grounded, QuietPut
    <2>9. BuildOK' /\ PublishOK'
      BY <1>2, <2>6, <2>8 DEF Persist, BuildOK, PublishOK, Created, Named, StageAt, Writing, Acting
    <2>10. CountOK'
      BY <1>0, <1>2 DEF CountOK, PairInv, SiteInv, Quiet, Persist, flags, bounds, CleanSites, EnterSites
    <2> QED  BY <2>8, <2>9, <2>10 DEF PairInv, SiteInv, Ground
  <1> QED  BY <1>1, <1>2 DEF BuildBegin
LEMMA BuildCreateKeeps == PairInv /\ BuildCreate => PairInv'
  <1> SUFFICES ASSUME PairInv, BuildCreate
               PROVE  PairInv'
    OBVIOUS
  <1> DEFINE g == Empty(builds + 2)
  <1>0. /\ pc = "build.create" /\ pc' = "build.record" /\ io' = "idle" /\ builds' = builds + 1
        /\ files' = [files EXCEPT !["primary"]["candidate"] = g]
        /\ UNCHANGED <<journal, pending, mem, persisted, flags, crashes, faults>>
    BY DEF BuildCreate, At, Goto
  <1>1. builds \in Nat /\ builds + 1 \in 0..MaxBuilds /\ builds' \in Nat /\ builds <= builds'
    <2>1. CASE kind = "build"
      BY <1>0, <2>1 DEF PairInv, SiteInv, CountOK, TypeOK
    <2>2. CASE kind # "build"
      BY <1>0, <2>2 DEF PairInv, SiteInv, CountOK
    <2> QED  BY <2>1, <2>2
  <1>2. g \in File /\ g # NoFile /\ g.node = builds + 2 /\ "primary" \in Roles
    BY <1>1 DEF Empty, File, NoFile, Nodes, Roles
  <1> HIDE DEF g
  <1>3. TypeOK
    BY DEF PairInv
  <1>4. files' \in [Roles -> [Places -> File]] /\ Candidate("primary")' = g
    <2>1. /\ files' \in [Roles -> [Places -> File]]
          /\ \A q \in Roles, s \in Places :
               files'[q][s] = IF q = "primary" /\ s = "candidate" THEN g ELSE files[q][s]
      BY <1>0, <1>2, <1>3, CandidateIs, Zenon
    <2> QED  BY <2>1, <1>2 DEF Candidate, Places
  <1>5. FilesInv' /\ FinalsMatch'
    <2>1. TypeOK /\ FilesInv /\ FinalsMatch /\ g.node <= builds' + 1
      BY <1>0, <1>1, <1>2 DEF PairInv
    <2> QED  BY <2>1, <1>0, <1>1, <1>2, CandidateKeeps, Zenon
  <1>6. TypeOK'
    BY <1>0, <1>1, <1>4 DEF PairInv, TypeOK, flags, Sites, BuildSites
  <1>7. RecordsInv'
    BY <1>0, <1>1, RecordsFrom DEF PairInv, TypeOK
  <1>8. BuildOK'
    <2>1. mem.ext.primary.prior.node <= builds + 1 /\ mem.ext.primary.prior.node \in Nat
      <3>1. mem.ext \in ExtRecord /\ Numbered(mem.ext, builds + 1)
        BY Grounded, MemIs
      <3> QED  BY <3>1, RecordIs, FilesAre DEF Numbered
    <2> QED  BY <1>0, <1>1, <1>2, <1>4, <2>1
             DEF PairInv, SiteInv, BuildOK, Started, Created, Named, StageAt, BuildSites
  <1>9. PublishOK'
    BY <1>0 DEF PublishOK, Writing, Acting
  <1>10. CountOK'
    BY <1>0, <1>1 DEF CountOK, PairInv, SiteInv, flags, EnterSites, CleanSites
  <1> QED  BY <1>5, <1>6, <1>7, <1>8, <1>9, <1>10 DEF PairInv, SiteInv

LEMMA BuildRecordKeeps == PairInv /\ BuildRecord => PairInv'
  <1> SUFFICES ASSUME PairInv, BuildRecord
               PROVE  PairInv'
    OBVIOUS
  <1> DEFINE e == mem.ext
             f == Candidate("primary")
             d == Restaged(e, "created", f, "building")
  <1>0. /\ pc = "build.record" /\ pc' = "build.write" /\ io' = "write" /\ Quiet
        /\ PutExt([e EXCEPT !.primary.stage = "created", !.primary.id = f])
    BY DEF BuildRecord, At, Persist
  <1>1. /\ e \in ExtRecord /\ ExtOK(e) /\ Numbered(e, builds + 1) /\ builds + 1 \in Nat
    BY Grounded, MemIs
  <1>2. /\ e.phase = "building" /\ e.evidence.stage = "planned" /\ f # NoFile
        /\ e.primary.prior.node < f.node
    BY <1>0 DEF PairInv, SiteInv, BuildOK, Created, Started, BuildSites
  <1>3. f \in File /\ f.node <= builds + 1
    BY CandidateFacts DEF Roles
  <1> HIDE DEF e, f
  <1>4. ExtOK(d) /\ Numbered(d, builds + 1)
    BY <1>1, <1>2, <1>3, PrimaryIs
  <1>5. PutExt(d)
    <2>1. [e EXCEPT !.primary.stage = "created", !.primary.id = f]
            = Restaged(e, "created", f, e.phase)
      BY <1>1, RestageIs, Zenon
    <2>2. [e EXCEPT !.primary.stage = "created", !.primary.id = f] = d
      BY <1>2, <2>1, Zenon
    <2> HIDE DEF d
    <2> QED  BY <1>0, <2>2, Zenon
  <1> HIDE DEF d
  <1>6. Ground' /\ mem'.ext = d
    <2>1. pc' \in Sites /\ io' \in {"idle", "write", "replace"}
      BY <1>0 DEF Sites, BuildSites
    <2> QED  BY <1>0, <1>4, <1>5, <2>1, Grounded, QuietPut
  <1>7. Candidate("primary")' = f
    BY <1>0 DEF Quiet, disk, Candidate, f
  <1>8. BuildOK' /\ PublishOK'
    BY <1>0, <1>2, <1>6, <1>7
       DEF BuildOK, PublishOK, SameNode, Restaged, StageAt, Writing, Acting, d
  <1>9. CountOK'
    BY <1>0 DEF CountOK, PairInv, SiteInv, Quiet, flags, bounds, EnterSites, CleanSites
  <1> QED  BY <1>6, <1>8, <1>9 DEF PairInv, SiteInv, Ground

LEMMA RecordSealKeeps == PairInv /\ RecordSeal => PairInv'
  <1> SUFFICES ASSUME PairInv, RecordSeal
               PROVE  PairInv'
    OBVIOUS
  <1> DEFINE e == mem.ext
             f == Candidate("primary")
             d == Restaged(e, "sealed", f, "sealed")
  <1>0. /\ pc = "build.sealed" /\ pc' = "publish.digest" /\ io' = "write" /\ Quiet
        /\ PutExt([e EXCEPT !.primary.stage = "sealed", !.phase = "sealed", !.primary.id = f])
    BY DEF RecordSeal, At, Persist
  <1>1. /\ e \in ExtRecord /\ ExtOK(e) /\ Numbered(e, builds + 1) /\ builds + 1 \in Nat
    BY Grounded, MemIs
  <1>2. /\ e.phase = "building" /\ e.evidence.stage = "planned" /\ f = Image(f.node)
        /\ e.primary.prior.node < f.node
    BY <1>0 DEF PairInv, SiteInv, BuildOK, Created, Started, BuildSites
  <1>3. f \in File /\ f.node <= builds + 1
    BY CandidateFacts DEF Roles
  <1> HIDE DEF e, f
  <1>4. ExtOK(d) /\ Numbered(d, builds + 1)
    BY <1>1, <1>2, <1>3, SealIs
  <1>5. PutExt(d)
    <2>1. [e EXCEPT !.primary.stage = "sealed", !.phase = "sealed", !.primary.id = f] = d
      BY <1>1, ResealIs, Zenon
    <2> HIDE DEF d
    <2> QED  BY <1>0, <2>1, Zenon
  <1> HIDE DEF d
  <1>6. Ground'
    <2>1. pc' \in Sites /\ io' \in {"idle", "write", "replace"}
      BY <1>0 DEF Sites, PublishSites
    <2> QED  BY <1>0, <1>4, <1>5, <2>1, Grounded, QuietPut
  <1> QED  BY <1>0, <1>6, Elsewhere
           DEF PairInv, SiteInv, CountOK, Quiet, flags, bounds, EnterSites, CleanSites
--------------------------------------------------------------------------------
(* A publication *)

\* A record whose evidence takes another stage and identity.
Rewritten(e, t, f, ph) ==
  [phase |-> ph, index |-> e.index, pend |-> e.pend, digest |-> e.digest,
   primary |-> e.primary, evidence |-> [stage |-> t, id |-> f, prior |-> e.evidence.prior]]

Beside(e, p, q) == [phase |-> q, index |-> e.index, pend |-> e.pend, digest |-> e.digest,
                    primary |-> e.primary, evidence |-> p]
LEMMA BesideIs ==
  ASSUME NEW e \in ExtRecord, NEW p1, NEW p2, NEW q
  PROVE  /\ [e EXCEPT !.evidence = p1] = Beside(e, p1, e.phase)
         /\ [Beside(e, p1, q) EXCEPT !.evidence = p2] = Beside(e, p2, q)
         /\ [Beside(e, p1, e.phase) EXCEPT !.phase = q] = Beside(e, p1, q)
         /\ Beside(e, p1, q).evidence = p1
  BY DEF Beside, ExtRecord

LEMMA EvidenceSlotIs ==
  ASSUME NEW e \in ExtRecord, NEW t, NEW f
  PROVE  LET p == [stage |-> t, id |-> e.evidence.id, prior |-> e.evidence.prior]
         IN  /\ [e.evidence EXCEPT !.stage = t] = p
             /\ [p EXCEPT !.id = f] = [stage |-> t, id |-> f, prior |-> e.evidence.prior]
  BY DEF ExtRecord, Slot

LEMMA RewriteIs ==
  ASSUME NEW e \in ExtRecord, NEW t, NEW f
  PROVE  [e EXCEPT !.evidence.stage = t, !.evidence.id = f] = Rewritten(e, t, f, e.phase)
  <1> DEFINE p1 == [stage |-> t, id |-> e.evidence.id, prior |-> e.evidence.prior]
             p2 == [stage |-> t, id |-> f, prior |-> e.evidence.prior]
  <1>1. [e.evidence EXCEPT !.stage = t] = p1 /\ [p1 EXCEPT !.id = f] = p2
    BY EvidenceSlotIs
  <1> HIDE DEF p1, p2
  <1>2. /\ [e EXCEPT !.evidence = p1] = Beside(e, p1, e.phase)
        /\ [Beside(e, p1, e.phase) EXCEPT !.evidence = p2] = Beside(e, p2, e.phase)
        /\ Beside(e, p1, e.phase).evidence = p1
    BY BesideIs
  <1>3. [e EXCEPT !.evidence.stage = t, !.evidence.id = f] = Beside(e, p2, e.phase)
    BY <1>1, <1>2, Zenon
  <1> QED  BY <1>3 DEF Beside, Rewritten, p2

LEMMA RereadyIs ==
  ASSUME NEW e \in ExtRecord, NEW t, NEW ph, NEW f
  PROVE  [e EXCEPT !.evidence.stage = t, !.phase = ph, !.evidence.id = f] = Rewritten(e, t, f, ph)
  <1> DEFINE p1 == [stage |-> t, id |-> e.evidence.id, prior |-> e.evidence.prior]
             p2 == [stage |-> t, id |-> f, prior |-> e.evidence.prior]
  <1>1. [e.evidence EXCEPT !.stage = t] = p1 /\ [p1 EXCEPT !.id = f] = p2
    BY EvidenceSlotIs
  <1> HIDE DEF p1, p2
  <1>2. /\ [e EXCEPT !.evidence = p1] = Beside(e, p1, e.phase)
        /\ [Beside(e, p1, e.phase) EXCEPT !.phase = ph] = Beside(e, p1, ph)
        /\ [Beside(e, p1, ph) EXCEPT !.evidence = p2] = Beside(e, p2, ph)
        /\ Beside(e, p1, ph).evidence = p1
    BY BesideIs
  <1>3. [e EXCEPT !.evidence.stage = t, !.phase = ph, !.evidence.id = f] = Beside(e, p2, ph)
    BY <1>1, <1>2, ZenonT(60)
  <1> QED  BY <1>3 DEF Beside, Rewritten, p2

LEMMA SealedIs ==
  ASSUME NEW e, ExtOK(e), e.phase = "sealed"
  PROVE  /\ e.index = 0 /\ e.pend = FALSE /\ e.primary.stage = "sealed"
         /\ e.primary.id = Image(e.primary.id.node) /\ e.primary.id.node \in Nodes
         /\ e.evidence.stage \in {"planned", "writing"}
         /\ e.digest # 0 => e.digest = e.primary.id.node
  BY RecordIs DEF ExtOK, ValidExt, Made, Image, File, NoFile

\* The checksum file is begun, or complete.
LEMMA EvidenceIs ==
  ASSUME NEW e, ExtOK(e), NEW n \in Nat, Numbered(e, n), e.phase = "sealed", e.digest # 0,
         NEW f \in File, f # NoFile, f.node = e.digest,
         NEW t, NEW ph, \/ t = "writing" /\ ph = "sealed"
                        \/ t = "ready" /\ ph = "ready" /\ f = Sums(e.digest)
  PROVE  ExtOK(Rewritten(e, t, f, ph)) /\ Numbered(Rewritten(e, t, f, ph), n)
  <1> DEFINE d == Rewritten(e, t, f, ph)
  <1>1. e \in ExtRecord /\ e.digest <= n
    BY SealedIs DEF ExtOK, Numbered
  <1>2. d \in ExtRecord
    BY <1>1 DEF Rewritten, ExtRecord, Slot, EvidenceStages, ExtPhases
  <1>3. ValidExt(d)
    BY <1>1, SealedIs, RecordIs DEF ExtOK, ValidExt, Rewritten
  <1>4. PriorOK(d) /\ Made(d) /\ Numbered(d, n)
    BY <1>1, SealedIs DEF ExtOK, PriorOK, Made, Numbered, Rewritten
  <1> QED  BY <1>2, <1>3, <1>4 DEF ExtOK

LEMMA DigestIs ==
  ASSUME NEW e, ExtOK(e), NEW n \in Nat, Numbered(e, n), e.phase = "sealed",
         e.evidence.stage = "planned" \/ e.digest # 0
  PROVE  LET d == [e EXCEPT !.digest = e.primary.id.node]
         IN  ExtOK(d) /\ Numbered(d, n) /\ d.digest # 0 /\ d.phase = "sealed"
             /\ d.evidence = e.evidence
  <1> DEFINE d == [e EXCEPT !.digest = e.primary.id.node]
  <1>1. e \in ExtRecord
    BY DEF ExtOK
  <1>2. /\ d.phase = e.phase /\ d.index = e.index /\ d.pend = e.pend
        /\ d.digest = e.primary.id.node /\ d.primary = e.primary /\ d.evidence = e.evidence
    BY <1>1 DEF ExtRecord
  <1>3. d \in ExtRecord /\ d.digest # 0
    <2>1. e.primary.id.node \in Nodes
      BY SealedIs
    <2> QED  BY <1>1, <1>2, <2>1 DEF ExtRecord, Nodes
  <1> HIDE DEF d
  <1>4. ValidExt(d)
    BY <1>1, <1>2, <1>3, SealedIs, RecordIs DEF ExtOK, ValidExt
  <1>5. PriorOK(d) /\ Made(d) /\ Numbered(d, n)
    BY <1>1, <1>2, <1>3, SealedIs DEF ExtOK, PriorOK, Made, Numbered
  <1> QED  BY <1>2, <1>3, <1>4, <1>5 DEF ExtOK, d

LEMMA RecordDigestKeeps == PairInv /\ RecordDigest => PairInv'
  <1> SUFFICES ASSUME PairInv, RecordDigest
               PROVE  PairInv'
    OBVIOUS
  <1> DEFINE e == mem.ext
             d == [e EXCEPT !.digest = e.primary.id.node]
  <1>0. /\ pc = "publish.digest" /\ pc' = "publish.evidence" /\ io' = "write" /\ Quiet
        /\ e.phase = "sealed" /\ PutExt(d)
    BY DEF RecordDigest, At, Persist
  <1>1. /\ e \in ExtRecord /\ ExtOK(e) /\ Numbered(e, builds + 1) /\ builds + 1 \in Nat
    BY Grounded, MemIs
  <1>2. e.evidence.stage = "planned" \/ e.digest # 0
    BY <1>0, <1>1, SealedIs DEF ExtOK, Made
  <1>3. ExtOK(d) /\ Numbered(d, builds + 1) /\ d.digest # 0
    <2> HIDE DEF e
    <2> QED  BY <1>0, <1>1, <1>2, DigestIs
  <1> HIDE DEF d
  <1>4. Ground' /\ mem'.ext = d
    <2>1. pc' \in Sites /\ io' \in {"idle", "write", "replace"}
      BY <1>0 DEF Sites, PublishSites
    <2> QED  BY <1>0, <1>3, <2>1, Grounded, QuietPut
  <1>5. BuildOK' /\ PublishOK'
    BY <1>0, <1>3, <1>4 DEF BuildOK, PublishOK, Started, Created, Named, BuildSites, Writing, Acting
  <1>6. CountOK'
    BY <1>0 DEF CountOK, PairInv, SiteInv, Quiet, flags, bounds, EnterSites, CleanSites
  <1> QED  BY <1>4, <1>5, <1>6 DEF PairInv, SiteInv, Ground

\* A checksum file is created or written.
LEMMA EvidenceWriteKeeps ==
  ASSUME PairInv, NEW f \in File, f # NoFile, f.node = mem.ext.digest, mem.ext.phase = "sealed",
         files' = [files EXCEPT !["evidence"]["candidate"] = f],
         pc \in PublishSites, pc' \in {"publish.record", "publish.chmod", "publish.ready"},
         io' = "idle", UNCHANGED <<journal, pending, mem, persisted, flags, bounds>>,
         pc' = "publish.ready" => f = Sums(mem.ext.digest),
         mem.ext.evidence.stage = IF pc' = "publish.record" THEN "planned" ELSE "writing"
  PROVE  PairInv'
  <1>1. TypeOK /\ FilesInv /\ FinalsMatch /\ "evidence" \in Roles
    BY DEF PairInv, Roles
  <1>2. files' \in [Roles -> [Places -> File]] /\ Candidate("evidence")' = f
    <2>1. /\ files' \in [Roles -> [Places -> File]]
          /\ \A q \in Roles, s \in Places :
               files'[q][s] = IF q = "evidence" /\ s = "candidate" THEN f ELSE files[q][s]
      BY <1>1, CandidateIs, Zenon
    <2> QED  BY <1>1, <2>1 DEF Candidate, Places
  <1>3. /\ mem.ext.digest # 0 /\ mem.ext.digest <= builds + 1
        /\ builds' \in Nat /\ builds <= builds'
    <2>1. ExtOK(mem.ext) /\ Numbered(mem.ext, builds + 1) /\ builds \in Nat
      BY Grounded, MemIs
    <2>2. f.node \in Nat /\ f.node # 0
      BY FilesAre
    <2>3. mem.ext.digest # 0
      BY <2>2
    <2>4. mem.ext.digest = mem.ext.primary.id.node
      BY <2>1, <2>3, SealedIs
    <2>5. mem.ext.digest <= builds + 1
      BY <2>1, <2>4 DEF Numbered
    <2>6. builds' = builds
      BY DEF bounds
    <2> QED  BY <2>1, <2>3, <2>5, <2>6
  <1>4. FilesInv' /\ FinalsMatch'
    <2>1. f.node <= builds' + 1
      BY <1>3 DEF bounds
    <2> QED  BY <1>1, <1>3, <2>1, CandidateKeeps, Zenon
  <1>5. TypeOK' /\ RecordsInv'
    BY <1>2 DEF PairInv, TypeOK, RecordsInv, flags, bounds, Sites, PublishSites
  <1>6. BuildOK'
    BY DEF BuildOK, Started, Created, Named, BuildSites
  <1>7. PublishOK'
    BY <1>2, <1>3 DEF PublishOK, Writing, Acting
  <1>8. CountOK'
    BY DEF CountOK, PairInv, SiteInv, flags, bounds, EnterSites, CleanSites, PublishSites
  <1> QED  BY <1>4, <1>5, <1>6, <1>7, <1>8 DEF PairInv, SiteInv

LEMMA CreateEvidenceKeeps == PairInv /\ CreateEvidence => PairInv'
  <1> SUFFICES ASSUME PairInv, CreateEvidence
               PROVE  PairInv'
    OBVIOUS
  <1> DEFINE f == Empty(mem.ext.digest)
  <1>1. /\ pc = "publish.evidence" /\ pc' = "publish.record" /\ io' = "idle"
        /\ mem.ext.phase = "sealed" /\ mem.ext.evidence.stage = "planned"
        /\ files' = [files EXCEPT !["evidence"]["candidate"] = f]
        /\ UNCHANGED <<journal, pending, mem, persisted, flags, bounds>>
    BY DEF CreateEvidence, At, Goto
  <1>2. mem.ext.digest \in Nodes
    <2>1. mem.ext \in ExtRecord /\ mem.ext.digest # 0
      BY <1>1, Grounded, MemIs DEF PairInv, SiteInv, PublishOK
    <2> QED  BY <2>1, RecordIs
  <1>3. f \in File /\ f.node = mem.ext.digest /\ f # NoFile
    BY <1>2, FilesAre DEF Empty, NoFile
  <1> HIDE DEF f
  <1> QED  BY <1>1, <1>3, EvidenceWriteKeeps DEF PublishSites

LEMMA WriteSomeKeeps == PairInv /\ WriteSome => PairInv'
  <1> SUFFICES ASSUME PairInv, WriteSome
               PROVE  PairInv'
    OBVIOUS
  <1> DEFINE f == [Empty(mem.ext.digest) EXCEPT !.data = "partial"]
  <1>1. /\ pc = "publish.payload" /\ pc' = "publish.chmod" /\ io' = "idle"
        /\ files' = [files EXCEPT !["evidence"]["candidate"] = f]
        /\ UNCHANGED <<journal, pending, mem, persisted, flags, bounds>>
    BY DEF WriteSome, WriteEvidence, At, Goto
  <1>2. /\ mem.ext.digest \in Nodes /\ mem.ext.phase = "sealed" /\ mem.ext.evidence.stage = "writing"
    <2>1. mem.ext \in ExtRecord /\ mem.ext.digest # 0
      BY <1>1, Grounded, MemIs DEF PairInv, SiteInv, PublishOK, Writing
    <2> QED  BY <1>1, <2>1, RecordIs DEF PairInv, SiteInv, PublishOK, Writing
  <1>3. f \in File /\ f.node = mem.ext.digest /\ f # NoFile
    BY <1>2 DEF Empty, File, NoFile
  <1> HIDE DEF f
  <1> QED  BY <1>1, <1>2, <1>3, EvidenceWriteKeeps DEF PublishSites

LEMMA WriteRestKeeps == PairInv /\ WriteRest => PairInv'
  <1> SUFFICES ASSUME PairInv, WriteRest
               PROVE  PairInv'
    OBVIOUS
  <1> DEFINE f == Sums(mem.ext.digest)
  <1>1. /\ pc = "publish.chmod" /\ pc' = "publish.ready" /\ io' = "idle"
        /\ files' = [files EXCEPT !["evidence"]["candidate"] = f]
        /\ UNCHANGED <<journal, pending, mem, persisted, flags, bounds>>
    BY DEF WriteRest, WriteEvidence, At, Goto
  <1>2. /\ mem.ext.digest \in Nodes /\ mem.ext.phase = "sealed" /\ mem.ext.evidence.stage = "writing"
    <2>1. mem.ext \in ExtRecord /\ mem.ext.digest # 0
      BY <1>1, Grounded, MemIs DEF PairInv, SiteInv, PublishOK, Writing
    <2> QED  BY <1>1, <2>1, RecordIs DEF PairInv, SiteInv, PublishOK, Writing
  <1>3. f \in File /\ f.node = mem.ext.digest /\ f # NoFile
    BY <1>2, FilesAre DEF Sums, NoFile
  <1>4. f = Sums(mem.ext.digest)
    OBVIOUS
  <1> HIDE DEF f
  <1> QED  BY <1>1, <1>2, <1>3, <1>4, EvidenceWriteKeeps DEF PublishSites

\* The checksum file's place in the record: begun, or ready.
LEMMA EvidenceRecordKeeps ==
  ASSUME PairInv, NEW t, NEW ph, NEW d, PutExt(d), Quiet, io' = "write",
         d = Rewritten(mem.ext, t, Candidate("evidence"), ph),
         \/ /\ t = "writing" /\ ph = "sealed"
            /\ pc = "publish.record" /\ pc' = "publish.payload"
         \/ /\ t = "ready" /\ ph = "ready"
            /\ pc = "publish.ready" /\ pc' = "publish.start"
  PROVE  PairInv'
  <1> DEFINE e == mem.ext
             f == Candidate("evidence")
  <1>1. /\ ExtOK(e) /\ Numbered(e, builds + 1) /\ builds + 1 \in Nat
    BY Grounded, MemIs
  <1>2. e.phase = "sealed" /\ e.digest # 0 /\ f.node = e.digest
        /\ (pc = "publish.ready" => f = Sums(e.digest))
    BY DEF PairInv, SiteInv, PublishOK, Writing
  <1>3. f \in File /\ f # NoFile
    BY <1>2, CandidateFacts DEF Roles
  <1>4. ExtOK(d) /\ Numbered(d, builds + 1)
    <2>1. d = Rewritten(e, t, f, ph)
      OBVIOUS
    <2>2. \/ t = "writing" /\ ph = "sealed"
          \/ t = "ready" /\ ph = "ready" /\ f = Sums(e.digest)
      BY <1>2
    <2> HIDE DEF e, f
    <2> QED  BY <1>1, <1>2, <1>3, <2>1, <2>2, EvidenceIs
  <1>5. Ground' /\ mem'.ext = d
    <2>1. pc' \in Sites /\ io' \in {"idle", "write", "replace"}
      BY DEF Sites, PublishSites
    <2> QED  BY <1>4, <2>1, Grounded, QuietPut
  <1>6. /\ d.digest = e.digest /\ d.phase = ph /\ d.evidence.stage = t
        /\ Candidate("evidence")' = f
    BY DEF Rewritten, Quiet, disk, Candidate
  <1> HIDE DEF e, f
  <1>7. BuildOK' /\ PublishOK'
    BY <1>2, <1>5, <1>6
       DEF BuildOK, PublishOK, Started, Created, Named, BuildSites, Writing, Acting
  <1>8. CountOK'
    BY DEF CountOK, PairInv, SiteInv, Quiet, flags, bounds, EnterSites, CleanSites
  <1> QED  BY <1>5, <1>7, <1>8 DEF PairInv, SiteInv, Ground

LEMMA RecordEvidenceKeeps == PairInv /\ (RecordEvidence \/ EvidenceReady) => PairInv'
  <1> SUFFICES ASSUME PairInv, RecordEvidence \/ EvidenceReady
               PROVE  PairInv'
    OBVIOUS
  <1> DEFINE e == mem.ext
             f == Candidate("evidence")
  <1>1. e \in ExtRecord
    BY Grounded, MemIs
  <1>2. CASE RecordEvidence
    <2>1. /\ pc = "publish.record" /\ pc' = "publish.payload" /\ io' = "write" /\ Quiet
          /\ PutExt([e EXCEPT !.evidence.stage = "writing", !.evidence.id = f])
      BY <1>2 DEF RecordEvidence, At, Persist
    <2>2. [e EXCEPT !.evidence.stage = "writing", !.evidence.id = f]
            = Rewritten(e, "writing", f, e.phase)
      BY <1>1, RewriteIs, Zenon
    <2>3. e.phase = "sealed"
      BY <2>1 DEF PairInv, SiteInv, PublishOK
    <2>4. PutExt(Rewritten(e, "writing", f, "sealed"))
      BY <2>1, <2>2, <2>3, Zenon
    <2> QED  BY <2>1, <2>4, EvidenceRecordKeeps
  <1>3. CASE EvidenceReady
    <2>1. /\ pc = "publish.ready" /\ pc' = "publish.start" /\ io' = "write" /\ Quiet
          /\ PutExt([e EXCEPT !.evidence.stage = "ready", !.phase = "ready", !.evidence.id = f])
      BY <1>3 DEF EvidenceReady, At, Persist
    <2>2. [e EXCEPT !.evidence.stage = "ready", !.phase = "ready", !.evidence.id = f]
            = Rewritten(e, "ready", f, "ready")
      BY <1>1, RereadyIs, Zenon
    <2>3. PutExt(Rewritten(e, "ready", f, "ready"))
      BY <2>1, <2>2, Zenon
    <2> QED  BY <2>1, <2>3, EvidenceRecordKeeps
  <1> QED  BY <1>2, <1>3

\* A preflight in the body or in the cleanup.
LEMMA ViewIs ==
  ASSUME PairInv, PreflightOK(mem.ext), PutExt(Preflighted(mem.ext))
  PROVE  /\ ExtOK(Preflighted(mem.ext)) /\ Numbered(Preflighted(mem.ext), builds + 1)
         /\ mem' \in Journal /\ mem'.ext = Preflighted(mem.ext)
         /\ mem'.phase = mem.phase /\ mem'.res = mem.res
  <1>1. /\ TypeOK /\ ExtOK(mem.ext) /\ Numbered(mem.ext, builds + 1) /\ builds + 1 \in Nat
        /\ mem \in Journal
    BY Grounded, MemIs DEF PairInv
  <1>2. ExtOK(Preflighted(mem.ext)) /\ Numbered(Preflighted(mem.ext), builds + 1)
    BY <1>1, PreflightedIs
  <1>3. Preflighted(mem.ext) \in ExtRecord
    BY <1>2 DEF ExtOK
  <1> QED  BY <1>1, <1>2, <1>3, PutIs

LEMMA ViewsKeep == PairInv /\ (PublishStart \/ FinishView) => PairInv'
  <1> SUFFICES ASSUME PairInv, PublishStart \/ FinishView
               PROVE  PairInv'
    OBVIOUS
  <1>1. /\ PreflightOK(mem.ext) /\ PutExt(Preflighted(mem.ext)) /\ Quiet
        /\ pc \in {"publish.start", "finish.view"} /\ pc' \in {"publish.phase", "finish.route"}
        /\ io' \in {"idle", "write"}
    BY DEF PublishStart, FinishView, View, At, Goto, Persist
  <1>2. Ground'
    <2>1. pc' \in Sites /\ io' \in {"idle", "write", "replace"}
      BY <1>1 DEF Sites, PublishSites
    <2> QED  BY <1>1, <2>1, ViewIs, Grounded, QuietPut
  <1> QED  BY <1>1, <1>2, Elsewhere
           DEF PairInv, SiteInv, CountOK, Quiet, flags, bounds, EnterSites, CleanSites

\* Steps that change neither the record nor the disk.
LEMMA QuietMove ==
  ASSUME PairInv, Quiet, UNCHANGED mem, io' = "idle",
         pc \in BuildSites \cup PublishSites \cup {"finish.view", "finish.route", "other.work"},
         pc' \in {"publish.digest", "publish.start", "clean.preflight"}
  PROVE  PairInv'
  <1>1. Ground'
    BY Grounded, QuietSame DEF Sites, PublishSites, CleanSites
  <1> QED  BY <1>1, Elsewhere
           DEF PairInv, SiteInv, CountOK, Quiet, flags, bounds, EnterSites, CleanSites,
               BuildSites, PublishSites

\* A step onto publish.next or publish.act.
LEMMA OnwardKeeps ==
  ASSUME PairInv, Ground', Quiet, pc \in PublishSites,
         mem'.ext.phase \in {"publishing", "published", "complete"},
         \/ pc' = "publish.next"
         \/ pc' = "publish.act" /\ mem'.ext.index < NumActions /\ mem'.ext.pend
  PROVE  PairInv'
  <1>1. BuildOK' /\ PublishOK'
    BY DEF BuildOK, PublishOK, Started, Created, Named, BuildSites, Writing, Acting
  <1>2. CountOK'
    BY DEF CountOK, PairInv, SiteInv, Quiet, flags, bounds, EnterSites, CleanSites, PublishSites
  <1> QED  BY <1>1, <1>2 DEF PairInv, SiteInv, Ground

LEMMA PublishPhaseKeeps == PairInv /\ PublishPhase => PairInv'
  <1> SUFFICES ASSUME PairInv, PublishPhase
               PROVE  PairInv'
    OBVIOUS
  <1> DEFINE e == mem.ext
             d == [e EXCEPT !.phase = "publishing"]
  <1>0. /\ pc = "publish.phase" /\ pc' = "publish.next" /\ io' \in {"idle", "write"} /\ Quiet
        /\ \/ e.phase = "ready" /\ PutExt(d)
           \/ e.phase \in {"publishing", "published"} /\ UNCHANGED mem
    BY DEF PublishPhase, At, Goto, Persist
  <1>1. ExtOK(e) /\ Numbered(e, builds + 1) /\ builds + 1 \in Nat
    BY Grounded, MemIs
  <1>2. pc' \in Sites /\ io' \in {"idle", "write", "replace"} /\ pc \in PublishSites
    BY <1>0 DEF Sites, PublishSites
  <1>3. CASE e.phase = "ready" /\ PutExt(d)
    <2>1. e \in ExtRecord /\ e.index = 0 /\ e.pend = FALSE
      BY <1>1, <1>3, RecordIs DEF ExtOK, ValidExt
    <2> HIDE DEF e
    <2>2. d = [e EXCEPT !.index = 0, !.pend = FALSE, !.phase = PhaseOf(0)]
      <3>1. PhaseOf(0) = "publishing"
        BY DEF PhaseOf
      <3>2. [e EXCEPT !.index = 0] = e /\ [e EXCEPT !.pend = FALSE] = e
        BY <2>1 DEF ExtRecord
      <3> QED  BY <3>1, <3>2, Zenon
    <2> HIDE DEF d
    <2>3. ExtOK(d) /\ Numbered(d, builds + 1)
      <3>1. 0 \in 0..NumActions /\ e.phase \in Publishing \cup {"ready"}
        BY <1>3 DEF NumActions
      <3> QED  BY <1>1, <2>2, <3>1, AdvanceIs, ZenonT(60)
    <2>4. Ground' /\ mem'.ext = d
      BY <1>0, <1>2, <1>3, <2>3, Grounded, QuietPut
    <2>5. d.phase = "publishing"
      BY <2>1 DEF d, ExtRecord
    <2> QED  BY <1>0, <1>2, <2>4, <2>5, OnwardKeeps
  <1>4. CASE e.phase \in {"publishing", "published"} /\ UNCHANGED mem
    <2>1. Ground'
      BY <1>0, <1>2, <1>4, Grounded, QuietSame
    <2> QED  BY <1>0, <1>2, <1>4, <2>1, OnwardKeeps
  <1> QED  BY <1>0, <1>3, <1>4

LEMMA PublishNextKeeps == PairInv /\ PublishNext => PairInv'
  <1> SUFFICES ASSUME PairInv, PublishNext
               PROVE  PairInv'
    OBVIOUS
  <1> DEFINE e == mem.ext
             d == [e EXCEPT !.pend = TRUE]
  <1>0. /\ pc = "publish.next" /\ pc' = "publish.act" /\ io' = "write" /\ Quiet
        /\ e.index < NumActions /\ PutExt(d)
    BY DEF PublishNext, At, Persist
  <1>1. e \in ExtRecord /\ ExtOK(e) /\ Numbered(e, builds + 1)
    BY Grounded, MemIs
  <1>2. e.phase \in {"publishing", "published", "complete"}
    BY <1>0 DEF PairInv, SiteInv, PublishOK
  <1> HIDE DEF e
  <1>3. e.phase = PhaseOf(e.index) /\ e.phase # "complete" /\ e.index \in 0..NumActions
    BY <1>0, <1>1, <1>2, IndexIs DEF Publishing, NumActions
  <1>4. /\ d.phase = e.phase /\ d.index = e.index /\ d.pend = TRUE /\ d.digest = e.digest
        /\ d.primary = e.primary /\ d.evidence = e.evidence /\ d \in ExtRecord
    BY <1>1 DEF ExtRecord
  <1> HIDE DEF d
  <1>5. ExtOK(d) /\ Numbered(d, builds + 1)
    <2>1. ValidExt(d)
      BY <1>1, <1>2, <1>3, <1>4 DEF ExtOK, ValidExt
    <2> QED  BY <1>1, <1>4, <2>1 DEF ExtOK, PriorOK, Made, Numbered
  <1>6. Ground' /\ mem'.ext = d
    <2>1. pc' \in Sites /\ io' \in {"idle", "write", "replace"}
      BY <1>0 DEF Sites, PublishSites
    <2> QED  BY <1>0, <1>5, <2>1, Grounded, QuietPut
  <1> QED  BY <1>0, <1>2, <1>4, <1>6, OnwardKeeps DEF PublishSites

LEMMA PublishBumpKeeps == PairInv /\ PublishBump => PairInv'
  <1> SUFFICES ASSUME PairInv, PublishBump
               PROVE  PairInv'
    OBVIOUS
  <1> DEFINE e == mem.ext
             i == e.index + 1
             d == [e EXCEPT !.index = i, !.pend = FALSE, !.phase = PhaseOf(i)]
  <1>0. pc = "publish.bump" /\ pc' = "publish.next" /\ io' = "write" /\ Quiet /\ PutExt(d)
    BY DEF PublishBump, At, Persist
  <1>1. e \in ExtRecord /\ ExtOK(e) /\ Numbered(e, builds + 1) /\ builds + 1 \in Nat
    BY Grounded, MemIs
  <1>2. e.phase \in Publishing /\ i \in 0..NumActions
    BY <1>0, <1>1, RecordIs DEF PairInv, SiteInv, PublishOK, Acting, Publishing, NumActions
  <1> HIDE DEF e, i
  <1>3. ExtOK(d) /\ Numbered(d, builds + 1)
    BY <1>1, <1>2, AdvanceIs, ZenonT(60)
  <1>4. d.phase \in Publishing
    <2>1. PhaseOf(i) \in Publishing
      BY DEF PhaseOf, Publishing
    <2> QED  BY <1>1, <2>1 DEF ExtRecord
  <1> HIDE DEF d
  <1>5. Ground' /\ mem'.ext = d
    <2>1. pc' \in Sites /\ io' \in {"idle", "write", "replace"}
      BY <1>0 DEF Sites, PublishSites
    <2> QED  BY <1>0, <1>3, <2>1, Grounded, QuietPut
  <1> QED  BY <1>0, <1>4, <1>5, OnwardKeeps DEF PublishSites, Publishing

LEMMA AcknowledgeKeeps ==
  PairInv /\ pc \in {"publish.next", "finish.route"} /\ Acknowledge => PairInv'
  <1> SUFFICES ASSUME PairInv, pc \in {"publish.next", "finish.route"}, Acknowledge
               PROVE  PairInv'
    OBVIOUS
  <1>1. Ground'
    <2>1. TypeOK'
      BY DEF PairInv, TypeOK, Acknowledge, Goto, disk, bounds, Sites, CleanSites
    <2>2. RecordsInv' /\ FilesInv' /\ FinalsMatch'
      BY FilesSame DEF PairInv, RecordsInv, Acknowledge, disk, bounds
    <2> QED  BY <2>1, <2>2 DEF Ground
  <1> QED  BY <1>1, Elsewhere
           DEF PairInv, SiteInv, CountOK, Acknowledge, Goto, bounds, EnterSites, CleanSites

LEMMA FinishRouteKeeps == PairInv /\ FinishRoute => PairInv'
  <1> SUFFICES ASSUME PairInv, FinishRoute
               PROVE  PairInv'
    OBVIOUS
  <1>0. pc = "finish.route"
    BY DEF FinishRoute, At
  <1>1. CASE Acknowledge
    BY <1>0, <1>1, AcknowledgeKeeps
  <1>2. CASE /\ UNCHANGED mem /\ Quiet /\ io' = "idle"
             /\ \/ pc' \in {"publish.digest", "publish.start"}
                \/ pc' = "publish.evidence" /\ mem.ext.digest # 0
    <2>1. CASE pc' \in {"publish.digest", "publish.start"}
      BY <1>0, <1>2, <2>1, QuietMove
    <2>2. CASE pc' = "publish.evidence" /\ mem.ext.digest # 0
      <3>1. Ground'
        BY <1>2, <2>2, Grounded, QuietSame DEF Sites, PublishSites
      <3>2. BuildOK' /\ PublishOK'
        BY <1>2, <2>2 DEF BuildOK, PublishOK, Started, Created, Named, BuildSites, Writing, Acting
      <3>3. CountOK'
        BY <1>0, <1>2, <2>2
           DEF CountOK, PairInv, SiteInv, Quiet, flags, bounds, EnterSites, CleanSites
      <3> QED  BY <3>1, <3>2, <3>3 DEF PairInv, SiteInv, Ground
    <2> QED  BY <1>2, <2>1, <2>2
  <1>3. \/ Acknowledge
        \/ /\ UNCHANGED mem /\ Quiet /\ io' = "idle"
           /\ \/ pc' \in {"publish.digest", "publish.start"}
              \/ pc' = "publish.evidence" /\ mem.ext.digest # 0
    BY DEF FinishRoute, Goto
  <1> QED  BY <1>1, <1>2, <1>3

LEMMA OthersKeep == PairInv /\ (Acquire \/ OtherWork) => PairInv'
  <1> SUFFICES ASSUME PairInv, Acquire \/ OtherWork
               PROVE  PairInv'
    OBVIOUS
  <1>1. CASE Acquire
    <2>1. /\ mem' = [mem EXCEPT !.res = "active"] /\ Quiet
          /\ pc = "other.acquire" /\ pc' = "other.work" /\ io' = "write"
      BY <1>1 DEF Acquire, At, Persist
    <2>2. mem' \in Journal /\ mem'.ext = mem.ext
      BY <2>1, Grounded, MemIs DEF Journal
    <2>3. Ground'
      BY <2>1, <2>2, Grounded, MemIs, QuietIs DEF Sites
    <2> QED  BY <2>1, <2>3, Elsewhere
             DEF PairInv, SiteInv, CountOK, Quiet, flags, bounds, EnterSites, CleanSites
  <1>2. CASE OtherWork
    BY <1>2, QuietMove DEF OtherWork, At, Goto
  <1> QED  BY <1>1, <1>2
--------------------------------------------------------------------------------
(* The renames *)

\* The six files of a layout, one by one.
LayoutIn(f, e, i) ==
  /\ f["primary"]["final"]      = IF i <= 0 THEN e.primary.prior
                                  ELSE IF i > 2 THEN e.primary.id ELSE NoFile
  /\ f["primary"]["candidate"]  = IF i <= 2 THEN e.primary.id ELSE NoFile
  /\ f["primary"]["backup"]     = IF i > 0 /\ i <= 5 THEN e.primary.prior ELSE NoFile
  /\ f["evidence"]["final"]     = IF i <= 1 THEN e.evidence.prior
                                  ELSE IF i > 3 THEN e.evidence.id ELSE NoFile
  /\ f["evidence"]["candidate"] = IF i <= 3 THEN e.evidence.id ELSE NoFile
  /\ f["evidence"]["backup"]    = IF i > 1 /\ i <= 6 THEN e.evidence.prior ELSE NoFile

LEMMA ActionsAre ==
  /\ BackupAction["primary"] = 0 /\ BackupAction["evidence"] = 1
  /\ PublishAction["primary"] = 2 /\ PublishAction["evidence"] = 3
  /\ DropAction["primary"] = 5 /\ DropAction["evidence"] = 6
  BY DEF BackupAction, PublishAction, DropAction, Roles

LEMMA ExpectedIs ==
  ASSUME NEW e, NEW i \in Nat
  PROVE  /\ Expected(e, i)["primary"]["final"] =
              (IF i <= 0 THEN e.primary.prior ELSE IF i > 2 THEN e.primary.id ELSE NoFile)
         /\ Expected(e, i)["primary"]["candidate"] = (IF i <= 2 THEN e.primary.id ELSE NoFile)
         /\ Expected(e, i)["primary"]["backup"] =
              (IF i > 0 /\ i <= 5 THEN e.primary.prior ELSE NoFile)
         /\ Expected(e, i)["evidence"]["final"] =
              (IF i <= 1 THEN e.evidence.prior ELSE IF i > 3 THEN e.evidence.id ELSE NoFile)
         /\ Expected(e, i)["evidence"]["candidate"] = (IF i <= 3 THEN e.evidence.id ELSE NoFile)
         /\ Expected(e, i)["evidence"]["backup"] =
              (IF i > 1 /\ i <= 6 THEN e.evidence.prior ELSE NoFile)
  BY ActionsAre DEF Expected, Roles

LEMMA LayoutIs ==
  ASSUME NEW e, NEW i \in Nat
  PROVE  Layout(e, i) <=> LayoutIn(files, e, i)
  <1>1. Layout(e, i) <=>
          /\ files["primary"]["final"] = Expected(e, i)["primary"]["final"]
          /\ files["primary"]["candidate"] = Expected(e, i)["primary"]["candidate"]
          /\ files["primary"]["backup"] = Expected(e, i)["primary"]["backup"]
          /\ files["evidence"]["final"] = Expected(e, i)["evidence"]["final"]
          /\ files["evidence"]["candidate"] = Expected(e, i)["evidence"]["candidate"]
          /\ files["evidence"]["backup"] = Expected(e, i)["evidence"]["backup"]
    BY DEF Layout, Roles, Places
  <1> QED  BY <1>1, ExpectedIs DEF LayoutIn

LEMMA ActedAre ==
  /\ Acted("primary", 0) = Moved("primary", "final", "backup")
  /\ Acted("evidence", 1) = Moved("evidence", "final", "backup")
  /\ Acted("primary", 2) = Moved("primary", "candidate", "final")
  /\ Acted("evidence", 3) = Moved("evidence", "candidate", "final")
  /\ Acted("primary", 5) = [files EXCEPT !["primary"]["backup"] = NoFile]
  /\ Acted("evidence", 6) = [files EXCEPT !["evidence"]["backup"] = NoFile]
  BY ActionsAre DEF Acted

\* The renames and unlinks of a publication lead from one layout to the next.
LEMMA ActedIs ==
  ASSUME TypeOK, NEW e \in ExtRecord, NEW i \in 0..6, LayoutIn(files, e, i),
         NEW r \in Roles, i \in {BackupAction[r], PublishAction[r], DropAction[r]},
         files' = Acted(r, i)
  PROVE  files' \in [Roles -> [Places -> File]] /\ LayoutIn(files', e, i + 1)
  <1> USE FilesAre DEF TypeOK, LayoutIn, Moved, Roles, Places
  <1>1. CASE r = "primary" /\ i = 0
    <2>1. files' = Moved("primary", "final", "backup")
      BY <1>1, ActedAre
    <2> QED  BY <1>1, <2>1
  <1>2. CASE r = "evidence" /\ i = 1
    <2>1. files' = Moved("evidence", "final", "backup")
      BY <1>2, ActedAre
    <2> QED  BY <1>2, <2>1
  <1>3. CASE r = "primary" /\ i = 2
    <2>1. files' = Moved("primary", "candidate", "final")
      BY <1>3, ActedAre
    <2> QED  BY <1>3, <2>1
  <1>4. CASE r = "evidence" /\ i = 3
    <2>1. files' = Moved("evidence", "candidate", "final")
      BY <1>4, ActedAre
    <2> QED  BY <1>4, <2>1
  <1>5. CASE r = "primary" /\ i = 5
    <2>1. files' = [files EXCEPT !["primary"]["backup"] = NoFile]
      BY <1>5, ActedAre
    <2> QED  BY <1>5, <2>1
  <1>6. CASE r = "evidence" /\ i = 6
    <2>1. files' = [files EXCEPT !["evidence"]["backup"] = NoFile]
      BY <1>6, ActedAre
    <2> QED  BY <1>6, <2>1
  <1> QED  BY <1>1, <1>2, <1>3, <1>4, <1>5, <1>6, ActionsAre

LEMMA PublishingIs ==
  ASSUME NEW e, ExtOK(e), e.phase \in Publishing
  PROVE  /\ e.digest \in Nodes /\ e.primary.id = Image(e.digest)
         /\ e.evidence.id = Sums(e.digest) /\ e.primary.prior.node < e.digest
  <1>1. /\ e.digest \in Nodes /\ e.primary.stage = "sealed" /\ e.evidence.stage = "ready"
        /\ e.digest = e.primary.id.node /\ e.primary.id # NoFile
    BY RecordIs DEF ExtOK, ValidExt, Publishing
  <1> QED  BY <1>1 DEF ExtOK, Made

\* Each layout has a whole pair at the final paths, or not two files.
LEMMA LayoutMatches ==
  ASSUME NEW e, ExtOK(e), e.phase \in Publishing, NEW i \in 0..7, NEW f, LayoutIn(f, e, i)
  PROVE  (\A r \in Roles : f[r]["final"] # NoFile) =>
           \E n \in Nodes : f["primary"]["final"] = Image(n) /\ f["evidence"]["final"] = Sums(n)
  BY PublishingIs DEF LayoutIn, ExtOK, PriorOK, Roles

LEMMA PublishActIs ==
  ASSUME PairInv, PublishAct
  PROVE  LET e == mem.ext
         IN  /\ e \in ExtRecord /\ ExtOK(e) /\ Numbered(e, builds + 1)
             /\ e.phase \in Publishing /\ e.index \in 0..6 /\ e.pend
             /\ LayoutIn(files, e, e.index) /\ LayoutIn(files', e, e.index + 1)
             /\ files' \in [Roles -> [Places -> File]]
             /\ pc = "publish.act" /\ pc' = "publish.bump" /\ io = "idle" /\ io' = "idle"
             /\ UNCHANGED <<journal, pending, mem, persisted, flags, bounds>>
  <1> DEFINE e == mem.ext
  <1>1. /\ pc = "publish.act" /\ pc' = "publish.bump" /\ io = "idle" /\ io' = "idle"
        /\ Layout(e, e.index)
        /\ UNCHANGED <<journal, pending, mem, persisted, flags, bounds>>
        /\ \/ e.index = 4 /\ UNCHANGED files
           \/ \E r \in Roles : /\ e.index \in {BackupAction[r], PublishAction[r], DropAction[r]}
                               /\ files' = Acted(r, e.index)
    BY DEF PublishAct, At, Goto
  <1>2. TypeOK /\ e \in ExtRecord /\ ExtOK(e) /\ Numbered(e, builds + 1)
    BY Grounded, MemIs DEF PairInv
  <1>3. e.phase \in Publishing /\ e.index \in 0..6 /\ e.pend
    BY <1>1, <1>2, RecordIs DEF PairInv, SiteInv, PublishOK, Acting, Publishing, NumActions
  <1> HIDE DEF e
  <1>4. LayoutIn(files, e, e.index)
    BY <1>1, <1>3, LayoutIs
  <1>5. files' \in [Roles -> [Places -> File]] /\ LayoutIn(files', e, e.index + 1)
    <2>1. CASE e.index = 4 /\ UNCHANGED files
      BY <1>2, <1>4, <2>1 DEF LayoutIn, TypeOK
    <2>2. ASSUME NEW r \in Roles, files' = Acted(r, e.index),
                 e.index \in {BackupAction[r], PublishAction[r], DropAction[r]}
          PROVE  files' \in [Roles -> [Places -> File]] /\ LayoutIn(files', e, e.index + 1)
      BY <1>2, <1>3, <1>4, <2>2, ActedIs
    <2> QED  BY <1>1, <2>1, <2>2
  <1> QED  BY <1>1, <1>2, <1>3, <1>4, <1>5 DEF e

LEMMA PublishActKeeps == PairInv /\ PublishAct => PairInv'
  <1> SUFFICES ASSUME PairInv, PublishAct
               PROVE  PairInv'
    OBVIOUS
  <1> DEFINE e == mem.ext
  <1>1. /\ e \in ExtRecord /\ ExtOK(e) /\ Numbered(e, builds + 1)
        /\ e.phase \in Publishing /\ e.index \in 0..6 /\ e.pend
        /\ LayoutIn(files', e, e.index + 1)
        /\ files' \in [Roles -> [Places -> File]]
        /\ pc = "publish.act" /\ pc' = "publish.bump" /\ io' = "idle"
        /\ UNCHANGED <<journal, pending, mem, persisted, flags, bounds>>
    BY PublishActIs
  <1>2. TypeOK' /\ RecordsInv'
    BY <1>1 DEF PairInv, TypeOK, RecordsInv, flags, bounds, Sites, PublishSites
  <1>3. FilesInv'
    <2>1. /\ e.primary.id.node <= builds' + 1 /\ e.primary.prior.node <= builds' + 1
          /\ e.evidence.id.node <= builds' + 1 /\ e.evidence.prior.node <= builds' + 1
          /\ NoFile.node <= builds' + 1
      BY <1>1 DEF Numbered, bounds, NoFile, PairInv, TypeOK
    <2> HIDE DEF e
    <2> QED  BY <1>1, <2>1 DEF LayoutIn, FilesInv, Roles, Places
  <1>4. FinalsMatch'
    <2>1. e.index + 1 \in 0..7
      BY <1>1
    <2> HIDE DEF e
    <2> QED  BY <1>1, <2>1, LayoutMatches DEF FinalsMatch
  <1>5. BuildOK' /\ PublishOK'
    BY <1>1 DEF BuildOK, PublishOK, Started, Created, Named, BuildSites, Writing, Acting,
                Publishing, NumActions
  <1>6. CountOK'
    BY <1>1 DEF CountOK, PairInv, SiteInv, flags, bounds, EnterSites, CleanSites
  <1> QED  BY <1>2, <1>3, <1>4, <1>5, <1>6 DEF PairInv, SiteInv
--------------------------------------------------------------------------------
(* The cleanup *)

LEMMA CleanPreflightKeeps == PairInv /\ CleanPreflight => PairInv'
  <1> SUFFICES ASSUME PairInv, CleanPreflight
               PROVE  PairInv'
    OBVIOUS
  <1>0. pc = "clean.preflight"
    BY DEF CleanPreflight, At
  <1>1. CASE Raise
    BY <1>0, <1>1, RaiseKeeps
  <1>2. CASE /\ PreflightOK(mem.ext) /\ PutExt(Preflighted(mem.ext))
             /\ preserve' = Resumable(mem'.ext, acked)
             /\ pc' = "clean.mark" /\ io' \in {"idle", "write"}
             /\ UNCHANGED <<disk, persisted, kind, after, acked, failed, bounds>>
    <2>1. /\ ExtOK(mem'.ext) /\ Numbered(mem'.ext, builds + 1) /\ mem' \in Journal
      BY <1>2, ViewIs
    <2>2. preserve' \in BOOLEAN
      BY <1>2 DEF Resumable
    <2>3. TypeOK'
      BY <1>2, <2>1, <2>2 DEF PairInv, TypeOK, disk, bounds, Sites, CleanSites
    <2>4. RecordsInv'
      BY <1>2, <2>1, RecordsFrom DEF PairInv, TypeOK, disk, bounds
    <2>5. FilesInv' /\ FinalsMatch'
      BY <1>2, FilesSame DEF PairInv, disk, bounds
    <2>6. Ground'
      BY <2>3, <2>4, <2>5 DEF Ground
    <2> QED  BY <1>0, <1>2, <2>6, Elsewhere
             DEF PairInv, SiteInv, CountOK, bounds, EnterSites, CleanSites
  <1> QED  BY <1>1, <1>2 DEF CleanPreflight, Goto, Persist

LEMMA CleanQuietKeeps ==
  ASSUME PairInv, Quiet, pc \in CleanSites, pc' \in CleanSites, io' \in {"idle", "write"},
         mem' \in Journal, mem'.ext = mem.ext
  PROVE  PairInv'
  <1>1. Ground'
    BY Grounded, MemIs, QuietIs DEF Sites
  <1> QED  BY <1>1, Elsewhere
           DEF PairInv, SiteInv, CountOK, Quiet, flags, bounds, EnterSites, CleanSites

LEMMA CleanMarkKeeps ==
  PairInv /\ (CleanMark \/ CleanResources \/ CleanSettled) => PairInv'
  <1> SUFFICES ASSUME PairInv, CleanMark \/ CleanResources \/ CleanSettled
               PROVE  PairInv'
    OBVIOUS
  <1>1. mem \in Journal
    BY Grounded, MemIs
  <1>2. CASE CleanMark
    <2>1. mem' \in Journal /\ mem'.ext = mem.ext
      BY <1>1, <1>2 DEF CleanMark, Journal
    <2> QED  BY <1>2, <2>1, CleanQuietKeeps DEF CleanMark, At, Goto, Persist, CleanSites
  <1>3. CASE CleanResources
    <2>1. mem' \in Journal /\ mem'.ext = mem.ext
      BY <1>1, <1>3 DEF CleanResources, Journal
    <2> QED  BY <1>3, <2>1, CleanQuietKeeps DEF CleanResources, At, Goto, Persist, CleanSites
  <1>4. CASE CleanSettled
    BY <1>1, <1>4, CleanQuietKeeps DEF CleanSettled, At, Goto, CleanSites
  <1> QED  BY <1>2, <1>3, <1>4

LEMMA CleanPreservedKeeps == PairInv /\ CleanPreserved => PairInv'
  <1> SUFFICES ASSUME PairInv, CleanPreserved
               PROVE  PairInv'
    OBVIOUS
  <1>0. pc = "clean.ext"
    BY DEF CleanPreserved, At
  <1>1. CASE /\ mem.ext.evidence.stage = "writing"
             /\ DropPartialEvidence("clean.final") /\ UNCHANGED flags
    <2>1. Ground'
      <3>1. TypeOK'
        BY <1>1, DropPartialIs
           DEF PairInv, TypeOK, DropPartialEvidence, Persist, flags, bounds, Sites, CleanSites
      <3> QED  BY <1>1, <3>1, DropPartialIs DEF Ground
    <2> QED  BY <1>0, <1>1, <2>1, Elsewhere
             DEF DropPartialEvidence, Persist, flags, bounds, EnterSites, CleanSites
  <1>2. CASE Goto("clean.final") /\ UNCHANGED mem /\ Quiet
    <2>1. mem \in Journal
      BY Grounded, MemIs
    <2> QED  BY <1>0, <1>2, <2>1, CleanQuietKeeps DEF Goto, CleanSites
  <1> QED  BY <1>1, <1>2 DEF CleanPreserved

LEMMA RemovedIs ==
  ASSUME NEW e, ExtOK(e), e.phase = "building", NEW n \in Nat, Numbered(e, n)
  PROVE  LET d == Removed(e)
             g == [Removed(e) EXCEPT !.phase = "discarded"]
         IN  /\ ExtOK(d) /\ Numbered(d, n) /\ ExtOK(g) /\ Numbered(g, n)
             /\ d.phase = "building" /\ g.phase = "discarded"
             /\ d.primary = [stage |-> "removed", id |-> e.primary.id, prior |-> e.primary.prior]
             /\ d.evidence = [stage |-> "removed", id |-> e.evidence.id, prior |-> e.evidence.prior]
             /\ g.primary = d.primary /\ g.evidence = d.evidence
             /\ d.index = e.index /\ d.pend = e.pend /\ g.index = e.index /\ g.pend = e.pend
  <1> DEFINE d == Removed(e)
             g == [d EXCEPT !.phase = "discarded"]
             p == [stage |-> "removed", id |-> e.primary.id, prior |-> e.primary.prior]
             v == [stage |-> "removed", id |-> e.evidence.id, prior |-> e.evidence.prior]
             Re(q) == [phase |-> q, index |-> e.index, pend |-> e.pend, digest |-> e.digest,
                       primary |-> p, evidence |-> v]
  <1>1. e \in ExtRecord
    BY DEF ExtOK
  <1>2. [e.primary EXCEPT !.stage = "removed"] = p /\ [e.evidence EXCEPT !.stage = "removed"] = v
    BY <1>1 DEF ExtRecord, Slot
  <1>3. d = [[e EXCEPT !.evidence = v] EXCEPT !.primary = p]
    <2>1. [e EXCEPT !.evidence.stage = "removed"] = [e EXCEPT !.evidence = v]
      BY <1>2, Zenon
    <2>2. [e EXCEPT !.evidence = v].primary = e.primary
      BY <1>1 DEF ExtRecord
    <2> HIDE DEF p, v
    <2>3. [[e EXCEPT !.evidence = v] EXCEPT !.primary.stage = "removed"]
            = [[e EXCEPT !.evidence = v] EXCEPT !.primary = p]
      BY <1>2, <2>2, Zenon
    <2> QED  BY <2>1, <2>3, Zenon DEF Removed
  <1>4. [[e EXCEPT !.evidence = v] EXCEPT !.primary = p] = Re("building")
    <2> HIDE DEF p, v
    <2> DEFINE a == [phase |-> e.phase, index |-> e.index, pend |-> e.pend, digest |-> e.digest,
                     primary |-> e.primary, evidence |-> v]
    <2>1. [e EXCEPT !.evidence = v] = a
      BY <1>1 DEF ExtRecord
    <2>2. [a EXCEPT !.primary = p] = Re(e.phase)
      OBVIOUS
    <2> HIDE DEF a, Re
    <2> QED  BY <2>1, <2>2, Zenon
  <1>5. d = Re("building") /\ g = Re("discarded")
    <2>1. d = Re("building")
      BY <1>3, <1>4
    <2>2. [Re("building") EXCEPT !.phase = "discarded"] = Re("discarded")
      OBVIOUS
    <2> HIDE DEF Re, d
    <2> QED  BY <2>1, <2>2, Zenon
  <1>6. ASSUME NEW q \in {"building", "discarded"}
        PROVE  ExtOK(Re(q)) /\ Numbered(Re(q), n)
    <2>1. Re(q) \in ExtRecord
      BY <1>1, RecordIs DEF ExtRecord, Slot, PrimaryStages, EvidenceStages, ExtPhases
    <2>2. e.index = 0 /\ e.pend = FALSE /\ e.digest = 0
      BY <1>1, RecordIs DEF ExtOK, ValidExt
    <2>3. ValidExt(Re(q))
      BY <1>6, <2>2 DEF ValidExt
    <2>4. PriorOK(Re(q)) /\ Made(Re(q)) /\ Numbered(Re(q), n)
      BY DEF ExtOK, PriorOK, Made, Numbered
    <2> QED  BY <2>1, <2>3, <2>4 DEF ExtOK
  <1>7. /\ ExtOK(Re("building")) /\ Numbered(Re("building"), n)
        /\ ExtOK(Re("discarded")) /\ Numbered(Re("discarded"), n)
    BY <1>6
  <1>8. \A q : /\ Re(q).phase = q /\ Re(q).primary = p /\ Re(q).evidence = v
               /\ Re(q).index = e.index /\ Re(q).pend = e.pend
    OBVIOUS
  <1> HIDE DEF Re, d
  <1>9. /\ ExtOK(d) /\ Numbered(d, n) /\ ExtOK(g) /\ Numbered(g, n)
        /\ d.phase = "building" /\ g.phase = "discarded"
        /\ d.primary = p /\ d.evidence = v /\ g.primary = p /\ g.evidence = v
        /\ d.index = e.index /\ d.pend = e.pend /\ g.index = e.index /\ g.pend = e.pend
    <2> HIDE DEF g, p, v
    <2> QED  BY <1>5, <1>7, <1>8
  <1> QED  BY <1>9, Zenon DEF d

LEMMA DiscardPrimaryKeeps == PairInv /\ DiscardPrimary => PairInv'
  <1> SUFFICES ASSUME PairInv, DiscardPrimary
               PROVE  PairInv'
    OBVIOUS
  <1> DEFINE e == mem.ext
  <1>0. /\ pc = "clean.ext" /\ pc' = "clean.ext" /\ io' = "write" /\ e.phase = "building"
        /\ files' = [files EXCEPT !["primary"]["candidate"] = NoFile] /\ PutExt(Removed(e))
        /\ UNCHANGED <<journal, pending, persisted, flags, bounds>>
    BY DEF DiscardPrimary, Discarding, At, Persist
  <1>1. /\ mem \in Journal /\ ExtOK(e) /\ Numbered(e, builds + 1) /\ builds + 1 \in Nat
        /\ builds \in Nat /\ TypeOK /\ FilesInv /\ FinalsMatch
    BY Grounded, MemIs DEF PairInv
  <1>2. mem' \in Journal /\ mem'.ext = Removed(e) /\ ExtOK(mem'.ext) /\ Numbered(mem'.ext, builds + 1)
    <2> HIDE DEF e
    <2>1. ExtOK(Removed(e)) /\ Numbered(Removed(e), builds + 1)
      BY <1>0, <1>1, RemovedIs
    <2>2. Removed(e) \in ExtRecord
      BY <2>1 DEF ExtOK
    <2> QED  BY <1>0, <1>1, <2>1, <2>2, PutIs
  <1>3. files' \in [Roles -> [Places -> File]] /\ FilesInv' /\ FinalsMatch'
    <2>1. NoFile \in File /\ NoFile.node = 0 /\ "primary" \in Roles
      BY FilesAre DEF NoFile, Roles
    <2>2. files' \in [Roles -> [Places -> File]]
      BY <1>0, <1>1, <2>1, CandidateIs, Zenon
    <2>3. NoFile.node <= builds' + 1 /\ builds' \in Nat /\ builds <= builds'
      BY <1>0, <1>1, <2>1 DEF bounds
    <2>4. FilesInv' /\ FinalsMatch'
      BY <1>0, <1>1, <2>1, <2>3, CandidateKeeps, Zenon
    <2> QED  BY <2>2, <2>4
  <1>4. Ground'
    <2>1. TypeOK'
      BY <1>0, <1>2, <1>3 DEF PairInv, TypeOK, flags, bounds, Sites, CleanSites
    <2>2. RecordsInv'
      BY <1>0, <1>1, <1>2, RecordsFrom DEF PairInv, TypeOK, bounds
    <2> QED  BY <1>3, <2>1, <2>2 DEF Ground
  <1> QED  BY <1>0, <1>4, Elsewhere
           DEF PairInv, SiteInv, CountOK, flags, bounds, EnterSites, CleanSites

LEMMA DiscardKeeps == PairInv /\ Discard => PairInv'
  <1> SUFFICES ASSUME PairInv, Discard
               PROVE  PairInv'
    OBVIOUS
  <1> DEFINE e == mem.ext
             g == [Removed(e) EXCEPT !.phase = "discarded"]
  <1>0. /\ pc = "clean.ext" /\ pc' = "clean.final" /\ io' = "write" /\ e.phase = "building"
        /\ PutExt(g) /\ Quiet
    BY DEF Discard, Discarding, At, Persist
  <1>1. ExtOK(e) /\ Numbered(e, builds + 1) /\ builds + 1 \in Nat
    BY Grounded, MemIs
  <1>2. ExtOK(g) /\ Numbered(g, builds + 1)
    <2> HIDE DEF e
    <2> QED  BY <1>0, <1>1, RemovedIs
  <1>3. Ground'
    <2>1. pc' \in Sites /\ io' \in {"idle", "write", "replace"}
      BY <1>0 DEF Sites, CleanSites
    <2> HIDE DEF g
    <2> QED  BY <1>0, <1>2, <2>1, Grounded, QuietPut
  <1> QED  BY <1>0, <1>3, Elsewhere
           DEF PairInv, SiteInv, CountOK, Quiet, flags, bounds, EnterSites, CleanSites

\* The end of a session, whatever becomes of the journal.
LEMMA ExitKeeps ==
  ASSUME PairInv, pc # "idle", Exit, UNCHANGED <<files, pending, bounds>>,
         journal' \in {journal, NoJournal}
  PROVE  PairInv'
  <1>1. TypeOK'
    BY NothingIs DEF PairInv, TypeOK, Exit, bounds, Sites
  <1>2. RecordsInv'
    BY RecordsFrom DEF PairInv, TypeOK, Exit, bounds
  <1>3. FilesInv' /\ FinalsMatch'
    BY FilesSame DEF PairInv, bounds
  <1>4. BuildOK' /\ PublishOK'
    BY Outside DEF Exit, BuildSites, PublishSites
  <1>5. CountOK'
    BY DEF CountOK, Exit, EnterSites
  <1> QED  BY <1>1, <1>2, <1>3, <1>4, <1>5 DEF PairInv, SiteInv

LEMMA CleanFinalKeeps == PairInv /\ CleanFinal => PairInv'
  <1> SUFFICES ASSUME PairInv, CleanFinal
               PROVE  PairInv'
    OBVIOUS
  <1>0. pc = "clean.final"
    BY DEF CleanFinal, At
  <1>1. CASE Exit /\ UNCHANGED <<disk, bounds>>
    BY <1>0, <1>1, ExitKeeps DEF disk
  <1>2. CASE mem' = [mem EXCEPT !.phase = "complete"] /\ Persist("clean.remove") /\ Quiet
    <2>1. mem' \in Journal /\ mem'.ext = mem.ext
      BY <1>2, Grounded, MemIs DEF Journal
    <2> QED  BY <1>0, <1>2, <2>1, CleanQuietKeeps DEF Persist, CleanSites
  <1> QED  BY <1>1, <1>2 DEF CleanFinal

LEMMA RemoveJournalKeeps == PairInv /\ RemoveJournal => PairInv'
  <1> SUFFICES ASSUME PairInv, RemoveJournal
               PROVE  PairInv'
    OBVIOUS
  <1>0. /\ pc = "clean.remove" /\ journal' = NoJournal /\ UNCHANGED <<files, pending, bounds>>
    BY DEF RemoveJournal, At
  <1>1. CASE Exit
    BY <1>0, <1>1, ExitKeeps
  <1>2. CASE /\ after = "fresh" /\ mem' = Fresh /\ persisted' = NoJournal /\ Persist("body")
             /\ after' = "end" /\ preserve' = FALSE /\ acked' = FALSE
             /\ UNCHANGED <<kind, failed>>
    <2>1. TypeOK'
      BY <1>0, <1>2, NothingIs DEF PairInv, TypeOK, Persist, bounds, Sites, EnterSites
    <2>2. RecordsInv'
      BY <1>0, <1>2, RecordsFrom DEF PairInv, TypeOK, bounds
    <2>3. FilesInv' /\ FinalsMatch'
      BY <1>0, FilesSame DEF PairInv, bounds
    <2>4. BuildOK' /\ PublishOK'
      BY <1>2, Outside DEF Persist, BuildSites, PublishSites
    <2>5. CountOK'
      BY <1>0, <1>2 DEF CountOK, PairInv, SiteInv, Persist, bounds, CleanSites
    <2> QED  BY <2>1, <2>2, <2>3, <2>4, <2>5 DEF PairInv, SiteInv
  <1>3. after \in {"end", "fresh"}
    BY DEF PairInv, TypeOK
  <1> QED  BY <1>1, <1>2, <1>3 DEF RemoveJournal
--------------------------------------------------------------------------------
(* The invariant of level 1 *)

LEMMA PairInitially == Init => PairInv
  <1> SUFFICES ASSUME Init
               PROVE  PairInv
    OBVIOUS
  <1>1. /\ files \in [Roles -> [Places -> File]] /\ FilesInv /\ FinalsMatch
    <2>0. 1 \in Nodes
      BY DEF Nodes
    <2>1. Image(1) \in File /\ Sums(1) \in File /\ NoFile \in File
      BY <2>0, FilesAre
    <2>2. Image(1).node = 1 /\ Sums(1).node = 1 /\ NoFile.node = 0 /\ builds = 0
      BY DEF Image, Sums, NoFile, Init
    <2>3. PICK pair \in BOOLEAN :
            files = [r \in Roles |-> [s \in Places |->
                       IF pair /\ s = "final"
                         THEN IF r = "primary" THEN Image(1) ELSE Sums(1) ELSE NoFile]]
      BY DEF Init
    <2>4. files \in [Roles -> [Places -> File]]
      BY <2>1, <2>3
    <2>5. FilesInv
      BY <2>2, <2>3 DEF FilesInv
    <2>6. FinalsMatch
      BY <2>0, <2>3 DEF FinalsMatch, Roles, Places
    <2> QED  BY <2>4, <2>5, <2>6
  <1>2. TypeOK
    <2>1. /\ journal = NoJournal /\ pending = NoJournal /\ mem = NoJournal /\ persisted = NoJournal
          /\ pc = "idle" /\ io = "idle" /\ kind = "none" /\ after = "end"
          /\ preserve = FALSE /\ acked = FALSE /\ failed = FALSE
          /\ builds = 0 /\ crashes = 0 /\ faults = 0
      BY DEF Init
    <2>2. 0 \in 0..MaxBuilds /\ 0 \in 0..MaxCrashes /\ 0 \in 0..MaxFaults
      OBVIOUS
    <2> QED  BY <1>1, <2>1, <2>2, NothingIs DEF TypeOK, Sites
  <1>3. RecordsInv
    BY NothingIs DEF Init, RecordsInv
  <1>4. SiteInv
    BY DEF Init, SiteInv, BuildOK, PublishOK, CountOK, Started, Created, Named, Writing, Acting,
           BuildSites, EnterSites
  <1> QED  BY <1>1, <1>2, <1>3, <1>4 DEF PairInv

LEMMA PairInductive == PairInv /\ [Next]_vars => PairInv'
  <1> SUFFICES ASSUME PairInv, [Next]_vars
               PROVE  PairInv'
    OBVIOUS
  <1>1. ASSUME NEW k \in Kinds, Start(k)
        PROVE  PairInv'
    BY <1>1, StartKeeps
  <1>2. CASE EnterReconcile \/ EnterLoad \/ EnterRefused \/ EnterExternal \/ Body
    BY <1>2, EnterReconcileKeeps, EnterLoadKeeps, EnterRefusedKeeps, EnterExternalKeeps, BodyKeeps
  <1>3. CASE Build
    BY <1>3, BuildBeginKeeps, BuildCreateKeeps, BuildRecordKeeps, StagesKeep, WritesKeep,
       RecordSealKeeps DEF Build
  <1>4. CASE Publish
    <2>1. CASE PublishEnd
      BY <2>1, AcknowledgeKeeps DEF PublishEnd, At
    <2> QED  BY <1>4, <2>1, RecordDigestKeeps, CreateEvidenceKeeps, RecordEvidenceKeeps,
             WriteSomeKeeps, WriteRestKeeps, ViewsKeep, PublishPhaseKeeps, PublishNextKeeps,
             PublishActKeeps, PublishBumpKeeps DEF Publish
  <1>5. CASE FinishView \/ FinishRoute \/ Acquire \/ OtherWork
    BY <1>5, ViewsKeep, FinishRouteKeeps, OthersKeep
  <1>6. CASE Cleanup
    BY <1>6, CleanPreflightKeeps, CleanMarkKeeps, CleanPreservedKeeps, DiscardPrimaryKeeps,
       DiscardKeeps, CleanFinalKeeps, RemoveJournalKeeps DEF Cleanup
  <1>7. CASE WritePending \/ ReplaceJournal \/ Fault \/ Crash
    BY <1>7, WritePendingKeeps, ReplaceJournalKeeps, FaultKeeps, CrashKeeps
  <1>8. CASE UNCHANGED vars
    BY <1>8 DEF vars, disk, session, flags, bounds, PairInv, TypeOK, RecordsInv, FilesInv,
                SiteInv, BuildOK, PublishOK, CountOK, Candidate, FinalsMatch
  <1> QED  BY <1>1, <1>2, <1>3, <1>4, <1>5, <1>6, <1>7, <1>8 DEF Next, Step

LEMMA PairAlways == Spec => []PairInv
  BY PairInitially, PairInductive, PTL DEF Spec

\* Every variable keeps its type, for every value of the constants.
THEOREM PairTypeCorrect == Spec => []TypeOK
  <1>1. PairInv => TypeOK
    BY DEF PairInv
  <1> QED  BY <1>1, PairAlways, PTL

\* A reader of the final paths never finds a mixed or an unfinished pair,
\* whatever publication, cleanup or recovery was interrupted, and how often.
THEOREM ReadersFindAPair == Spec => []FinalsMatch
  <1>1. PairInv => FinalsMatch
    BY DEF PairInv
  <1> QED  BY <1>1, PairAlways, PTL
--------------------------------------------------------------------------------
(* The previous pair *)

Put(r, f) == files' = [files EXCEPT ![r]["candidate"] = f]

LEMMA PutStays ==
  ASSUME TypeOK, NEW r \in Roles, NEW f, Put(r, f)
  PROVE  \A q \in Roles, s \in {"final", "backup"} : files'[q][s] = files[q][s]
  BY DEF TypeOK, Put, Places

\* All steps but a rename of the publication leave final and backup paths alone.
LEMMA FilesStay ==
  ASSUME PairInv, [Next]_vars, ~PublishAct
  PROVE  \A q \in Roles, s \in {"final", "backup"} : files'[q][s] = files[q][s]
  <1> USE PutStays
  <1>0. TypeOK /\ "primary" \in Roles /\ "evidence" \in Roles
    BY DEF PairInv, Roles
  <1>1. \/ files' = files \/ BuildCreate \/ CreateEvidence \/ WriteSome \/ WriteRest
        \/ GenerateSome \/ GenerateRest \/ MutateSome \/ MutateRest \/ Seal
        \/ DropPartialEvidence("body") \/ DropPartialEvidence("clean.final") \/ DiscardPrimary
    <2> USE DEF disk, bounds, Quiet
    <2>1. ASSUME NEW k \in Kinds, Start(k)
          PROVE  files' = files
      BY <2>1 DEF Start
    <2>2. CASE EnterReconcile \/ EnterLoad \/ EnterRefused \/ Body
      BY <2>2 DEF EnterReconcile, EnterLoad, EnterRefused, Body, Raise
    <2>3. CASE EnterExternal
      BY <2>3 DEF EnterExternal, Raise
    <2>4. CASE Build
      <3>1. BuildBegin \/ BuildRecord \/ RecordSeal => files' = files
        BY DEF BuildBegin, BuildRecord, RecordSeal, Raise
      <3>2. BeginWrite \/ FinishWrite \/ BeginMutation \/ FinishMutation \/ PlanSeal => files' = files
        BY DEF BeginWrite, FinishWrite, BeginMutation, FinishMutation, PlanSeal, Stage
      <3> QED  BY <2>4, <3>1, <3>2 DEF Build
    <2>5. CASE Publish
      <3>1. RecordDigest \/ RecordEvidence \/ EvidenceReady \/ PublishStart => files' = files
        BY DEF RecordDigest, RecordEvidence, EvidenceReady, PublishStart, View
      <3>2. PublishPhase \/ PublishNext \/ PublishEnd \/ PublishBump => files' = files
        BY DEF PublishPhase, PublishNext, PublishEnd, PublishBump, Acknowledge
      <3> QED  BY <2>5, <3>1, <3>2 DEF Publish
    <2>6. CASE FinishView \/ FinishRoute \/ Acquire \/ OtherWork
      BY <2>6 DEF FinishView, View, FinishRoute, Acknowledge, Acquire, OtherWork
    <2>7. CASE Cleanup
      <3>1. CleanPreflight \/ CleanMark \/ CleanResources \/ CleanSettled => files' = files
        BY DEF CleanPreflight, CleanMark, CleanResources, CleanSettled, Raise
      <3>2. Discard \/ CleanFinal \/ RemoveJournal => files' = files
        BY DEF Discard, CleanFinal, RemoveJournal
      <3>3. CleanPreserved => files' = files \/ DropPartialEvidence("clean.final")
        BY DEF CleanPreserved
      <3> QED  BY <2>7, <3>1, <3>2, <3>3 DEF Cleanup
    <2>8. CASE WritePending \/ ReplaceJournal \/ Fault \/ Crash
      BY <2>8 DEF WritePending, ReplaceJournal, Fault, Crash, Raise
    <2>9. CASE UNCHANGED vars
      BY <2>9 DEF vars
    <2> QED  BY <2>1, <2>2, <2>3, <2>4, <2>5, <2>6, <2>7, <2>8, <2>9 DEF Next, Step
  <1>2. CASE BuildCreate
    <2>1. Put("primary", Empty(builds + 2))
      BY <1>2 DEF BuildCreate, Put
    <2> QED  BY <1>0, <2>1
  <1>3. CASE CreateEvidence \/ WriteSome \/ WriteRest
    <2>1. \E f : Put("evidence", f)
      BY <1>3 DEF CreateEvidence, WriteSome, WriteRest, WriteEvidence, Put
    <2> QED  BY <1>0, <2>1
  <1>4. CASE GenerateSome \/ GenerateRest \/ MutateSome \/ MutateRest \/ Seal
    <2>1. \E site, data, mode, next : Write(site, data, mode, next)
      BY <1>4 DEF GenerateSome, GenerateRest, MutateSome, MutateRest, Seal
    <2>2. \E f : Put("primary", f)
      BY <2>1, WriteIs DEF Put
    <2> QED  BY <1>0, <2>2
  <1>5. CASE DropPartialEvidence("body") \/ DropPartialEvidence("clean.final")
    <2>1. Put("evidence", NoFile)
      BY <1>5 DEF DropPartialEvidence, Put
    <2> QED  BY <1>0, <2>1
  <1>6. CASE DiscardPrimary
    <2>1. Put("primary", NoFile)
      BY <1>6 DEF DiscardPrimary, Put
    <2> QED  BY <1>0, <2>1
  <1>7. CASE files' = files
    BY <1>7
  <1> QED  BY <1>1, <1>2, <1>3, <1>4, <1>5, <1>6, <1>7

\* The pair a step gives up, if any, is older than the one in its place.
LEMMA PairSurvivesStep ==
  ASSUME PairInv, [Next]_vars, NEW n \in Stored, n \notin Stored'
  PROVE  \E m \in Stored' : m > n /\ files'["primary"]["final"] = Image(m)
                                  /\ files'["evidence"]["final"] = Sums(m)
  <1>1. n \in Nodes /\ n \in Nat
    BY DEF Stored, Nodes
  <1>2. PublishAct
    <2> SUFFICES ASSUME ~PublishAct
                 PROVE  FALSE
      OBVIOUS
    <2>1. \A q \in Roles, s \in {"final", "backup"} : files'[q][s] = files[q][s]
      BY FilesStay
    <2> QED  BY <2>1 DEF Stored, Roles
  <1> DEFINE e == mem.ext
             i == e.index
             m == e.digest
  <1>3. /\ e \in ExtRecord /\ ExtOK(e) /\ e.phase \in Publishing /\ i \in 0..6
        /\ LayoutIn(files, e, i) /\ LayoutIn(files', e, i + 1)
    BY <1>2, PublishActIs
  <1>4. /\ m \in Nodes /\ e.primary.id = Image(m) /\ e.evidence.id = Sums(m)
        /\ e.primary.prior.node < m
    BY <1>3, PublishingIs
  <1> HIDE DEF e, i, m
  <1>5. e.primary.prior.node < m /\ m \in Nat
    BY <1>4 DEF Nodes
  <1>6. PICK s, t \in {"final", "backup"} :
          files["primary"][s] = Image(n) /\ files["evidence"][t] = Sums(n)
    BY DEF Stored
  <1>7. Image(n) # NoFile /\ Sums(n) # NoFile /\ Image(n).node = n
    BY <1>1 DEF Image, Sums, NoFile
  <1>8. CASE i <= 4
    \* Both files of n are prior files or new files, which stay until the drops.
    <2>1. /\ files["primary"][s] = files'["primary"]["final"] \/ files["primary"][s] = files'["primary"]["backup"]
      BY <1>3, <1>6, <1>7, <1>8 DEF LayoutIn
    <2>2. \/ files["evidence"][t] = files'["evidence"]["final"]
          \/ files["evidence"][t] = files'["evidence"]["backup"]
      BY <1>3, <1>6, <1>7, <1>8 DEF LayoutIn
    <2>3. n \in Stored'
      BY <1>1, <1>6, <2>1, <2>2 DEF Stored
    <2> QED  BY <2>3
  <1>9. CASE i \in {5, 6}
    <2>1. files'["primary"]["final"] = Image(m) /\ files'["evidence"]["final"] = Sums(m)
      BY <1>3, <1>4, <1>9 DEF LayoutIn
    <2>2. m \in Stored'
      BY <1>4, <2>1 DEF Stored
    <2>3. n # m
      BY <2>2
    <2>4. files["primary"][s] \in {Image(m), e.primary.prior, NoFile}
      BY <1>3, <1>4, <1>6, <1>9 DEF LayoutIn
    <2>5. Image(n) # Image(m)
      BY <2>3 DEF Image
    <2>6. e.primary.prior = Image(n)
      BY <1>6, <1>7, <2>4, <2>5
    <2> QED  BY <1>1, <1>5, <1>7, <2>1, <2>2, <2>6
  <1> QED  BY <1>3, <1>8, <1>9

\* The previous pair is given up only when a newer one is at the final paths.
THEOREM PreviousPairIsKept == Spec => PairSurvives
  <1>1. PairInv /\ [Next]_vars =>
          [\A n \in Stored : n \notin Stored' =>
             \E m \in Stored' : m > n /\ files'["primary"]["final"] = Image(m)
                                      /\ files'["evidence"]["final"] = Sums(m)]_vars
    BY PairSurvivesStep
  <1> QED  BY <1>1, PairAlways, PTL DEF Spec, PairSurvives

--------------------------------------------------------------------------------
(***************************************************************************)
(* Level 2: what the journals say of the disk, whoever reads them next.    *)
(***************************************************************************)

CommittedPhases == {"ready", "publishing", "published", "complete"}
Advanced(e) == e.phase \in CommittedPhases

\* The preflight of a record as a relation between six files and the record.
Untouched(f, e) ==
  /\ f["primary"]["final"] = e.primary.prior /\ f["primary"]["backup"] = NoFile
  /\ f["evidence"]["final"] = e.evidence.prior /\ f["evidence"]["backup"] = NoFile
PrimaryIn(c, p) ==
  /\ p.stage \in {"planned", "removed"} => c = NoFile
  /\ p.stage \in {"building", "mutating"} => SameNode(c, p.id)
  /\ p.stage = "seal-planned" => c = p.id \/ c = [p.id EXCEPT !.mode = "sealed"]
  /\ p.stage \in {"created", "generated", "hybrid", "sealed"} => c = p.id
EvidenceIn(c, v) ==
  /\ v.stage \in {"planned", "removed"} => c = NoFile
  /\ v.stage = "writing" => SameNode(c, v.id)
  /\ v.stage = "ready" => c = v.id
AcceptedIn(f, e) ==
  /\ e.phase \in {"publishing", "published"} =>
       LayoutIn(f, e, e.index) \/ (e.pend /\ LayoutIn(f, e, e.index + 1))
  /\ e.phase = "complete" => LayoutIn(f, e, 7)
  /\ e.phase \in {"building", "sealed", "ready", "discarded"} => Untouched(f, e)
  /\ e.phase = "discarded" => f["primary"]["candidate"] = NoFile /\ f["evidence"]["candidate"] = NoFile
  /\ e.phase \in {"building", "sealed", "ready"} =>
       /\ PrimaryIn(f["primary"]["candidate"], e.primary)
       /\ EvidenceIn(f["evidence"]["candidate"], e.evidence)

BodySites == BuildSites \cup PublishSites \cup
             {"enter.external", "body", "finish.view", "finish.route",
              "other.acquire", "other.work"}
Loaded  == BodySites \cup CleanSites
Unnamed == {"build.record", "publish.record"}
Settled == {"clean.res", "clean.ext", "clean.final", "clean.remove"}

\* Which journals are whole, and when a write is under way.
Written(j) == j.phase \in {"active", "cleaning", "complete"}
JournalsOK ==
  /\ Written(journal) \/ journal = NoJournal
  /\ Written(pending) \/ pending \in {NoJournal, Torn}
  /\ pc \in Loaded => Written(mem)
  /\ pc \notin Loaded \/ pc \in Unnamed \cup {"clean.preflight"} => io = "idle"
  /\ pc = "enter.load" => pending = NoJournal
  /\ io = "replace" => pending = mem

\* In the body, and in a cleanup before any failure, the session has written
\* all it did before, and nothing else.
InStep == /\ persisted = journal
          /\ io = "idle" => mem = journal
          /\ io # "replace" => pending = NoJournal
SyncOK == pc \in BodySites \/ (pc \in CleanSites /\ faults = 0) => InStep

\* What is written over a committed journal is a transition the next session accepts.
Followed(new) == Advanced(new.ext) /\ PendingOK(journal, new)
FollowOK ==
  faults = 0 /\ Committed(journal) =>
    /\ Written(pending) => Followed(pending)
    /\ io = "write" => Followed(mem)

\* The files are as a committed journal says, and as the session believes.
Describes(e) == Advanced(e) => AcceptedIn(files, e)
DiskOK ==
  /\ Describes(journal.ext) /\ Describes(pending.ext)
  /\ pc \in Loaded \ (Unnamed \cup {"clean.preflight"}) => AcceptedIn(files, mem.ext)
  /\ pc \in Unnamed => Untouched(files, mem.ext)
  /\ pc = "build.record" => Candidate("evidence") = NoFile
  /\ pc = "publish.record" => Candidate("primary") = mem.ext.primary.id

\* No journal is ahead of the session.
AheadOK == pc \in Loaded /\ (Advanced(journal.ext) \/ Advanced(pending.ext)) => Advanced(mem.ext)

\* Where no record names a publication there is no candidate and no backup.
EmptyOK ==
  /\ journal.ext = NoExt => NoForeign
  /\ Written(pending) /\ pending.ext = NoExt => NoForeign
  /\ pc \in Loaded /\ mem.ext = NoExt => NoForeign
  /\ pc = "clean.final" /\ ~failed /\ ~preserve => NoForeign
  /\ pc = "clean.remove" => NoForeign
  /\ pc \in Settled /\ ~preserve => mem.phase \in {"cleaning", "complete"}

HandInv == JournalsOK /\ SyncOK /\ FollowOK /\ DiskOK /\ AheadOK /\ EmptyOK

--------------------------------------------------------------------------------
(* The preflight as a relation between the record and the files *)

LEMMA AcceptedIs ==
  ASSUME TypeOK, NEW e, ExtOK(e)
  PROVE  PreflightOK(e) <=> AcceptedIn(files, e)
  <1>1. /\ e \in ExtRecord /\ e.phase \in ExtPhases \cup {"none"}
        /\ e.primary.stage \in PrimaryStages /\ e.evidence.stage \in EvidenceStages
        /\ e.index \in 0..7 /\ e.pend \in BOOLEAN
    BY RecordIs DEF ExtOK, NumActions
  <1>2. CASE e.phase \in {"publishing", "published"}
    <2> DEFINE i == e.index
               L == LayoutIn(files, e, i)
               M == LayoutIn(files, e, i + 1)
    <2>1. i \in 0..6 /\ i \in Nat /\ i + 1 \in Nat
      BY <1>1, <1>2, IndexIs DEF Publishing, NumActions
    <2>2. (Layout(e, i) <=> L) /\ (Layout(e, i + 1) <=> M)
      BY <2>1, LayoutIs
    <2>3. e.primary.id # NoFile /\ e.evidence.id # NoFile
      BY <1>2 DEF ExtOK, ValidExt
    <2>4. L /\ M /\ i # 4 => NoOp(e)
      BY <2>1, <2>3, ActionsAre DEF NoOp, LayoutIn, Roles
    <2>5. i = 4 => (L <=> M)
      BY DEF LayoutIn
    <2>6. ReconcileOK(e) <=> L \/ (e.pend /\ M)
      <3> HIDE DEF L, M
      <3> QED  BY <1>1, <2>2, <2>4, <2>5 DEF ReconcileOK, ActionDone, ActionUndone
    <2> QED  BY <1>2, <2>6 DEF PreflightOK, AcceptedIn
  <1>3. CASE e.phase \in {"complete", "none"}
    BY <1>3, LayoutIs DEF PreflightOK, AcceptedIn, NumActions
  <1>4. CASE e.phase \in {"building", "sealed", "ready", "discarded"}
    <2>1. LayoutButCandidates(e) <=> Untouched(files, e)
      <3>1. LayoutButCandidates(e) <=>
              /\ files["primary"]["final"] = Expected(e, 0)["primary"]["final"]
              /\ files["primary"]["backup"] = Expected(e, 0)["primary"]["backup"]
              /\ files["evidence"]["final"] = Expected(e, 0)["evidence"]["final"]
              /\ files["evidence"]["backup"] = Expected(e, 0)["evidence"]["backup"]
        BY DEF LayoutButCandidates, Roles, Places
      <3> QED  BY <3>1, ExpectedIs DEF Untouched
    <2>2. PrimaryOK(e.primary) <=> PrimaryIn(Candidate("primary"), e.primary)
      BY <1>1 DEF PrimaryOK, PrimaryIn, SealDone, PrimaryStages
    <2>3. EvidenceOK(e.evidence) <=> EvidenceIn(Candidate("evidence"), e.evidence)
      BY <1>1 DEF EvidenceOK, EvidenceIn, EvidenceStages
    <2>4. e.phase # "discarded" => e.index = 0 /\ ~e.pend
      BY <1>4 DEF ExtOK, ValidExt
    <2>5. /\ Candidate("primary") = files["primary"]["candidate"]
          /\ Candidate("evidence") = files["evidence"]["candidate"]
      BY DEF Candidate
    <2> QED  BY <1>4, <2>1, <2>2, <2>3, <2>4, <2>5 DEF PreflightOK, AcceptedIn, Roles
  <1> QED  BY <1>1, <1>2, <1>3, <1>4 DEF ExtPhases

\* What a preflight makes of a record: as good a description, and never less far.
LEMMA PreflightedAccepts ==
  ASSUME TypeOK, NEW e, ExtOK(e), PreflightOK(e)
  PROVE  LET d == Preflighted(e)
         IN  /\ AcceptedIn(files, d)
             /\ d = NoExt => e = NoExt
             /\ Advanced(e) => Advanced(d) /\ ExtTransition(e, d)
  <1> DEFINE d == Preflighted(e)
  <1>0. e \in ExtRecord
    BY DEF ExtOK
  <1>1. CASE e.phase \in {"publishing", "published"} /\ e.pend
    <2> DEFINE i == IF ActionDone(e) THEN e.index + 1 ELSE e.index
    <2>1. /\ e.index \in 0..6 /\ i \in 0..7 /\ e.phase = PhaseOf(e.index)
          /\ e.phase \in Publishing
      BY <1>1, IndexIs DEF Publishing, NumActions
    <2>2. LayoutIn(files, e, i)
      <3>1. ActionDone(e) => Layout(e, e.index + 1)
        BY DEF ActionDone
      <3>2. ~ActionDone(e) => Layout(e, e.index)
        BY <1>1 DEF PreflightOK, ReconcileOK, ActionUndone
      <3> QED  BY <2>1, <3>1, <3>2, LayoutIs
    <2>3. d = [e EXCEPT !.index = i, !.pend = FALSE, !.phase = PhaseOf(i)]
      BY <1>1 DEF Preflighted, Reconciled
    <2>4. i = e.index \/ i = e.index + 1
      OBVIOUS
    <2> HIDE DEF i, d
    <2>5. /\ d.index = i /\ d.pend = FALSE /\ d.phase = PhaseOf(i) /\ d.phase \in Publishing
          /\ d.phase = "complete" => i = 7
          /\ d.primary = e.primary /\ d.evidence = e.evidence
      BY <1>0, <2>1, <2>3 DEF ExtRecord, PhaseOf, Publishing, NumActions
    <2>6. AcceptedIn(files, d)
      BY <2>2, <2>5 DEF AcceptedIn, LayoutIn, Publishing
    <2>7. PublicationTransition(e, d)
      <3>1. d = [e EXCEPT !.phase = d.phase, !.index = d.index, !.pend = d.pend]
        BY <1>0, <2>3, <2>5 DEF ExtRecord
      <3> QED  BY <1>1, <2>1, <2>4, <2>5, <3>1 DEF PublicationTransition
    <2>8. e # NoExt /\ d # NoExt
      BY <1>1, <2>5 DEF NoExt, NewExt, Publishing
    <2> QED  BY <2>5, <2>6, <2>7, <2>8 DEF d, ExtTransition, Advanced, CommittedPhases, Publishing
  <1>2. CASE e.phase = "building" /\ e.primary.stage = "seal-planned" /\ SealDone(e.primary)
    <2> DEFINE f == Candidate("primary")
    <2>1. d = [e EXCEPT !.primary.id = f, !.primary.stage = "sealed", !.phase = "sealed"]
      BY <1>2 DEF Preflighted
    <2>2. AcceptedIn(files, e)
      BY AcceptedIs
    <2>3. f = files["primary"]["candidate"]
      BY DEF Candidate
    <2> HIDE DEF f
    <2>4. /\ d.phase = "sealed" /\ d.evidence = e.evidence
          /\ d.primary = [e.primary EXCEPT !.id = f, !.stage = "sealed"]
      BY <1>0, <2>1 DEF ExtRecord
    <2>5. d.primary.id = f /\ d.primary.stage = "sealed" /\ d.primary.prior = e.primary.prior
      BY <1>0, <2>4, RecordIs DEF Slot
    <2> HIDE DEF d
    <2>6. AcceptedIn(files, d)
      BY <1>2, <2>2, <2>3, <2>4, <2>5 DEF AcceptedIn, Untouched, PrimaryIn
    <2>7. d # NoExt /\ ~Advanced(e)
      BY <1>2, <2>4 DEF NoExt, NewExt, Advanced, CommittedPhases
    <2> QED  BY <2>6, <2>7 DEF d
  <1>3. CASE d = e
    BY <1>3, AcceptedIs DEF ExtTransition
  <1>4. d = e \/ (e.phase \in {"publishing", "published"} /\ e.pend)
        \/ (e.phase = "building" /\ e.primary.stage = "seal-planned" /\ SealDone(e.primary))
    BY DEF Preflighted, Reconciled
  <1> QED  BY <1>1, <1>2, <1>3, <1>4

--------------------------------------------------------------------------------
(* Steps by what they change *)

LEMMA SitesAre ==
  /\ \A s \in Loaded : s # "idle" /\ s # "enter.pending" /\ s # "enter.load"
  /\ \A s \in Sites : s \in Loaded \/ s \in {"idle", "enter.pending", "enter.load"}
  /\ CleanSites \subseteq Loaded /\ BodySites \subseteq Loaded
  /\ \A s \in BodySites : s \notin CleanSites
  /\ Unnamed \subseteq BodySites /\ Settled \subseteq CleanSites
  BY DEF Loaded, BodySites, CleanSites, BuildSites, PublishSites, Sites, EnterSites, Unnamed, Settled

\* Before its next change the session has on disk what it has in memory.
LEMMA Synced ==
  ASSUME HandInv, pc \in BodySites \/ (pc \in CleanSites /\ faults = 0), io = "idle"
  PROVE  persisted = journal /\ mem = journal /\ pending = NoJournal
  BY DEF HandInv, SyncOK, InStep

LEMMA NotWritten == ~Written(NoJournal) /\ ~Written(Torn) /\ Written(Fresh)
                    /\ ~Advanced(NoExt) /\ ~Committed(NoJournal)
  BY DEF Written, NoJournal, Torn, Fresh, Advanced, CommittedPhases, NoExt, NewExt, Committed

\* A step that changes no file and at most the record.
RecordStep ==
  /\ pc \in Loaded /\ io = "idle" /\ UNCHANGED <<disk, persisted, faults>>
  /\ pc' \in Loaded \ Unnamed /\ (pc' \in BodySites => pc \in BodySites)
  /\ (io' = "idle" /\ mem' = mem) \/ (io' = "write" /\ pc' # "clean.preflight")

LEMMA RecordHands ==
  ASSUME PairInv, HandInv, RecordStep, Written(mem'),
         pc' # "clean.preflight" => AcceptedIn(files, mem'.ext),
         Advanced(mem.ext) => Advanced(mem'.ext),
         mem'.ext = NoExt => mem.ext = NoExt,
         io' = "write" /\ Committed(mem) => Advanced(mem'.ext) /\ PendingOK(mem, mem'),
         pc' = "clean.final" /\ ~failed' /\ ~preserve' => NoForeign,
         pc' = "clean.remove" => NoForeign,
         pc' \in Settled /\ ~preserve' => mem'.phase \in {"cleaning", "complete"}
  PROVE  HandInv'
  <1> USE SitesAre DEF RecordStep, disk
  <1>1. JournalsOK'
    BY DEF HandInv, JournalsOK
  <1>2. SyncOK'
    BY DEF HandInv, SyncOK, InStep, Loaded
  <1>3. FollowOK'
    <2> SUFFICES ASSUME faults = 0, Committed(journal)
                 PROVE  /\ Written(pending) => Followed(pending)
                        /\ io' = "write" => Advanced(mem'.ext) /\ PendingOK(journal, mem')
      BY DEF FollowOK, Followed
    <2>1. mem = journal /\ pending = NoJournal
      BY Synced DEF Loaded
    <2> QED  BY <2>1, NotWritten
  <1>4. DiskOK'
    BY DEF HandInv, DiskOK, Describes, Unnamed
  <1>5. AheadOK'
    BY DEF HandInv, AheadOK
  <1>6. EmptyOK'
    BY DEF HandInv, EmptyOK, NoForeign, Candidate
  <1> QED  BY <1>1, <1>2, <1>3, <1>4, <1>5, <1>6 DEF HandInv

\* A step of the body that writes a file.
FileStep ==
  /\ pc \in BodySites /\ pc' \in BodySites /\ io = "idle" /\ io' = "idle"
  /\ UNCHANGED <<journal, pending, mem, persisted, faults>>

LEMMA FileHands ==
  ASSUME PairInv, HandInv, FileStep, mem.ext # NoExt,
         Advanced(mem.ext) \/ pc' \notin Unnamed => AcceptedIn(files', mem.ext),
         pc' \in Unnamed => Untouched(files', mem.ext),
         pc' = "build.record" => files'["evidence"]["candidate"] = NoFile,
         pc' = "publish.record" => files'["primary"]["candidate"] = mem.ext.primary.id
  PROVE  HandInv'
  <1> USE SitesAre, NotWritten DEF FileStep
  <1>0. mem = journal /\ pending = NoJournal /\ persisted = journal
    BY Synced
  <1>1. JournalsOK'
    BY <1>0 DEF HandInv, JournalsOK
  <1>2. SyncOK'
    BY <1>0 DEF SyncOK, InStep
  <1>3. FollowOK'
    BY <1>0 DEF FollowOK
  <1>4. DiskOK'
    BY <1>0, NothingIs DEF DiskOK, Describes, Candidate
  <1>5. AheadOK'
    BY <1>0, NothingIs DEF AheadOK
  <1>6. EmptyOK'
    BY <1>0 DEF EmptyOK, BodySites, Settled, CleanSites
  <1> QED  BY <1>1, <1>2, <1>3, <1>4, <1>5, <1>6 DEF HandInv

\* A step that removes a candidate and says so in the record.
DropStep ==
  /\ pc \in Loaded /\ io = "idle" /\ UNCHANGED <<journal, pending, persisted, faults>>
  /\ pc' \in {"body", "clean.ext", "clean.final"} /\ (pc' = "body" => pc \in BodySites)
  /\ io' = "write"

LEMMA DropHands ==
  ASSUME PairInv, HandInv, DropStep, ~Advanced(mem.ext), mem'.ext # NoExt, Written(mem'),
         AcceptedIn(files', mem'.ext), NoForeign => NoForeign',
         pc' = "clean.final" => preserve',
         pc' = "clean.ext" /\ ~preserve' => mem'.phase \in {"cleaning", "complete"}
  PROVE  HandInv'
  <1> USE SitesAre DEF DropStep
  <1>0. /\ ~Advanced(journal.ext) /\ ~Advanced(pending.ext)
        /\ pc' \in Loaded /\ pc' \notin Unnamed \cup {"clean.preflight", "clean.remove", "enter.load"}
    BY DEF HandInv, AheadOK, Unnamed, CleanSites, BodySites
  <1>1. JournalsOK'
    BY <1>0 DEF HandInv, JournalsOK
  <1>2. SyncOK'
    BY DEF HandInv, SyncOK, InStep, Loaded, CleanSites, BodySites, BuildSites, PublishSites
  <1>3. FollowOK'
    BY <1>0 DEF FollowOK, Committed, Advanced, CommittedPhases
  <1>4. DiskOK'
    BY <1>0 DEF DiskOK, Describes, Unnamed
  <1>5. AheadOK'
    BY <1>0 DEF AheadOK
  <1>6. EmptyOK'
    BY <1>0 DEF HandInv, EmptyOK, Settled, BodySites, BuildSites, PublishSites
  <1> QED  BY <1>1, <1>2, <1>3, <1>4, <1>5, <1>6 DEF HandInv

\* An exception or a death: what is on the disk stays, but for a journal write.
LeaveStep ==
  /\ pc # "idle" /\ (RaiseFrom(pc) \/ Exit)
  /\ UNCHANGED files /\ (faults' = 0 => faults = 0)
  /\ \/ UNCHANGED <<journal, pending>>
     \/ io = "write" /\ pending' = Torn /\ UNCHANGED journal
     \/ io = "replace" /\ journal' = pending /\ pending' = NoJournal
  /\ faults' = 0 => Exit \/ (io = "idle" /\ UNCHANGED <<journal, pending>>)

LEMMA LeavingIs ==
  ASSUME TypeOK, RaiseFrom(pc) \/ Exit, pc # "idle"
  PROVE  /\ io' = "idle" /\ pc' \in {"idle", "clean.preflight", "clean.ext", "clean.final"}
         /\ pc' # "idle" =>
              /\ UNCHANGED <<mem, persisted, preserve>> /\ pc \in Loaded
              /\ pc' = "clean.ext" => pc = "clean.res"
              /\ pc' = "clean.final" => pc = "clean.ext" /\ failed'
              /\ ~Exit
  <1>1. CASE Exit
    BY <1>1 DEF Exit
  <1>2. CASE RaiseFrom(pc)
    BY <1>2 DEF RaiseFrom, Exit, Goto, Keep, EnterSites, CleanSites, Loaded, BodySites,
                Sites, TypeOK
  <1> QED  BY <1>1, <1>2

LEMMA LeavingHands ==
  ASSUME PairInv, HandInv, LeaveStep
  PROVE  HandInv'
  <1> DEFINE Q == /\ UNCHANGED <<mem, persisted, preserve>> /\ pc \in Loaded
                  /\ pc' = "clean.ext" => pc = "clean.res"
                  /\ pc' = "clean.final" => pc = "clean.ext" /\ failed'
                  /\ ~Exit
  <1>0. /\ io' = "idle" /\ pc' \in {"idle", "clean.preflight", "clean.ext", "clean.final"}
        /\ pc' # "idle" => Q
    BY LeavingIs DEF PairInv, LeaveStep
  <1> USE DEF LeaveStep
  <1>a. /\ pc' \in Loaded => pc' # "idle"
        /\ pc' \notin Unnamed \cup {"enter.load", "clean.remove"} /\ pc' \notin BodySites
    BY <1>0, SitesAre DEF Unnamed, CleanSites
  <1>b. pending' = pending \/ pending' \in {NoJournal, Torn}
    OBVIOUS
  <1>c. journal' = journal \/ (journal' = pending /\ pending = mem /\ Written(pending))
    BY SitesAre DEF HandInv, JournalsOK
  <1>1. JournalsOK'
    BY <1>0, <1>a, <1>b, <1>c DEF HandInv, JournalsOK
  <1>2. SyncOK'
    <2> SUFFICES ASSUME pc' \in CleanSites, faults' = 0
                 PROVE  InStep'
      BY <1>a DEF SyncOK
    <2>1. pc' # "idle"
      BY SitesAre
    <2>2. faults = 0 /\ io = "idle" /\ UNCHANGED <<journal, pending, mem, persisted>> /\ pc \in Loaded
      BY <1>0, <2>1
    <2>3. persisted = journal /\ mem = journal /\ pending = NoJournal
      BY <2>2, Synced DEF Loaded
    <2> QED  BY <2>2, <2>3 DEF InStep
  <1>3. FollowOK'
    BY <1>0, <1>b, <1>c, NotWritten DEF HandInv, FollowOK, Followed
  <1>4. DiskOK'
    BY <1>0, <1>a, <1>b, <1>c, NotWritten, NothingIs DEF HandInv, DiskOK, Describes, Unnamed
  <1>5. AheadOK'
    BY <1>0, <1>a, <1>b, <1>c, NotWritten, NothingIs DEF HandInv, AheadOK
  <1>6. EmptyOK'
    BY <1>0, <1>a, <1>b, <1>c, NotWritten DEF HandInv, EmptyOK, NoForeign, Candidate, Settled
  <1> QED  BY <1>1, <1>2, <1>3, <1>4, <1>5, <1>6 DEF HandInv

LEMMA RaiseHands ==
  PairInv /\ HandInv /\ pc # "idle" /\ io = "idle" /\ Raise => HandInv'
  BY LeavingHands DEF LeaveStep, Raise, disk, bounds

--------------------------------------------------------------------------------
(* The journal, the beginning and the end of a session *)

LEMMA WritePendingHands == PairInv /\ HandInv /\ WritePending => HandInv'
  <1> SUFFICES ASSUME PairInv, HandInv, WritePending
               PROVE  HandInv'
    OBVIOUS
  <1>0. io = "write" /\ pc \in Loaded /\ pc \notin Unnamed \cup {"clean.preflight"} /\ Written(mem)
    BY SitesAre DEF WritePending, HandInv, JournalsOK
  <1>1. CASE Raise /\ ~PersistOK
    <2>1. faults # 0
      BY <1>0, <1>1, Grounded, MemIs DEF PersistOK, ExtOK, HandInv, SyncOK, InStep, Loaded
    <2> QED  BY <1>0, <1>1, <2>1, SitesAre, LeavingHands DEF LeaveStep, Raise, disk, bounds
  <1>2. CASE /\ pending' = mem /\ io' = "replace"
             /\ UNCHANGED <<files, journal, mem, persisted, pc, flags, bounds>>
    <2> USE <1>0, <1>2 DEF flags, bounds
    <2>1. JournalsOK'
      BY DEF HandInv, JournalsOK, Loaded, CleanSites, BodySites, BuildSites, PublishSites
    <2>2. SyncOK'
      BY DEF HandInv, SyncOK, InStep
    <2>3. FollowOK'
      BY DEF HandInv, FollowOK, Followed
    <2>4. DiskOK'
      BY DEF HandInv, DiskOK, Describes, Candidate
    <2>5. AheadOK'
      BY DEF HandInv, AheadOK
    <2>6. EmptyOK'
      BY DEF HandInv, EmptyOK, NoForeign, Candidate
    <2> QED  BY <2>1, <2>2, <2>3, <2>4, <2>5, <2>6 DEF HandInv
  <1> QED  BY <1>1, <1>2 DEF WritePending

LEMMA ReplaceJournalHands == PairInv /\ HandInv /\ ReplaceJournal => HandInv'
  <1> SUFFICES ASSUME PairInv, HandInv, ReplaceJournal
               PROVE  HandInv'
    OBVIOUS
  <1>0. /\ io = "replace" /\ pc \in Loaded /\ pc \notin Unnamed \cup {"clean.preflight"}
        /\ Written(mem) /\ pending = mem
    BY SitesAre DEF ReplaceJournal, HandInv, JournalsOK
  <1> USE <1>0, NotWritten, NothingIs DEF ReplaceJournal, flags, bounds
  <1>1. JournalsOK'
    BY DEF HandInv, JournalsOK, Loaded, CleanSites, BodySites, BuildSites, PublishSites
  <1>2. SyncOK'
    BY DEF SyncOK, InStep
  <1>3. FollowOK'
    BY DEF FollowOK, Followed
  <1>4. DiskOK'
    BY DEF HandInv, DiskOK, Describes, Candidate
  <1>5. AheadOK'
    BY DEF AheadOK
  <1>6. EmptyOK'
    BY DEF HandInv, EmptyOK, NoForeign, Candidate
  <1> QED  BY <1>1, <1>2, <1>3, <1>4, <1>5, <1>6 DEF HandInv

\* A step of __enter__ before the record is loaded.
LEMMA OutsideHands ==
  ASSUME HandInv, pc \in {"idle", "enter.pending"}, pc' \in {"enter.pending", "enter.load"},
         io' = "idle", UNCHANGED <<files, faults>>,
         \/ UNCHANGED <<journal, pending>> /\ (pc' = "enter.load" => pending = NoJournal)
         \/ Written(pending) /\ journal' = pending /\ pending' = NoJournal
  PROVE  HandInv'
  <1>0. pc' \notin Loaded /\ pc' \notin BodySites /\ pc' \notin CleanSites /\ pc' \notin Unnamed
        /\ pc' \notin Settled
    BY SitesAre
  <1> USE <1>0, NotWritten, NothingIs
  <1>1. JournalsOK'
    BY DEF HandInv, JournalsOK
  <1>2. SyncOK'
    BY DEF SyncOK
  <1>3. FollowOK'
    BY DEF HandInv, FollowOK, Followed
  <1>4. DiskOK'
    BY DEF HandInv, DiskOK, Describes, Unnamed
  <1>5. AheadOK'
    BY DEF AheadOK
  <1>6. EmptyOK'
    BY DEF HandInv, EmptyOK, NoForeign, Candidate
  <1> QED  BY <1>1, <1>2, <1>3, <1>4, <1>5, <1>6 DEF HandInv

LEMMA StartHands ==
  ASSUME PairInv, HandInv, NEW k \in Kinds, Start(k)
  PROVE  HandInv'
  BY OutsideHands DEF Start, disk, bounds, PairInv, SiteInv, CountOK

LEMMA EnterReconcileHands == PairInv /\ HandInv /\ EnterReconcile => HandInv'
  <1> SUFFICES ASSUME PairInv, HandInv, EnterReconcile
               PROVE  HandInv'
    OBVIOUS
  <1>1. pc = "enter.pending" /\ io = "idle"
    BY DEF EnterReconcile, At
  <1>2. pending \notin {NoJournal, Torn} => Written(pending)
    BY DEF HandInv, JournalsOK
  <1>3. CASE Raise
    BY <1>1, <1>3, RaiseHands
  <1>4. CASE ~Raise
    BY <1>1, <1>2, <1>4, OutsideHands DEF EnterReconcile, Goto, disk, bounds
  <1> QED  BY <1>3, <1>4

\* The session takes over what the journal says, or starts a journal of its own.
LEMMA LoadHands ==
  ASSUME PairInv, HandInv, pc = "enter.load", UNCHANGED <<disk, faults>>,
         persisted' = journal, Written(mem'), io' \in {"idle", "write"},
         pc' \in {"body", "clean.preflight", "enter.external"},
         io' = "idle" => mem' = journal, pc' = "clean.preflight" => io' = "idle",
         AcceptedIn(files, mem'.ext), mem'.ext = NoExt => journal.ext = NoExt,
         Committed(journal) => Advanced(mem'.ext) /\ PendingOK(journal, mem'),
         Advanced(journal.ext) => Advanced(mem'.ext)
  PROVE  HandInv'
  <1>0. pending = NoJournal /\ pc' \in Loaded /\ pc' \notin Unnamed /\ pc' \notin Settled
        /\ pc' \notin {"enter.load", "clean.final", "clean.remove"}
    BY DEF HandInv, JournalsOK, Loaded, BodySites, CleanSites, Unnamed, Settled
  <1> USE <1>0, NotWritten, NothingIs DEF disk
  <1>1. JournalsOK'
    BY DEF HandInv, JournalsOK
  <1>2. SyncOK'
    BY DEF SyncOK, InStep
  <1>3. FollowOK'
    BY DEF FollowOK, Followed
  <1>4. DiskOK'
    BY DEF HandInv, DiskOK, Describes, Unnamed
  <1>5. AheadOK'
    BY DEF AheadOK
  <1>6. EmptyOK'
    BY DEF HandInv, EmptyOK, NoForeign, Candidate
  <1> QED  BY <1>1, <1>2, <1>3, <1>4, <1>5, <1>6 DEF HandInv

\* The transition a preflight makes is one that a later session accepts.
LEMMA ViewFollows ==
  ASSUME TypeOK, NEW j \in Journal, Committed(j), ExtOK(j.ext), PreflightOK(j.ext),
         NEW k \in Journal, k.phase = j.phase, k.res = j.res, k.ext = Preflighted(j.ext)
  PROVE  Advanced(k.ext) /\ PendingOK(j, k)
  <1>1. Advanced(j.ext)
    BY DEF Committed, Advanced, CommittedPhases
  <1>2. Advanced(Preflighted(j.ext)) /\ ExtTransition(j.ext, Preflighted(j.ext))
    BY <1>1, PreflightedAccepts
  <1>3. j # NoJournal /\ j.ext # NoExt /\ k.phase \in NextSessionPhase(j.phase)
    BY <1>1, NotWritten, NothingIs DEF Committed, NextSessionPhase
  <1> QED  BY <1>2, <1>3 DEF PendingOK

LEMMA AcceptedNone == ASSUME NEW f PROVE AcceptedIn(f, NoExt)
  BY DEF AcceptedIn, NoExt, NewExt

LEMMA EnterLoadHands == PairInv /\ HandInv /\ EnterLoad => HandInv'
  <1> SUFFICES ASSUME PairInv, HandInv, EnterLoad
               PROVE  HandInv'
    OBVIOUS
  <1>0. /\ pc = "enter.load" /\ UNCHANGED <<disk, faults>> /\ journal \in Journal /\ TypeOK
        /\ ExtOK(journal.ext) /\ (journal = NoJournal \/ Written(journal))
    BY DEF EnterLoad, At, bounds, PairInv, TypeOK, RecordsInv, HandInv, JournalsOK
  <1>1. CASE /\ journal = NoJournal /\ mem' = Fresh /\ persisted' = NoJournal
             /\ pc' = "body" /\ io' = "write"
    BY <1>0, <1>1, AcceptedNone, NotWritten, NothingIs, LoadHands
  <1>2. CASE /\ journal # NoJournal /\ persisted' = journal
             /\ mem' = [journal EXCEPT !.ext = Preflighted(journal.ext)]
             /\ \/ journal.ext = NoExt /\ pc' = "clean.preflight" /\ io' = "idle"
                \/ /\ PreflightOK(journal.ext) /\ pc' = "enter.external"
                   /\ \/ io' = "idle" /\ mem' = journal
                      \/ io' = "write"
    <2> DEFINE e == journal.ext
               d == Preflighted(e)
    <2>0. e = NoExt => d = e /\ PreflightOK(e)
      BY DEF Preflighted, PreflightOK, NoExt, NewExt
    <2>1. PreflightOK(e)
      BY <1>2, <2>0
    <2>2. AcceptedIn(files, d) /\ (d = NoExt => e = NoExt) /\ (Advanced(e) => Advanced(d))
      BY <1>0, <2>1, PreflightedAccepts
    <2>3. d \in ExtRecord
      <3>1. builds + 1 \in Nat /\ Numbered(e, builds + 1)
        BY DEF PairInv, RecordsInv, TypeOK
      <3> QED  BY <1>0, <2>1, <3>1, PreflightedIs DEF ExtOK
    <2>4. mem' \in Journal /\ mem'.ext = d /\ mem'.phase = journal.phase /\ mem'.res = journal.res
      BY <1>0, <1>2, <2>3 DEF Journal
    <2>5. e = NoExt => mem' = journal
      BY <1>0, <1>2, <2>0 DEF Journal
    <2>6. Committed(journal) => Advanced(mem'.ext) /\ PendingOK(journal, mem')
      BY <1>0, <2>1, <2>4, ViewFollows
    <2>7. Written(mem')
      BY <1>0, <1>2, <2>4 DEF Written
    <2> HIDE DEF d, e
    <2>8. /\ AcceptedIn(files, mem'.ext) /\ (mem'.ext = NoExt => journal.ext = NoExt)
          /\ Advanced(journal.ext) => Advanced(mem'.ext)
      BY <2>2, <2>4 DEF e
    <2>9. /\ io' \in {"idle", "write"} /\ pc' \in {"clean.preflight", "enter.external"}
          /\ io' = "idle" => mem' = journal
          /\ pc' = "clean.preflight" => io' = "idle"
      BY <1>2, <2>5 DEF e
    <2> QED  BY <1>0, <1>2, <2>6, <2>7, <2>8, <2>9, LoadHands
  <1> QED  BY <1>1, <1>2 DEF EnterLoad, Persist, Goto

LEMMA RemoveJournalHands == PairInv /\ HandInv /\ RemoveJournal => HandInv'
  <1> SUFFICES ASSUME PairInv, HandInv, RemoveJournal
               PROVE  HandInv'
    OBVIOUS
  <1>0. /\ pc = "clean.remove" /\ journal' = NoJournal /\ UNCHANGED <<files, pending, faults>>
        /\ pending = NoJournal /\ NoForeign
    BY SitesAre DEF RemoveJournal, At, bounds, HandInv, EmptyOK
  <1>1. \/ pc' = "idle" /\ io' = "idle"
        \/ mem' = Fresh /\ persisted' = NoJournal /\ pc' = "body" /\ io' = "write"
    BY DEF RemoveJournal, Exit, Persist
  <1>2. NoForeign' /\ ~Committed(NoJournal)
    BY <1>0, NotWritten DEF NoForeign, Candidate
  <1>3. /\ pc' = "body" => pc' \in Loaded
        /\ pc' = "idle" => pc' \notin Loaded
        /\ pc' \notin Unnamed \cup Settled \cup {"enter.load", "clean.final", "clean.remove", "clean.preflight"}
        /\ pc' \notin CleanSites /\ (pc' = "idle" => pc' \notin BodySites)
    BY <1>1, SitesAre DEF Loaded, BodySites, Unnamed, Settled, CleanSites
  <1> USE <1>0, <1>1, <1>2, <1>3, NotWritten, NothingIs
  <1>4. JournalsOK'
    BY DEF JournalsOK
  <1>5. SyncOK'
    BY DEF SyncOK, InStep
  <1>6. FollowOK'
    BY DEF FollowOK, Followed
  <1>7. DiskOK'
    BY AcceptedNone DEF DiskOK, Describes, Unnamed
  <1>8. AheadOK'
    BY DEF AheadOK
  <1>9. EmptyOK'
    BY DEF EmptyOK
  <1> QED  BY <1>4, <1>5, <1>6, <1>7, <1>8, <1>9 DEF HandInv

LEMMA FaultHands == PairInv /\ HandInv /\ (Fault \/ Crash) => HandInv'
  <1> SUFFICES ASSUME PairInv, HandInv, Fault \/ Crash
               PROVE  HandInv'
    OBVIOUS
  <1>1. CASE Fault
    <2>1. faults' # 0
      BY <1>1 DEF Fault, PairInv, TypeOK
    <2> QED  BY <1>1, <2>1, LeavingHands DEF Fault, LeaveStep
  <1>2. CASE Crash
    BY <1>2, LeavingHands DEF Crash, LeaveStep
  <1> QED  BY <1>1, <1>2

--------------------------------------------------------------------------------
(* Candidates that are dropped *)

\* The files of a step that changes one candidate.
LEMMA CandidateMoves ==
  ASSUME TypeOK, NEW r \in Roles, NEW f, files' = [files EXCEPT ![r]["candidate"] = f]
  PROVE  /\ \A e : Untouched(files, e) <=> Untouched(files', e)
         /\ r = "primary" => /\ files'["primary"]["candidate"] = f
                             /\ files'["evidence"]["candidate"] = files["evidence"]["candidate"]
         /\ r = "evidence" => /\ files'["evidence"]["candidate"] = f
                              /\ files'["primary"]["candidate"] = files["primary"]["candidate"]
         /\ f = NoFile /\ NoForeign => NoForeign'
  <1>1. \A q \in Roles, s \in Places :
          files'[q][s] = IF q = r /\ s = "candidate" THEN f ELSE files[q][s]
    BY DEF TypeOK, Places
  <1>2. /\ "primary" \in Roles /\ "evidence" \in Roles
        /\ "final" \in Places /\ "backup" \in Places /\ "candidate" \in Places
    BY DEF Roles, Places
  <1>3. \A e : Untouched(files, e) <=> Untouched(files', e)
    BY <1>1, <1>2 DEF Untouched
  <1>4. f = NoFile /\ NoForeign => NoForeign'
    BY <1>1, <1>2 DEF NoForeign, Candidate
  <1>5. /\ r = "primary" => /\ files'["primary"]["candidate"] = f
                            /\ files'["evidence"]["candidate"] = files["evidence"]["candidate"]
        /\ r = "evidence" => /\ files'["evidence"]["candidate"] = f
                             /\ files'["primary"]["candidate"] = files["primary"]["candidate"]
    BY <1>1, <1>2
  <1> QED  BY <1>3, <1>4, <1>5, Zenon

LEMMA DropPartialHands ==
  ASSUME PairInv, HandInv, NEW s, DropPartialEvidence(s), mem.ext.evidence.stage = "writing",
         DropStep, AcceptedIn(files, mem.ext), s = "body" \/ (s = "clean.final" /\ preserve'),
         Written(mem)
  PROVE  HandInv'
  <1> DEFINE e == mem.ext
             d == Rewritten(e, "planned", NoFile, e.phase)
  <1>1. mem \in Journal /\ e \in ExtRecord /\ ExtOK(e) /\ TypeOK
    BY Grounded, MemIs DEF PairInv
  <1>2. files' = [files EXCEPT !["evidence"]["candidate"] = NoFile] /\ pc' = s
    BY DEF DropPartialEvidence, Persist
  <1>3. PutExt(d)
    <2>1. [e EXCEPT !.evidence.stage = "planned", !.evidence.id = NoFile] = d
      BY <1>1, RewriteIs, Zenon
    <2> QED  BY <2>1, Zenon DEF DropPartialEvidence
  <1>4. e.phase = "sealed"
    BY <1>1, RecordIs DEF ExtOK, ValidExt, NoExt, NewExt, NewSlot
  <1>5. d \in ExtRecord
    BY <1>1, RecordIs, FilesAre DEF Rewritten, ExtRecord, Slot, EvidenceStages
  <1>6. /\ d.phase = "sealed" /\ d.primary = e.primary /\ d.evidence.stage = "planned"
        /\ d.evidence.prior = e.evidence.prior
    BY <1>4 DEF Rewritten
  <1> HIDE DEF d, e
  <1>7. mem' \in Journal /\ mem'.ext = d /\ mem'.phase = mem.phase
    BY <1>1, <1>3, <1>5, PutIs
  <1>8. /\ AcceptedIn(files', d) /\ (NoForeign => NoForeign')
    <2>1. /\ Untouched(files, e) <=> Untouched(files', e)
          /\ files'["evidence"]["candidate"] = NoFile
          /\ files'["primary"]["candidate"] = files["primary"]["candidate"]
          /\ NoForeign => NoForeign'
      BY <1>1, <1>2, CandidateMoves, Zenon DEF Roles
    <2>2. Untouched(files', d)
      BY <1>4, <1>6, <2>1 DEF AcceptedIn, Untouched, e
    <2> QED  BY <1>4, <1>6, <2>1, <2>2 DEF AcceptedIn, EvidenceIn, e
  <1>9. ~Advanced(mem.ext) /\ mem'.ext # NoExt /\ Written(mem')
    BY <1>4, <1>6, <1>7 DEF Advanced, CommittedPhases, NoExt, NewExt, Written, e
  <1> QED  BY <1>2, <1>7, <1>8, <1>9, DropHands

LEMMA DiscardPrimaryHands == PairInv /\ HandInv /\ DiscardPrimary => HandInv'
  <1> SUFFICES ASSUME PairInv, HandInv, DiscardPrimary
               PROVE  HandInv'
    OBVIOUS
  <1> DEFINE e == mem.ext
             d == Removed(e)
  <1>0. /\ pc = "clean.ext" /\ pc' = "clean.ext" /\ io = "idle" /\ io' = "write"
        /\ e.phase = "building" /\ preserve = FALSE /\ preserve' = FALSE
        /\ files' = [files EXCEPT !["primary"]["candidate"] = NoFile] /\ PutExt(d)
        /\ UNCHANGED <<journal, pending, persisted, faults>>
    BY DEF DiscardPrimary, Discarding, At, Persist, flags, bounds, PairInv, TypeOK
  <1>1. /\ mem \in Journal /\ ExtOK(e) /\ Numbered(e, builds + 1) /\ builds + 1 \in Nat /\ TypeOK
    BY Grounded, MemIs DEF PairInv
  <1>2. /\ AcceptedIn(files, e) /\ Written(mem) /\ mem.phase \in {"cleaning", "complete"}
        /\ pc \in Loaded
    BY <1>0 DEF HandInv, DiskOK, JournalsOK, EmptyOK, Settled, Loaded, CleanSites, Unnamed
  <1>3. e.evidence.stage \in {"planned", "removed"}
    BY <1>0, <1>1 DEF ExtOK, ValidExt
  <1> HIDE DEF e
  <1>4. /\ d \in ExtRecord /\ d.phase = "building"
        /\ d.primary.stage = "removed" /\ d.primary.prior = e.primary.prior
        /\ d.evidence.stage = "removed" /\ d.evidence.prior = e.evidence.prior
    <2>1. /\ ExtOK(d) /\ d.phase = "building"
          /\ d.primary = [stage |-> "removed", id |-> e.primary.id, prior |-> e.primary.prior]
          /\ d.evidence = [stage |-> "removed", id |-> e.evidence.id, prior |-> e.evidence.prior]
      BY <1>0, <1>1, RemovedIs DEF e
    <2> HIDE DEF d
    <2> QED  BY <2>1 DEF ExtOK
  <1> HIDE DEF d
  <1>5. mem' \in Journal /\ mem'.ext = d /\ mem'.phase = mem.phase
    BY <1>0, <1>1, <1>4, PutIs
  <1>6. AcceptedIn(files', d) /\ (NoForeign => NoForeign')
    <2>1. /\ Untouched(files, e) <=> Untouched(files', e)
          /\ files'["primary"]["candidate"] = NoFile
          /\ files'["evidence"]["candidate"] = files["evidence"]["candidate"]
          /\ NoForeign => NoForeign'
      BY <1>0, <1>1, CandidateMoves, Zenon DEF Roles
    <2>2. Untouched(files', d) /\ files["evidence"]["candidate"] = NoFile
      BY <1>0, <1>2, <1>3, <1>4, <2>1 DEF AcceptedIn, Untouched, EvidenceIn
    <2> QED  BY <1>4, <2>1, <2>2 DEF AcceptedIn, PrimaryIn, EvidenceIn
  <1>7. ~Advanced(mem.ext) /\ mem'.ext # NoExt /\ Written(mem')
    BY <1>0, <1>2, <1>4, <1>5 DEF Advanced, CommittedPhases, NoExt, NewExt, Written, e
  <1>8. DropStep
    BY <1>0, <1>2 DEF DropStep
  <1> QED  BY <1>0, <1>2, <1>5, <1>6, <1>7, <1>8, DropHands

--------------------------------------------------------------------------------
(* The body of a session *)

\* A step that changes nothing but the place and the flags.
LEMMA MoveHands ==
  ASSUME PairInv, HandInv, pc \in Loaded \ (Unnamed \cup {"clean.preflight"}),
         io = "idle", io' = "idle", UNCHANGED <<disk, mem, persisted, faults>>,
         pc' \in Loaded \ Unnamed, pc' \in BodySites => pc \in BodySites,
         pc' = "clean.final" /\ ~failed' /\ ~preserve' => NoForeign,
         pc' # "clean.remove",
         pc' \in Settled /\ ~preserve' => mem.phase \in {"cleaning", "complete"}
  PROVE  HandInv'
  BY RecordHands DEF RecordStep, HandInv, JournalsOK, DiskOK, disk

Plain == {"enter.external", "clean.mark"} \cup (BodySites \ Unnamed)

\* A step that records something of the publication.
LEMMA PutHands ==
  ASSUME PairInv, HandInv, pc \in BodySites \cup {"clean.preflight"}, io = "idle", io' = "write",
         pc' \in Plain, pc = "clean.preflight" => pc' = "clean.mark",
         UNCHANGED <<disk, persisted, faults>>,
         NEW d \in ExtRecord, PutExt(d), AcceptedIn(files, d), d = NoExt => mem.ext = NoExt,
         Advanced(mem.ext) => Advanced(d) /\ ExtTransition(mem.ext, d)
  PROVE  HandInv'
  <1>1. /\ mem' \in Journal /\ mem'.ext = d /\ mem'.phase = mem.phase /\ mem'.res = mem.res
    BY Grounded, MemIs, PutIs
  <1>2. /\ pc \in Loaded /\ pc' \in Loaded \ Unnamed /\ (pc' \in BodySites => pc \in BodySites)
        /\ pc' \notin Settled \cup {"clean.preflight", "clean.final", "clean.remove"}
    BY DEF Plain, Loaded, BodySites, CleanSites, Unnamed, Settled, BuildSites, PublishSites
  <1>3. Written(mem')
    BY <1>1, <1>2 DEF HandInv, JournalsOK, Written
  <1>4. Committed(mem) => Advanced(mem'.ext) /\ PendingOK(mem, mem')
    <2> SUFFICES ASSUME Committed(mem)
                 PROVE  Advanced(d) /\ PendingOK(mem, mem')
      BY <1>1
    <2>1. Advanced(mem.ext)
      BY DEF Committed, Advanced, CommittedPhases
    <2>2. mem # NoJournal /\ mem.ext # NoExt /\ mem'.phase \in NextSessionPhase(mem.phase)
      BY <1>1, <2>1, NotWritten, NothingIs DEF Committed, NextSessionPhase
    <2> QED  BY <1>1, <2>1, <2>2 DEF PendingOK
  <1> QED  BY <1>1, <1>2, <1>3, <1>4, RecordHands DEF RecordStep

LEMMA AcceptedHere ==
  ASSUME HandInv, pc \in BodySites \ Unnamed
  PROVE  AcceptedIn(files, mem.ext)
  BY SitesAre DEF HandInv, DiskOK, CleanSites

LEMMA EnterExternalHands == PairInv /\ HandInv /\ EnterExternal => HandInv'
  <1> SUFFICES ASSUME PairInv, HandInv, EnterExternal
               PROVE  HandInv'
    OBVIOUS
  <1>0. pc = "enter.external" /\ io = "idle" /\ pc \in Loaded \ (Unnamed \cup {"clean.preflight"})
        /\ pc \in BodySites /\ AcceptedIn(files, mem.ext) /\ Written(mem)
    BY AcceptedHere DEF EnterExternal, At, Loaded, BodySites, Unnamed, HandInv, JournalsOK
  <1>1. CASE Raise
    BY <1>0, <1>1, RaiseHands
  <1>2. CASE /\ pc' \in {"body", "clean.preflight"} /\ io' = "idle"
             /\ UNCHANGED <<disk, mem, persisted, faults>>
    BY <1>0, <1>2, MoveHands DEF Loaded, BodySites, CleanSites, Unnamed, Settled
  <1>3. CASE mem.ext.evidence.stage = "writing" /\ DropPartialEvidence("body")
    <2>1. DropStep
      BY <1>0, <1>3 DEF DropStep, DropPartialEvidence, Persist, bounds
    <2> QED  BY <1>0, <1>3, <2>1, DropPartialHands DEF DropPartialEvidence, Persist
  <1> QED  BY <1>1, <1>2, <1>3 DEF EnterExternal, Goto, Quiet, bounds


LEMMA BodyHands == PairInv /\ HandInv /\ (Body \/ FinishRoute \/ PublishEnd \/ OtherWork) => HandInv'
  <1> SUFFICES ASSUME PairInv, HandInv, Body \/ FinishRoute \/ PublishEnd \/ OtherWork
               PROVE  HandInv'
    OBVIOUS
  <1>1. /\ pc \in {"body", "finish.route", "publish.next", "other.work"} /\ io = "idle"
        /\ io' = "idle" /\ UNCHANGED <<disk, mem, persisted, faults>>
        /\ pc' \in {"build.begin", "finish.view", "clean.preflight", "other.acquire",
                    "publish.digest", "publish.evidence", "publish.start"}
    <2>1. CASE Body
      <3>1. kind \in {"build", "finish", "other"}
        BY <2>1 DEF Body, At, PairInv, SiteInv, CountOK, TypeOK
      <3> QED  BY <2>1, <3>1 DEF Body, At, Goto, Quiet, bounds
    <2>2. CASE FinishRoute
      BY <2>2 DEF FinishRoute, At, Acknowledge, Goto, Quiet, bounds
    <2>3. CASE PublishEnd \/ OtherWork
      BY <2>3 DEF PublishEnd, OtherWork, At, Acknowledge, Goto, Quiet, bounds
    <2> QED  BY <2>1, <2>2, <2>3
  <1>2. /\ pc \in BodySites /\ pc \notin Unnamed \cup {"clean.preflight"} /\ pc \in Loaded
        /\ pc' \in Loaded /\ pc' \notin Unnamed \cup Settled \cup {"clean.final", "clean.remove"}
    BY <1>1 DEF BodySites, PublishSites, BuildSites, Unnamed, Loaded, CleanSites, Settled
  <1> QED  BY <1>1, <1>2, MoveHands

\* A preflight of the session's own record.
LEMMA ViewHands ==
  ASSUME PairInv, HandInv, pc \in {"publish.start", "finish.view", "clean.preflight"},
         io = "idle", PreflightOK(mem.ext), PutExt(Preflighted(mem.ext)),
         io' = (IF mem' = mem THEN "idle" ELSE "write"), UNCHANGED <<disk, persisted, faults>>,
         pc' = CASE pc = "publish.start" -> "publish.phase" [] pc = "finish.view" -> "finish.route"
                 [] OTHER -> "clean.mark"
  PROVE  HandInv'
  <1> DEFINE d == Preflighted(mem.ext)
  <1>1. /\ TypeOK /\ ExtOK(mem.ext) /\ d \in ExtRecord /\ mem'.ext = d /\ mem' \in Journal
        /\ mem'.phase = mem.phase
    <2>1. TypeOK /\ ExtOK(mem.ext)
      BY Grounded, MemIs DEF PairInv
    <2>2. ExtOK(d) /\ mem'.ext = d /\ mem' \in Journal /\ mem'.phase = mem.phase
      BY ViewIs
    <2>3. d \in ExtRecord
      BY <2>2 DEF ExtOK
    <2> QED  BY <2>1, <2>2, <2>3
  <1>2. /\ AcceptedIn(files, d) /\ (d = NoExt => mem.ext = NoExt)
        /\ Advanced(mem.ext) => Advanced(d) /\ ExtTransition(mem.ext, d)
    BY <1>1, PreflightedAccepts
  <1> HIDE DEF d
  <1>3. /\ pc \in Loaded /\ pc' \in Loaded \ Unnamed /\ (pc' \in BodySites => pc \in BodySites)
        /\ pc \in BodySites \cup {"clean.preflight"} /\ pc' \in Plain
        /\ pc = "clean.preflight" => pc' = "clean.mark"
        /\ pc' \notin Settled \cup {"clean.final", "clean.remove"}
    BY DEF Loaded, BodySites, PublishSites, CleanSites, BuildSites, Unnamed, Plain, Settled
  <1>4. CASE mem' = mem
    <2>1. Written(mem') /\ RecordStep
      BY <1>3, <1>4 DEF RecordStep, HandInv, JournalsOK
    <2> QED  BY <1>1, <1>2, <1>3, <1>4, <2>1, RecordHands
  <1>5. CASE mem' # mem
    <2>1. PutExt(d) /\ io' = "write"
      BY <1>5 DEF d
    <2> QED  BY <1>1, <1>2, <1>3, <2>1, PutHands
  <1> QED  BY <1>4, <1>5

LEMMA ViewsHand == PairInv /\ HandInv /\ (PublishStart \/ FinishView) => HandInv'
  BY ViewHands DEF PublishStart, FinishView, View, At, Goto, Persist, Quiet, bounds

LEMMA AcquireHands == PairInv /\ HandInv /\ Acquire => HandInv'
  <1> SUFFICES ASSUME PairInv, HandInv, Acquire
               PROVE  HandInv'
    OBVIOUS
  <1>1. /\ pc = "other.acquire" /\ pc' = "other.work" /\ io = "idle" /\ io' = "write"
        /\ mem' = [mem EXCEPT !.res = "active"] /\ UNCHANGED <<disk, persisted, faults>>
    BY DEF Acquire, At, Persist, Quiet, bounds
  <1>2. mem \in Journal
    BY Grounded, MemIs
  <1>3. mem'.ext = mem.ext /\ mem'.phase = mem.phase /\ mem'.res = "active"
    BY <1>1, <1>2 DEF Journal
  <1>4. /\ pc \in BodySites /\ pc' \in BodySites /\ pc \in Loaded /\ pc' \in Loaded
        /\ pc \notin Unnamed /\ pc' \notin Unnamed \cup Settled \cup CleanSites
    BY <1>1, SitesAre DEF BodySites, Unnamed, Settled, CleanSites
  <1>5. Written(mem') /\ AcceptedIn(files, mem'.ext)
    BY <1>3, <1>4, AcceptedHere DEF HandInv, JournalsOK, Written
  <1>6. Committed(mem) => Advanced(mem'.ext) /\ PendingOK(mem, mem')
    <2> SUFFICES ASSUME Committed(mem)
                 PROVE  Advanced(mem.ext) /\ PendingOK(mem, mem')
      BY <1>3
    <2>1. Advanced(mem.ext) /\ mem # NoJournal /\ mem.ext # NoExt
      BY NotWritten, NothingIs DEF Committed, Advanced, CommittedPhases
    <2> QED  BY <1>1, <1>3, <2>1 DEF PendingOK, Committed, NextSessionPhase, ExtTransition
  <1>7. RecordStep
    BY <1>1, <1>4 DEF RecordStep, CleanSites
  <1>8. pc' \notin {"clean.final", "clean.remove"}
    BY <1>1
  <1> QED  BY <1>3, <1>4, <1>5, <1>6, <1>7, <1>8, RecordHands
--------------------------------------------------------------------------------
(* A build *)

LEMMA BuildBeginHands == PairInv /\ HandInv /\ BuildBegin => HandInv'
  <1> SUFFICES ASSUME PairInv, HandInv, BuildBegin
               PROVE  HandInv'
    OBVIOUS
  <1>0. pc = "build.begin" /\ io = "idle"
    BY DEF BuildBegin, At
  <1>1. CASE Raise
    BY <1>0, <1>1, RaiseHands
  <1>2. CASE /\ ~HasPublication /\ NoForeign
             /\ PutExt(NewExt("building", PriorPair)) /\ Persist("build.create") /\ Quiet
    <2> DEFINE d == NewExt("building", PriorPair)
    <2>1. /\ PriorPair["primary"] = files["primary"]["final"]
          /\ PriorPair["evidence"] = files["evidence"]["final"]
          /\ PriorPair["primary"] \in File /\ PriorPair["evidence"] \in File
      BY FileAt DEF PairInv, PriorPair, Roles, Places
    <2>2. d \in ExtRecord
      BY <2>1, FilesAre DEF NewExt, NewSlot, ExtRecord, Slot, ExtPhases, NumActions,
                            PrimaryStages, EvidenceStages
    <2>3. AcceptedIn(files, d)
      BY <1>2, <2>1 DEF AcceptedIn, Untouched, PrimaryIn, EvidenceIn, NewExt, NewSlot,
                        NoForeign, Candidate, Roles
    <2>4. d # NoExt /\ ~Advanced(mem.ext)
      BY <1>2 DEF NoExt, NewExt, HasPublication, Advanced, CommittedPhases
    <2> HIDE DEF d
    <2>5. PutExt(d)
      BY <1>2 DEF d
    <2>6. /\ pc \in BodySites /\ pc' = "build.create" /\ pc' \in Plain /\ io' = "write"
          /\ UNCHANGED <<disk, persisted, faults>> /\ pc # "clean.preflight"
      BY <1>0, <1>2 DEF BodySites, BuildSites, Plain, Unnamed, Persist, Quiet, bounds
    <2> QED  BY <1>0, <2>2, <2>3, <2>4, <2>5, <2>6, PutHands
  <1> QED  BY <1>1, <1>2 DEF BuildBegin

LEMMA BuildCreateHands == PairInv /\ HandInv /\ BuildCreate => HandInv'
  <1> SUFFICES ASSUME PairInv, HandInv, BuildCreate
               PROVE  HandInv'
    OBVIOUS
  <1> DEFINE e == mem.ext
             f == Empty(builds + 2)
  <1>1. /\ pc = "build.create" /\ pc' = "build.record" /\ io = "idle" /\ io' = "idle"
        /\ files' = [files EXCEPT !["primary"]["candidate"] = f]
        /\ UNCHANGED <<journal, pending, mem, persisted, faults>>
    BY DEF BuildCreate, At, Goto
  <1>2. /\ pc \in BodySites \ Unnamed /\ pc' \in BodySites /\ pc' # "publish.record"
        /\ pc' \in Unnamed
    BY <1>1 DEF BodySites, BuildSites, Unnamed
  <1>3. e.phase = "building" /\ e.primary.stage = "planned" /\ e.evidence.stage = "planned"
    BY <1>1 DEF PairInv, SiteInv, BuildOK, Started, BuildSites, StageAt
  <1>4. AcceptedIn(files, e)
    BY <1>2, AcceptedHere
  <1> HIDE DEF e, f
  <1>5. /\ Untouched(files, e) <=> Untouched(files', e)
        /\ files'["evidence"]["candidate"] = files["evidence"]["candidate"]
    <2>1. TypeOK /\ "primary" \in Roles
      BY DEF PairInv, Roles
    <2> QED  BY <1>1, <2>1, CandidateMoves, Zenon
  <1>6. Untouched(files', e) /\ files'["evidence"]["candidate"] = NoFile
    BY <1>3, <1>4, <1>5 DEF AcceptedIn, EvidenceIn
  <1>7. mem.ext # NoExt /\ ~Advanced(mem.ext)
    BY <1>3 DEF NoExt, NewExt, Advanced, CommittedPhases, e
  <1>8. FileStep
    BY <1>1, <1>2 DEF FileStep
  <1> QED  BY <1>2, <1>6, <1>7, <1>8, FileHands DEF e

\* The record takes the identity that the candidate has.
LEMMA RestageHands ==
  ASSUME PairInv, HandInv, pc \in BodySites, io = "idle", io' = "write", pc' \in Plain,
         UNCHANGED <<disk, persisted, faults>>, NEW t \in PrimaryStages, NEW ph \in {"building", "sealed"},
         t \notin {"planned", "removed"},
         PutExt(Restaged(mem.ext, t, Candidate("primary"), ph)), mem.ext.phase = "building",
         Candidate("primary") # NoFile, Untouched(files, mem.ext),
         EvidenceIn(files["evidence"]["candidate"], mem.ext.evidence)
  PROVE  HandInv'
  <1> DEFINE e == mem.ext
             f == Candidate("primary")
             d == Restaged(e, t, f, ph)
  <1>1. e \in ExtRecord /\ f \in File
    BY Grounded, MemIs, CandidateFacts DEF Roles
  <1>2. d \in ExtRecord
    BY <1>1, RestagedIs DEF ExtPhases
  <1>3. d # NoExt /\ ~Advanced(e)
    BY DEF NoExt, NewExt, Restaged, Advanced, CommittedPhases
  <1>4. AcceptedIn(files, d)
    <2>1. PrimaryIn(f, d.primary)
      BY DEF PrimaryIn, SameNode, Restaged
    <2>2. Untouched(files, d) /\ d.evidence = e.evidence /\ d.phase \in {"building", "sealed"}
      BY DEF Untouched, Restaged
    <2>3. f = files["primary"]["candidate"]
      BY DEF Candidate
    <2> HIDE DEF d, f, e
    <2> QED  BY <2>1, <2>2, <2>3 DEF AcceptedIn, e
  <1>5. PutExt(d) /\ pc # "clean.preflight"
    BY SitesAre DEF CleanSites
  <1> HIDE DEF d
  <1> QED  BY <1>2, <1>3, <1>4, <1>5, PutHands

LEMMA BuildRecordHands == PairInv /\ HandInv /\ BuildRecord => HandInv'
  <1> SUFFICES ASSUME PairInv, HandInv, BuildRecord
               PROVE  HandInv'
    OBVIOUS
  <1> DEFINE e == mem.ext
             f == Candidate("primary")
  <1>1. /\ pc = "build.record" /\ pc' = "build.write" /\ io = "idle" /\ io' = "write"
        /\ PutExt([e EXCEPT !.primary.stage = "created", !.primary.id = f])
        /\ UNCHANGED <<disk, persisted, faults>>
    BY DEF BuildRecord, At, Persist, Quiet, bounds
  <1>2. /\ e.phase = "building" /\ e.evidence.stage = "planned" /\ f # NoFile
    BY <1>1 DEF PairInv, SiteInv, BuildOK, Created, Started, BuildSites
  <1>3. PutExt(Restaged(e, "created", f, "building"))
    <2>1. e \in ExtRecord
      BY Grounded, MemIs
    <2>2. [e EXCEPT !.primary.stage = "created", !.primary.id = f]
            = Restaged(e, "created", f, e.phase)
      BY <2>1, RestageIs, Zenon
    <2> QED  BY <1>1, <1>2, <2>2, Zenon
  <1>4. Untouched(files, e) /\ EvidenceIn(files["evidence"]["candidate"], e.evidence)
    BY <1>1, <1>2 DEF HandInv, DiskOK, Unnamed, EvidenceIn, Candidate
  <1>5. pc \in BodySites /\ pc' \in Plain
    BY <1>1 DEF BodySites, BuildSites, Plain, Unnamed
  <1>6. "created" \in PrimaryStages
    BY DEF PrimaryStages
  <1> QED  BY <1>1, <1>2, <1>3, <1>4, <1>5, <1>6, RestageHands

LEMMA StageHands ==
  ASSUME PairInv, HandInv, NEW site \in Named, NEW from, NEW to \in Later, NEW next \in Named,
         Stage(site, from, to, next)
  PROVE  HandInv'
  <1> DEFINE e == mem.ext
             f == Candidate("primary")
  <1>1. /\ pc = site /\ pc' = next /\ io = "idle" /\ io' = "write" /\ SameNode(f, e.primary.id)
        /\ PutExt([e EXCEPT !.primary.stage = to, !.primary.id = f])
        /\ UNCHANGED <<disk, persisted, faults>>
    BY DEF Stage, At, Persist, Quiet, bounds
  <1>2. /\ pc \in Started /\ pc \in BodySites \ Unnamed /\ pc' \in Plain
    BY <1>1 DEF Named, Created, Started, BuildSites, BodySites, Plain, Unnamed
  <1>3. e.phase = "building" /\ e.evidence.stage = "planned" /\ f # NoFile
    BY <1>1, <1>2 DEF PairInv, SiteInv, BuildOK, SameNode
  <1>4. PutExt(Restaged(e, to, f, "building"))
    <2>1. e \in ExtRecord
      BY Grounded, MemIs
    <2>2. [e EXCEPT !.primary.stage = to, !.primary.id = f] = Restaged(e, to, f, e.phase)
      BY <2>1, RestageIs, Zenon
    <2> QED  BY <1>1, <1>3, <2>2, Zenon
  <1>5. Untouched(files, e) /\ EvidenceIn(files["evidence"]["candidate"], e.evidence)
    <2>1. AcceptedIn(files, e)
      BY <1>2, AcceptedHere
    <2> QED  BY <1>3, <2>1 DEF AcceptedIn
  <1>6. to \in PrimaryStages /\ to \notin {"planned", "removed"} /\ pc \in BodySites
    BY <1>2 DEF Later, PrimaryStages
  <1> QED  BY <1>1, <1>2, <1>3, <1>4, <1>5, <1>6, RestageHands

LEMMA StagesHand ==
  PairInv /\ HandInv /\ (BeginWrite \/ FinishWrite \/ BeginMutation \/ FinishMutation \/ PlanSeal)
    => HandInv'
  BY StageHands DEF BeginWrite, FinishWrite, BeginMutation, FinishMutation, PlanSeal,
                    Named, Created, Started, BuildSites, Later

LEMMA RecordSealHands == PairInv /\ HandInv /\ RecordSeal => HandInv'
  <1> SUFFICES ASSUME PairInv, HandInv, RecordSeal
               PROVE  HandInv'
    OBVIOUS
  <1> DEFINE e == mem.ext
             f == Candidate("primary")
  <1>1. /\ pc = "build.sealed" /\ pc' = "publish.digest" /\ io = "idle" /\ io' = "write"
        /\ PutExt([e EXCEPT !.primary.stage = "sealed", !.phase = "sealed", !.primary.id = f])
        /\ UNCHANGED <<disk, persisted, faults>>
    BY DEF RecordSeal, At, Persist, Quiet, bounds
  <1>2. /\ e.phase = "building" /\ e.evidence.stage = "planned" /\ f # NoFile
    BY <1>1 DEF PairInv, SiteInv, BuildOK, Created, Started, BuildSites
  <1>3. PutExt(Restaged(e, "sealed", f, "sealed"))
    <2>1. e \in ExtRecord
      BY Grounded, MemIs
    <2>2. [e EXCEPT !.primary.stage = "sealed", !.phase = "sealed", !.primary.id = f]
            = Restaged(e, "sealed", f, "sealed")
      BY <2>1, ResealIs, Zenon
    <2> QED  BY <1>1, <2>2, Zenon
  <1>4. pc \in BodySites \ Unnamed /\ pc' \in Plain
    BY <1>1 DEF BodySites, BuildSites, PublishSites, Plain, Unnamed
  <1>5. Untouched(files, e) /\ EvidenceIn(files["evidence"]["candidate"], e.evidence)
    <2>1. AcceptedIn(files, e)
      BY <1>4, AcceptedHere
    <2> QED  BY <1>2, <2>1 DEF AcceptedIn
  <1>6. "sealed" \in PrimaryStages /\ pc \in BodySites
    BY <1>4 DEF PrimaryStages
  <1> QED  BY <1>1, <1>2, <1>3, <1>4, <1>5, <1>6, RestageHands

LEMMA WriteHands ==
  ASSUME PairInv, HandInv, NEW site \in Named, NEW data, NEW mode, NEW next \in Named,
         Write(site, data, mode, next),
         \/ StageAt(site) \in {"building", "mutating"}
         \/ StageAt(site) = "seal-planned" /\ data = "hybrid" /\ mode = "sealed"
  PROVE  HandInv'
  <1> DEFINE e == mem.ext
             c == Candidate("primary")
             f == [node |-> c.node, data |-> data, mode |-> mode]
  <1>1. /\ pc = site /\ pc' = next /\ io = "idle" /\ io' = "idle"
        /\ UNCHANGED <<journal, pending, mem, persisted, faults>>
        /\ files' = [files EXCEPT !["primary"]["candidate"] = f]
    <2>1. files' = [files EXCEPT !["primary"]["candidate"] = f]
      BY WriteIs, Zenon
    <2> HIDE DEF f
    <2> QED  BY <2>1 DEF Write, At, Goto, bounds
  <1>2. /\ pc \in Started /\ pc \in BodySites \ Unnamed /\ pc' \in BodySites \ Unnamed
        /\ pc' \notin {"build.record", "publish.record"} /\ pc \in Named
    BY <1>1 DEF Named, Created, Started, BuildSites, BodySites, Unnamed
  <1>3. /\ e.phase = "building" /\ e.evidence.stage = "planned" /\ e.primary.stage = StageAt(site)
        /\ SameNode(c, e.primary.id)
    BY <1>1, <1>2 DEF PairInv, SiteInv, BuildOK
  <1>4. AcceptedIn(files, e) /\ e \in ExtRecord /\ ExtOK(e)
    BY <1>2, AcceptedHere, Grounded, MemIs
  <1>5. PrimaryIn(f, e.primary)
    <2>0. c \in File /\ c # NoFile
      BY <1>3, CandidateFacts DEF SameNode, Roles
    <2>1. f # NoFile /\ SameNode(f, e.primary.id)
      BY <1>3, <2>0, FilesAre DEF SameNode, NoFile
    <2>2. CASE StageAt(site) \in {"building", "mutating"}
      <3> HIDE DEF f, e
      <3> QED  BY <1>3, <2>1, <2>2 DEF PrimaryIn
    <2>3. CASE StageAt(site) = "seal-planned" /\ data = "hybrid" /\ mode = "sealed"
      <3>1. e.primary.id \in File /\ e.primary.id # NoFile /\ e.primary.id.data = "hybrid"
        BY <1>3, <1>4, <2>3, RecordIs DEF ExtOK, ValidExt, Made
      <3>2. f = [e.primary.id EXCEPT !.mode = "sealed"]
        BY <1>3, <2>3, <3>1 DEF SameNode, File
      <3> HIDE DEF f, e
      <3> QED  BY <1>3, <2>3, <3>2 DEF PrimaryIn
    <2> QED  BY <2>2, <2>3
  <1> HIDE DEF e, f, c
  <1>6. /\ Untouched(files, e) <=> Untouched(files', e)
        /\ files'["primary"]["candidate"] = f
        /\ files'["evidence"]["candidate"] = files["evidence"]["candidate"]
    <2>1. TypeOK /\ "primary" \in Roles
      BY DEF PairInv, Roles
    <2> QED  BY <1>1, <2>1, CandidateMoves, Zenon
  <1>7. AcceptedIn(files', e)
    BY <1>3, <1>4, <1>5, <1>6 DEF AcceptedIn
  <1>8. mem.ext # NoExt
    BY <1>3 DEF NoExt, NewExt, e
  <1>9. FileStep
    BY <1>1, <1>2 DEF FileStep
  <1> QED  BY <1>2, <1>7, <1>8, <1>9, FileHands DEF e

LEMMA WritesHand ==
  PairInv /\ HandInv /\ (GenerateSome \/ GenerateRest \/ MutateSome \/ MutateRest \/ Seal) => HandInv'
  BY WriteHands DEF GenerateSome, GenerateRest, MutateSome, MutateRest, Seal,
                    Named, Created, Started, BuildSites, StageAt

--------------------------------------------------------------------------------
(* A publication *)

LEMMA RecordDigestHands == PairInv /\ HandInv /\ RecordDigest => HandInv'
  <1> SUFFICES ASSUME PairInv, HandInv, RecordDigest
               PROVE  HandInv'
    OBVIOUS
  <1> DEFINE e == mem.ext
             d == [e EXCEPT !.digest = e.primary.id.node]
  <1>0. /\ pc = "publish.digest" /\ pc' = "publish.evidence" /\ io = "idle" /\ io' = "write"
        /\ UNCHANGED <<disk, persisted, faults>> /\ e.phase = "sealed" /\ PutExt(d)
    BY DEF RecordDigest, At, Persist, Quiet, bounds
  <1>1. e \in ExtRecord /\ ExtOK(e)
    BY Grounded, MemIs
  <1>2. pc \in BodySites \ Unnamed /\ pc' \in Plain /\ pc # "clean.preflight"
    BY <1>0 DEF BodySites, PublishSites, Unnamed, Plain
  <1>3. AcceptedIn(files, e)
    BY <1>2, AcceptedHere
  <1> HIDE DEF e
  <1>4. e.primary.id.node \in Nodes
    BY <1>0, <1>1, SealedIs
  <1>5. /\ d \in ExtRecord /\ d.phase = "sealed" /\ d.primary = e.primary /\ d.evidence = e.evidence
    BY <1>0, <1>1, <1>4 DEF ExtRecord
  <1> HIDE DEF d
  <1>6. AcceptedIn(files, d)
    BY <1>0, <1>3, <1>5 DEF AcceptedIn, Untouched
  <1>7. d # NoExt /\ ~Advanced(mem.ext)
    BY <1>0, <1>5 DEF NoExt, NewExt, Advanced, CommittedPhases, e
  <1> QED  BY <1>0, <1>2, <1>5, <1>6, <1>7, PutHands

\* A checksum file is created or written.
LEMMA EvidenceWriteHands ==
  ASSUME PairInv, HandInv, NEW f \in File, f # NoFile, f.node = mem.ext.digest,
         mem.ext.phase = "sealed", files' = [files EXCEPT !["evidence"]["candidate"] = f],
         FileStep, pc \notin Unnamed, pc' # "build.record",
         mem.ext.evidence.stage = IF pc' = "publish.record" THEN "planned" ELSE "writing"
  PROVE  HandInv'
  <1> DEFINE e == mem.ext
  <1>1. AcceptedIn(files, e) /\ ExtOK(e)
    BY AcceptedHere, Grounded, MemIs DEF FileStep
  <1>2. /\ e.phase = "sealed" /\ e.primary.stage = "sealed" /\ e # NoExt /\ ~Advanced(e)
    <2>1. e.phase = "sealed"
      OBVIOUS
    <2> HIDE DEF e
    <2>2. e.primary.stage = "sealed"
      BY <1>1, <2>1, SealedIs
    <2> QED  BY <2>1, <2>2 DEF NoExt, NewExt, Advanced, CommittedPhases
  <1>3. /\ Untouched(files, e) <=> Untouched(files', e)
        /\ files'["evidence"]["candidate"] = f
        /\ files'["primary"]["candidate"] = files["primary"]["candidate"]
    <2>1. TypeOK /\ "evidence" \in Roles
      BY DEF PairInv, Roles
    <2> QED  BY <2>1, CandidateMoves, Zenon
  <1>4. e.evidence.stage = "writing" => SameNode(f, e.evidence.id)
    BY <1>1 DEF SameNode, ExtOK, Made
  <1>5. Untouched(files', e) /\ files'["primary"]["candidate"] = e.primary.id
    <2> HIDE DEF e
    <2> QED  BY <1>1, <1>2, <1>3 DEF AcceptedIn, PrimaryIn
  <1>6. pc' \notin Unnamed => AcceptedIn(files', e)
    <2>1. pc' \notin Unnamed => e.evidence.stage = "writing"
      BY DEF Unnamed
    <2> HIDE DEF e
    <2> QED  BY <1>1, <1>2, <1>3, <1>4, <1>5, <2>1 DEF AcceptedIn, EvidenceIn, PrimaryIn
  <1> HIDE DEF e
  <1> QED  BY <1>2, <1>3, <1>5, <1>6, FileHands DEF e

LEMMA CreateEvidenceHands == PairInv /\ HandInv /\ CreateEvidence => HandInv'
  <1> SUFFICES ASSUME PairInv, HandInv, CreateEvidence
               PROVE  HandInv'
    OBVIOUS
  <1> DEFINE f == Empty(mem.ext.digest)
  <1>1. /\ pc = "publish.evidence" /\ pc' = "publish.record" /\ io = "idle" /\ io' = "idle"
        /\ mem.ext.phase = "sealed" /\ mem.ext.evidence.stage = "planned"
        /\ files' = [files EXCEPT !["evidence"]["candidate"] = f]
        /\ UNCHANGED <<journal, pending, mem, persisted, faults>>
    BY DEF CreateEvidence, At, Goto, bounds
  <1>2. mem.ext.digest \in Nodes
    <2>1. mem.ext \in ExtRecord /\ mem.ext.digest # 0
      BY <1>1, Grounded, MemIs DEF PairInv, SiteInv, PublishOK
    <2> QED  BY <2>1, RecordIs
  <1>3. f \in File /\ f.node = mem.ext.digest /\ f # NoFile
    BY <1>2, FilesAre DEF Empty, NoFile
  <1> HIDE DEF f
  <1>4. FileStep /\ pc \notin Unnamed
    BY <1>1 DEF FileStep, BodySites, PublishSites, Unnamed
  <1> QED  BY <1>1, <1>3, <1>4, EvidenceWriteHands

LEMMA WriteEvidenceHands == PairInv /\ HandInv /\ (WriteSome \/ WriteRest) => HandInv'
  <1> SUFFICES ASSUME PairInv, HandInv, WriteSome \/ WriteRest
               PROVE  HandInv'
    OBVIOUS
  <1> DEFINE n == mem.ext.digest
  <1>1. PICK f \in {[Empty(n) EXCEPT !.data = "partial"], Sums(n)} :
          /\ pc \in {"publish.payload", "publish.chmod"}
          /\ pc' \in {"publish.chmod", "publish.ready"} /\ io = "idle" /\ io' = "idle"
          /\ files' = [files EXCEPT !["evidence"]["candidate"] = f]
          /\ UNCHANGED <<journal, pending, mem, persisted, faults>>
    BY DEF WriteSome, WriteRest, WriteEvidence, At, Goto, bounds
  <1>2. /\ n \in Nodes /\ mem.ext.phase = "sealed" /\ mem.ext.evidence.stage = "writing"
    <2>1. mem.ext \in ExtRecord /\ mem.ext.digest # 0
      BY <1>1, Grounded, MemIs DEF PairInv, SiteInv, PublishOK, Writing
    <2> QED  BY <1>1, <2>1, RecordIs DEF PairInv, SiteInv, PublishOK, Writing
  <1>3. f \in File /\ f.node = n /\ f # NoFile
    BY <1>1, <1>2, FilesAre DEF Sums, Empty, File, NoFile
  <1>4. FileStep /\ pc \notin Unnamed /\ pc' \notin {"build.record", "publish.record"}
    BY <1>1 DEF FileStep, BodySites, PublishSites, Unnamed
  <1> QED  BY <1>1, <1>2, <1>3, <1>4, EvidenceWriteHands

\* The checksum file's place in the record: begun, or ready.
LEMMA EvidenceRecordHands ==
  ASSUME PairInv, HandInv, NEW t, NEW ph, PutExt(Rewritten(mem.ext, t, Candidate("evidence"), ph)),
         io = "idle", io' = "write", UNCHANGED <<disk, persisted, faults>>,
         pc \in BodySites, pc' \in Plain, mem.ext.phase = "sealed",
         \/ t = "writing" /\ ph = "sealed"
         \/ t = "ready" /\ ph = "ready",
         Candidate("evidence").node = mem.ext.digest, mem.ext.digest # 0,
         Untouched(files, mem.ext), files["primary"]["candidate"] = mem.ext.primary.id
  PROVE  HandInv'
  <1> DEFINE e == mem.ext
             f == Candidate("evidence")
             d == Rewritten(e, t, f, ph)
  <1>1. e \in ExtRecord /\ ExtOK(e) /\ f \in File /\ f # NoFile
    BY Grounded, MemIs, CandidateFacts DEF Roles
  <1>2. d \in ExtRecord
    BY <1>1, RecordIs DEF Rewritten, ExtRecord, Slot, EvidenceStages, ExtPhases
  <1>3. d # NoExt /\ ~Advanced(e)
    BY DEF NoExt, NewExt, Rewritten, Advanced, CommittedPhases
  <1>4. AcceptedIn(files, d)
    <2>1. EvidenceIn(f, d.evidence)
      BY <1>1 DEF EvidenceIn, SameNode, Rewritten
    <2>2. Untouched(files, d) /\ d.primary = e.primary /\ d.phase \in {"sealed", "ready"}
      BY DEF Untouched, Rewritten
    <2>3. f = files["evidence"]["candidate"]
      BY DEF Candidate
    <2>4. PrimaryIn(files["primary"]["candidate"], d.primary)
      <3>1. e.primary.stage = "sealed"
        BY <1>1, SealedIs
      <3> QED  BY <2>2, <3>1 DEF PrimaryIn
    <2> HIDE DEF d, f, e
    <2> QED  BY <2>1, <2>2, <2>3, <2>4 DEF AcceptedIn
  <1>5. PutExt(d) /\ pc # "clean.preflight"
    BY SitesAre DEF CleanSites
  <1> HIDE DEF d
  <1> QED  BY <1>2, <1>3, <1>4, <1>5, PutHands

LEMMA RecordEvidenceHands == PairInv /\ HandInv /\ (RecordEvidence \/ EvidenceReady) => HandInv'
  <1> SUFFICES ASSUME PairInv, HandInv, RecordEvidence \/ EvidenceReady
               PROVE  HandInv'
    OBVIOUS
  <1> DEFINE e == mem.ext
             f == Candidate("evidence")
  <1>1. e \in ExtRecord /\ ExtOK(e)
    BY Grounded, MemIs
  <1>2. CASE RecordEvidence
    <2>1. /\ pc = "publish.record" /\ pc' = "publish.payload" /\ io = "idle" /\ io' = "write"
          /\ PutExt([e EXCEPT !.evidence.stage = "writing", !.evidence.id = f])
          /\ UNCHANGED <<disk, persisted, faults>>
      BY <1>2 DEF RecordEvidence, At, Persist, Quiet, bounds
    <2>2. [e EXCEPT !.evidence.stage = "writing", !.evidence.id = f]
            = Rewritten(e, "writing", f, e.phase)
      BY <1>1, RewriteIs, Zenon
    <2>3. e.phase = "sealed" /\ e.digest # 0 /\ f.node = e.digest
      BY <2>1 DEF PairInv, SiteInv, PublishOK
    <2>4. PutExt(Rewritten(e, "writing", f, "sealed"))
      BY <2>1, <2>2, <2>3, Zenon
    <2>5. Untouched(files, e) /\ files["primary"]["candidate"] = e.primary.id
      BY <2>1 DEF HandInv, DiskOK, Unnamed, Candidate
    <2>6. pc \in BodySites /\ pc' \in Plain
      BY <2>1 DEF BodySites, PublishSites, Plain, Unnamed
    <2> QED  BY <2>1, <2>3, <2>4, <2>5, <2>6, EvidenceRecordHands
  <1>3. CASE EvidenceReady
    <2>1. /\ pc = "publish.ready" /\ pc' = "publish.start" /\ io = "idle" /\ io' = "write"
          /\ PutExt([e EXCEPT !.evidence.stage = "ready", !.phase = "ready", !.evidence.id = f])
          /\ UNCHANGED <<disk, persisted, faults>>
      BY <1>3 DEF EvidenceReady, At, Persist, Quiet, bounds
    <2>2. [e EXCEPT !.evidence.stage = "ready", !.phase = "ready", !.evidence.id = f]
            = Rewritten(e, "ready", f, "ready")
      BY <1>1, RereadyIs, Zenon
    <2>3. PutExt(Rewritten(e, "ready", f, "ready"))
      BY <2>1, <2>2, Zenon
    <2>4. e.phase = "sealed" /\ e.digest # 0 /\ f.node = e.digest
      BY <2>1 DEF PairInv, SiteInv, PublishOK, Writing
    <2>5. pc \in BodySites \ Unnamed /\ pc' \in Plain
      BY <2>1 DEF BodySites, PublishSites, Plain, Unnamed
    <2>6. Untouched(files, e) /\ files["primary"]["candidate"] = e.primary.id
      <3>1. AcceptedIn(files, e) /\ e.primary.stage = "sealed"
        BY <1>1, <2>4, <2>5, AcceptedHere, SealedIs
      <3> QED  BY <2>4, <3>1 DEF AcceptedIn, PrimaryIn
    <2> QED  BY <2>1, <2>3, <2>4, <2>5, <2>6, EvidenceRecordHands
  <1> QED  BY <1>2, <1>3

\* A record ready to publish describes the layout before the first action.
LEMMA ReadyIs ==
  ASSUME NEW e, ExtOK(e), e.phase = "ready", NEW f, AcceptedIn(f, e)
  PROVE  LayoutIn(f, e, 0) /\ e.index = 0 /\ e.pend = FALSE
  <1>1. /\ e.primary.stage = "sealed" /\ e.evidence.stage = "ready" /\ e.index = 0 /\ e.pend = FALSE
    BY RecordIs DEF ExtOK, ValidExt
  <1> QED  BY <1>1 DEF AcceptedIn, Untouched, PrimaryIn, EvidenceIn, LayoutIn

\* The phase, the index and the pending mark change, nothing else.
LEMMA ProgressHands ==
  ASSUME PairInv, HandInv, NEW q, NEW i \in 0..7, NEW p \in BOOLEAN,
         PutExt([mem.ext EXCEPT !.index = i, !.pend = p, !.phase = q]),
         q \in Publishing, q = "complete" => i = 7, mem.ext.phase \in CommittedPhases,
         LayoutIn(files, mem.ext, i) \/ (p /\ i < 7 /\ LayoutIn(files, mem.ext, i + 1)),
         \/ mem.ext.phase = "ready" /\ q = "publishing" /\ i = 0 /\ ~p
         \/ i = mem.ext.index /\ q = mem.ext.phase
         \/ i = mem.ext.index + 1 /\ mem.ext.pend /\ ~p /\ q = PhaseOf(i),
         io = "idle", io' = "write", UNCHANGED <<disk, persisted, faults>>,
         pc \in BodySites, pc' \in Plain
  PROVE  HandInv'
  <1> DEFINE e == mem.ext
             d == [e EXCEPT !.index = i, !.pend = p, !.phase = q]
  <1>1. e \in ExtRecord
    BY Grounded, MemIs
  <1> HIDE DEF e
  <1>2. /\ d.index = i /\ d.pend = p /\ d.phase = q /\ d.primary = e.primary
        /\ d.evidence = e.evidence /\ d.digest = e.digest
    BY <1>1 DEF ExtRecord
  <1>3. d \in ExtRecord
    BY <1>1 DEF ExtRecord, ExtPhases, Publishing, NumActions
  <1>4. d = [e EXCEPT !.phase = d.phase, !.index = d.index, !.pend = d.pend]
    BY <1>1, <1>2 DEF ExtRecord
  <1>5. e \in ExtRecord /\ e.pend \in BOOLEAN
    BY <1>1, RecordIs
  <1>6. i = e.index /\ q = e.phase /\ p = e.pend => d = e
    BY <1>1 DEF ExtRecord
  <1> HIDE DEF d
  <1>7. d # NoExt /\ e # NoExt /\ Advanced(d)
    BY <1>2 DEF NoExt, NewExt, Advanced, CommittedPhases, Publishing, e
  <1>8. AcceptedIn(files, d)
    BY <1>2 DEF AcceptedIn, LayoutIn, Publishing, e
  <1>9. ExtTransition(e, d)
    <2>1. CASE i = e.index /\ q = e.phase /\ p = e.pend
      BY <1>6, <2>1 DEF ExtTransition
    <2>2. CASE ~(i = e.index /\ q = e.phase /\ p = e.pend)
      <3>1. PublicationTransition(e, d)
        BY <1>2, <1>4, <1>5, <2>2 DEF PublicationTransition, e
      <3> QED  BY <1>7, <3>1 DEF ExtTransition
    <2> QED  BY <2>1, <2>2
  <1>10. PutExt(d) /\ pc # "clean.preflight"
    BY SitesAre DEF CleanSites, d, e
  <1> QED  BY <1>3, <1>7, <1>8, <1>9, <1>10, PutHands DEF e


LEMMA PublishPhaseHands == PairInv /\ HandInv /\ PublishPhase => HandInv'
  <1> SUFFICES ASSUME PairInv, HandInv, PublishPhase
               PROVE  HandInv'
    OBVIOUS
  <1> DEFINE e == mem.ext
  <1>0. /\ pc = "publish.phase" /\ pc' = "publish.next" /\ io = "idle"
        /\ UNCHANGED <<disk, persisted, faults>>
        /\ \/ e.phase = "ready" /\ io' = "write" /\ PutExt([e EXCEPT !.phase = "publishing"])
           \/ io' = "idle" /\ UNCHANGED mem
    BY DEF PublishPhase, At, Goto, Persist, Quiet, bounds
  <1>1. /\ pc \in BodySites /\ pc \in BodySites \ Unnamed /\ pc' \in Plain
        /\ pc \in Loaded /\ pc \notin Unnamed \cup {"clean.preflight"}
        /\ pc' \in Loaded /\ pc' \notin Unnamed \cup Settled \cup {"clean.final", "clean.remove", "clean.preflight"}
    BY <1>0 DEF BodySites, PublishSites, Plain, Unnamed, Loaded, Settled
  <1>2. ExtOK(e) /\ e \in ExtRecord /\ AcceptedIn(files, e)
    BY <1>1, Grounded, MemIs, AcceptedHere
  <1>3. CASE e.phase = "ready" /\ io' = "write" /\ PutExt([e EXCEPT !.phase = "publishing"])
    <2> HIDE DEF e
    <2>1. LayoutIn(files, e, 0) /\ e.index = 0 /\ e.pend = FALSE
      BY <1>2, <1>3, ReadyIs
    <2>2. [e EXCEPT !.phase = "publishing"]
            = [e EXCEPT !.index = 0, !.pend = FALSE, !.phase = "publishing"]
      BY <1>2, <2>1 DEF ExtRecord
    <2>3. PutExt([e EXCEPT !.index = 0, !.pend = FALSE, !.phase = "publishing"])
      BY <1>3, <2>2, Zenon
    <2>4. e.phase \in CommittedPhases /\ "publishing" \in Publishing
      BY <1>3 DEF CommittedPhases, Publishing
    <2>5. 0 \in 0..7 /\ FALSE \in BOOLEAN /\ "publishing" # "complete"
      OBVIOUS
    <2> QED  BY <1>0, <1>1, <1>3, <2>1, <2>3, <2>4, <2>5, ProgressHands DEF e
  <1>4. CASE io' = "idle" /\ UNCHANGED mem
    BY <1>0, <1>1, <1>4, MoveHands
  <1> QED  BY <1>0, <1>3, <1>4

LEMMA PublishNextHands == PairInv /\ HandInv /\ PublishNext => HandInv'
  <1> SUFFICES ASSUME PairInv, HandInv, PublishNext
               PROVE  HandInv'
    OBVIOUS
  <1> DEFINE e == mem.ext
             i == e.index
             q == e.phase
  <1>0. /\ pc = "publish.next" /\ pc' = "publish.act" /\ io = "idle" /\ io' = "write"
        /\ UNCHANGED <<disk, persisted, faults>> /\ i < 7 /\ PutExt([e EXCEPT !.pend = TRUE])
    BY DEF PublishNext, At, Persist, Quiet, bounds, NumActions
  <1>1. pc \in BodySites /\ pc \in BodySites \ Unnamed /\ pc' \in Plain
    BY <1>0 DEF BodySites, PublishSites, Plain, Unnamed
  <1>2. ExtOK(e) /\ e \in ExtRecord /\ AcceptedIn(files, e)
    BY <1>1, Grounded, MemIs, AcceptedHere
  <1>3. q \in Publishing
    BY <1>0 DEF PairInv, SiteInv, PublishOK, Publishing
  <1> HIDE DEF e
  <1>4. i \in 0..7 /\ q \in {"publishing", "published"}
    BY <1>0, <1>2, <1>3, IndexIs DEF Publishing, NumActions
  <1>5. LayoutIn(files, e, i) \/ LayoutIn(files, e, i + 1)
    BY <1>2, <1>4 DEF AcceptedIn
  <1>6. [e EXCEPT !.pend = TRUE] = [e EXCEPT !.index = i, !.pend = TRUE, !.phase = q]
    BY <1>2 DEF ExtRecord
  <1>7. q # "complete" /\ q \in CommittedPhases
    BY <1>4 DEF CommittedPhases
  <1> HIDE DEF i, q
  <1>8. PutExt([e EXCEPT !.index = i, !.pend = TRUE, !.phase = q])
    BY <1>0, <1>6, Zenon
  <1> QED  BY <1>0, <1>1, <1>3, <1>4, <1>5, <1>7, <1>8, ProgressHands DEF e, i, q

LEMMA PublishActHands == PairInv /\ HandInv /\ PublishAct => HandInv'
  <1> SUFFICES ASSUME PairInv, HandInv, PublishAct
               PROVE  HandInv'
    OBVIOUS
  <1> DEFINE e == mem.ext
  <1>1. /\ e \in ExtRecord /\ ExtOK(e) /\ e.phase \in Publishing /\ e.index \in 0..6 /\ e.pend
        /\ LayoutIn(files', e, e.index + 1)
        /\ pc = "publish.act" /\ pc' = "publish.bump" /\ io = "idle" /\ io' = "idle"
        /\ UNCHANGED <<journal, pending, mem, persisted, flags, bounds>>
    BY PublishActIs
  <1>2. FileStep /\ pc' \notin Unnamed /\ pc' \notin {"build.record", "publish.record"}
    BY <1>1 DEF FileStep, BodySites, PublishSites, Unnamed, bounds
  <1>3. AcceptedIn(files', e)
    <2>1. e.phase \in {"publishing", "published"}
      BY <1>1, IndexIs DEF Publishing, NumActions
    <2> HIDE DEF e
    <2> QED  BY <1>1, <2>1 DEF AcceptedIn
  <1>4. mem.ext # NoExt
    BY <1>1 DEF NoExt, NewExt, Publishing
  <1> QED  BY <1>2, <1>3, <1>4, FileHands

LEMMA PublishBumpHands == PairInv /\ HandInv /\ PublishBump => HandInv'
  <1> SUFFICES ASSUME PairInv, HandInv, PublishBump
               PROVE  HandInv'
    OBVIOUS
  <1> DEFINE e == mem.ext
             i == e.index + 1
             q == PhaseOf(i)
  <1>0. /\ pc = "publish.bump" /\ pc' = "publish.next" /\ io = "idle" /\ io' = "write"
        /\ UNCHANGED <<disk, persisted, faults>> /\ Layout(e, i)
        /\ PutExt([e EXCEPT !.index = i, !.pend = FALSE, !.phase = q])
    BY DEF PublishBump, At, Persist, Quiet, bounds
  <1>1. pc \in BodySites /\ pc' \in Plain
    BY <1>0 DEF BodySites, PublishSites, Plain, Unnamed
  <1>2. ExtOK(e) /\ e \in ExtRecord
    BY Grounded, MemIs
  <1>3. e.phase \in Publishing /\ e.index < NumActions /\ e.pend
    BY <1>0 DEF PairInv, SiteInv, PublishOK, Acting, Publishing
  <1> HIDE DEF e
  <1>4. i \in 0..7 /\ i \in Nat
    BY <1>2, <1>3, RecordIs DEF NumActions
  <1>5. LayoutIn(files, e, i)
    BY <1>0, <1>4, LayoutIs
  <1>6. q \in Publishing /\ (q = "complete" => i = 7)
    BY <1>4 DEF PhaseOf, Publishing, NumActions
  <1>7. e.phase \in CommittedPhases
    BY <1>3 DEF Publishing, CommittedPhases
  <1>8. FALSE \in BOOLEAN
    OBVIOUS
  <1> HIDE DEF i, q
  <1> QED  BY <1>0, <1>1, <1>3, <1>4, <1>5, <1>6, <1>7, <1>8, ProgressHands DEF e, i, q
--------------------------------------------------------------------------------
(* The cleanup *)

LEMMA CleanPreflightHands == PairInv /\ HandInv /\ CleanPreflight => HandInv'
  <1> SUFFICES ASSUME PairInv, HandInv, CleanPreflight
               PROVE  HandInv'
    OBVIOUS
  <1>0. pc = "clean.preflight" /\ io = "idle"
    BY DEF CleanPreflight, At
  <1>1. CASE Raise
    BY <1>0, <1>1, RaiseHands
  <1>2. CASE ~Raise
    BY <1>0, <1>2, ViewHands DEF CleanPreflight, Goto, Persist, bounds
  <1> QED  BY <1>1, <1>2

\* Where a cleanup is, and what it knows.
LEMMA CleanIs ==
  ASSUME PairInv, HandInv, pc \in CleanSites \ {"clean.preflight"}
  PROVE  /\ pc \in Loaded /\ pc \notin Unnamed /\ pc \notin BodySites
         /\ AcceptedIn(files, mem.ext) /\ Written(mem) /\ mem \in Journal /\ ExtOK(mem.ext)
  BY SitesAre, Grounded, MemIs DEF HandInv, DiskOK, JournalsOK, Unnamed

\* The session phase or the resource changes.
LEMMA MarkHands ==
  ASSUME PairInv, HandInv, Quiet, pc \in CleanSites \ {"clean.preflight"}, io = "idle",
         pc' \in CleanSites \ {"clean.preflight", "clean.final"}, io' = "write",
         mem' \in Journal, mem'.ext = mem.ext, Written(mem'),
         Committed(mem) => PendingOK(mem, mem'),
         pc' = "clean.remove" => NoForeign,
         pc' \in Settled /\ ~preserve => mem'.phase \in {"cleaning", "complete"}
  PROVE  HandInv'
  <1>1. /\ pc \in Loaded /\ AcceptedIn(files, mem.ext) /\ pc' \in Loaded \ Unnamed
        /\ pc' \notin BodySites
    BY CleanIs, SitesAre
  <1>2. RecordStep
    BY <1>1 DEF RecordStep, Quiet, bounds
  <1>3. Committed(mem) => Advanced(mem.ext)
    BY DEF Committed, Advanced, CommittedPhases
  <1> QED  BY <1>1, <1>2, <1>3, RecordHands DEF Quiet, flags

LEMMA CleanMarkHands == PairInv /\ HandInv /\ CleanMark => HandInv'
  <1> SUFFICES ASSUME PairInv, HandInv, CleanMark
               PROVE  HandInv'
    OBVIOUS
  <1>0. pc = "clean.mark" /\ io = "idle" /\ Quiet /\ pc \in CleanSites \ {"clean.preflight"}
    BY DEF CleanMark, At, CleanSites
  <1>1. mem \in Journal
    BY Grounded, MemIs
  <1>2. CASE UNCHANGED mem /\ Goto("clean.res") /\ (preserve \/ mem.phase = "cleaning")
    BY <1>0, <1>2, CleanIs, MoveHands
       DEF Goto, Quiet, flags, bounds, Loaded, CleanSites, Unnamed, BodySites, BuildSites, PublishSites
  <1>3. CASE mem' = [mem EXCEPT !.phase = "cleaning"] /\ Persist("clean.mark")
    <2>1. /\ mem' \in Journal /\ mem'.ext = mem.ext /\ mem'.phase = "cleaning"
          /\ mem'.res = mem.res
      BY <1>1, <1>3 DEF Journal
    <2>2. Committed(mem) => PendingOK(mem, mem')
      BY <2>1, NotWritten, NothingIs
         DEF PendingOK, Committed, NextSessionPhase, ExtTransition
    <2>3. /\ Written(mem') /\ pc' = "clean.mark" /\ io' = "write"
          /\ pc' \notin {"clean.preflight", "clean.final", "clean.remove"} /\ pc' \in CleanSites
      BY <1>3, <2>1 DEF Written, Persist, CleanSites
    <2> QED  BY <1>0, <2>1, <2>2, <2>3, MarkHands
  <1> QED  BY <1>2, <1>3 DEF CleanMark

LEMMA CleanResourcesHands == PairInv /\ HandInv /\ CleanResources => HandInv'
  <1> SUFFICES ASSUME PairInv, HandInv, CleanResources
               PROVE  HandInv'
    OBVIOUS
  <1>0. /\ pc = "clean.res" /\ io = "idle" /\ Quiet /\ pc \in CleanSites \ {"clean.preflight"}
        /\ pc \in Settled
    BY DEF CleanResources, At, CleanSites, Settled
  <1>1. mem \in Journal
    BY Grounded, MemIs
  <1>2. ~preserve => mem.phase \in {"cleaning", "complete"}
    BY <1>0 DEF HandInv, EmptyOK
  <1>3. CASE UNCHANGED mem /\ Goto("clean.ext")
    BY <1>0, <1>2, <1>3, CleanIs, MoveHands
       DEF Goto, Quiet, flags, bounds, Loaded, CleanSites, Unnamed, BodySites, BuildSites, PublishSites
  <1>4. CASE mem.res = "active" /\ mem' = [mem EXCEPT !.res = "removed"] /\ Persist("clean.res")
    <2>1. mem' \in Journal /\ mem'.ext = mem.ext /\ mem'.phase = mem.phase
      BY <1>1, <1>4 DEF Journal
    <2>2. ~Committed(mem)
      BY <1>4 DEF Committed
    <2>3. /\ Written(mem') /\ pc' = "clean.res" /\ io' = "write"
          /\ pc' \notin {"clean.preflight", "clean.final", "clean.remove"} /\ pc' \in CleanSites
      BY <1>0, <1>4, <2>1, CleanIs DEF Written, Persist, CleanSites
    <2> QED  BY <1>0, <1>2, <2>1, <2>2, <2>3, MarkHands
  <1> QED  BY <1>3, <1>4 DEF CleanResources

\* Nothing is left of a publication that is over.
LEMMA SettledIs ==
  ASSUME PairInv, HandInv, pc = "clean.ext", mem.ext.phase \in {"none", "complete", "discarded"}
  PROVE  NoForeign
  <1> DEFINE e == mem.ext
  <1>1. AcceptedIn(files, e) /\ ExtOK(e) /\ pc \in Loaded
    BY CleanIs DEF CleanSites
  <1>2. CASE e.phase = "none"
    BY <1>1, <1>2 DEF ExtOK, ValidExt, HandInv, EmptyOK
  <1>3. CASE e.phase = "complete"
    BY <1>1, <1>3 DEF AcceptedIn, LayoutIn, NoForeign, Candidate, Roles
  <1>4. CASE e.phase = "discarded"
    BY <1>1, <1>4 DEF AcceptedIn, Untouched, NoForeign, Candidate, Roles
  <1> QED  BY <1>2, <1>3, <1>4

LEMMA CleanPreservedHands == PairInv /\ HandInv /\ (CleanPreserved \/ CleanSettled) => HandInv'
  <1> SUFFICES ASSUME PairInv, HandInv, CleanPreserved \/ CleanSettled
               PROVE  HandInv'
    OBVIOUS
  <1>0. pc = "clean.ext" /\ io = "idle" /\ pc \in CleanSites \ {"clean.preflight"} /\ pc \in Settled
    BY DEF CleanPreserved, CleanSettled, At, CleanSites, Settled
  <1>1. CASE /\ preserve /\ mem.ext.evidence.stage = "writing"
             /\ DropPartialEvidence("clean.final") /\ UNCHANGED flags
    <2>1. AcceptedIn(files, mem.ext) /\ Written(mem) /\ pc \in Loaded
      BY <1>0, CleanIs
    <2>2. DropStep /\ preserve'
      BY <1>0, <1>1, <2>1 DEF DropStep, DropPartialEvidence, Persist, bounds, flags
    <2> QED  BY <1>1, <2>1, <2>2, DropPartialHands
  <1>2. CASE /\ Goto("clean.final") /\ UNCHANGED mem /\ Quiet /\ (preserve \/ NoForeign)
    <2>1. ~preserve => mem.phase \in {"cleaning", "complete"}
      BY <1>0 DEF HandInv, EmptyOK
    <2> QED  BY <1>0, <1>2, <2>1, CleanIs, MoveHands
       DEF Goto, Quiet, flags, bounds, Loaded, CleanSites, Unnamed, BodySites, BuildSites, PublishSites
  <1>3. CASE CleanSettled
    BY <1>0, <1>2, <1>3, SettledIs DEF CleanSettled
  <1>4. CASE CleanPreserved
    BY <1>1, <1>2, <1>4 DEF CleanPreserved
  <1> QED  BY <1>3, <1>4

LEMMA DiscardHands == PairInv /\ HandInv /\ Discard => HandInv'
  <1> SUFFICES ASSUME PairInv, HandInv, Discard
               PROVE  HandInv'
    OBVIOUS
  <1> DEFINE e == mem.ext
             d == [Removed(e) EXCEPT !.phase = "discarded"]
  <1>0. /\ pc = "clean.ext" /\ pc' = "clean.final" /\ io = "idle" /\ io' = "write"
        /\ e.phase = "building" /\ e.primary.stage \in {"planned", "removed"} /\ ~preserve
        /\ PutExt(d) /\ Quiet
    BY DEF Discard, Discarding, At, Persist
  <1>1. /\ AcceptedIn(files, e) /\ Written(mem) /\ mem \in Journal /\ ExtOK(e) /\ pc \in Loaded
        /\ Numbered(e, builds + 1) /\ builds + 1 \in Nat
        /\ mem.phase \in {"cleaning", "complete"}
    BY <1>0, CleanIs, Grounded, MemIs DEF CleanSites, Settled, HandInv, EmptyOK
  <1>2. e.evidence.stage \in {"planned", "removed"}
    BY <1>0, <1>1 DEF ExtOK, ValidExt
  <1> HIDE DEF e
  <1>3. /\ d \in ExtRecord /\ d.phase = "discarded"
        /\ d.primary.prior = e.primary.prior /\ d.evidence.prior = e.evidence.prior
    <2>1. /\ ExtOK(d) /\ d.phase = "discarded"
          /\ d.primary = [stage |-> "removed", id |-> e.primary.id, prior |-> e.primary.prior]
          /\ d.evidence = [stage |-> "removed", id |-> e.evidence.id, prior |-> e.evidence.prior]
      BY <1>0, <1>1, RemovedIs
    <2> HIDE DEF d
    <2> QED  BY <2>1 DEF ExtOK
  <1> HIDE DEF d
  <1>4. mem' \in Journal /\ mem'.ext = d /\ mem'.phase = mem.phase
    BY <1>0, <1>1, <1>3, PutIs
  <1>5. /\ Untouched(files, e) /\ files["primary"]["candidate"] = NoFile
        /\ files["evidence"]["candidate"] = NoFile
    BY <1>0, <1>1, <1>2 DEF AcceptedIn, PrimaryIn, EvidenceIn
  <1>6. AcceptedIn(files, d) /\ NoForeign
    BY <1>3, <1>5 DEF AcceptedIn, Untouched, NoForeign, Candidate, Roles
  <1>7. /\ ~Committed(mem) /\ ~Advanced(mem.ext) /\ d # NoExt /\ Written(mem')
    BY <1>0, <1>1, <1>3, <1>4 DEF Committed, Advanced, CommittedPhases, NoExt, NewExt, Written, e
  <1>8. RecordStep /\ pc' # "clean.remove"
    BY <1>0, <1>1 DEF RecordStep, Quiet, bounds, Loaded, CleanSites, Unnamed, BodySites,
                      BuildSites, PublishSites
  <1> QED  BY <1>1, <1>4, <1>6, <1>7, <1>8, RecordHands

LEMMA CleanFinalHands == PairInv /\ HandInv /\ CleanFinal => HandInv'
  <1> SUFFICES ASSUME PairInv, HandInv, CleanFinal
               PROVE  HandInv'
    OBVIOUS
  <1>0. /\ pc = "clean.final" /\ io = "idle" /\ pc \in CleanSites \ {"clean.preflight"}
        /\ pc \in Settled
    BY DEF CleanFinal, At, CleanSites, Settled
  <1>1. CASE Exit /\ UNCHANGED <<disk, bounds>>
    BY <1>0, <1>1, LeavingHands DEF LeaveStep, disk, bounds
  <1>2. CASE /\ ~failed /\ ~preserve /\ mem' = [mem EXCEPT !.phase = "complete"]
             /\ Persist("clean.remove") /\ Quiet
    <2>1. NoForeign /\ mem.phase \in {"cleaning", "complete"}
      BY <1>0, <1>2 DEF HandInv, EmptyOK
    <2>2. mem' \in Journal /\ mem'.ext = mem.ext /\ mem'.phase = "complete"
      BY <1>2, Grounded, MemIs DEF Journal
    <2>3. ~Committed(mem) /\ Written(mem')
      BY <2>1, <2>2 DEF Committed, Written
    <2>4. pc' \in CleanSites \ {"clean.preflight", "clean.final"} /\ io' = "write"
      BY <1>2 DEF Persist, CleanSites
    <2> QED  BY <1>0, <1>2, <2>1, <2>2, <2>3, <2>4, MarkHands
  <1> QED  BY <1>1, <1>2 DEF CleanFinal
--------------------------------------------------------------------------------
(* The invariant of level 2 *)

LEMMA HandInitially == Init => HandInv
  <1> SUFFICES ASSUME Init
               PROVE  HandInv
    OBVIOUS
  <1>1. /\ journal = NoJournal /\ pending = NoJournal /\ pc = "idle" /\ io = "idle"
    BY DEF Init
  <1>2. NoForeign
    <2>1. PICK pair \in BOOLEAN :
            files = [r \in Roles |-> [s \in Places |->
                       IF pair /\ s = "final"
                         THEN IF r = "primary" THEN Image(1) ELSE Sums(1) ELSE NoFile]]
      BY DEF Init
    <2> QED  BY <2>1 DEF NoForeign, Candidate, Places
  <1>3. pc \notin Loaded /\ pc \notin Unnamed /\ pc \notin Settled /\ pc \notin BodySites
        /\ pc \notin CleanSites
    BY <1>1, SitesAre
  <1> USE <1>1, <1>2, <1>3, NotWritten, NothingIs
  <1>4. JournalsOK /\ SyncOK /\ FollowOK
    BY DEF JournalsOK, SyncOK, FollowOK
  <1>5. DiskOK /\ AheadOK /\ EmptyOK
    BY DEF DiskOK, Describes, AheadOK, EmptyOK, Unnamed
  <1> QED  BY <1>4, <1>5 DEF HandInv

LEMMA HandInductive == PairInv /\ HandInv /\ [Next]_vars => HandInv'
  <1> SUFFICES ASSUME PairInv, HandInv, [Next]_vars
               PROVE  HandInv'
    OBVIOUS
  <1>1. ASSUME NEW k \in Kinds, Start(k)
        PROVE  HandInv'
    BY <1>1, StartHands
  <1>2. CASE EnterReconcile \/ EnterLoad \/ EnterRefused \/ EnterExternal \/ Body
    <2>1. CASE EnterRefused
      BY <2>1, RaiseHands DEF EnterRefused, At
    <2> QED  BY <1>2, <2>1, EnterReconcileHands, EnterLoadHands, EnterExternalHands, BodyHands
  <1>3. CASE Build
    BY <1>3, BuildBeginHands, BuildCreateHands, BuildRecordHands, StagesHand, WritesHand,
       RecordSealHands DEF Build
  <1>4. CASE Publish
    BY <1>4, RecordDigestHands, CreateEvidenceHands, RecordEvidenceHands, WriteEvidenceHands,
       ViewsHand, PublishPhaseHands, PublishNextHands, BodyHands, PublishActHands,
       PublishBumpHands DEF Publish
  <1>5. CASE FinishView \/ FinishRoute \/ Acquire \/ OtherWork
    BY <1>5, ViewsHand, BodyHands, AcquireHands
  <1>6. CASE Cleanup
    BY <1>6, CleanPreflightHands, CleanMarkHands, CleanResourcesHands, CleanPreservedHands,
       DiscardPrimaryHands, DiscardHands, CleanFinalHands, RemoveJournalHands DEF Cleanup
  <1>7. CASE WritePending \/ ReplaceJournal \/ Fault \/ Crash
    BY <1>7, WritePendingHands, ReplaceJournalHands, FaultHands
  <1>8. CASE UNCHANGED vars
    <2>1. UNCHANGED <<files, journal, pending, mem, persisted, pc, io, failed, preserve, faults>>
      BY <1>8 DEF vars, disk, session, flags, bounds
    <2>2. JournalsOK' /\ SyncOK' /\ FollowOK' /\ AheadOK'
      BY <2>1 DEF HandInv, JournalsOK, SyncOK, InStep, FollowOK, Followed, AheadOK
    <2>3. DiskOK' /\ EmptyOK'
      BY <2>1 DEF HandInv, DiskOK, Describes, EmptyOK, NoForeign, Candidate
    <2> QED  BY <2>2, <2>3 DEF HandInv
  <1> QED  BY <1>1, <1>2, <1>3, <1>4, <1>5, <1>6, <1>7, <1>8 DEF Next, Step

LEMMA HandAlways == Spec => [](PairInv /\ HandInv)
  <1>1. Init => PairInv /\ HandInv
    BY PairInitially, HandInitially
  <1>2. (PairInv /\ HandInv) /\ [Next]_vars => (PairInv /\ HandInv)'
    BY PairInductive, HandInductive
  <1> QED  BY <1>1, <1>2, PTL DEF Spec

\* What the two invariants say of a moment at which a session ends.
LEMMA HandsOver == PairInv /\ HandInv => SessionsHandOver
  <1> SUFFICES ASSUME PairInv, HandInv
               PROVE  SessionsHandOver
    OBVIOUS
  <1>1. TypeOK /\ ExtOK(journal.ext) /\ ExtOK(pending.ext) /\ ExtOK(mem.ext)
    BY DEF PairInv, RecordsInv
  <1>2. WritesValidRecords
    BY <1>1 DEF WritesValidRecords, ExtOK
  <1>3. JournalResumable
    <2> SUFFICES ASSUME Committed(journal)
                 PROVE  PreflightOK(journal.ext)
      BY DEF JournalResumable
    <2>1. AcceptedIn(files, journal.ext)
      BY DEF HandInv, DiskOK, Describes, Committed, Advanced, CommittedPhases
    <2> QED  BY <1>1, <2>1, AcceptedIs
  <1>4. PendingResumable
    <2> SUFFICES ASSUME faults = 0, Committed(journal), pending \notin {NoJournal, Torn}
                 PROVE  PendingOK(journal, pending) /\ PreflightOK(pending.ext)
      BY DEF PendingResumable
    <2>1. PendingOK(journal, pending) /\ Advanced(pending.ext)
      BY DEF HandInv, JournalsOK, FollowOK, Followed
    <2>2. AcceptedIn(files, pending.ext)
      BY <2>1 DEF HandInv, DiskOK, Describes
    <2> QED  BY <1>1, <2>1, <2>2, AcceptedIs
  <1>5. NoResidue
    BY NothingIs DEF NoResidue, HandInv, EmptyOK
  <1> QED  BY <1>2, <1>3, <1>4, <1>5 DEF SessionsHandOver

\* Wherever a session ends, by a death, an exception or as planned, the next one
\* accepts what it finds: a journal, whole or half replaced, that the validator
\* and the preflight take, the files it names, and no file without a journal.
THEOREM SessionsAlwaysHandOver == Spec => []SessionsHandOver
  BY HandsOver, HandAlways, PTL
================================================================================
