---------------------------- MODULE PairPublication ----------------------------
(***************************************************************************)
(* The external publication of liveusb/backend/mount_session.py, driven by *)
(* liveusb/backend/rebuild.py: an ISO image (the primary) and its checksum *)
(* file (the evidence) replace the previous pair.  Each has a final path,  *)
(* a candidate and a backup in the work directory; the runtime journal     *)
(* says how far the replacement got.  The flock operation.lock leaves one  *)
(* session at a time, so there is one process; it may die between any two  *)
(* system calls.  Other resources of a session (mounts, directories,       *)
(* staged files) are one entry `res` of the journal.                       *)
(***************************************************************************)
EXTENDS Naturals

CONSTANTS
  Kinds,       \* sessions that may start: "build", "finish", "other"
  TornWrites,  \* an interrupted metadata write may leave a part of its file
  MaxBuilds,   \* bound: candidates created
  MaxCrashes,  \* bound: process deaths
  MaxFaults    \* bound: system calls or commands that fail

ASSUME PublicationAssumption ==
  /\ Kinds \subseteq {"build", "finish", "other"}
  /\ TornWrites \in BOOLEAN
  /\ MaxBuilds \in Nat
  /\ MaxCrashes \in Nat
  /\ MaxFaults \in Nat

Roles  == {"primary", "evidence"}
Places == {"final", "candidate", "backup"}

\* A file identity: inode, digest and mode.  An evidence file's node is the
\* number of the image whose digest it states; node 1 is the first pair.
Nodes   == 1..(MaxBuilds + 1)
NoFile  == [node |-> 0, data |-> "none", mode |-> "none"]
File    == [node : Nodes, data : {"empty", "partial", "image", "hybrid", "sums"},
            mode : {"private", "sealed"}] \cup {NoFile}
Empty(n) == [node |-> n, data |-> "empty", mode |-> "private"]
Image(n) == [node |-> n, data |-> "hybrid", mode |-> "sealed"]
Sums(n)  == [node |-> n, data |-> "sums", mode |-> "sealed"]

\* _EXTERNAL_PUBLICATION_ACTIONS: when each role is moved aside, published
\* and its backup dropped.  Action 4 validates the pair.
NumActions    == 7
BackupAction  == [r \in Roles |-> IF r = "primary" THEN 0 ELSE 1]
PublishAction == [r \in Roles |-> IF r = "primary" THEN 2 ELSE 3]
DropAction    == [r \in Roles |-> IF r = "primary" THEN 5 ELSE 6]

PrimaryStages  == {"planned", "created", "building", "generated", "mutating",
                   "hybrid", "seal-planned", "sealed", "removed"}
EvidenceStages == {"planned", "writing", "ready", "removed"}
ExtPhases      == {"building", "sealed", "ready", "publishing", "published",
                   "complete", "discarded"}

Slot(stages) == [stage : stages, id : File, prior : File]
\* pend: the pending action, which is always the one at the index.
ExtRecord == [phase : ExtPhases \cup {"none"}, index : 0..NumActions,
              pend : BOOLEAN, digest : Nodes \cup {0},
              primary : Slot(PrimaryStages), evidence : Slot(EvidenceStages)]

NewSlot(prior) == [stage |-> "planned", id |-> NoFile, prior |-> prior]
NewExt(phase, prior) ==
  [phase |-> phase, index |-> 0, pend |-> FALSE, digest |-> 0,
   primary |-> NewSlot(prior["primary"]), evidence |-> NewSlot(prior["evidence"])]
NoExt == NewExt("none", [r \in Roles |-> NoFile])

Journal   == [phase : {"active", "cleaning", "complete", "none", "torn"},
              res : {"none", "active", "removed"}, ext : ExtRecord]
NoJournal == [phase |-> "none", res |-> "none", ext |-> NoExt]
Torn      == [NoJournal EXCEPT !.phase = "torn"]
Fresh     == [NoJournal EXCEPT !.phase = "active"]

VARIABLES
  files,      \* the six paths in the work directory
  journal,    \* mount-session.json
  pending,    \* the pending journal
  mem,        \* the session's _state
  persisted,  \* the session's _persisted_state
  pc,         \* the session's next step; "idle" between sessions
  io,         \* "write" or "replace" while a journal write is under way
  kind,       \* what the session is for
  after,      \* where a cleanup leads: "end", or "fresh" during recovery
  preserve,   \* _preserve_external
  acked,      \* _external_acknowledged
  failed,     \* the cleanup has recorded a failure
  builds, crashes, faults

disk    == <<files, journal, pending>>
flags   == <<kind, after, preserve, acked, failed>>
session == <<mem, persisted, pc, io, flags>>
bounds  == <<builds, crashes, faults>>
vars    == <<disk, session, bounds>>

Init ==
  /\ \E pair \in BOOLEAN :
       files = [r \in Roles |-> [s \in Places |->
                  IF pair /\ s = "final"
                    THEN IF r = "primary" THEN Image(1) ELSE Sums(1)
                    ELSE NoFile]]
  /\ journal = NoJournal /\ pending = NoJournal
  /\ mem = NoJournal /\ persisted = NoJournal
  /\ pc = "idle" /\ io = "idle"
  /\ kind = "none" /\ after = "end"
  /\ preserve = FALSE /\ acked = FALSE /\ failed = FALSE
  /\ builds = 0 /\ crashes = 0 /\ faults = 0
--------------------------------------------------------------------------------
(* What the journal says the work directory looks like *)

Expected(e, i) ==
  [r \in Roles |->
    [final     |-> IF i <= BackupAction[r] THEN e[r].prior
                   ELSE IF i > PublishAction[r] THEN e[r].id ELSE NoFile,
     candidate |-> IF i <= PublishAction[r] THEN e[r].id ELSE NoFile,
     backup    |-> IF i > BackupAction[r] /\ i <= DropAction[r]
                     THEN e[r].prior ELSE NoFile]]

Layout(e, i) == \A r \in Roles, s \in Places : files[r][s] = Expected(e, i)[r][s]
LayoutButCandidates(e) ==
  \A r \in Roles, s \in Places \ {"candidate"} : files[r][s] = Expected(e, 0)[r][s]

Candidate(r)  == files[r]["candidate"]
SameNode(f, g) == f # NoFile /\ f.node = g.node

PhaseOf(i) == IF i < 4 THEN "publishing"
              ELSE IF i < NumActions THEN "published" ELSE "complete"

\* An action without a prior pair leaves the layout as it was.
NoOp(e) == \E r \in Roles : /\ e.index \in {BackupAction[r], DropAction[r]}
                            /\ e[r].prior = NoFile

\* _reconcile_external_publication
ActionDoneAlways(e) ==        \* faulty: an action that changes nothing is ambiguous
  e.pend /\ e.index # 4 /\ Layout(e, e.index + 1) /\ ~Layout(e, e.index)
ActionDone(e) ==
  /\ e.pend /\ e.index # 4
  /\ Layout(e, e.index + 1)
  /\ ~Layout(e, e.index) \/ NoOp(e)
ActionUndone(e) == /\ Layout(e, e.index)
                   /\ e.pend /\ e.index # 4 => ~Layout(e, e.index + 1)
ReconcileOK(e)  == ActionDone(e) \/ ActionUndone(e)
Reconciled(e) ==
  LET i == IF ActionDone(e) THEN e.index + 1 ELSE e.index IN
  IF e.pend THEN [e EXCEPT !.index = i, !.pend = FALSE, !.phase = PhaseOf(i)] ELSE e

\* _preflight_external, before publication
SealDone(p) == Candidate("primary") = [p.id EXCEPT !.mode = "sealed"]
PrimaryOK(p) ==
  CASE p.stage \in {"planned", "removed"}    -> Candidate("primary") = NoFile
    [] p.stage \in {"building", "mutating"}  -> SameNode(Candidate("primary"), p.id)
    [] p.stage = "seal-planned"              -> Candidate("primary") = p.id \/ SealDone(p)
    [] OTHER                                 -> Candidate("primary") = p.id
EvidenceOK(v) ==
  CASE v.stage \in {"planned", "removed"} -> Candidate("evidence") = NoFile
    [] v.stage = "writing"                -> SameNode(Candidate("evidence"), v.id)
    [] OTHER                              -> Candidate("evidence") = v.id

PreflightOK(e) ==
  CASE e.phase \in {"publishing", "published"} -> ReconcileOK(e)
    [] e.phase = "complete"  -> Layout(e, NumActions)
    [] e.phase = "discarded" -> /\ LayoutButCandidates(e)
                                /\ \A r \in Roles : Candidate(r) = NoFile
    [] e.phase = "none"      -> TRUE
    [] OTHER                 -> /\ e.index = 0 /\ ~e.pend
                                /\ LayoutButCandidates(e)
                                /\ PrimaryOK(e.primary) /\ EvidenceOK(e.evidence)
Preflighted(e) ==
  IF e.phase \in {"publishing", "published"} THEN Reconciled(e)
  ELSE IF e.phase = "building" /\ e.primary.stage = "seal-planned" /\ SealDone(e.primary)
    THEN [e EXCEPT !.primary.id = Candidate("primary"),
                   !.primary.stage = "sealed", !.phase = "sealed"]
  ELSE e

Resumable(e, ack) == \/ e.phase \in {"sealed", "ready", "publishing", "published"}
                     \/ e.phase = "complete" /\ ~ack
--------------------------------------------------------------------------------
(* _validate_external_record: what a journal may say *)

ValidExt(e) ==
  /\ e.primary.stage \notin {"planned", "removed"} => e.primary.id # NoFile
  /\ e.evidence.stage \notin {"planned", "removed"} => e.evidence.id # NoFile
  /\ e.primary.stage = "planned" => e.primary.id = NoFile
  /\ e.evidence.stage = "planned" => e.evidence.id = NoFile
  /\ e.digest # 0 => e.digest = e.primary.id.node
  /\ CASE e.phase = "building" ->
            /\ e.index = 0 /\ ~e.pend /\ e.digest = 0
            /\ e.primary.stage # "sealed" /\ e.evidence.stage \in {"planned", "removed"}
       [] e.phase = "sealed" ->
            /\ e.index = 0 /\ ~e.pend
            /\ e.primary.stage = "sealed" /\ e.evidence.stage \in {"planned", "writing"}
       [] e.phase = "discarded" ->
            /\ e.index = 0 /\ ~e.pend /\ e.digest = 0
            /\ e.primary.stage = "removed" /\ e.evidence.stage = "removed"
       [] e.phase = "none" -> e = NoExt
       [] OTHER ->
            /\ e.digest # 0
            /\ e.primary.stage = "sealed" /\ e.evidence.stage = "ready"
            /\ IF e.phase = "ready" THEN e.index = 0 /\ ~e.pend
                                    ELSE e.phase = PhaseOf(e.index)
            /\ e.phase = "complete" => ~e.pend
--------------------------------------------------------------------------------
(* _validate_pending_transition: which pending journal follows a journal *)

NextPrimary(s) ==
  CASE s = "planned"      -> {"created", "removed"}
    [] s = "created"      -> {"building", "removed"}
    [] s = "building"     -> {"generated", "removed"}
    [] s = "generated"    -> {"mutating", "removed"}
    [] s = "mutating"     -> {"hybrid", "removed"}
    [] s = "hybrid"       -> {"seal-planned", "removed"}
    [] s = "seal-planned" -> {"sealed", "removed"}
    [] OTHER              -> {s}

PrimaryTransition(old, new) ==
  LET p == old.primary  q == new.primary IN
  /\ new = [old EXCEPT !.primary = q, !.phase = new.phase]
  /\ q.stage \in NextPrimary(p.stage)
  /\ CASE q.stage = "created"                -> q.id # NoFile
       [] q.stage \in {"generated", "hybrid"} -> SameNode(p.id, q.id)
       [] p.stage = "seal-planned" /\ q.stage = "sealed" ->
            q.id = [p.id EXCEPT !.mode = "sealed"]
       [] OTHER                              -> q.id = p.id
  /\ new.phase = IF q.stage = "sealed" THEN "sealed" ELSE old.phase

EvidenceTransition(old, new) ==
  LET v == old.evidence  w == new.evidence IN
  /\ new = [old EXCEPT !.evidence = w, !.phase = new.phase]
  /\ \/ /\ v.stage = "planned" /\ w.stage = "writing" /\ w.id # NoFile
        /\ old.phase = "sealed" /\ new.phase = "sealed"
     \/ /\ v.stage = "writing" /\ w.stage = "ready" /\ SameNode(v.id, w.id)
        /\ old.phase = "sealed" /\ new.phase = "ready"
     \/ /\ v.stage = "writing" /\ w.stage = "planned" /\ w.id = NoFile
        /\ old.phase = "sealed" /\ new.phase = "sealed"
     \/ /\ v.stage \in {"planned", "writing"} /\ w.stage = "removed"
        /\ w.id = v.id /\ new.phase = old.phase

DigestTransition(old, new) ==
  /\ old.phase = "sealed" /\ old.digest = 0 /\ new.digest # 0
  /\ new = [old EXCEPT !.digest = new.digest]

PublicationTransition(old, new) ==
  /\ new = [old EXCEPT !.phase = new.phase, !.index = new.index, !.pend = new.pend]
  /\ \/ /\ old.phase = "ready" /\ new.phase = "publishing"
        /\ new.index = 0 /\ ~new.pend
     \/ /\ new.index = old.index /\ new.phase = old.phase /\ new.pend # old.pend
     \/ /\ new.index = old.index + 1 /\ old.pend /\ ~new.pend
        /\ new.phase = PhaseOf(new.index)

\* Exactly one slot becomes removed, or, with both removed, the phase changes.
DiscardTransition(old, new) ==
  /\ old.phase = "building"
  /\ \/ \E r \in Roles : /\ new[r].stage = "removed" /\ old[r] # new[r]
                         /\ new = [old EXCEPT ![r].stage = "removed"]
     \/ /\ new = [old EXCEPT !.phase = "discarded"]
        /\ \A r \in Roles : new[r].stage = "removed"

ExtTransition(old, new) ==
  \/ new = old
  \/ old = NoExt /\ new = NewExt("building", [r \in Roles |-> new[r].prior])
  \/ /\ old # NoExt
     /\ \/ PrimaryTransition(old, new)
        \/ EvidenceTransition(old, new)
        \/ DigestTransition(old, new)
        \/ PublicationTransition(old, new)
        \/ DiscardTransition(old, new)

NextSessionPhase(s) == CASE s = "active"   -> {"active", "cleaning"}
                         [] s = "cleaning" -> {"cleaning", "complete"}
                         [] OTHER          -> {}

PendingOK(old, new) ==
  IF old = NoJournal THEN new = Fresh
  ELSE /\ new.phase \in NextSessionPhase(old.phase)
       /\ old.res # new.res => \/ old.res = "active" /\ new.res = "removed"
                               \/ old.res # "active" /\ new = [old EXCEPT !.res = "active"]
       /\ ExtTransition(old.ext, new.ext)
       /\ old.ext = NoExt /\ new.ext # NoExt => new.phase = old.phase
--------------------------------------------------------------------------------
(* Control of the session *)

Goto(s)    == pc' = s /\ io' = "idle"
Persist(s) == pc' = s /\ io' = "write"
PutExt(e)  == mem' = [mem EXCEPT !.ext = e]
At(s)      == pc = s /\ io = "idle"

\* The lock is released and the instance forgotten.
Exit ==
  /\ pc' = "idle" /\ io' = "idle"
  /\ mem' = NoJournal /\ persisted' = NoJournal
  /\ kind' = "none" /\ after' = "end"
  /\ preserve' = FALSE /\ acked' = FALSE /\ failed' = FALSE

EnterSites == {"enter.pending", "enter.load", "enter.external", "body"}
CleanSites == {"clean.preflight", "clean.mark", "clean.res", "clean.ext",
               "clean.final", "clean.remove"}
BuildSites == {"build.begin", "build.create", "build.record", "build.write",
               "build.generate", "build.generating", "build.generated", "build.mutate",
               "build.mutating", "build.hybrid", "build.mutated", "build.seal",
               "build.chmod", "build.sealed"}
PublishSites == {"publish.digest", "publish.evidence", "publish.record",
                 "publish.payload", "publish.chmod", "publish.ready", "publish.start",
                 "publish.phase", "publish.next", "publish.act", "publish.bump"}
Sites == {"idle", "finish.view", "finish.route", "other.acquire", "other.work"}
           \cup EnterSites \cup CleanSites \cup BuildSites \cup PublishSites

Keep == UNCHANGED <<mem, persisted, kind, after, preserve, acked>>
\* An exception: out of __enter__ or of the cleanup's own bookkeeping it ends
\* the session; one resource's cleanup is recorded and the next one follows;
\* in the body it leads to the cleanup of __exit__.
RaiseFrom(s) ==
  CASE s \in EnterSites \cup {"clean.preflight", "clean.mark", "clean.final", "clean.remove"} -> Exit
    [] s = "clean.res" -> Goto("clean.ext") /\ failed' = TRUE /\ Keep
    [] s = "clean.ext" -> Goto("clean.final") /\ failed' = TRUE /\ Keep
    [] OTHER           -> Goto("clean.preflight") /\ failed' = FALSE /\ Keep
Raise == RaiseFrom(pc) /\ UNCHANGED <<disk, bounds>>

\* One step of the session that only computes or changes the record.
Quiet == UNCHANGED <<disk, persisted, flags, bounds>>
--------------------------------------------------------------------------------
(* __enter__: reconcile the pending journal, recover the existing one *)

Start(k) ==
  /\ pc = "idle"
  /\ k = "build" => builds < MaxBuilds
  /\ pc' = "enter.pending" /\ kind' = k
  /\ UNCHANGED <<disk, bounds, mem, persisted, io, after, preserve, acked, failed>>

EnterReconcile ==
  /\ At("enter.pending")
  /\ \/ /\ pending = NoJournal
        /\ Goto("enter.load") /\ UNCHANGED <<disk, mem, persisted, flags, bounds>>
     \/ /\ pending \notin {NoJournal, Torn} /\ PendingOK(journal, pending)
        /\ journal' = pending /\ pending' = NoJournal
        /\ Goto("enter.load") /\ UNCHANGED <<files, mem, persisted, flags, bounds>>
     \/ /\ pending = Torn \/ (pending # NoJournal /\ ~PendingOK(journal, pending))
        /\ Raise

\* _initialize_journal, or _load_existing_journal and the external preflight.
EnterLoad ==
  /\ At("enter.load")
  /\ UNCHANGED <<disk, bounds, kind, preserve, acked, failed>>
  /\ \/ /\ journal = NoJournal
        /\ mem' = Fresh /\ persisted' = NoJournal
        /\ Persist("body") /\ UNCHANGED after
     \/ /\ journal # NoJournal
        /\ persisted' = journal /\ after' = "fresh"
        /\ mem' = [journal EXCEPT !.ext = Preflighted(journal.ext)]
        /\ IF journal.ext = NoExt THEN Goto("clean.preflight")
           ELSE /\ PreflightOK(journal.ext)
                /\ IF mem' = journal THEN Goto("enter.external")
                                     ELSE Persist("enter.external")
EnterRefused ==
  /\ At("enter.load") /\ journal # NoJournal /\ ~PreflightOK(journal.ext)
  /\ Raise

\* A partial evidence file is removed before the publication is taken up.
DropPartialEvidence(s) ==
  /\ files' = [files EXCEPT !["evidence"]["candidate"] = NoFile]
  /\ PutExt([mem.ext EXCEPT !.evidence.stage = "planned", !.evidence.id = NoFile])
  /\ Persist(s)
  /\ UNCHANGED <<journal, pending, persisted, bounds>>

Blocked == mem.res # "none"
EnterExternal ==
  /\ At("enter.external")
  /\ \/ /\ ~Resumable(mem.ext, FALSE)
        /\ Goto("clean.preflight") /\ UNCHANGED mem /\ Quiet
     \/ Resumable(mem.ext, FALSE) /\ Blocked /\ Raise
     \/ /\ Resumable(mem.ext, FALSE) /\ ~Blocked
        /\ after' = "end" /\ preserve' = TRUE
        /\ UNCHANGED <<kind, acked, failed>>
        /\ IF mem.ext.evidence.stage = "writing" THEN DropPartialEvidence("body")
           ELSE Goto("body") /\ UNCHANGED <<disk, mem, persisted, bounds>>

HasPublicationEarly ==        \* faulty: not once the renames have begun
  mem.ext.phase \in {"building", "sealed", "ready"}
HasPublication == mem.ext.phase \notin {"none", "discarded"}
Body ==
  /\ At("body") /\ UNCHANGED mem /\ Quiet
  /\ Goto(CASE kind = "build"  -> "build.begin"
            [] kind = "finish" -> IF HasPublication THEN "finish.view" ELSE "clean.preflight"
            [] kind = "other"  -> "other.acquire")
--------------------------------------------------------------------------------
(* _build_locked_final_image_steps *)

PriorPair == [r \in Roles |-> files[r]["final"]]
NoForeign == \A r \in Roles : Candidate(r) = NoFile /\ files[r]["backup"] = NoFile
ValidPair == \/ \A r \in Roles : PriorPair[r] = NoFile
             \/ \E n \in Nodes : PriorPair["primary"] = Image(n) /\ PriorPair["evidence"] = Sums(n)

\* With a resumed publication the first write of the primary is refused.
BuildBegin ==
  /\ At("build.begin")
  /\ \/ /\ ~HasPublication /\ NoForeign /\ ValidPair
        /\ PutExt(NewExt("building", PriorPair))
        /\ Persist("build.create") /\ Quiet
     \/ /\ HasPublication \/ ~NoForeign \/ ~ValidPair
        /\ Raise

BuildCreate ==
  /\ At("build.create") /\ Candidate("primary") = NoFile
  /\ builds' = builds + 1
  /\ files' = [files EXCEPT !["primary"]["candidate"] = Empty(builds + 2)]
  /\ Goto("build.record")
  /\ UNCHANGED <<journal, pending, mem, persisted, flags, crashes, faults>>

\* The record takes the next stage and the identity the file has now.
Stage(site, from, to, next) ==
  /\ At(site) /\ mem.ext.primary.stage = from
  /\ SameNode(Candidate("primary"), mem.ext.primary.id)
  /\ PutExt([mem.ext EXCEPT !.primary.stage = to, !.primary.id = Candidate("primary")])
  /\ Persist(next) /\ Quiet

\* A command or fchmod writes the candidate.
Write(site, data, mode, next) ==
  /\ At(site)
  /\ files' = [files EXCEPT !["primary"]["candidate"].data = data,
                            !["primary"]["candidate"].mode = mode]
  /\ Goto(next)
  /\ UNCHANGED <<journal, pending, mem, persisted, flags, bounds>>

BuildRecord ==
  /\ At("build.record")
  /\ PutExt([mem.ext EXCEPT !.primary.stage = "created", !.primary.id = Candidate("primary")])
  /\ Persist("build.write") /\ Quiet
BeginWrite     == Stage("build.write", "created", "building", "build.generate")
GenerateSome   == Write("build.generate", "partial", "private", "build.generating")
GenerateRest   == Write("build.generating", "image", "private", "build.generated")
FinishWrite    == Stage("build.generated", "building", "generated", "build.mutate")
BeginMutation  == Stage("build.mutate", "generated", "mutating", "build.mutating")
MutateSome     == Write("build.mutating", "partial", "private", "build.hybrid")
MutateRest     == Write("build.hybrid", "hybrid", "private", "build.mutated")
FinishMutation == Stage("build.mutated", "mutating", "hybrid", "build.seal")
PlanSeal       == Stage("build.seal", "hybrid", "seal-planned", "build.chmod")
Seal           == Write("build.chmod", "hybrid", "sealed", "build.sealed")
RecordSeal ==
  /\ At("build.sealed")
  /\ PutExt([mem.ext EXCEPT !.primary.stage = "sealed", !.phase = "sealed",
                            !.primary.id = Candidate("primary")])
  /\ Persist("publish.digest") /\ Quiet

Build == \/ BuildBegin \/ BuildCreate \/ BuildRecord \/ BeginWrite
         \/ GenerateSome \/ GenerateRest \/ FinishWrite
         \/ BeginMutation \/ MutateSome \/ MutateRest \/ FinishMutation
         \/ PlanSeal \/ Seal \/ RecordSeal
--------------------------------------------------------------------------------
(* Digest, evidence, publication *)

RecordDigest ==
  /\ At("publish.digest")
  /\ mem.ext.phase = "sealed" /\ Candidate("primary") = mem.ext.primary.id
  /\ PutExt([mem.ext EXCEPT !.digest = mem.ext.primary.id.node])
  /\ Persist("publish.evidence") /\ Quiet

CreateEvidence ==
  /\ At("publish.evidence")
  /\ mem.ext.phase = "sealed" /\ mem.ext.evidence.stage = "planned"
  /\ Candidate("evidence") = NoFile
  /\ files' = [files EXCEPT !["evidence"]["candidate"] = Empty(mem.ext.digest)]
  /\ Goto("publish.record")
  /\ UNCHANGED <<journal, pending, mem, persisted, flags, bounds>>
RecordEvidence ==
  /\ At("publish.record")
  /\ PutExt([mem.ext EXCEPT !.evidence.stage = "writing",
                            !.evidence.id = Candidate("evidence")])
  /\ Persist("publish.payload") /\ Quiet
WriteEvidence(site, file, next) ==
  /\ At(site)
  /\ files' = [files EXCEPT !["evidence"]["candidate"] = file]
  /\ Goto(next)
  /\ UNCHANGED <<journal, pending, mem, persisted, flags, bounds>>
WriteSome == WriteEvidence("publish.payload",
               [Empty(mem.ext.digest) EXCEPT !.data = "partial"], "publish.chmod")
WriteRest == WriteEvidence("publish.chmod", Sums(mem.ext.digest), "publish.ready")
EvidenceSealed ==             \* faulty: the stage of the other role
  /\ At("publish.ready")
  /\ PutExt([mem.ext EXCEPT !.evidence.stage = "sealed", !.phase = "ready",
                            !.evidence.id = Candidate("evidence")])
  /\ Persist("publish.start") /\ Quiet
EvidenceReady ==
  /\ At("publish.ready")
  /\ PutExt([mem.ext EXCEPT !.evidence.stage = "ready", !.phase = "ready",
                            !.evidence.id = Candidate("evidence")])
  /\ Persist("publish.start") /\ Quiet

\* A preflight in the body: the record may change and is then persisted.
View(site, next) ==
  /\ At(site)
  /\ PreflightOK(mem.ext)
  /\ PutExt(Preflighted(mem.ext))
  /\ IF mem' = mem THEN Goto(next) ELSE Persist(next)
  /\ Quiet

PublishStart == View("publish.start", "publish.phase")
PublishPhase ==
  /\ At("publish.phase")
  /\ \/ /\ mem.ext.phase = "ready"
        /\ PutExt([mem.ext EXCEPT !.phase = "publishing"])
        /\ Persist("publish.next") /\ Quiet
     \/ /\ mem.ext.phase \in {"publishing", "published"}
        /\ UNCHANGED mem /\ Goto("publish.next") /\ Quiet

PublishNext ==
  /\ At("publish.next") /\ mem.ext.index < NumActions
  /\ PutExt([mem.ext EXCEPT !.pend = TRUE])
  /\ Persist("publish.act") /\ Quiet
Acknowledge ==
  /\ acked' = TRUE /\ Goto("clean.preflight")
  /\ UNCHANGED <<disk, mem, persisted, kind, after, preserve, failed, bounds>>
PublishEnd == At("publish.next") /\ mem.ext.index = NumActions /\ Acknowledge

\* _perform_external_publication_action: one rename or unlink.
Moved(r, from, to) == [files EXCEPT ![r][to] = files[r][from], ![r][from] = NoFile]
ActedInPlace(r, i) ==         \* faulty: the candidate replaces the prior file
  CASE i = BackupAction[r]  -> Moved(r, "candidate", "final")
    [] i = PublishAction[r] -> files
    [] i = DropAction[r]    -> [files EXCEPT ![r]["backup"] = NoFile]
ActedUnlink(r, i) ==          \* faulty: the prior file is removed, not moved aside
  CASE i = BackupAction[r]  -> [files EXCEPT ![r]["final"] = NoFile]
    [] i = PublishAction[r] -> Moved(r, "candidate", "final")
    [] i = DropAction[r]    -> [files EXCEPT ![r]["backup"] = NoFile]
Acted(r, i) ==
  CASE i = BackupAction[r]  -> Moved(r, "final", "backup")
    [] i = PublishAction[r] -> Moved(r, "candidate", "final")
    [] i = DropAction[r]    -> [files EXCEPT ![r]["backup"] = NoFile]
PublishAct ==
  /\ At("publish.act") /\ Layout(mem.ext, mem.ext.index)
  /\ \/ /\ mem.ext.index = 4
        /\ ValidPair /\ UNCHANGED files
     \/ \E r \in Roles :
          /\ mem.ext.index \in {BackupAction[r], PublishAction[r], DropAction[r]}
          /\ files' = Acted(r, mem.ext.index)
  /\ Goto("publish.bump")
  /\ UNCHANGED <<journal, pending, mem, persisted, flags, bounds>>
PublishBump ==
  /\ At("publish.bump") /\ Layout(mem.ext, mem.ext.index + 1)
  /\ PutExt([mem.ext EXCEPT !.index = @ + 1, !.pend = FALSE,
                            !.phase = PhaseOf(mem.ext.index + 1)])
  /\ Persist("publish.next") /\ Quiet

Publish == \/ RecordDigest \/ CreateEvidence \/ RecordEvidence
           \/ WriteSome \/ WriteRest \/ EvidenceReady
           \/ PublishStart \/ PublishPhase \/ PublishNext \/ PublishEnd
           \/ PublishAct \/ PublishBump

\* _finish_external_publication
FinishView == View("finish.view", "finish.route")
FinishRoute ==
  /\ At("finish.route")
  /\ \/ mem.ext.phase = "complete" /\ ValidPair /\ Acknowledge
     \/ /\ mem.ext.phase # "complete"
        /\ Goto(CASE mem.ext.phase = "sealed" /\ mem.ext.digest = 0 -> "publish.digest"
                  [] mem.ext.phase = "sealed" /\ mem.ext.digest # 0 -> "publish.evidence"
                  [] OTHER -> "publish.start")
        /\ UNCHANGED mem /\ Quiet

\* stage_file, mount_sys, mount_iso, allow_local_x_access: a resource of the session.
Acquire == /\ At("other.acquire")
           /\ mem' = [mem EXCEPT !.res = "active"] /\ Persist("other.work") /\ Quiet
OtherWork == At("other.work") /\ UNCHANGED mem /\ Goto("clean.preflight") /\ Quiet
--------------------------------------------------------------------------------
(* cleanup *)

CleanPreflight ==
  /\ At("clean.preflight")
  /\ \/ /\ PreflightOK(mem.ext)
        /\ PutExt(Preflighted(mem.ext))
        /\ preserve' = Resumable(mem'.ext, acked)
        /\ IF mem' = mem THEN Goto("clean.mark") ELSE Persist("clean.mark")
        /\ UNCHANGED <<disk, persisted, kind, after, acked, failed, bounds>>
     \/ ~PreflightOK(mem.ext) /\ Raise

CleanMark ==
  /\ At("clean.mark") /\ Quiet
  /\ IF preserve \/ mem.phase = "cleaning"
       THEN UNCHANGED mem /\ Goto("clean.res")
       ELSE mem' = [mem EXCEPT !.phase = "cleaning"] /\ Persist("clean.mark")

CleanResources ==
  /\ At("clean.res") /\ Quiet
  /\ IF mem.res = "active"
       THEN mem' = [mem EXCEPT !.res = "removed"] /\ Persist("clean.res")
       ELSE UNCHANGED mem /\ Goto("clean.ext")

\* _cleanup_external
CleanPreserved ==
  /\ At("clean.ext") /\ preserve
  /\ IF mem.ext.evidence.stage = "writing"
       THEN DropPartialEvidence("clean.final") /\ UNCHANGED flags
       ELSE Goto("clean.final") /\ UNCHANGED mem /\ Quiet
CleanSettled ==
  /\ At("clean.ext") /\ ~preserve /\ mem.ext.phase \in {"none", "complete", "discarded"}
  /\ Goto("clean.final") /\ UNCHANGED mem /\ Quiet
Discarding == At("clean.ext") /\ ~preserve /\ mem.ext.phase = "building"
Removed(e) == [e EXCEPT !.evidence.stage = "removed", !.primary.stage = "removed"]
DiscardPrimary ==
  /\ Discarding /\ mem.ext.primary.stage \notin {"planned", "removed"}
  /\ Candidate("primary") # NoFile
  /\ files' = [files EXCEPT !["primary"]["candidate"] = NoFile]
  /\ PutExt(Removed(mem.ext)) /\ Persist("clean.ext")
  /\ UNCHANGED <<journal, pending, persisted, flags, bounds>>
Discard ==
  /\ Discarding /\ mem.ext.primary.stage \in {"planned", "removed"}
  /\ PutExt([Removed(mem.ext) EXCEPT !.phase = "discarded"])
  /\ Persist("clean.final") /\ Quiet

CleanFinal ==
  /\ At("clean.final")
  /\ IF failed \/ preserve THEN Exit /\ UNCHANGED <<disk, bounds>>
     ELSE mem' = [mem EXCEPT !.phase = "complete"] /\ Persist("clean.remove") /\ Quiet

\* _remove_journal; a recovery goes on to _initialize_journal.
RemoveJournal ==
  /\ At("clean.remove") /\ pending = NoJournal
  /\ journal' = NoJournal
  /\ UNCHANGED <<files, pending, bounds>>
  /\ IF after = "end" THEN Exit
     ELSE /\ mem' = Fresh /\ persisted' = NoJournal /\ Persist("body")
          /\ after' = "end" /\ preserve' = FALSE /\ acked' = FALSE
          /\ UNCHANGED <<kind, failed>>

Cleanup == \/ CleanPreflight \/ CleanMark \/ CleanResources
           \/ CleanPreserved \/ CleanSettled
           \/ DiscardPrimary \/ Discard \/ CleanFinal \/ RemoveJournal
--------------------------------------------------------------------------------
(* _persist_journal *)

PersistOK == pending = NoJournal /\ journal = persisted /\ ValidExt(mem.ext)
WritePending ==
  /\ io = "write"
  /\ \/ /\ PersistOK
        /\ pending' = mem /\ io' = "replace"
        /\ UNCHANGED <<files, journal, mem, persisted, pc, flags, bounds>>
     \/ ~PersistOK /\ Raise
ReplaceJournal ==
  /\ io = "replace"
  /\ journal' = pending /\ pending' = NoJournal /\ persisted' = mem
  /\ io' = "idle"
  /\ UNCHANGED <<files, mem, pc, flags, bounds>>
--------------------------------------------------------------------------------
(* Failures *)

\* A system call or a command raises: before any effect, with a part of the
\* pending journal written, or in the fsync after the replace.
Fault ==
  /\ pc # "idle" /\ faults < MaxFaults /\ faults' = faults + 1
  /\ UNCHANGED <<files, builds, crashes>>
  /\ RaiseFrom(pc)
  /\ \/ UNCHANGED <<journal, pending>>
     \/ /\ io = "write" /\ PersistOK /\ TornWrites
        /\ pending' = Torn /\ UNCHANGED journal
     \/ /\ io = "replace"
        /\ journal' = pending /\ pending' = NoJournal

Crash ==
  /\ pc # "idle" /\ crashes < MaxCrashes /\ crashes' = crashes + 1
  /\ Exit
  /\ UNCHANGED <<files, journal, builds, faults>>
  /\ \/ UNCHANGED pending
     \/ io = "write" /\ PersistOK /\ TornWrites /\ pending' = Torn

Step == \/ EnterReconcile \/ EnterLoad \/ EnterRefused \/ EnterExternal \/ Body
        \/ Build \/ Publish \/ FinishView \/ FinishRoute \/ Acquire \/ OtherWork
        \/ Cleanup \/ WritePending \/ ReplaceJournal
Next == (\E k \in Kinds : Start(k)) \/ Step \/ Fault \/ Crash

Spec == Init /\ [][Next]_vars
\* A live process runs, and an operator rebuilds or recovers again.
FairSpec == Spec /\ WF_vars(Step) /\ SF_vars(Start("finish"))
--------------------------------------------------------------------------------
(* Properties *)

\* Every variable keeps its type.
TypeOK ==
  /\ files \in [Roles -> [Places -> File]]
  /\ {journal, pending, mem, persisted} \subseteq Journal
  /\ pc \in Sites /\ io \in {"idle", "write", "replace"}
  /\ kind \in {"none", "build", "finish", "other"} /\ after \in {"end", "fresh"}
  /\ {preserve, acked, failed} \subseteq BOOLEAN
  /\ builds \in 0..MaxBuilds /\ crashes \in 0..MaxCrashes /\ faults \in 0..MaxFaults

\* A reader of the final paths never finds an image with the checksum of
\* another one, nor one that is not whole, whatever was interrupted.
FinalsMatch ==
  (\A r \in Roles : files[r]["final"] # NoFile) =>
    \E n \in Nodes : files["primary"]["final"] = Image(n) /\ files["evidence"]["final"] = Sums(n)

\* A pair is stored while both its files are at their final or backup paths.
Stored == {n \in Nodes : /\ \E s \in {"final", "backup"} : files["primary"][s] = Image(n)
                         /\ \E s \in {"final", "backup"} : files["evidence"][s] = Sums(n)}
\* The previous pair is given up only when a newer one is at the final paths.
PairSurvives ==
  [][\A n \in Stored : n \notin Stored' =>
       \E m \in Stored' : m > n /\ files'["primary"]["final"] = Image(m)
                                /\ files'["evidence"]["final"] = Sums(m)]_vars

\* Without a journal there is no candidate and no backup: every file in the
\* namespace is named by the journal first and gone before it is removed.
NoResidue == journal = NoJournal /\ pending = NoJournal => NoForeign

Committed(j) == /\ j.phase = "active" /\ j.res = "none"
                /\ j.ext.phase \in {"ready", "publishing", "published", "complete"}
\* From the moment both candidates are ready, a session that ends anywhere
\* leaves a journal and a directory that the next one accepts ...
JournalResumable ==
  pc = "idle" /\ Committed(journal) /\ pending = NoJournal => PreflightOK(journal.ext)
\* ... and, when it died in a journal write and no call failed, the pending
\* journal as well.
PendingResumable ==
  /\ pc = "idle" /\ faults = 0 /\ Committed(journal) /\ pending \notin {NoJournal, Torn}
  => PendingOK(journal, pending) /\ PreflightOK(pending.ext)

\* A pair whose candidates are ready is published in the end, unless a pending
\* journal that no session accepts or another session's resources are in the way.
Published(n) == /\ files["primary"]["final"] = Image(n)
                /\ files["evidence"]["final"] = Sums(n)
                /\ journal.ext.phase \in {"complete", "none"}
Obstructed == \/ pending = Torn
              \/ pending # NoJournal /\ ~PendingOK(journal, pending)
              \/ journal.res # "none"
ReadyPublishes ==
  \A n \in Nodes : Committed(journal) /\ journal.ext.digest = n ~> Published(n) \/ Obstructed

\* The session never tries to write a record that its own validator refuses.
WritesValidRecords == io # "idle" => ValidExt(mem.ext)

\* Wherever a session ends, the next one can go on from what it finds: records
\* that are valid, whole or half replaced, the files they tell of, and no other.
SessionsHandOver ==
  WritesValidRecords /\ JournalResumable /\ PendingResumable /\ NoResidue
================================================================================
