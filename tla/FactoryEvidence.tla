------------------------------ MODULE FactoryEvidence ------------------------------
(***************************************************************************)
(* The evidence a factory grant stands on: plan_complete_rebuild of        *)
(* liveusb/backend/factory_execution.py, with the inspections of           *)
(* preflight.py and the comparison of factory_plan.py, run once to issue a  *)
(* grant and again each time somebody tries to execute it.                 *)
(*                                                                         *)
(* Planning holds no lock of the workspace: every observation is a step,   *)
(* and mount sessions of other commands, their deaths and changes of host  *)
(* files come between.  A runtime probe is one step here (BoundedExecution *)
(* is about its inside), a session is what it leaves in the workspace      *)
(* (MountSession, ChrootTransaction), and one grant is followed            *)
(* (FactoryRecords is about the bundle).                                   *)
(***************************************************************************)
EXTENDS Naturals, Sequences

CONSTANTS
  Required,        \* free space the capacity policy asks for
  MaxFree,         \* bound: free space
  RecordsOnWork,   \* whether the grant's bundle takes space of the workspace
  Residues,        \* what sessions may leave here, a subset of AllResidues
  MaxChanges,      \* bound: changes of host files, and of the free space
  MaxSessions,     \* bound: sessions begun by other commands
  MaxStops         \* bound: plans that raise or die

\* What may be wrong with the two extracted trees, each defect with those before
\* it: some files are not there, so a node of the media profile, so a root.
TreeDefects == {"fileMissing", "nodeMissing", "rootMissing"}
AllResidues == TreeDefects \cup {"mount", "chrootLock", "mountJournal", "chrootJournal", "candidate"}

ASSUME EvidenceAssumption ==
  /\ {Required, MaxFree, MaxChanges, MaxSessions, MaxStops} \subseteq Nat
  /\ RecordsOnWork \in BOOLEAN
  /\ "mountJournal" \in Residues /\ Residues \subseteq AllResidues

VARIABLES
  host,       \* versions of the source, of the tools and of the target's files
              \* (a replaced file has a new ctime), free space, and the
              \* subdirectories of the work root
  residue,    \* what sessions, live or dead, have in the workspace
  session,    \* whether the operation lock is held
  at,         \* where the plan is
  step,       \* the check an inspection does next
  first, second,  \* the findings of the two inspections
  seen,       \* observed once: tools, metadata, kernel, free space
  grant,      \* the payload on disk
  sessions, changes, stops,
  \* History: the source and tools as the second inspection began, then and
  \* for the grant issued; what has been in the workspace all the time since;
  \* whether nobody but the plans has done anything since planning began.
  mark, issued, settled, calm

world   == <<host, residue, session>>
bounds  == <<sessions, changes, stops>>
history == <<mark, issued, settled, calm>>
vars    == <<world, at, step, first, second, seen, grant, bounds, history>>

\* The findings a final-image plan reads, in the order of inspect.
Checks == <<"workspace", "source", "capacity", "mounts", "operationLock", "chrootLock",
            "mountJournal", "chrootJournal", "profile", "publication">>
AllChecks == {Checks[i] : i \in 1..Len(Checks)}
\* _COMMON_FINDINGS and those of the operation; lock.chroot is in neither.
RequiredFindings == AllChecks \ {"chrootLock"}

Finding    == [pass : BOOLEAN, value : Nat]
NoFinding  == [pass |-> FALSE, value |-> 0]
NoFindings == [c \in AllChecks |-> NoFinding]
NoVersions == [source |-> 0, tools |-> 0]
NotSeen    == [tools |-> 0, metadata |-> 0, kernel |-> 0, free |-> 0]
NoGrant    == [token |-> 0, findings |-> NoFindings, seen |-> NotSeen]

Inspections == {"first", "second"}
Places == {"idle", "issued", "consumed", "revoked", "running", "failed"}
Working == {"first", "media", "tools", "metadata", "kernel", "probe", "second", "verifySource",
            "verifyTools", "decide", "granted"}
Executing == grant # NoGrant

Init ==
  /\ host = [source |-> 1, tools |-> 1, target |-> 1, free |-> MaxFree, dirs |-> 0]
  /\ residue = {} /\ session = FALSE
  /\ at = "idle" /\ step = 1
  /\ first = NoFindings /\ second = NoFindings /\ seen = NotSeen /\ grant = NoGrant
  /\ sessions = 0 /\ changes = 0 /\ stops = 0
  /\ mark = NoVersions /\ issued = NoVersions /\ settled = {} /\ calm = TRUE
--------------------------------------------------------------------------------
(* The observations of PreflightEngine.inspect *)

Absent(x) == [pass |-> x \notin residue, value |-> IF x \in residue THEN 1 ELSE 0]

\* _inspect_path of the roots and the layout: both extracted roots are there;
\* the link count of the work root is part of its finding.
WorkspaceFinding == [pass |-> "rootMissing" \notin residue, value |-> host.dirs]
RootsOnly == Absent("rootMissing")  \* faulty: the profile's nodes are not looked for
\* _inspect_legacy_profile looks at nine nodes of the two trees.  That an
\* extraction came to its end is recorded nowhere: no check looks for
\* "fileMissing".
ProfileFinding == Absent("nodeMissing")
\* _inspect_source_iso: identity and digest.
SourceFinding == [pass |-> TRUE, value |-> host.source]
\* _inspect_capacity only measures.
CapacityFinding == [pass |-> TRUE, value |-> host.free]
MountsFinding == Absent("mount")
\* _inspect_lock: an operation lock nobody holds is in order, a chroot lock
\* is not, whether it is held or stale.
LockFinding(c) == IF c = "operationLock"
                  THEN [pass |-> ~session, value |-> IF session THEN 1 ELSE 0]
                  ELSE Absent("chrootLock")
\* _inspect_journal: a journal is a failure or a warning, never a pass.
JournalFinding(c) == Absent(c)
\* _inspect_prior_publication
PublicationFinding == Absent("candidate")

Observed(c) ==
  CASE c = "workspace"   -> WorkspaceFinding
    [] c = "source"      -> SourceFinding
    [] c = "capacity"    -> CapacityFinding
    [] c = "mounts"      -> MountsFinding
    [] c = "profile"     -> ProfileFinding
    [] c = "publication" -> PublicationFinding
    [] c \in {"operationLock", "chrootLock"}    -> LockFinding(c)
    [] c \in {"mountJournal", "chrootJournal"}  -> JournalFinding(c)

Go(place) == at' = place /\ UNCHANGED step

\* What refuses a plan: a required finding of its own inspection that is not in
\* order, or that is not as the first inspection had it.  One the first
\* inspection found out of order is either still so or has changed.
Reason(c, found) ==
  /\ c \in RequiredFindings
  /\ \/ ~found.pass
     \/ at = "second" /\ c # "capacity" /\ found # first[c]

\* One check of the inspection under way, then the next or what follows.
Inspect ==
  /\ at \in Inspections
  /\ LET c == Checks[step]
     IN /\ ~Reason(c, Observed(c))
        /\ IF at = "first" THEN first' = [first EXCEPT ![c] = Observed(c)] /\ UNCHANGED second
                           ELSE second' = [second EXCEPT ![c] = Observed(c)] /\ UNCHANGED first
  /\ IF step < Len(Checks)
       THEN step' = step + 1 /\ UNCHANGED at
       ELSE step' = 1 /\ at' = IF at = "first" THEN "media" ELSE "verifySource"
  /\ UNCHANGED <<world, seen, grant, bounds, history>>

\* A reason refuses the plan whatever the rest of it observes, so it is not
\* followed further.  A grant that cannot be had again is revoked.
Forget == first' = NoFindings /\ second' = NoFindings /\ seen' = NotSeen
Refuse ==
  /\ at' = (IF Executing THEN "revoked" ELSE "idle") /\ step' = 1 /\ Forget
  /\ UNCHANGED <<world, grant, bounds, history>>
InspectRefused ==
  /\ at \in Inspections
  /\ Reason(Checks[step], Observed(Checks[step]))
  /\ Refuse
--------------------------------------------------------------------------------
(* plan_complete_rebuild *)

\* issue_complete_rebuild has found no grant open.
BeginPlan ==
  /\ at = "idle"
  /\ Go("first") /\ calm' = TRUE
  /\ UNCHANGED <<world, first, second, seen, grant, bounds, mark, issued, settled>>
\* execute_issued_rebuild, with the token of the grant.
BeginExecute ==
  /\ at = "issued"
  /\ Go("first")
  /\ UNCHANGED <<world, first, second, seen, grant, bounds, history>>

\* inspect_source_media: the file must still be the one inspected.
Media ==
  /\ at = "media" /\ host.source = first["source"].value
  /\ Go("tools") /\ UNCHANGED <<world, first, second, seen, grant, bounds, history>>
MediaRefused == at = "media" /\ host.source # first["source"].value /\ Refuse

Notes(place, field, value, next) ==
  /\ at = place
  /\ seen' = [seen EXCEPT ![field] = value] /\ Go(next)
  /\ UNCHANGED <<world, first, second, grant, bounds, history>>
\* query_all_versions, _target_metadata and _kernel_state, each read once.
Tools    == Notes("tools", "tools", host.tools, "metadata")
Metadata == Notes("metadata", "metadata", host.target, "kernel")
Kernel   == Notes("kernel", "kernel", host.target, "probe")

BeginSecond ==
  /\ at' = "second" /\ UNCHANGED step
  /\ mark' = [source |-> host.source, tools |-> host.tools]
  /\ settled' = residue \cup (IF session THEN {"session"} ELSE {})
ProbeLeaves ==        \* faulty: the scratch directory is not removed
  /\ at = "probe"
  /\ host' = [host EXCEPT !.dirs = @ + 1]
  /\ BeginSecond
  /\ UNCHANGED <<residue, session, first, second, seen, grant, bounds, issued, calm>>
\* _compression_is_supported makes a directory in the work root and removes
\* it, and FactoryPlanEngine.plan begins with an inspection of its own.
Probe ==
  /\ at = "probe"
  /\ BeginSecond
  /\ UNCHANGED <<world, first, second, seen, grant, bounds, issued, calm>>

\* _verify_source
VerifySource ==
  /\ at = "verifySource" /\ host.source = second["source"].value
  /\ Go("verifyTools") /\ UNCHANGED <<world, first, second, seen, grant, bounds, history>>
SourceRefused ==
  at = "verifySource" /\ host.source # second["source"].value /\ Refuse

CurrentTools == TRUE  \* faulty: the identity before is compared with the one after only
\* _verify_runtime_tool: the identity the query began with is the current one.
ToolsCurrent == host.tools = seen.tools
VerifyTools ==
  /\ at = "verifyTools" /\ ToolsCurrent
  /\ Go("decide") /\ UNCHANGED <<world, first, second, seen, grant, bounds, history>>
ToolsRefused == at = "verifyTools" /\ ~ToolsCurrent /\ Refuse

\* _capacity_decision: the lower of two observations.
Sufficient == host.free >= Required /\ second["capacity"].value >= Required

TokenAnew == IF Executing THEN grant.token + 1 ELSE 1  \* faulty: not that of the grant
\* The session token and the publication nonce.
Token == 1
ToolsByName ==         \* faulty: the tools' identities are not bound
  [token |-> Token, findings |-> [c \in RequiredFindings |-> second[c]],
   seen |-> [seen EXCEPT !.tools = 1]]
\* What a grant binds: evidence_digest, metadata, kernel and the namespaces.
Payload == [token |-> Token, findings |-> [c \in RequiredFindings |-> second[c]], seen |-> seen]

\* statvfs once more; with no reason left the plan grants.
Decide ==
  /\ at = "decide" /\ Sufficient
  /\ seen' = [seen EXCEPT !.free = host.free]
  /\ Go("granted") /\ UNCHANGED <<world, first, second, grant, bounds, history>>
CapacityRefused == at = "decide" /\ ~Sufficient /\ Refuse
--------------------------------------------------------------------------------
(* What becomes of a granted plan *)

\* store.issue: the bundle itself takes space.
Issue ==
  /\ at = "granted" /\ ~Executing
  /\ grant' = Payload /\ issued' = mark
  /\ \/ host' = host
     \/ RecordsOnWork /\ host.free > 0 /\ host' = [host EXCEPT !.free = @ - 1]
  /\ Go("issued") /\ Forget
  /\ UNCHANGED <<residue, session, bounds, mark, settled, calm>>
Consume ==
  /\ at = "granted" /\ Executing /\ grant = Payload
  /\ Go("consumed") /\ Forget
  /\ UNCHANGED <<world, grant, bounds, history>>
Revoke == at = "granted" /\ Executing /\ grant # Payload /\ Refuse

\* The run begins with check_lock; a failure uses the grant up.
StartRun ==
  /\ at = "consumed"
  /\ Go(IF "chrootLock" \in residue THEN "failed" ELSE "running")
  /\ UNCHANGED <<world, first, second, seen, grant, bounds, history>>

\* The plan raises or its process dies: nothing is issued or consumed.  Death
\* within the probe leaves its directory.
Stop ==
  /\ at \in Working /\ stops < MaxStops /\ stops' = stops + 1
  /\ at' = (IF Executing THEN "issued" ELSE "idle") /\ step' = 1 /\ Forget
  /\ \/ host' = host /\ calm' = calm
     \/ /\ at = "probe" /\ host' = [host EXCEPT !.dirs = @ + 1]
        /\ calm' = FALSE
  /\ UNCHANGED <<residue, session, grant, sessions, changes, mark, issued, settled>>

Collect ==
  \/ Inspect \/ InspectRefused \/ BeginPlan \/ BeginExecute \/ Media \/ MediaRefused \/ Tools \/ Metadata \/ Kernel
  \/ Probe \/ VerifySource \/ SourceRefused \/ VerifyTools \/ ToolsRefused \/ Decide
  \/ CapacityRefused \/ Issue \/ Consume \/ Revoke \/ StartRun \/ Stop
--------------------------------------------------------------------------------
(* The host and other commands *)

Others ==
  /\ calm' = FALSE /\ settled' = settled \cap (residue' \cup (IF session' THEN {"session"} ELSE {}))
  /\ UNCHANGED <<at, step, first, second, seen, grant, stops, mark, issued>>

ChangeHost ==
  /\ changes < MaxChanges /\ changes' = changes + 1
  /\ \/ \E file \in {"source", "tools"} : host' = [host EXCEPT ![file] = @ + 1]
     \/ \E free \in 0..MaxFree \ {host.free} : host' = [host EXCEPT !.free = free]
     \/ session /\ host' = [host EXCEPT !.target = @ + 1]
  /\ UNCHANGED <<residue, session, sessions>> /\ Others

SessionBegins ==
  /\ ~session /\ session' = TRUE
  /\ sessions < MaxSessions /\ sessions' = sessions + 1
  /\ UNCHANGED <<host, residue, changes>> /\ Others
\* The mount journal comes first and goes last, except that an extraction of an
\* unusable image purges after it; the chroot journal is inside the chroot lock.
\* An extraction purges both trees under a mount journal and no chroot lock, and
\* makes the roots and then the rest anew.
Adds(x) ==
  /\ session /\ x \in Residues \ residue
  /\ x \notin {"mountJournal", "rootMissing"} => "mountJournal" \in residue
  /\ x = "chrootJournal" => "chrootLock" \in residue
  /\ x \in TreeDefects => "chrootLock" \notin residue
  /\ x = "nodeMissing" => "fileMissing" \in residue
  /\ x = "rootMissing" => "nodeMissing" \in residue
  /\ residue' = residue \cup {x}
  /\ UNCHANGED <<host, session, sessions, changes>> /\ Others
Removes(x) ==
  /\ session /\ x \in residue
  /\ x = "mountJournal" => {"mount", "candidate"} \cap residue = {}
  /\ x = "chrootLock" => "chrootJournal" \notin residue
  /\ x \in TreeDefects => "mountJournal" \in residue /\ "chrootLock" \notin residue
  /\ x = "fileMissing" => "nodeMissing" \notin residue
  /\ x = "nodeMissing" => "rootMissing" \notin residue
  /\ residue' = residue \ {x}
  /\ UNCHANGED <<host, session, sessions, changes>> /\ Others
\* It ends when its journal is gone, even if the cleanup of the chroot
\* transaction or an extraction failed; or it dies.
SessionEnds ==
  /\ session /\ session' = FALSE
  /\ UNCHANGED <<host, residue, sessions, changes>> /\ Others

Next ==
  \/ Collect
  \/ ChangeHost \/ SessionBegins \/ SessionEnds
  \/ \E x \in Residues : Adds(x) \/ Removes(x)

Spec == Init /\ [][Next]_vars
--------------------------------------------------------------------------------
(* Properties *)

TypeOK ==
  /\ host \in [source : Nat, tools : Nat, target : Nat, free : 0..MaxFree, dirs : 0..MaxStops]
  /\ residue \subseteq Residues /\ session \in BOOLEAN
  /\ at \in Places \cup Working /\ step \in 1..Len(Checks)
  /\ first \in [AllChecks -> Finding] /\ second \in [AllChecks -> Finding]
  /\ seen \in [tools : Nat, metadata : Nat, kernel : Nat, free : 0..MaxFree]
  /\ grant = NoGrant \/ (/\ grant.token = 1
                         /\ grant.findings \in [RequiredFindings -> Finding])
  /\ sessions \in 0..MaxSessions /\ changes \in 0..MaxChanges /\ stops \in 0..MaxStops
  /\ mark \in [source : Nat, tools : Nat] /\ issued \in [source : Nat, tools : Nat]
  /\ settled \subseteq Residues \cup {"session"} /\ calm \in BOOLEAN

\* The two inspections make one observation out of many: what a granted plan
\* says of the source and of the tools was so at one instant, however the host
\* changed between the checks (the instant the second inspection began).
EvidenceCoincides ==
  at = "granted" => /\ second["source"].value = mark.source
                    /\ seen.tools = mark.tools

\* A plan is not granted over a session, a mount, a journal, a candidate or a
\* tree without one of its roots or profile nodes that was there the whole time
\* since its second inspection began, in whatever order sessions come, end and die
\* around it.  It may be granted over a chroot lock alone and over a tree
\* whose extraction stopped after the last of those nodes.
NothingOutstanding == at = "granted" => settled \subseteq {"chrootLock", "fileMissing"}

\* Between the second inspection of the plan and that of the execution nobody
\* replaced the source or a tool of a grant that is consumed, however many
\* attempts to execute it stopped half way in between.
UnchangedWhenConsumed == at = "consumed" => mark = issued

\* Planning does not disturb itself: if nobody else does anything from the
\* plan to the execution (and the bundle is on another filesystem), the grant
\* is consumed, also after plans that raised.
UndisturbedNotRevoked == at = "revoked" => ~calm

\* "A changed workspace, mount, lock, journal, publication pair [...] finding
\* refuses authority" (docs/reviews/phase1e-b2a-factory-plan.md:33): a grant is
\* not used up by a run that its first check refuses for a lock left behind
\* before the evidence was collected.
StaleLockRefused == at = "failed" => "chrootLock" \notin settled
================================================================================
