------------------------------ MODULE MountSession ------------------------------
(* The mount session: mounts, directories, a staged file and host X access,  *)
(* each recorded in the journal before it is made and until it is gone.      *)
(* One process: the flock on operation.lock leaves one session at a time.    *)
(* The publication record of the same journal is PairPublication's.          *)
EXTENDS Naturals, Sequences, FiniteSets

CONSTANTS
  NumRequests,  \* mount requests of a session, in the order they are made
  Recursive,    \* the requests that bind a tree with one nested mount
  Missing,      \* places whose directory the session has to create; 0 is tmp
  Kinds,        \* "hook" stages a file and grants X, "shell" mounts, "clean" recovers
  TornWrites,   \* a pending journal may be left incomplete
  MaxCrashes, MaxFaults, MaxHost,
  MaxTrouble    \* crashes, faults and changes by the host together

Requests == 1..NumRequests
Places   == 0..NumRequests

ASSUME ConstantsAssumption ==
  /\ NumRequests \in Nat \ {0}
  /\ Recursive \subseteq Requests /\ Missing \subseteq Places
  /\ Kinds \subseteq {"hook", "shell", "clean"}
  /\ TornWrites \in BOOLEAN
  /\ MaxCrashes \in Nat /\ MaxFaults \in Nat /\ MaxHost \in Nat /\ MaxTrouble \in Nat

VARIABLES
  table,      \* the kernel's mounts at the destinations
  dirs,       \* where the directory of each place is
  file,       \* the staged file in FileSystem/tmp
  xs,         \* host X access: "granted" is "present" put there by a session
  journal,    \* mount-session.json
  pending,    \* its pending successor
  mem,        \* _state
  persisted,  \* _persisted_state
  pc,         \* the next piece of code
  io,         \* progress of _persist_journal
  kind,       \* what the session is for
  after,      \* "fresh" while an old journal is recovered (_recovering)
  todo,       \* owned mounts cleanup has still to visit
  cur,        \* the place whose directory cleanup visits, plus one
  snap,       \* mount table read before umount(8)
  ok,         \* what the last command returned
  failed,     \* cleanup has recorded a failure
  crashes, faults, host

disk   == <<table, dirs, file, xs>>
store  == <<journal, pending>>
loop   == <<todo, cur, snap, ok, failed>>
bounds == <<crashes, faults, host>>
vars   == <<disk, store, mem, persisted, pc, io, kind, after, loop, bounds>>
--------------------------------------------------------------------------------
(* Mounts.  An identity is the record itself; the code compares mountinfo   *)
(* lines.  "depth" counts the mounts stacked at the path, its own included; *)
(* "like" says that prove_preexisting_mount finds it equivalent.            *)

Mount == [id : Nat, req : Requests, at : {"root", "sub"}, depth : Nat,
          by : {"session", "host"}, like : BOOLEAN]

Scope(r)    == {m \in table : m.req = r}
AtPath(r, a) == {m \in table : m.req = r /\ m.at = a}
There(m)    == AtPath(m.req, m.at)

Equivalent(r) ==
  /\ \E m \in table : AtPath(r, "root") = {m} /\ m.like
  /\ IF r \in Recursive THEN \E m \in table : AtPath(r, "sub") = {m} /\ m.like
                        ELSE AtPath(r, "sub") = {}
\* attributable_mounts: one new root, and nested mounts only when recursive.
Attributable(r) == /\ Cardinality(AtPath(r, "root")) = 1
                   /\ r \in Recursive \/ AtPath(r, "sub") = {}
--------------------------------------------------------------------------------
(* The journal *)

PlanStages == {"planned", "command-started", "owned", "already-present", "failed", "ambiguous"}
DirStages  == {"none", "planned", "staged", "rename-planned", "created", "removing", "removed"}
ArtStages  == {"none", "planned", "writing", "active", "removing", "removed"}
XStages    == {"unexamined", "no-change", "grant-planned", "owned", "revoking",
               "restored", "failed"}

\* _acquire_mount's plan; owned maps each owned identity to its stage.
Plan(stage, before, seen) ==
  [stage |-> stage, before |-> before, seen |-> seen, owned |-> <<>>, inferred |-> {}]
NoDir == [stage |-> "none", renamed |-> FALSE]
State(phase) ==
  [phase |-> phase, mounts |-> <<>>, dirs |-> [k \in Places |-> NoDir], art |-> "none",
   x |-> [stage |-> "unexamined", before |-> "none"]]
Fresh     == State("active")
NoJournal == State("none")
Torn      == State("torn")
Whole(j)  == j \notin {NoJournal, Torn}

Owned(p)  == DOMAIN p.owned
Live(p)   == {m \in Owned(p) : p.owned[m] \in {"owned", "unmounting"}}
AllOwned(j) == UNION {Owned(j.mounts[i]) : i \in DOMAIN j.mounts}

\* _validate_state
ValidPlan(p) == /\ p.stage = "owned" <=> Owned(p) # {}
                /\ Owned(p) \subseteq p.seen \cup p.inferred
ValidDir(d) == /\ d.stage \in {"planned", "staged", "rename-planned"} => ~d.renamed
               /\ d.stage = "created" => d.renamed
ValidX(x) == x.stage \in {"grant-planned", "owned", "revoking"} => x.before # "none"
ValidState(j) == /\ \A i \in DOMAIN j.mounts : ValidPlan(j.mounts[i])
                 /\ \A k \in Places : ValidDir(j.dirs[k])
                 /\ ValidX(j.x)
--------------------------------------------------------------------------------
(* Which state may follow which: _validate_pending_transition *)

NextPhase(s) == CASE s = "active"   -> {"active", "cleaning"}
                  [] s = "cleaning" -> {"cleaning", "complete"}
                  [] OTHER          -> {}
NextPlan(s) == CASE s = "planned"         -> {"planned", "command-started", "failed", "ambiguous"}
                 [] s = "command-started" -> {"command-started", "owned", "failed", "ambiguous"}
                 [] s = "ambiguous"       -> {"ambiguous", "failed"}
                 [] OTHER                 -> {s}
NextOwned(s) == CASE s = "owned"      -> {"owned", "unmounting"}
                  [] s = "unmounting" -> {"unmounting", "removed"}
                  [] OTHER            -> {s}
NextDir(s) == CASE s = "planned"        -> {"planned", "staged", "removed"}
                [] s = "staged"         -> {"staged", "rename-planned", "removing"}
                [] s = "rename-planned" -> {"rename-planned", "created", "removing"}
                [] s = "created"        -> {"created", "removing"}
                [] s = "removing"       -> {"removing", "removed"}
                [] OTHER                -> {s}
NextArt(s) == CASE s = "planned"  -> {"planned", "writing", "removed"}
                [] s = "writing"  -> {"writing", "active", "removing"}
                [] s = "active"   -> {"active", "removing"}
                [] s = "removing" -> {"removing", "removed"}
                [] OTHER          -> {s}
NextX(s) == CASE s = "unexamined"    -> {"unexamined", "no-change", "grant-planned"}
              [] s = "no-change"     -> {"no-change", "grant-planned"}
              [] s = "grant-planned" -> {"grant-planned", "owned", "failed"}
              [] s = "owned"         -> {"owned", "revoking"}
              [] s = "revoking"      -> {"revoking", "restored"}
              [] OTHER               -> {s}

\* The observation and the owned identities of one plan.
ObservationOK(old, new) ==
  new.seen # old.seen =>
    \/ old.stage = "planned" /\ new.stage = "ambiguous"
    \/ old.stage = "command-started" /\ new.stage # "command-started"
OwnedOK(old, new) ==
  CASE old.stage = "command-started" ->
         IF new.stage # "owned" THEN Owned(new) = {}
         ELSE /\ Owned(new) # {} /\ \A m \in Owned(new) : new.owned[m] = "owned"
              /\ new.inferred # {} => /\ new.inferred = Owned(new)
                                      /\ old.before \subseteq new.seen
                                      /\ Owned(new) = new.seen \ old.before
    [] old.stage = "owned" ->
         /\ Owned(old) \subseteq Owned(new)
         /\ new.inferred \cap Owned(old) = old.inferred
         /\ \A m \in Owned(old) : new.owned[m] \in NextOwned(old.owned[m])
         /\ \A m \in Owned(new) \ Owned(old) : m \in new.inferred /\ new.owned[m] = "owned"
    [] OTHER -> new.owned = old.owned
PlanOK(old, new) == /\ new.before = old.before /\ new.stage \in NextPlan(old.stage)
                    /\ ObservationOK(old, new) /\ OwnedOK(old, new)
NewPlanOK(p) == /\ Owned(p) = {}
                /\ \/ p.stage = "planned" /\ p.seen = {}
                   \/ p.stage = "already-present" /\ p.seen = p.before
DirStepOK(old, new) ==
  /\ new.stage \in NextDir(old.stage)
  /\ new.renamed # old.renamed => old.stage = "rename-planned" /\ new.stage = "created"
XStepOK(old, new) ==
  /\ new.stage \in NextX(old.stage)
  /\ CASE old.stage = "unexamined" -> new = old \/ new.before # "none"
       [] old.stage = "no-change"  -> new.before # "none"
       [] OTHER                    -> new.before = old.before

NewDirs(old, new) == {k \in Places : old.dirs[k].stage = "none" /\ new.dirs[k].stage # "none"}
NumAdded(old, new) == (Len(new.mounts) - Len(old.mounts)) + Cardinality(NewDirs(old, new))
                        + (IF old.art = "none" /\ new.art # "none" THEN 1 ELSE 0)
\* What is appended is initial, one at a time, and nothing else changes with it.
AddedOK(old, new) ==
  /\ NumAdded(old, new) <= 1
  /\ \A i \in DOMAIN new.mounts \ DOMAIN old.mounts : NewPlanOK(new.mounts[i])
  /\ \A k \in NewDirs(old, new) : new.dirs[k] = [NoDir EXCEPT !.stage = "planned"]
  /\ old.art = "none" => new.art \in {"none", "planned"}
  /\ NumAdded(old, new) = 1 =>
       /\ new.phase = old.phase /\ new.x = old.x
       /\ \A i \in DOMAIN old.mounts : new.mounts[i] = old.mounts[i]
       /\ \A k \in Places \ NewDirs(old, new) : new.dirs[k] = old.dirs[k]
       /\ old.art # "none" => new.art = old.art

PendingOK(old, new) ==
  /\ ValidState(new)
  /\ IF old = NoJournal THEN new = Fresh
     ELSE /\ new.phase \in NextPhase(old.phase)
          /\ Len(new.mounts) >= Len(old.mounts)
          /\ AddedOK(old, new)
          /\ \A i \in DOMAIN old.mounts : PlanOK(old.mounts[i], new.mounts[i])
          /\ \A k \in Places : old.dirs[k].stage # "none" => DirStepOK(old.dirs[k], new.dirs[k])
          /\ old.art # "none" => new.art \in NextArt(old.art)
          /\ XStepOK(old.x, new.x)
--------------------------------------------------------------------------------
(* What a preflight finds on disk: _preflight_cleanup.  A state it does not *)
(* recognise is refused; what it recognises is brought up to date.          *)

Recovering == after = "fresh"

\* _preflight_owned_plan
Extras(p, r) == Scope(r) \ (p.before \cup Owned(p))
OwnedMountsOK(p, r) ==
  /\ \A m \in Owned(p) :
       CASE p.owned[m] = "owned"      -> There(m) = {m}
         [] p.owned[m] = "unmounting" -> There(m) \subseteq {m}
         [] p.owned[m] = "removed"    -> There(m) = {}
  /\ p.before \subseteq table
  /\ Extras(p, r) # {} =>
       /\ ~Recovering
       /\ \A m \in Extras(p, r) : m.at = "sub"
       /\ \E m \in Live(p) : m.at = "root" /\ m \in table

PlanStateOK(p, r) ==
  CASE p.stage = "command-started" -> \/ Scope(r) = p.before
                                      \/ p.before = {} /\ Equivalent(r)
    [] p.stage = "owned"           -> OwnedMountsOK(p, r)
    [] p.stage = "already-present" -> Scope(r) = p.before /\ Equivalent(r)
    [] OTHER                       -> Scope(r) = p.before

NewPlan(p, r) ==
  CASE p.stage \in {"planned", "ambiguous"} -> [p EXCEPT !.stage = "failed"]
    [] p.stage = "command-started" ->
         IF Scope(r) = p.before THEN [p EXCEPT !.stage = "failed"]
         ELSE [p EXCEPT !.stage = "owned", !.seen = Scope(r), !.inferred = Scope(r),
                        !.owned = [m \in Scope(r) |-> "owned"]]
    [] p.stage = "owned" ->
         [p EXCEPT !.inferred = @ \cup Extras(p, r),
                   !.owned = [m \in Owned(p) \cup Extras(p, r) |->
                                IF m \notin Owned(p) THEN "owned"
                                ELSE IF p.owned[m] = "unmounting" /\ m \notin table THEN "removed"
                                ELSE p.owned[m]]]
    [] OTHER -> p

ArtOK(a) == CASE a \in {"writing", "active"} -> file # "none"
              [] a = "removing"              -> TRUE
              [] OTHER                       -> file = "none"
NewArt(a) == IF a = "planned" \/ (a = "removing" /\ file = "none") THEN "removed" ELSE a

\* _preflight_directory
DirOKBeforeRename(d, where) ==  \* faulty: a rename that was not recorded is not recognised
  CASE d.stage = "planned"                    -> where # "final"
    [] d.stage \in {"staged", "rename-planned"} -> where = "staging"
    [] d.stage = "created"                    -> where = "final"
    [] d.stage = "removing"                   -> where \in {"none", IF d.renamed THEN "final" ELSE "staging"}
    [] OTHER                                  -> d.stage = "removed" => where # "final"
DirOK(d, where) ==
  CASE d.stage = "planned"                    -> where # "final"
    [] d.stage \in {"staged", "rename-planned"} -> where \in {"staging", "final"}
    [] d.stage = "created"                    -> where = "final"
    [] d.stage = "removing"                   -> where \in {"none", IF d.renamed THEN "final" ELSE "staging"}
    [] OTHER                                  -> d.stage = "removed" => where # "final"
NewDir(d, where) ==
  CASE d.stage = "planned" -> [d EXCEPT !.stage = IF where = "none" THEN "removed" ELSE "staged"]
    [] d.stage \in {"staged", "rename-planned"} /\ where = "final" ->
         [stage |-> "created", renamed |-> TRUE]
    [] d.stage = "removing" /\ where = "none" -> [d EXCEPT !.stage = "removed"]
    [] OTHER -> d
\* The mode of a staging directory that was never recorded is put right.
Normalised(j) == [k \in Places |-> IF j.dirs[k].stage = "planned" /\ dirs[k] = "private"
                                   THEN "staging" ELSE dirs[k]]

Local == xs \in {"present", "granted"}
XOK(x) == CASE x.stage = "grant-planned" -> xs = x.before
            [] x.stage = "owned"         -> Local
            [] x.stage = "revoking"      -> xs # "off"
            [] OTHER                     -> TRUE
NewX(x) == CASE x.stage = "grant-planned"              -> [x EXCEPT !.stage = "failed"]
             [] x.stage = "revoking" /\ xs = "absent"  -> [x EXCEPT !.stage = "restored"]
             [] OTHER                                  -> x

PlansOK(j)     == \A i \in DOMAIN j.mounts : PlanStateOK(j.mounts[i], i)
PreflightOK(j) == /\ ValidState(j) /\ PlansOK(j) /\ ArtOK(j.art)
                  /\ \A k \in Places : DirOK(j.dirs[k], dirs[k])
                  /\ XOK(j.x)
Preflighted(j) ==
  [phase  |-> j.phase,
   mounts |-> [i \in DOMAIN j.mounts |-> NewPlan(j.mounts[i], i)],
   dirs   |-> [k \in Places |-> NewDir(j.dirs[k], dirs[k])],
   art    |-> NewArt(j.art),
   x      |-> NewX(j.x)]
--------------------------------------------------------------------------------
(* Control of the session *)

Goto(s) == pc' = s /\ io' = "idle"
Save(s) == pc' = s /\ io' = "write"
At(s)   == pc = s /\ io = "idle"
\* A step that touches nothing but the record and the control.
Quiet   == UNCHANGED <<disk, store, persisted, kind, after, loop, bounds>>

EnterSites == {"enter.pending", "enter.load", "body"}
BodySites  == {"stage.dir", "stage.plan", "stage.create", "stage.record", "stage.copy",
               "stage.rest", "x.query", "x.mutate", "x.verify", "mount.plan", "mount.check",
               "mount.run", "mount.after", "work", "abort"}
DirSites   == {"dir.plan", "dir.make", "dir.mode", "dir.staged", "dir.rename", "dir.move",
               "dir.done"}
MountCleanSites == {"clean.mount", "clean.umount", "clean.umounted"}
CleanSites == {"clean.preflight", "clean.mark", "clean.file", "clean.unlink", "clean.dir",
               "clean.rmdir", "clean.x", "clean.xrun", "clean.xverify", "clean.final",
               "clean.remove"}
Sites == {"idle"} \cup EnterSites \cup BodySites \cup DirSites \cup MountCleanSites
           \cup CleanSites

\* The lock is released and the instance forgotten.
Exit ==
  /\ Goto("idle")
  /\ mem' = NoJournal /\ persisted' = NoJournal /\ kind' = "none" /\ after' = "end"
  /\ todo' = {} /\ cur' = 0 /\ snap' = {} /\ ok' = TRUE /\ failed' = FALSE

\* _owned_mount_cleanup_order: later requests first, the nested mount before its root.
Deeper(a, b) == a.req > b.req \/ (a.req = b.req /\ a.at = "sub" /\ b.at = "root")
FirstShallow(S) ==            \* faulty: the root before what is mounted on it
  CHOOSE m \in S : \A n \in S \ {m} : m.req >= n.req /\ (m.req = n.req => m.at = "root")
First(S) == CHOOSE m \in S : \A n \in S : ~Deeper(n, m)

\* An exception.  In the body it leads to the cleanup of __exit__, in the
\* cleanup of one resource it is recorded, elsewhere it ends the session.
RaiseFrom(s) ==
  CASE s \in BodySites \cup DirSites -> Goto("clean.preflight") /\ UNCHANGED <<mem, persisted, kind, after, loop>>
    [] s \in MountCleanSites ->
         /\ Goto("clean.mount") /\ todo' = {m \in todo : m # First(todo)} /\ failed' = TRUE
         /\ snap' = {} /\ ok' = TRUE /\ UNCHANGED <<mem, persisted, kind, after, cur>>
    [] s \in {"clean.file", "clean.unlink"} ->
         Goto("clean.dir") /\ failed' = TRUE /\ UNCHANGED <<mem, persisted, kind, after, todo, cur, snap, ok>>
    [] s \in {"clean.dir", "clean.rmdir"} ->
         /\ Goto("clean.dir") /\ failed' = TRUE /\ cur' = IF cur > 0 THEN cur - 1 ELSE 0
         /\ UNCHANGED <<mem, persisted, kind, after, todo, snap, ok>>
    [] s \in {"clean.x", "clean.xrun", "clean.xverify"} ->
         /\ Goto("clean.final") /\ failed' = TRUE /\ ok' = TRUE
         /\ UNCHANGED <<mem, persisted, kind, after, todo, cur, snap>>
    [] OTHER -> Exit
Raise == RaiseFrom(pc) /\ UNCHANGED <<disk, store, bounds>>
--------------------------------------------------------------------------------
(* __enter__ *)

Start(k) ==
  /\ pc = "idle" /\ pc' = "enter.pending" /\ kind' = k
  /\ UNCHANGED <<disk, store, mem, persisted, io, after, loop, bounds>>

\* _reconcile_pending_journal
EnterReconcile ==
  /\ At("enter.pending")
  /\ \/ /\ pending = NoJournal
        /\ Goto("enter.load") /\ UNCHANGED mem /\ Quiet
     \/ /\ Whole(pending) /\ PendingOK(journal, pending)
        /\ journal' = pending /\ pending' = NoJournal
        /\ Goto("enter.load")
        /\ UNCHANGED <<disk, mem, persisted, kind, after, loop, bounds>>
     \/ /\ pending # NoJournal /\ ~(Whole(pending) /\ PendingOK(journal, pending))
        /\ Raise

\* _initialize_journal, or _load_existing_journal and the cleanup of a recovery.
EnterLoad ==
  /\ At("enter.load")
  /\ UNCHANGED <<disk, store, kind, loop, bounds>>
  /\ \/ /\ journal = NoJournal
        /\ mem' = Fresh /\ persisted' = NoJournal /\ Save("body") /\ UNCHANGED after
     \/ /\ journal # NoJournal
        /\ mem' = journal /\ persisted' = journal /\ after' = "fresh"
        /\ Goto("clean.preflight")

Body ==
  /\ At("body") /\ UNCHANGED mem /\ Quiet
  /\ Goto(CASE kind = "hook"  -> "stage.dir"
            [] kind = "shell" -> "mount.plan"
            [] kind = "clean" -> "clean.preflight")
Abort == At("abort") /\ Raise
Enter == EnterReconcile \/ EnterLoad \/ Body \/ Abort
--------------------------------------------------------------------------------
(* _ensure_directory: made under a staging name, given its mode, renamed.   *)
(* Directories are asked for right after the plan of their mount, or for    *)
(* tmp before any mount.                                                    *)

Place     == Len(mem.mounts)
AfterDir  == IF Place = 0 THEN "stage.plan" ELSE "mount.check"
PutDir(d) == mem' = [mem EXCEPT !.dirs[Place] = d]
PutDirStage(s) == PutDir([mem.dirs[Place] EXCEPT !.stage = s])
MoveDir(to) == /\ dirs' = [dirs EXCEPT ![Place] = to]
               /\ UNCHANGED <<table, file, xs, store, mem, persisted, kind, after, loop, bounds>>

StageDir == At("stage.dir") /\ Goto("dir.plan") /\ UNCHANGED mem /\ Quiet
DirPlan ==
  /\ At("dir.plan") /\ Quiet
  /\ IF dirs[Place] \in {"host", "final"} THEN Goto(AfterDir) /\ UNCHANGED mem
     ELSE PutDirStage("planned") /\ Save("dir.make")
DirMake   == At("dir.make") /\ MoveDir("private") /\ Goto("dir.mode")
DirMode   == At("dir.mode") /\ MoveDir("staging") /\ Goto("dir.staged")
DirStaged == At("dir.staged") /\ PutDirStage("staged") /\ Save("dir.rename") /\ Quiet
DirRename == At("dir.rename") /\ PutDirStage("rename-planned") /\ Save("dir.move") /\ Quiet
DirMove   == At("dir.move") /\ MoveDir("final") /\ Goto("dir.done")
DirDone   == /\ At("dir.done") /\ PutDir([stage |-> "created", renamed |-> TRUE])
             /\ Save(AfterDir) /\ Quiet
EnsureDirectory == \/ StageDir \/ DirPlan \/ DirMake \/ DirMode \/ DirStaged
                   \/ DirRename \/ DirMove \/ DirDone
--------------------------------------------------------------------------------
(* stage_file *)

PutArt(s)   == mem' = [mem EXCEPT !.art = s]
PutFile(f)  == file' = f /\ UNCHANGED <<table, dirs, xs, store, persisted, kind, after, loop, bounds>>

StagePlan   == At("stage.plan") /\ PutArt("planned") /\ Save("stage.create") /\ Quiet
StageCreate == At("stage.create") /\ PutFile("empty") /\ Goto("stage.record") /\ UNCHANGED mem
StageRecord == At("stage.record") /\ PutArt("writing") /\ Save("stage.copy") /\ Quiet
StageCopy   == At("stage.copy") /\ PutFile("partial") /\ Goto("stage.rest") /\ UNCHANGED mem
StageRest   == At("stage.rest") /\ PutFile("whole") /\ PutArt("active") /\ Save("x.query")
StageFile   == StagePlan \/ StageCreate \/ StageRecord \/ StageCopy \/ StageRest
--------------------------------------------------------------------------------
(* allow_local_x_access *)

PutX(s) == mem' = [mem EXCEPT !.x.stage = s]
Room == crashes + faults + host < MaxTrouble
\* A command: it succeeds, or it reports a failure after
\* doing nothing or everything.
Command(done, undone) ==
  \/ done /\ ok' = TRUE /\ UNCHANGED bounds
  \/ /\ Room /\ faults < MaxFaults /\ faults' = faults + 1 /\ UNCHANGED <<crashes, host>>
     /\ ok' = FALSE /\ (done \/ undone)

XQuery ==
  /\ At("x.query") /\ Quiet
  /\ IF xs = "absent"
       THEN /\ mem' = [mem EXCEPT !.x = [stage |-> "grant-planned", before |-> "absent"]]
            /\ Save("x.mutate")
       ELSE /\ mem' = [mem EXCEPT !.x = [stage  |-> "no-change",
                                        before |-> IF Local THEN "present" ELSE "off"]]
            /\ Save("mount.plan")
XMutate ==
  /\ At("x.mutate")
  /\ \/ /\ xs = "absent"
        /\ Command(xs' = "granted", xs' = xs) /\ Goto("x.verify")
        /\ UNCHANGED <<table, dirs, file, store, mem, persisted, kind, after, todo, cur, snap, failed>>
     \/ xs # "absent" /\ Raise
XVerify ==
  /\ At("x.verify")
  /\ \/ /\ xs # "off" /\ PutX(IF Local THEN "owned" ELSE "failed")
        /\ Save(IF Local /\ ok THEN "mount.plan" ELSE "abort")
        /\ ok' = TRUE
        /\ UNCHANGED <<disk, store, persisted, kind, after, todo, cur, snap, failed, bounds>>
     \/ xs = "off" /\ Raise
GrantX == XQuery \/ XMutate \/ XVerify
--------------------------------------------------------------------------------
(* _acquire_mount *)

Ids == {m.id : m \in table \cup AllOwned(mem) \cup AllOwned(journal) \cup AllOwned(pending)
                     \cup (UNION {mem.mounts[i].before : i \in DOMAIN mem.mounts})
                     \cup (UNION {journal.mounts[i].before : i \in DOMAIN journal.mounts})}
NewId == CHOOSE n \in 1..(Cardinality(Ids) + 1) : n \notin Ids
NextId == CHOOSE n \in 1..(Cardinality(Ids) + 2) : n \notin Ids \cup {NewId}
NewMount(id, r, a, by, like) ==
  [id |-> id, req |-> r, at |-> a, depth |-> Cardinality(AtPath(r, a)) + 1,
   by |-> by, like |-> like]
\* What mount(8) adds: the request, and what is mounted below a recursive source.
Bound(r) == {NewMount(NewId, r, "root", "session", TRUE)}
              \cup (IF r \in Recursive THEN {NewMount(NextId, r, "sub", "session", TRUE)} ELSE {})

Current == mem.mounts[Place]
PutPlan(p) == mem' = [mem EXCEPT !.mounts[Place] = p]

MountPlan ==
  /\ At("mount.plan") /\ Place < NumRequests
  /\ LET r == Place + 1
         S == Scope(r)
     IN \/ /\ AtPath(r, "root") # {} /\ Equivalent(r)
           /\ mem' = [mem EXCEPT !.mounts = Append(@, Plan("already-present", S, S))]
           /\ Save("mount.plan") /\ Quiet
        \/ /\ S = {}
           /\ mem' = [mem EXCEPT !.mounts = Append(@, Plan("planned", {}, {}))]
           /\ Save("dir.plan") /\ Quiet
        \/ S # {} /\ ~Equivalent(r) /\ Raise
MountsDone == At("mount.plan") /\ Place = NumRequests /\ Goto("work") /\ UNCHANGED mem /\ Quiet

MountCheckLate ==             \* faulty: the stage is not written before the command
  /\ At("mount.check") /\ Quiet
  /\ PutPlan([Current EXCEPT !.stage = "command-started"]) /\ Goto("mount.run")
MountCheck ==
  /\ At("mount.check") /\ Quiet
  /\ IF Scope(Place) = Current.before
       THEN PutPlan([Current EXCEPT !.stage = "command-started"]) /\ Save("mount.run")
       ELSE PutPlan([Current EXCEPT !.stage = "ambiguous", !.seen = Scope(Place)]) /\ Save("abort")
MountRun ==
  /\ At("mount.run") /\ Goto("mount.after")
  /\ Command(table' = table \cup Bound(Place), UNCHANGED table)
  /\ UNCHANGED <<dirs, file, xs, store, mem, persisted, kind, after, todo, cur, snap, failed>>
MountAfter ==
  /\ At("mount.after")
  /\ LET p == [Current EXCEPT !.seen = Scope(Place)]
     IN CASE ~ok -> PutPlan([p EXCEPT !.stage = "failed"]) /\ Save("abort")
          [] ok /\ ~Attributable(Place) -> PutPlan([p EXCEPT !.stage = "ambiguous"]) /\ Save("abort")
          [] OTHER -> /\ PutPlan([p EXCEPT !.stage = "owned",
                                           !.owned = [m \in Scope(Place) |-> "owned"]])
                      /\ Save("mount.plan")
  /\ ok' = TRUE
  /\ UNCHANGED <<disk, store, persisted, kind, after, todo, cur, snap, failed, bounds>>
AcquireMount == MountPlan \/ MountsDone \/ MountCheck \/ MountRun \/ MountAfter

\* chroot_run, whose _cleanup_work_artifacts empties FileSystem/tmp.
Work ==
  /\ At("work") /\ Goto("clean.preflight") /\ UNCHANGED mem
  /\ IF kind = "hook" THEN PutFile("none") ELSE Quiet
--------------------------------------------------------------------------------
(* cleanup *)

CleanPreflight ==
  /\ At("clean.preflight")
  /\ \/ /\ PreflightOK(mem)
        /\ mem' = Preflighted(mem) /\ dirs' = Normalised(mem)
        /\ IF mem' = mem THEN Goto("clean.mark") ELSE Save("clean.mark")
        /\ UNCHANGED <<table, file, xs, store, persisted, kind, after, loop, bounds>>
     \/ /\ ~PreflightOK(mem)
        /\ dirs' = IF PlansOK(mem) /\ ArtOK(mem.art) THEN Normalised(mem) ELSE dirs
        /\ Exit /\ UNCHANGED <<table, file, xs, store, bounds>>

CleanMark ==
  /\ At("clean.mark")
  /\ IF mem.phase # "cleaning"
       THEN mem' = [mem EXCEPT !.phase = "cleaning"] /\ Save("clean.mark") /\ Quiet
       ELSE /\ todo' = AllOwned(mem) /\ cur' = NumRequests + 1
            /\ Goto("clean.mount")
            /\ UNCHANGED <<disk, store, mem, persisted, kind, after, snap, ok, failed, bounds>>

\* _cleanup_owned_mount, for each owned identity in turn.
Target == First(todo)
Stage(m) == mem.mounts[m.req].owned[m]
PutOwned(m, s) == mem' = [mem EXCEPT !.mounts[m.req].owned[m] = s]

MountsCleaned == At("clean.mount") /\ todo = {} /\ Goto("clean.file") /\ UNCHANGED mem /\ Quiet
CleanMount ==
  /\ At("clean.mount") /\ todo # {}
  /\ \/ /\ Stage(Target) = "removed"
        /\ todo' = todo \ {Target} /\ Goto("clean.mount")
        /\ UNCHANGED <<disk, store, mem, persisted, kind, after, cur, snap, ok, failed, bounds>>
     \/ /\ Stage(Target) = "unmounting" /\ Target \notin table /\ There(Target) = {}
        /\ PutOwned(Target, "removed") /\ Save("clean.mount") /\ Quiet
     \/ /\ Stage(Target) = "unmounting" /\ Target \notin table /\ There(Target) # {}
        /\ Raise
     \/ /\ Stage(Target) = "owned" \/ (Stage(Target) = "unmounting" /\ Target \in table)
        /\ PutOwned(Target, "unmounting") /\ Save("clean.umount") /\ Quiet

\* umount(8) takes what is mounted below its target along.
Unmounted(m) == table \ ({m} \cup IF m.at = "root" THEN AtPath(m.req, "sub") ELSE {})
Umount(m) ==
  /\ Command(table' = Unmounted(m), UNCHANGED table)
  /\ snap' = table /\ Goto("clean.umounted")
  /\ UNCHANGED <<dirs, file, xs, store, mem, persisted, kind, after, todo, cur, failed>>
CleanUmountBlind ==           \* faulty: whatever is on top at the path is unmounted
  /\ At("clean.umount")
  /\ IF There(Target) = {} THEN Raise
     ELSE Umount(CHOOSE m \in There(Target) : \A n \in There(Target) : n.depth <= m.depth)
CleanUmount ==
  /\ At("clean.umount")
  /\ IF There(Target) = {Target} THEN Umount(Target) ELSE Raise
CleanUmounted ==
  /\ At("clean.umounted")
  /\ \/ /\ ok /\ snap \ table = {Target} /\ There(Target) = {}
        /\ PutOwned(Target, "removed") /\ Save("clean.mount") /\ snap' = {}
        /\ UNCHANGED <<disk, store, persisted, kind, after, todo, cur, ok, failed, bounds>>
     \/ /\ ~ok \/ snap \ table # {Target} \/ There(Target) # {}
        /\ Raise

\* _cleanup_artifact
CleanFile ==
  /\ At("clean.file") /\ Quiet
  /\ IF mem.art \in {"none", "removed"} THEN Goto("clean.dir") /\ UNCHANGED mem
     ELSE IF mem.art = "removing" /\ file = "none" THEN PutArt("removed") /\ Save("clean.file")
     ELSE PutArt("removing") /\ Save("clean.unlink")
CleanUnlink ==
  /\ At("clean.unlink") /\ file # "none"
  /\ PutFile("none") /\ PutArt("removed") /\ Save("clean.file")

\* _directory_has_active_resources, _cleanup_directory
BusyRecorded(k) ==            \* faulty: a mount that is gone still counts
  \/ \E m \in table : m.req = k
  \/ k > 0 /\ k <= Len(mem.mounts) /\ Owned(mem.mounts[k]) # {}
  \/ k = 0 /\ mem.art \notin {"none", "removed"}
Busy(k) == \/ \E m \in table : m.req = k
           \/ k > 0 /\ k <= Len(mem.mounts) /\ Live(mem.mounts[k]) # {}
           \/ k = 0 /\ mem.art \notin {"none", "removed"}
Slot == cur - 1
SlotPath == IF mem.dirs[Slot].renamed THEN "final" ELSE "staging"
PutSlot(s) == mem' = [mem EXCEPT !.dirs[Slot].stage = s]

DirsCleaned == At("clean.dir") /\ cur = 0 /\ Goto("clean.x") /\ UNCHANGED mem /\ Quiet
CleanDirSkip ==
  /\ At("clean.dir") /\ cur > 0
  /\ mem.dirs[Slot].stage \in {"none", "removed"} \/ Busy(Slot)
  /\ cur' = cur - 1 /\ Goto("clean.dir")
  /\ UNCHANGED <<disk, store, mem, persisted, kind, after, todo, snap, ok, failed, bounds>>
CleanDir ==
  /\ At("clean.dir") /\ cur > 0
  /\ mem.dirs[Slot].stage \notin {"none", "removed"} /\ ~Busy(Slot)
  /\ IF mem.dirs[Slot].stage = "removing" /\ dirs[Slot] = "none"
       THEN PutSlot("removed") /\ Save("clean.dir")
       ELSE PutSlot("removing") /\ Save("clean.rmdir")
  /\ Quiet
CleanRmdir ==
  /\ At("clean.rmdir")
  /\ IF dirs[Slot] = SlotPath /\ ~\E m \in table : m.req = Slot
       THEN /\ dirs' = [dirs EXCEPT ![Slot] = "none"] /\ PutSlot("removed") /\ Save("clean.dir")
            /\ UNCHANGED <<table, file, xs, store, persisted, kind, after, loop, bounds>>
       ELSE Raise

\* _cleanup_x_access
CleanX ==
  /\ At("clean.x") /\ Quiet
  /\ IF mem.x.stage = "owned" THEN PutX("revoking") /\ Save("clean.xrun")
     ELSE UNCHANGED mem /\ Goto(IF mem.x.stage = "revoking" THEN "clean.xrun" ELSE "clean.final")
CleanXRun ==
  /\ At("clean.xrun")
  /\ IF Local
       THEN /\ Command(xs' = "absent", UNCHANGED xs) /\ Goto("clean.xverify")
            /\ UNCHANGED <<table, dirs, file, store, mem, persisted, kind, after, todo, cur, snap, failed>>
       ELSE Raise
CleanXVerifyRemoved ==        \* faulty: the stage of another resource
  At("clean.xverify") /\ PutX("removed") /\ Save("clean.x") /\ Quiet
CleanXVerify ==
  /\ At("clean.xverify")
  /\ IF ok /\ xs = mem.x.before THEN PutX("restored") /\ Save("clean.x") /\ Quiet ELSE Raise

\* _active_resource_descriptions
Active(j) == \/ \E i \in DOMAIN j.mounts : Live(j.mounts[i]) # {} \/ j.mounts[i].stage = "ambiguous"
             \/ j.art \notin {"none", "removed"}
             \/ \E k \in Places : j.dirs[k].stage \notin {"none", "removed"}
             \/ j.x.stage \in {"grant-planned", "owned", "revoking"}
CleanFinal ==
  /\ At("clean.final")
  /\ IF failed \/ Active(mem) THEN Exit /\ UNCHANGED <<disk, store, bounds>>
     ELSE mem' = [mem EXCEPT !.phase = "complete"] /\ Save("clean.remove") /\ Quiet
\* _remove_journal; a recovery goes on to _initialize_journal.
RemoveJournal ==
  /\ At("clean.remove") /\ pending = NoJournal
  /\ journal' = NoJournal /\ UNCHANGED <<disk, pending, bounds>>
  /\ IF after = "end" THEN Exit
     ELSE /\ mem' = Fresh /\ persisted' = NoJournal /\ Save("body") /\ after' = "end"
          /\ UNCHANGED <<kind, loop>>

Cleanup == \/ CleanPreflight \/ CleanMark \/ MountsCleaned \/ CleanMount \/ CleanUmount
           \/ CleanUmounted \/ CleanFile \/ CleanUnlink \/ DirsCleaned \/ CleanDirSkip
           \/ CleanDir \/ CleanRmdir \/ CleanX \/ CleanXRun \/ CleanXVerify
           \/ CleanFinal \/ RemoveJournal
--------------------------------------------------------------------------------
(* _persist_journal *)

PersistOK == pending = NoJournal /\ journal = persisted /\ ValidState(mem)
WritePending ==
  /\ io = "write"
  /\ \/ /\ PersistOK /\ pending' = mem /\ io' = "replace"
        /\ UNCHANGED <<disk, journal, mem, persisted, pc, kind, after, loop, bounds>>
     \/ ~PersistOK /\ Raise
ReplaceJournal ==
  /\ io = "replace"
  /\ journal' = pending /\ pending' = NoJournal /\ persisted' = mem /\ io' = "idle"
  /\ UNCHANGED <<disk, mem, pc, kind, after, loop, bounds>>
--------------------------------------------------------------------------------
(* Failures, and the rest of the host *)

\* A call raises before it has an effect, after a part of the pending journal
\* was written, or in the fsync after the replace.
Fault ==
  /\ pc # "idle" /\ Room /\ faults < MaxFaults /\ faults' = faults + 1
  /\ UNCHANGED <<disk, crashes, host>>
  /\ RaiseFrom(pc)
  /\ \/ UNCHANGED store
     \/ io = "write" /\ PersistOK /\ TornWrites /\ pending' = Torn /\ UNCHANGED journal
     \/ io = "replace" /\ journal' = pending /\ pending' = NoJournal

Crash ==
  /\ pc # "idle" /\ Room /\ crashes < MaxCrashes /\ crashes' = crashes + 1
  /\ Exit /\ UNCHANGED <<disk, journal, faults, host>>
  /\ \/ UNCHANGED pending
     \/ io = "write" /\ PersistOK /\ TornWrites /\ pending' = Torn

\* Between the journal write before mount(8) and the one after it nobody else
\* mounts at a destination that is still empty: the code could not tell.
InProgress(r) == \E j \in {mem, journal, pending} :
                   r \in DOMAIN j.mounts /\ j.mounts[r].stage = "command-started"
HostMounts(r, a, like) ==
  /\ dirs[r] \in {"host", "final"}
  /\ InProgress(r) => AtPath(r, "root") # {}
  /\ table' = table \cup {NewMount(NewId, r, a, "host", like)}
  /\ UNCHANGED xs
\* The mount on top of its path, with nothing below, is unmounted.
HostUnmounts(m) ==
  /\ \A n \in There(m) : n.depth <= m.depth
  /\ m.at = "root" => AtPath(m.req, "sub") = {}
  /\ table' = table \ {m} /\ UNCHANGED xs
HostX(s) == s # xs /\ xs' = s /\ UNCHANGED table
Host ==
  /\ Room /\ host < MaxHost /\ host' = host + 1
  /\ \/ \E r \in Requests, a \in {"root", "sub"}, like \in BOOLEAN : HostMounts(r, a, like)
     \/ \E m \in table : HostUnmounts(m)
     \/ \E s \in {"off", "absent", "present"} : HostX(s)
  /\ UNCHANGED <<dirs, file, store, mem, persisted, pc, io, kind, after, loop, crashes, faults>>
--------------------------------------------------------------------------------
Init ==
  /\ table = {} /\ file = "none" /\ xs \in {"off", "absent", "present"}
  /\ dirs = [k \in Places |-> IF k \in Missing THEN "none" ELSE "host"]
  /\ journal = NoJournal /\ pending = NoJournal /\ mem = NoJournal /\ persisted = NoJournal
  /\ pc = "idle" /\ io = "idle" /\ kind = "none" /\ after = "end"
  /\ todo = {} /\ cur = 0 /\ snap = {} /\ ok = TRUE /\ failed = FALSE
  /\ crashes = 0 /\ faults = 0 /\ host = 0

Step == \/ Enter \/ EnsureDirectory \/ StageFile \/ GrantX \/ AcquireMount \/ Work
        \/ Cleanup \/ WritePending \/ ReplaceJournal
Next == (\E k \in Kinds : Start(k)) \/ Step \/ Fault \/ Crash \/ Host

Spec == Init /\ [][Next]_vars
\* A live process runs, and an operator starts a session again.
FairSpec == Spec /\ WF_vars(Step) /\ WF_vars(\E k \in Kinds : Start(k))
--------------------------------------------------------------------------------
(* Properties *)

\* Every variable keeps its type.
TypeOK ==
  /\ table \subseteq Mount /\ todo \subseteq Mount /\ snap \subseteq Mount
  /\ dirs \in [Places -> {"host", "none", "private", "staging", "final"}]
  /\ file \in {"none", "empty", "partial", "whole"}
  /\ xs \in {"off", "absent", "present", "granted"}
  /\ \A j \in {journal, pending, mem, persisted} :
       /\ j.phase \in {"none", "torn", "active", "cleaning", "complete"}
       /\ Len(j.mounts) <= NumRequests
       /\ \A i \in DOMAIN j.mounts :
            /\ j.mounts[i].stage \in PlanStages
            /\ j.mounts[i].before \cup j.mounts[i].seen \cup j.mounts[i].inferred \subseteq Mount
            /\ Owned(j.mounts[i]) \subseteq Mount
            /\ \A m \in Owned(j.mounts[i]) :
                 j.mounts[i].owned[m] \in {"owned", "unmounting", "removed"}
       /\ j.dirs \in [Places -> [stage : DirStages, renamed : BOOLEAN]]
       /\ j.art \in ArtStages
       /\ j.x \in [stage : XStages, before : {"none", "off", "absent", "present"}]
  /\ pc \in Sites /\ io \in {"idle", "write", "replace"}
  /\ kind \in Kinds \cup {"none"} /\ after \in {"end", "fresh"}
  /\ cur \in 0..(NumRequests + 1) /\ {ok, failed} \subseteq BOOLEAN
  /\ crashes \in 0..MaxCrashes /\ faults \in 0..MaxFaults /\ host \in 0..MaxHost

\* Whatever a session has made is named by the durable journal before it is
\* made and until it is gone; without a journal nothing is left.
MountNamed(m) ==
  /\ m.req \in DOMAIN journal.mounts
  /\ LET p == journal.mounts[m.req] IN
     \/ p.stage \in {"command-started", "failed", "ambiguous"}
     \/ m \in Live(p)
ResourcesNamed ==
  /\ \A m \in table : m.by = "session" => MountNamed(m)
  /\ \A k \in Missing : dirs[k] # "none" => journal.dirs[k].stage \notin {"none", "removed"}
  /\ file # "none" => journal.art \notin {"none", "removed"}
  /\ xs = "granted" => journal.x.stage \in {"grant-planned", "owned", "revoking"}

\* What is mounted below a session's mount is taken for the session's own.
Ours(m) == \/ m.by = "session"
           \/ m.at = "sub" /\ \E n \in table : n.req = m.req /\ n.at = "root" /\ n.by = "session"
\* The session's umount(8) never takes a mount that was there before it, or
\* that somebody put over or in the place of its own.
OnlyOwnUnmounted ==
  [][pc = "clean.umount" /\ pc' = "clean.umounted" => \A m \in table \ table' : Ours(m)]_vars

\* The session never tries to write a state that its own validator refuses.
WritesValidRecords == io # "idle" => ValidState(mem)

\* While no call failed, a whole pending journal is accepted by the next
\* session, except the step back from complete that a recovery takes.
PendingAccepted ==
  faults = 0 /\ Whole(pending) => PendingOK(journal, pending) \/ journal.phase = "complete"

\* Windows in which the code refuses by design, or for ever: the file was made
\* and not recorded, the file was taken away, X was granted and not recorded.
Unproved(j) == \/ j.art = "planned" /\ file # "none"
               \/ j.art \in {"writing", "active"} /\ file = "none"
               \/ j.x.stage = "grant-planned" /\ Local
\* While nothing but the session touches its resources and no call fails, a
\* death anywhere leaves a journal and a disk that the next session accepts.
Accepted(j) == PreflightOK(j) \/ Unproved(j)
JournalRecoverable ==
  pc = "idle" /\ Whole(journal) /\ pending = NoJournal /\ faults = 0 /\ host = 0 => Accepted(journal)

\* Wherever a session ends, the next one can go on from the record it finds,
\* whole or half replaced, and from the disk.
SessionsHandOver == WritesValidRecords /\ PendingAccepted /\ JournalRecoverable

\* A session that was not disturbed leaves no journal behind.
UndisturbedClean ==
  pc = "idle" /\ crashes = 0 /\ faults = 0 /\ host = 0 => journal = NoJournal \/ Unproved(journal)
\* The same with no exception for the file that was staged for the chroot.
SessionSettles ==
  pc = "idle" /\ crashes = 0 /\ faults = 0 /\ host = 0 => journal = NoJournal

\* Sessions that follow settle every journal, unless one of them stands before
\* a pending journal or a disk that it refuses.
Refused == \/ /\ At("enter.pending") /\ pending # NoJournal
              /\ ~(Whole(pending) /\ PendingOK(journal, pending))
           \/ At("clean.preflight") /\ Recovering /\ ~PreflightOK(mem)
JournalSettles == journal # NoJournal ~> journal = NoJournal \/ Refused
================================================================================
