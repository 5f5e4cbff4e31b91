-------------------------- MODULE MountHandOverProofs --------------------------
(***************************************************************************)
(* Proofs that the sessions of MountSession hand their journals over: with *)
(* no failed call every dead session leaves a record that the next one can *)
(* recover or refuses for one of three known reasons, and a session that   *)
(* nothing disturbed leaves nothing behind.  They hold for any number of   *)
(* requests and of deaths, any of the requests recursive, any directories  *)
(* missing and any kinds of sessions.                                      *)
(***************************************************************************)
EXTENDS MountSessionProofs

USE ConstantsAssumption

\* What every record is like, beyond its type and what _validate_state asks.
PlanShape(p) == ValidPlan(p) /\ p.inferred \subseteq Owned(p)
DirShape(d)  == ValidDir(d) /\ (d.stage = "none" => ~d.renamed)
XShape(q) == /\ q.stage # "unexamined" => q.before # "none"
             /\ q.stage \in {"grant-planned", "owned", "revoking"} => q.before = "absent"
Shape(j) == /\ \A i \in DOMAIN j.mounts : PlanShape(j.mounts[i])
            /\ \A k \in Places : DirShape(j.dirs[k])
            /\ XShape(j.x)
Begun(j) == j.phase \in {"active", "cleaning", "complete"}
JournalShape(j) == Shape(j) /\ (Begun(j) \/ j = NoJournal)
PendingShape(j) == Shape(j) /\ (Begun(j) \/ j \in {NoJournal, Torn})
ShapeInv == /\ JournalShape(journal) /\ PendingShape(pending) /\ Shape(mem)
            /\ pc \in Loaded => Begun(mem)
            /\ io = "replace" => pending = mem

\* What the record says of the resource at hand, at each place of the body.
NoArtYet == {"body", "stage.dir", "stage.plan"}
OpenHere ==
  /\ pc = "body" => mem = Fresh
  /\ pc \in Opened => mem.phase = "active" /\ \A k \in Places : k > Place => mem.dirs[k].stage = "none"
  /\ pc \in {"body", "stage.dir", "dir.plan"} => mem.dirs[Place].stage = "none"
  /\ pc \in {"dir.make", "dir.mode", "dir.staged"} => mem.dirs[Place].stage = "planned"
  /\ pc = "dir.rename" => mem.dirs[Place].stage = "staged"
  /\ pc \in {"dir.move", "dir.done"} => mem.dirs[Place].stage = "rename-planned"
  /\ pc \in NoArtYet \/ (pc \in DirSites /\ Place = 0) => mem.art = "none"
  /\ pc \in {"stage.create", "stage.record"} => mem.art = "planned"
  /\ pc \in {"stage.copy", "stage.rest"} => mem.art = "writing"
  /\ pc \in {"x.mutate", "x.verify"} => mem.x.stage = "grant-planned"

\* And of the cleanup, which visits one kind of resource after the other.
FileSites == {"clean.file", "clean.unlink"}
XSites == {"clean.x", "clean.xrun", "clean.xverify"}
AfterX == {"clean.final", "clean.remove"}
AfterFile == {"clean.dir", "clean.rmdir"} \cup XSites \cup AfterX
AfterMounts == FileSites \cup AfterFile
CloseHere ==
  /\ pc \in Settling \ {"clean.mark"} => mem.phase = "cleaning"
  /\ pc = "clean.remove" => mem.phase = "complete"
  /\ pc \in Settling => mem.art # "planned"
  /\ pc \in {"clean.umount", "clean.umounted"} => todo # {} /\ Stage(Target) = "unmounting"
  /\ pc \in MountCleanSites \cup FileSites => cur = NumRequests + 1
  /\ pc = "clean.unlink" => mem.art = "removing"
  /\ pc = "clean.rmdir" => cur > 0 /\ mem.dirs[Slot].stage = "removing"
  /\ pc \in {"clean.xrun", "clean.xverify"} => mem.x.stage = "revoking"
  /\ pc \in XSites \cup AfterX => cur = 0
ShapedInv == ShapeInv /\ OpenHere /\ CloseHere

\* While no call failed the record is one step ahead of the journal.
Follows(o, n) == PendingOK(o, n) \/ o.phase = "complete"
InStep ==
  IF pc \in Loaded
  THEN /\ persisted = journal
       /\ io = "idle" => mem = journal
       /\ io # "replace" => pending = NoJournal
       /\ io = "replace" => pending = mem
       /\ io # "idle" => Follows(journal, mem)
  ELSE Whole(pending) => Follows(journal, pending)

\* Where the directory of a place is, and what a record says of it.
DirFits(w, d) ==
  /\ d.stage = "planned"        => w \in {"none", "private", "staging"}
  /\ d.stage = "staged"         => w = "staging"
  /\ d.stage = "rename-planned" => w \in {"staging", "final"}
  /\ d.stage = "created"        => w = "final"
  /\ d.stage = "removing"       => w \in {"none", IF d.renamed THEN "final" ELSE "staging"}
  /\ d.stage = "removed"        => w # "final"
DirsFit(D, ds) == \A k \in Places : DirFits(D[k], ds[k])
DirsInv == /\ DirsFit(dirs, journal.dirs) /\ DirsFit(dirs, pending.dirs) /\ DirsFit(dirs, mem.dirs)
DirHere ==
  /\ pc = "dir.staged" => dirs[Place] = "staging"
  /\ pc = "dir.done" => dirs[Place] = "final"
  /\ pc \in Settling => \A k \in Places : /\ mem.dirs[k].stage # "planned"
                                          /\ mem.dirs[k].stage = "rename-planned" => dirs[k] = "staging"
SavedInv == faults = 0 => ok /\ InStep /\ DirsInv /\ DirHere

\* While nobody but the session touches its resources as well.
ScopeIn(T, r) == {m \in T : m.req = r}
EquivalentIn(T, r) ==
  /\ \E m \in T : PathIn(T, r, "root") = {m} /\ m.like
  /\ IF r \in Recursive THEN \E m \in T : PathIn(T, r, "sub") = {m} /\ m.like
                        ELSE PathIn(T, r, "sub") = {}
OwnedFit(T, p, m) ==
  /\ p.owned[m] = "owned"      => PathIn(T, m.req, m.at) = {m}
  /\ p.owned[m] = "unmounting" => PathIn(T, m.req, m.at) \subseteq {m}
  /\ p.owned[m] = "removed"    => PathIn(T, m.req, m.at) = {}
PlanFits(T, p, r) ==
  /\ p.before = {}
  /\ p.stage \notin {"already-present", "ambiguous"}
  /\ p.stage \in {"planned", "failed"} => ScopeIn(T, r) = {}
  /\ p.stage = "command-started" => ScopeIn(T, r) = {} \/ EquivalentIn(T, r)
  /\ p.stage = "owned" => ScopeIn(T, r) \subseteq Owned(p) /\ \A m \in Owned(p) : OwnedFit(T, p, m)
PlansFit(T, ms) == \A i \in DOMAIN ms : PlanFits(T, ms[i], i)
XFits(v, q) ==
  /\ q.stage \in {"grant-planned", "revoking"} => v # "off"
  /\ q.stage = "owned" => v \in {"present", "granted"}
SettlingInv ==
  /\ \A i \in DOMAIN mem.mounts : mem.mounts[i].stage \in {"owned", "failed"}
  /\ mem.x.stage # "grant-planned"
  /\ mem.x.stage = "revoking" /\ pc # "clean.xverify" => Local
AloneSites ==
  /\ pc = "mount.after" => Equivalent(Place)
  /\ pc = "x.verify" => Local
  /\ pc \in Settling => SettlingInv
  /\ pc = "clean.xverify" => xs = "absent"
  /\ pc \in MountCleanSites => \A i \in DOMAIN mem.mounts : Live(mem.mounts[i]) \subseteq todo
  /\ pc = "clean.umount" => Target \in table
  /\ pc = "clean.umounted" => snap \ table = {Target} /\ There(Target) = {}
  /\ pc \in AfterMounts => \A i \in DOMAIN mem.mounts : Live(mem.mounts[i]) = {}
  /\ pc \in AfterFile => mem.art \in Gone
  /\ pc \in AfterFile => \A k \in Places : k >= cur => mem.dirs[k].stage \in Gone
  /\ pc = "clean.rmdir" => dirs[Slot] = SlotPath
  /\ pc \in AfterX => mem.x.stage \notin {"grant-planned", "owned", "revoking"}
Alone == faults = 0 /\ host = 0
AloneFits ==
  /\ \A m \in table : m.by = "session"
  /\ PlansFit(table, journal.mounts) /\ PlansFit(table, pending.mounts) /\ PlansFit(table, mem.mounts)
  /\ XFits(xs, journal.x) /\ XFits(xs, pending.x) /\ XFits(xs, mem.x)
AloneInv == Alone => failed = FALSE /\ AloneFits /\ AloneSites

\* While no session died either, what an idle journal is left by.
LeftInv ==
  Alone /\ crashes = 0 /\ pc \notin Loaded =>
    pending = NoJournal /\ (journal = NoJournal \/ Unproved(journal))
HandInv == ShapedInv /\ SavedInv /\ AloneInv /\ LeftInv

\* What _validate_state asks, every record fulfils.
LEMMA ShapeValid ==
  ASSUME NEW j, Shape(j)
  PROVE  ValidState(j)
  BY DEF Shape, PlanShape, DirShape, XShape, ValidState, ValidX

\* What is left as it was follows on itself.
LEMMA PlanSame ==
  ASSUME NEW p \in PlanType, PlanShape(p)
  PROVE  PlanOK(p, p)
  <1>1. p.stage \in NextPlan(p.stage)
    BY PlanHas DEF NextPlan, PlanStages
  <1>2. p.stage # "owned" => Owned(p) = {}
    BY DEF PlanShape, ValidPlan
  <1>3. \A m \in Owned(p) : p.owned[m] \in NextOwned(p.owned[m])
    BY PlanHas DEF NextOwned, OwnedStages
  <1>4. OwnedOK(p, p)
    BY <1>2, <1>3 DEF OwnedOK, PlanShape
  <1> QED  BY <1>1, <1>4 DEF PlanOK, ObservationOK

LEMMA DirSame ==
  ASSUME NEW d \in [stage : DirStages, renamed : BOOLEAN]
  PROVE  DirStepOK(d, d)
  BY DEF DirStepOK, NextDir, DirStages

LEMMA XSame ==
  ASSUME NEW q \in [stage : XStages, before : {"none", "off", "absent", "present"}], XShape(q)
  PROVE  XStepOK(q, q)
  <1>1. q.stage \in NextX(q.stage)
    BY DEF NextX, XStages
  <1> QED  BY <1>1 DEF XStepOK, XShape

LEMMA ArtSame == \A a \in ArtStages : a \in NextArt(a)
  BY DEF ArtStages, NextArt

LEMMA PhaseSame == \A s \in {"active", "cleaning"} : s \in NextPhase(s)
  BY DEF NextPhase

LEMMA BegunIs == \A j : Begun(j) => j \notin {NoJournal, Torn} /\ Whole(j)
  BY DEF Begun, NoJournal, Torn, State, Whole

\* Every resource that was recorded is where it was or one step on, and none is new.
LEMMA StepsOn ==
  ASSUME NEW o, NEW n, Typed(o), Typed(n), Shape(n), Begun(o),
         n.phase \in NextPhase(o.phase), DOMAIN n.mounts = DOMAIN o.mounts,
         \A i \in DOMAIN o.mounts : PlanOK(o.mounts[i], n.mounts[i]),
         \A k \in Places : IF o.dirs[k].stage = "none" THEN n.dirs[k].stage = "none"
                           ELSE DirStepOK(o.dirs[k], n.dirs[k]),
         IF o.art = "none" THEN n.art = "none" ELSE n.art \in NextArt(o.art),
         XStepOK(o.x, n.x)
  PROVE  PendingOK(o, n)
  <1>1. Len(n.mounts) = Len(o.mounts) /\ Len(o.mounts) \in Nat
    BY StateHas DEF Typed
  <1>2. NewDirs(o, n) = {}
    BY DEF NewDirs
  <1>3. NumAdded(o, n) = 0
    BY <1>1, <1>2, FS_EmptySet DEF NumAdded
  <1>4. AddedOK(o, n)
    BY <1>2, <1>3 DEF AddedOK
  <1> QED  BY <1>1, <1>4, ShapeValid, BegunIs DEF PendingOK

\* One resource is recorded for the first time and everything else is as it was.
LEMMA OneMore ==
  ASSUME NEW o, NEW n, Typed(o), Typed(n), Shape(o), Shape(n), Begun(o),
         o.phase \in {"active", "cleaning"}, n.phase = o.phase, n.x = o.x,
         \A i \in DOMAIN o.mounts : i \in DOMAIN n.mounts /\ n.mounts[i] = o.mounts[i],
         \A k \in Places \ NewDirs(o, n) : n.dirs[k] = o.dirs[k],
         o.art # "none" => n.art = o.art,
         Len(n.mounts) >= Len(o.mounts), NumAdded(o, n) = 1,
         \A i \in DOMAIN n.mounts \ DOMAIN o.mounts : NewPlanOK(n.mounts[i]),
         \A k \in NewDirs(o, n) : n.dirs[k] = [NoDir EXCEPT !.stage = "planned"],
         o.art = "none" => n.art \in {"none", "planned"}
  PROVE  PendingOK(o, n)
  <1>1. AddedOK(o, n)
    BY DEF AddedOK
  <1>2. o.mounts \in Seq(PlanType) /\ o.art \in ArtStages
        /\ (\A i \in DOMAIN o.mounts : o.mounts[i] \in PlanType)
        /\ (\A k \in Places : o.dirs[k] \in [stage : DirStages, renamed : BOOLEAN])
        /\ o.x \in [stage : XStages, before : {"none", "off", "absent", "present"}]
    BY StateHas DEF Typed
  <1>3. \A i \in DOMAIN o.mounts : PlanOK(o.mounts[i], n.mounts[i])
    BY <1>2, PlanSame DEF Shape
  <1>4. \A k \in Places : o.dirs[k].stage # "none" => DirStepOK(o.dirs[k], n.dirs[k])
    BY <1>2, DirSame DEF NewDirs
  <1>5. XStepOK(o.x, n.x)
    BY <1>2, XSame DEF Shape
  <1>6. n.phase \in NextPhase(o.phase) /\ (o.art # "none" => n.art \in NextArt(o.art))
    BY <1>2, PhaseSame, ArtSame
  <1> QED  BY <1>1, <1>3, <1>4, <1>5, <1>6, ShapeValid, BegunIs DEF PendingOK

--------------------------------------------------------------------------------
(* The edits of a record *)

DirType == [stage : DirStages, renamed : BOOLEAN]
XType   == [stage : XStages, before : {"none", "off", "absent", "present"}]

\* The phase.
LEMMA PhaseEdit ==
  ASSUME NEW j, Typed(j), Shape(j), NEW s \in Phases
  PROVE  LET n == [j EXCEPT !.phase = s] IN
         /\ Typed(n) /\ Shape(n) /\ n.phase = s
         /\ n.mounts = j.mounts /\ n.dirs = j.dirs /\ n.art = j.art /\ n.x = j.x
  <1>1. Typed([j EXCEPT !.phase = s]) /\ j \in StateType
    BY PutFields DEF Typed
  <1> DEFINE n == [j EXCEPT !.phase = s]
  <1>2. n.phase = s /\ n.mounts = j.mounts /\ n.dirs = j.dirs /\ n.art = j.art /\ n.x = j.x
    BY <1>1 DEF StateType
  <1> HIDE DEF n
  <1>3. Shape(n)
    BY <1>2 DEF Shape
  <1> QED  BY <1>1, <1>2, <1>3 DEF n

\* Where nothing changes but a few fields, what is left follows on itself.
LEMMA KeptFollow ==
  ASSUME NEW j, Typed(j), Shape(j)
  PROVE  /\ \A i \in DOMAIN j.mounts : PlanOK(j.mounts[i], j.mounts[i])
         /\ \A k \in Places : DirStepOK(j.dirs[k], j.dirs[k])
         /\ j.art \in NextArt(j.art)
         /\ XStepOK(j.x, j.x)
  BY PlanSame, DirSame, ArtSame, XSame, StateHas DEF Typed, Shape

LEMMA PhaseStep ==
  ASSUME NEW j, Typed(j), Shape(j), Begun(j), NEW s \in {"cleaning", "complete"},
         s = "complete" => j.phase = "cleaning"
  PROVE  Follows(j, [j EXCEPT !.phase = s])
  <1> DEFINE n == [j EXCEPT !.phase = s]
  <1>0. s \in Phases
    BY DEF Phases
  <1>1. /\ Typed(n) /\ Shape(n) /\ n.phase = s
        /\ n.mounts = j.mounts /\ n.dirs = j.dirs /\ n.art = j.art /\ n.x = j.x
    BY <1>0, PhaseEdit
  <1> HIDE DEF n
  <1>2. CASE j.phase = "complete"
    BY <1>2 DEF Follows
  <1>3. CASE j.phase # "complete"
    <2>1. s \in NextPhase(j.phase)
      BY <1>3 DEF Begun, NextPhase
    <2>2. PendingOK(j, n)
      BY <1>1, <2>1, KeptFollow, StepsOn
    <2> QED  BY <2>2 DEF Follows, n
  <1> QED  BY <1>2, <1>3

\* The staged file.
LEMMA ArtEdit ==
  ASSUME NEW j, Typed(j), Shape(j), NEW a \in ArtStages
  PROVE  LET n == [j EXCEPT !.art = a] IN
         /\ Typed(n) /\ Shape(n) /\ n.phase = j.phase
         /\ n.mounts = j.mounts /\ n.dirs = j.dirs /\ n.art = a /\ n.x = j.x
  <1>1. Typed([j EXCEPT !.art = a]) /\ j \in StateType
    BY PutFields DEF Typed
  <1> DEFINE n == [j EXCEPT !.art = a]
  <1>2. n.phase = j.phase /\ n.mounts = j.mounts /\ n.dirs = j.dirs /\ n.art = a /\ n.x = j.x
    BY <1>1 DEF StateType
  <1> HIDE DEF n
  <1>3. Shape(n)
    BY <1>2 DEF Shape
  <1> QED  BY <1>1, <1>2, <1>3 DEF n

LEMMA ArtStep ==
  ASSUME NEW j, Typed(j), Shape(j), j.phase \in {"active", "cleaning"}, NEW a \in ArtStages,
         IF j.art = "none" THEN a = "planned" ELSE a \in NextArt(j.art)
  PROVE  Follows(j, [j EXCEPT !.art = a])
  <1> DEFINE n == [j EXCEPT !.art = a]
  <1>1. /\ Typed(n) /\ Shape(n) /\ n.phase = j.phase
        /\ n.mounts = j.mounts /\ n.dirs = j.dirs /\ n.art = a /\ n.x = j.x
    BY ArtEdit
  <1>2. Begun(j) /\ j.phase \in NextPhase(j.phase)
    BY PhaseSame DEF Begun
  <1>3. Len(j.mounts) \in Nat
    BY StateHas DEF Typed
  <1> HIDE DEF n
  <1>4. CASE j.art = "none"
    <2>1. NewDirs(j, n) = {}
      BY <1>1 DEF NewDirs
    <2>2. NumAdded(j, n) = 1
      BY <1>1, <1>3, <1>4, <2>1, FS_EmptySet DEF NumAdded
    <2>3. PendingOK(j, n)
      BY <1>1, <1>2, <1>3, <1>4, <2>1, <2>2, OneMore
    <2> QED  BY <2>3 DEF Follows, n
  <1>5. CASE j.art # "none"
    <2>1. a \in NextArt(j.art)
      BY <1>5
    <2>2. PendingOK(j, n)
      BY <1>1, <1>2, <1>5, <2>1, KeptFollow, StepsOn
    <2> QED  BY <2>2 DEF Follows, n
  <1> QED  BY <1>4, <1>5

\* The X access.
LEMMA XEdit ==
  ASSUME NEW j, Typed(j), Shape(j), NEW q \in XType, XShape(q)
  PROVE  LET n == [j EXCEPT !.x = q] IN
         /\ Typed(n) /\ Shape(n) /\ n.phase = j.phase
         /\ n.mounts = j.mounts /\ n.dirs = j.dirs /\ n.art = j.art /\ n.x = q
  <1>1. Typed([j EXCEPT !.x = q]) /\ j \in StateType
    BY PutXTyped DEF Typed, XType
  <1> DEFINE n == [j EXCEPT !.x = q]
  <1>2. n.phase = j.phase /\ n.mounts = j.mounts /\ n.dirs = j.dirs /\ n.art = j.art /\ n.x = q
    BY <1>1 DEF StateType
  <1> HIDE DEF n
  <1>3. Shape(n)
    BY <1>2 DEF Shape
  <1> QED  BY <1>1, <1>2, <1>3 DEF n

LEMMA XStep ==
  ASSUME NEW j, Typed(j), Shape(j), j.phase \in {"active", "cleaning"}, NEW q \in XType, XShape(q),
         XStepOK(j.x, q)
  PROVE  Follows(j, [j EXCEPT !.x = q])
  <1> DEFINE n == [j EXCEPT !.x = q]
  <1>1. /\ Typed(n) /\ Shape(n) /\ n.phase = j.phase
        /\ n.mounts = j.mounts /\ n.dirs = j.dirs /\ n.art = j.art /\ n.x = q
    BY XEdit
  <1>2. Begun(j) /\ j.phase \in NextPhase(j.phase)
    BY PhaseSame DEF Begun
  <1> HIDE DEF n
  <1>3. PendingOK(j, n)
    BY <1>1, <1>2, KeptFollow, StepsOn
  <1> QED  BY <1>3 DEF Follows, n

\* A directory.
LEMMA DirEdit ==
  ASSUME NEW j, Typed(j), Shape(j), NEW k \in Places, NEW d \in DirType, DirShape(d)
  PROVE  LET n == [j EXCEPT !.dirs[k] = d] IN
         /\ Typed(n) /\ Shape(n) /\ n.phase = j.phase
         /\ n.mounts = j.mounts /\ n.dirs[k] = d /\ n.art = j.art /\ n.x = j.x
         /\ \A i \in Places : i # k => n.dirs[i] = j.dirs[i]
  <1>1. Typed([j EXCEPT !.dirs[k] = d]) /\ j \in StateType
    BY PutDirTyped DEF Typed, DirType
  <1> DEFINE n == [j EXCEPT !.dirs[k] = d]
  <1>2. /\ n.phase = j.phase /\ n.mounts = j.mounts /\ n.dirs = [j.dirs EXCEPT ![k] = d]
        /\ n.art = j.art /\ n.x = j.x
    BY <1>1 DEF StateType
  <1>3. j.dirs \in [Places -> DirType]
    BY StateHas DEF Typed, DirType
  <1> HIDE DEF n
  <1>4. n.dirs[k] = d /\ \A i \in Places : i # k => n.dirs[i] = j.dirs[i]
    BY <1>2, <1>3
  <1>5. Shape(n)
    BY <1>2, <1>4 DEF Shape
  <1> QED  BY <1>1, <1>2, <1>4, <1>5 DEF n

LEMMA DirStep ==
  ASSUME NEW j, Typed(j), Shape(j), j.phase \in {"active", "cleaning"}, NEW k \in Places,
         NEW d \in DirType, DirShape(d),
         IF j.dirs[k].stage = "none" THEN d = [NoDir EXCEPT !.stage = "planned"]
         ELSE DirStepOK(j.dirs[k], d)
  PROVE  Follows(j, [j EXCEPT !.dirs[k] = d])
  <1> DEFINE n == [j EXCEPT !.dirs[k] = d]
  <1>1. /\ Typed(n) /\ Shape(n) /\ n.phase = j.phase
        /\ n.mounts = j.mounts /\ n.dirs[k] = d /\ n.art = j.art /\ n.x = j.x
        /\ \A i \in Places : i # k => n.dirs[i] = j.dirs[i]
    BY DirEdit
  <1>2. Begun(j) /\ j.phase \in NextPhase(j.phase)
    BY PhaseSame DEF Begun
  <1>3. Len(j.mounts) \in Nat
    BY StateHas DEF Typed
  <1> HIDE DEF n
  <1>4. CASE j.dirs[k].stage = "none"
    <2>0. d.stage = "planned"
      BY <1>4 DEF NoDir
    <2>1. NewDirs(j, n) = {k}
      BY <1>1, <1>4, <2>0 DEF NewDirs
    <2>2. Cardinality({k}) = 1
      BY FS_Singleton
    <2>3. NumAdded(j, n) = 1
      BY <1>1, <1>3, <2>1, <2>2 DEF NumAdded
    <2>4. \A i \in Places \ NewDirs(j, n) : n.dirs[i] = j.dirs[i]
      BY <1>1, <2>1
    <2>5. \A i \in NewDirs(j, n) : n.dirs[i] = [NoDir EXCEPT !.stage = "planned"]
      BY <1>1, <1>4, <2>1
    <2>6. PendingOK(j, n)
      BY <1>1, <1>2, <1>3, <2>3, <2>4, <2>5, OneMore
    <2> QED  BY <2>6 DEF Follows, n
  <1>5. CASE j.dirs[k].stage # "none"
    <2>1. \A i \in Places : IF j.dirs[i].stage = "none" THEN n.dirs[i].stage = "none"
                            ELSE DirStepOK(j.dirs[i], n.dirs[i])
      BY <1>1, <1>5, KeptFollow
    <2>2. PendingOK(j, n)
      BY <1>1, <1>2, <2>1, KeptFollow, StepsOn
    <2> QED  BY <2>2 DEF Follows, n
  <1> QED  BY <1>4, <1>5

\* A plan.
LEMMA PlanEdit ==
  ASSUME NEW j, Typed(j), Shape(j), NEW k \in DOMAIN j.mounts, NEW p \in PlanType, PlanShape(p)
  PROVE  LET n == [j EXCEPT !.mounts[k] = p] IN
         /\ Typed(n) /\ Shape(n) /\ n.phase = j.phase /\ n.dirs = j.dirs /\ n.art = j.art /\ n.x = j.x
         /\ DOMAIN n.mounts = DOMAIN j.mounts /\ Len(n.mounts) = Len(j.mounts)
         /\ \A i \in DOMAIN j.mounts : n.mounts[i] = IF i = k THEN p ELSE j.mounts[i]
  <1> DEFINE n == [j EXCEPT !.mounts[k] = p]
  <1>1. Typed(n) /\ n.mounts = [j.mounts EXCEPT ![k] = p] /\ j \in StateType
    BY PutPlanTyped DEF Typed
  <1>2. n.phase = j.phase /\ n.dirs = j.dirs /\ n.art = j.art /\ n.x = j.x
    BY <1>1 DEF StateType
  <1> HIDE DEF n
  <1>3. /\ DOMAIN n.mounts = DOMAIN j.mounts
        /\ \A i \in DOMAIN j.mounts : n.mounts[i] = IF i = k THEN p ELSE j.mounts[i]
    BY <1>1
  <1>4. Len(n.mounts) = Len(j.mounts)
    BY <1>1, <1>3, StateHas DEF Typed
  <1>5. Shape(n)
    BY <1>2, <1>3 DEF Shape
  <1> QED  BY <1>1, <1>2, <1>3, <1>4, <1>5 DEF n

\* The plans of a record move on, and nothing else does.
LEMMA PlansStep ==
  ASSUME NEW j, Typed(j), Shape(j), j.phase \in {"active", "cleaning"}, NEW n, Typed(n), Shape(n),
         n.phase = j.phase, n.dirs = j.dirs, n.art = j.art, n.x = j.x,
         DOMAIN n.mounts = DOMAIN j.mounts,
         \A i \in DOMAIN j.mounts : n.mounts[i] = j.mounts[i] \/ PlanOK(j.mounts[i], n.mounts[i])
  PROVE  Follows(j, n)
  <1>1. Begun(j) /\ j.phase \in NextPhase(j.phase)
    BY PhaseSame DEF Begun
  <1>2. \A i \in DOMAIN j.mounts : PlanOK(j.mounts[i], n.mounts[i])
    BY KeptFollow
  <1>3. PendingOK(j, n)
    BY <1>1, <1>2, KeptFollow, StepsOn
  <1> QED  BY <1>3 DEF Follows

LEMMA PlanStep ==
  ASSUME NEW j, Typed(j), Shape(j), j.phase \in {"active", "cleaning"},
         NEW k \in DOMAIN j.mounts, NEW p \in PlanType, PlanShape(p), PlanOK(j.mounts[k], p)
  PROVE  Follows(j, [j EXCEPT !.mounts[k] = p])
  <1> DEFINE n == [j EXCEPT !.mounts[k] = p]
  <1>1. /\ Typed(n) /\ Shape(n) /\ n.phase = j.phase /\ n.dirs = j.dirs /\ n.art = j.art /\ n.x = j.x
        /\ DOMAIN n.mounts = DOMAIN j.mounts
        /\ \A i \in DOMAIN j.mounts : n.mounts[i] = IF i = k THEN p ELSE j.mounts[i]
    BY PlanEdit
  <1> HIDE DEF n
  <1>2. \A i \in DOMAIN j.mounts : n.mounts[i] = j.mounts[i] \/ PlanOK(j.mounts[i], n.mounts[i])
    BY <1>1
  <1> QED  BY <1>1, <1>2, PlansStep DEF n

\* The stage of an owned mount.
LEMMA OwnedStageIs ==
  ASSUME NEW p \in PlanType, NEW m \in Owned(p), NEW s \in OwnedStages
  PROVE  LET q == [p EXCEPT !.owned[m] = s] IN
         /\ q \in PlanType /\ Owned(q) = Owned(p)
         /\ q.stage = p.stage /\ q.before = p.before /\ q.seen = p.seen /\ q.inferred = p.inferred
         /\ \A w \in Owned(p) : q.owned[w] = IF w = m THEN s ELSE p.owned[w]
  <1> DEFINE q == [p EXCEPT !.owned[m] = s]
  <1>1. q \in PlanType /\ Owned(q) = Owned(p)
    BY PutStageTyped
  <1>2. q.stage = p.stage /\ q.before = p.before /\ q.seen = p.seen /\ q.inferred = p.inferred
        /\ q.owned = [p.owned EXCEPT ![m] = s]
    BY DEF PlanType
  <1>3. \A w \in Owned(p) : q.owned[w] = IF w = m THEN s ELSE p.owned[w]
    BY <1>2 DEF Owned
  <1> HIDE DEF q
  <1> QED  BY <1>1, <1>2, <1>3 DEF q

LEMMA OwnedEdit ==
  ASSUME NEW j, Typed(j), Shape(j), NEW k \in DOMAIN j.mounts, NEW m \in Owned(j.mounts[k]),
         NEW s \in OwnedStages
  PROVE  LET n == [j EXCEPT !.mounts[k].owned[m] = s] IN
         /\ Typed(n) /\ Shape(n) /\ n.phase = j.phase /\ n.dirs = j.dirs /\ n.art = j.art /\ n.x = j.x
         /\ DOMAIN n.mounts = DOMAIN j.mounts
         /\ \A i \in DOMAIN j.mounts : n.mounts[i] = IF i = k THEN [j.mounts[i] EXCEPT !.owned[m] = s]
                                                     ELSE j.mounts[i]
  <1> DEFINE p == [j.mounts[k] EXCEPT !.owned[m] = s]
             n == [j EXCEPT !.mounts[k].owned[m] = s]
  <1>1. j.mounts[k] \in PlanType /\ PlanShape(j.mounts[k]) /\ j \in StateType
    BY StateHas DEF Typed, Shape
  <1>2. /\ p \in PlanType /\ Owned(p) = Owned(j.mounts[k])
        /\ p.stage = j.mounts[k].stage /\ p.seen = j.mounts[k].seen
        /\ p.inferred = j.mounts[k].inferred
    BY <1>1, OwnedStageIs
  <1> HIDE DEF p
  <1>3. PlanShape(p)
    BY <1>1, <1>2 DEF PlanShape, ValidPlan
  <1>4. n = [j EXCEPT !.mounts[k] = p]
    BY DEF p
  <1> HIDE DEF n
  <1>5. /\ Typed(n) /\ Shape(n) /\ n.phase = j.phase /\ n.dirs = j.dirs /\ n.art = j.art /\ n.x = j.x
        /\ DOMAIN n.mounts = DOMAIN j.mounts
        /\ \A i \in DOMAIN j.mounts : n.mounts[i] = IF i = k THEN p ELSE j.mounts[i]
    BY <1>2, <1>3, <1>4, PlanEdit
  <1>6. \A i \in DOMAIN j.mounts : i = k => p = [j.mounts[i] EXCEPT !.owned[m] = s]
    BY DEF p
  <1> QED  BY <1>5, <1>6 DEF n

LEMMA OwnedStep ==
  ASSUME NEW j, Typed(j), Shape(j), j.phase \in {"active", "cleaning"},
         NEW k \in DOMAIN j.mounts, NEW m \in Owned(j.mounts[k]), NEW s \in OwnedStages,
         s \in NextOwned(j.mounts[k].owned[m])
  PROVE  Follows(j, [j EXCEPT !.mounts[k].owned[m] = s])
  <1> DEFINE n == [j EXCEPT !.mounts[k].owned[m] = s]
             o == j.mounts[k]
             p == [o EXCEPT !.owned[m] = s]
  <1>1. /\ Typed(n) /\ Shape(n) /\ n.phase = j.phase /\ n.dirs = j.dirs /\ n.art = j.art /\ n.x = j.x
        /\ DOMAIN n.mounts = DOMAIN j.mounts
        /\ \A i \in DOMAIN j.mounts : n.mounts[i] = IF i = k THEN [j.mounts[i] EXCEPT !.owned[m] = s]
                                                    ELSE j.mounts[i]
    BY OwnedEdit
  <1>2. o \in PlanType /\ PlanShape(o)
    BY StateHas DEF Typed, Shape
  <1>3. /\ p \in PlanType /\ Owned(p) = Owned(o)
        /\ p.stage = o.stage /\ p.before = o.before /\ p.seen = o.seen /\ p.inferred = o.inferred
        /\ \A w \in Owned(o) : p.owned[w] = IF w = m THEN s ELSE o.owned[w]
    BY <1>2, OwnedStageIs
  <1>4. n.mounts[k] = p
    BY <1>1
  <1> HIDE DEF n, p
  <1>5. o.stage = "owned"
    BY <1>2 DEF PlanShape, ValidPlan
  <1>6. \A w \in Owned(o) : p.owned[w] \in NextOwned(o.owned[w])
    <2>1. \A w \in Owned(o) : o.owned[w] \in NextOwned(o.owned[w])
      BY <1>2, PlanHas DEF NextOwned, OwnedStages
    <2> QED  BY <1>3, <2>1
  <1>7. OwnedOK(o, p)
    BY <1>2, <1>3, <1>5, <1>6 DEF OwnedOK, PlanShape
  <1>8. o.stage \in NextPlan(o.stage)
    BY <1>5 DEF NextPlan
  <1>9. PlanOK(o, p)
    BY <1>3, <1>7, <1>8 DEF PlanOK, ObservationOK
  <1>10. \A i \in DOMAIN j.mounts : n.mounts[i] = j.mounts[i] \/ PlanOK(j.mounts[i], n.mounts[i])
    BY <1>1, <1>4, <1>9
  <1> QED  BY <1>1, <1>10, PlansStep DEF n

\* A plan that is added.
LEMMA PlanAdded ==
  ASSUME NEW j, Typed(j), Shape(j), j.phase \in {"active", "cleaning"},
         NEW p \in PlanType, PlanShape(p), NewPlanOK(p), Len(j.mounts) < NumRequests
  PROVE  LET n == [j EXCEPT !.mounts = Append(@, p)] IN
         /\ Typed(n) /\ Shape(n) /\ n.phase = j.phase /\ n.dirs = j.dirs /\ n.art = j.art /\ n.x = j.x
         /\ DOMAIN n.mounts = DOMAIN j.mounts \cup {Len(j.mounts) + 1}
         /\ n.mounts[Len(j.mounts) + 1] = p /\ Len(n.mounts) = Len(j.mounts) + 1
         /\ \A i \in DOMAIN j.mounts : n.mounts[i] = j.mounts[i]
         /\ Follows(j, n)
  <1> DEFINE n == [j EXCEPT !.mounts = Append(@, p)]
  <1>1. /\ Typed(n)
        /\ Len(n.mounts) = Len(j.mounts) + 1
        /\ DOMAIN n.mounts = DOMAIN j.mounts \cup {Len(j.mounts) + 1}
        /\ n.mounts[Len(j.mounts) + 1] = p
        /\ \A i \in DOMAIN j.mounts : n.mounts[i] = j.mounts[i]
    BY AppendTyped
  <1>2. n.phase = j.phase /\ n.dirs = j.dirs /\ n.art = j.art /\ n.x = j.x
    BY DEF Typed, StateType
  <1>3. Len(j.mounts) \in Nat /\ Begun(j)
    BY StateHas DEF Typed, Begun
  <1> HIDE DEF n
  <1>4. Shape(n)
    BY <1>1, <1>2 DEF Shape
  <1>5. NewDirs(j, n) = {}
    BY <1>2 DEF NewDirs
  <1>6. NumAdded(j, n) = 1
    BY <1>1, <1>2, <1>3, <1>5, FS_EmptySet DEF NumAdded
  <1>7. \A i \in DOMAIN n.mounts \ DOMAIN j.mounts : NewPlanOK(n.mounts[i])
    BY <1>1
  <1>8. PendingOK(j, n)
    <2>1. Len(n.mounts) >= Len(j.mounts)
      BY <1>1, <1>3
    <2>2. /\ \A i \in DOMAIN j.mounts : i \in DOMAIN n.mounts /\ n.mounts[i] = j.mounts[i]
          /\ \A k \in Places \ NewDirs(j, n) : n.dirs[k] = j.dirs[k]
          /\ \A k \in NewDirs(j, n) : n.dirs[k] = [NoDir EXCEPT !.stage = "planned"]
          /\ j.art # "none" => n.art = j.art
          /\ j.art = "none" => n.art \in {"none", "planned"}
      BY <1>1, <1>2, <1>5
    <2> QED  BY <1>1, <1>2, <1>3, <1>4, <1>6, <1>7, <2>1, <2>2, OneMore
  <1> QED  BY <1>1, <1>2, <1>4, <1>8 DEF Follows, n

--------------------------------------------------------------------------------
(* The preflight moves a record on *)

\* What a preflight makes of a plan, case by case.
LEMMA NewPlanIs ==
  ASSUME NEW p \in PlanType, NEW r
  PROVE  LET q == NewPlan(p, r)
             X == Extras(p, r)
             S == Scope(r) IN
         /\ p.stage \in {"planned", "ambiguous"} \/ (p.stage = "command-started" /\ S = p.before) =>
              /\ q.stage = "failed" /\ q.before = p.before /\ q.seen = p.seen
              /\ q.owned = p.owned /\ q.inferred = p.inferred
         /\ p.stage = "command-started" /\ S # p.before =>
              /\ q.stage = "owned" /\ q.before = p.before /\ q.seen = S /\ q.inferred = S
              /\ Owned(q) = S /\ \A m \in S : q.owned[m] = "owned"
         /\ p.stage = "owned" =>
              /\ q.stage = "owned" /\ q.before = p.before /\ q.seen = p.seen
              /\ q.inferred = p.inferred \cup X /\ Owned(q) = Owned(p) \cup X
              /\ \A m \in Owned(q) :
                   q.owned[m] = IF m \notin Owned(p) THEN "owned"
                                ELSE IF p.owned[m] = "unmounting" /\ m \notin table THEN "removed"
                                ELSE p.owned[m]
         /\ p.stage \in {"already-present", "failed"} => q = p
  <1> DEFINE S == Scope(r)
             X == Extras(p, r)
             f == [m \in S |-> "owned"]
             g == [m \in Owned(p) \cup X |->
                     IF m \notin Owned(p) THEN "owned"
                     ELSE IF p.owned[m] = "unmounting" /\ m \notin table THEN "removed"
                     ELSE p.owned[m]]
             q == NewPlan(p, r)
  <1>1. /\ p.stage \in {"planned", "ambiguous"} => q = [p EXCEPT !.stage = "failed"]
        /\ p.stage = "command-started" =>
             q = IF S = p.before THEN [p EXCEPT !.stage = "failed"]
                 ELSE [p EXCEPT !.stage = "owned", !.seen = S, !.inferred = S, !.owned = f]
        /\ p.stage = "owned" => q = [p EXCEPT !.inferred = p.inferred \cup X, !.owned = g]
        /\ p.stage \in {"already-present", "failed"} => q = p
    BY DEF NewPlan
  <1>2. /\ DOMAIN f = S /\ \A m \in S : f[m] = "owned"
        /\ DOMAIN g = Owned(p) \cup X
        /\ \A m \in Owned(p) \cup X :
             g[m] = IF m \notin Owned(p) THEN "owned"
                    ELSE IF p.owned[m] = "unmounting" /\ m \notin table THEN "removed"
                    ELSE p.owned[m]
    OBVIOUS
  <1> HIDE DEF S, X, f, g, q
  <1>3. CASE p.stage \in {"planned", "ambiguous"} \/ (p.stage = "command-started" /\ S = p.before)
    <2>1. q = [p EXCEPT !.stage = "failed"]
      BY <1>1, <1>3
    <2>2. /\ q.stage = "failed" /\ q.before = p.before /\ q.seen = p.seen
          /\ q.owned = p.owned /\ q.inferred = p.inferred
      BY <2>1 DEF PlanType
    <2> QED  BY <1>3, <2>2 DEF S, q
  <1>4. CASE p.stage = "command-started" /\ S # p.before
    <2>1. q = [p EXCEPT !.stage = "owned", !.seen = S, !.inferred = S, !.owned = f]
      BY <1>1, <1>4
    <2>2. q.stage = "owned" /\ q.before = p.before /\ q.seen = S /\ q.inferred = S /\ q.owned = f
      BY <2>1 DEF PlanType
    <2> QED  BY <1>2, <1>4, <2>2 DEF S, q, Owned
  <1>5. CASE p.stage = "owned"
    <2>1. q = [p EXCEPT !.inferred = p.inferred \cup X, !.owned = g]
      BY <1>1, <1>5
    <2>2. /\ q.stage = "owned" /\ q.before = p.before /\ q.seen = p.seen
          /\ q.inferred = p.inferred \cup X /\ q.owned = g
      BY <1>5, <2>1 DEF PlanType
    <2>3. Owned(q) = Owned(p) \cup X
      BY <1>2, <2>2 DEF Owned
    <2>4. \A m \in Owned(q) :
             q.owned[m] = IF m \notin Owned(p) THEN "owned"
                          ELSE IF p.owned[m] = "unmounting" /\ m \notin table THEN "removed"
                          ELSE p.owned[m]
      BY <1>2, <2>2, <2>3
    <2> QED  BY <1>5, <2>2, <2>3, <2>4 DEF X, q
  <1>6. CASE p.stage \in {"already-present", "failed"}
    BY <1>1, <1>6 DEF q
  <1>7. p.stage \in PlanStages
    BY PlanHas
  <1> QED  BY <1>3, <1>4, <1>5, <1>6, <1>7 DEF PlanStages, S, X, q

\* A tree that is equivalent is there.
LEMMA EquivalentThere == \A r : Equivalent(r) => Scope(r) # {}
  BY DEF Equivalent, Scope, AtPath

LEMMA NewPlanShape ==
  ASSUME NEW p \in PlanType, NEW r, PlanShape(p), PlanStateOK(p, r)
  PROVE  PlanShape(NewPlan(p, r)) /\ PlanOK(p, NewPlan(p, r))
  <1> DEFINE q == NewPlan(p, r)
             S == Scope(r)
             X == Extras(p, r)
  <1>0. p.stage # "owned" => Owned(p) = {} /\ p.inferred = {}
    BY DEF PlanShape, ValidPlan
  <1>1. CASE p.stage \in {"planned", "ambiguous"} \/ (p.stage = "command-started" /\ S = p.before)
    <2>1. /\ q.stage = "failed" /\ q.before = p.before /\ q.seen = p.seen
          /\ q.owned = p.owned /\ q.inferred = p.inferred
      BY <1>1, NewPlanIs
    <2>2. Owned(q) = {} /\ q.inferred = {}
      BY <1>0, <1>1, <2>1 DEF Owned
    <2> HIDE DEF q
    <2>3. PlanShape(q)
      BY <2>1, <2>2 DEF PlanShape, ValidPlan
    <2>4. q.stage \in NextPlan(p.stage)
      BY <1>1, <2>1 DEF NextPlan
    <2>5. OwnedOK(p, q)
      BY <1>1, <2>1, <2>2 DEF OwnedOK
    <2> QED  BY <2>1, <2>3, <2>4, <2>5 DEF PlanOK, ObservationOK, q
  <1>2. CASE p.stage = "command-started" /\ S # p.before
    <2>1. /\ q.stage = "owned" /\ q.before = p.before /\ q.seen = S /\ q.inferred = S
          /\ Owned(q) = S /\ \A m \in S : q.owned[m] = "owned"
      BY <1>2, NewPlanIs
    <2>2. p.before = {} /\ S # {}
      BY <1>2, EquivalentThere DEF PlanStateOK
    <2> HIDE DEF q, S
    <2>3. PlanShape(q)
      BY <2>1, <2>2 DEF PlanShape, ValidPlan
    <2>4. q.stage \in NextPlan(p.stage)
      BY <1>2, <2>1 DEF NextPlan
    <2>5. OwnedOK(p, q)
      BY <1>2, <2>1, <2>2 DEF OwnedOK
    <2> QED  BY <1>2, <2>1, <2>3, <2>4, <2>5 DEF PlanOK, ObservationOK, q
  <1>3. CASE p.stage = "owned"
    <2>1. /\ q.stage = "owned" /\ q.before = p.before /\ q.seen = p.seen
          /\ q.inferred = p.inferred \cup X /\ Owned(q) = Owned(p) \cup X
          /\ \A m \in Owned(q) :
               q.owned[m] = IF m \notin Owned(p) THEN "owned"
                            ELSE IF p.owned[m] = "unmounting" /\ m \notin table THEN "removed"
                            ELSE p.owned[m]
      BY <1>3, NewPlanIs
    <2>2. X \cap Owned(p) = {}
      BY DEF Extras
    <2> HIDE DEF q, X
    <2>3. PlanShape(q)
      BY <1>3, <2>1 DEF PlanShape, ValidPlan
    <2>4. q.stage \in NextPlan(p.stage)
      BY <1>3, <2>1 DEF NextPlan
    <2>5. \A m \in Owned(p) : q.owned[m] \in NextOwned(p.owned[m])
      <3>1. \A m \in Owned(p) : p.owned[m] \in OwnedStages
        BY PlanHas
      <3> QED  BY <2>1, <3>1 DEF NextOwned, OwnedStages
    <2>6. q.inferred \cap Owned(p) = p.inferred
      BY <2>1, <2>2 DEF PlanShape
    <2>7. \A m \in Owned(q) \ Owned(p) : m \in q.inferred /\ q.owned[m] = "owned"
      BY <2>1
    <2>8. OwnedOK(p, q)
      BY <1>3, <2>1, <2>5, <2>6, <2>7 DEF OwnedOK
    <2> QED  BY <2>1, <2>3, <2>4, <2>8 DEF PlanOK, ObservationOK, q
  <1>4. CASE p.stage \in {"already-present", "failed"}
    <2>1. q = p
      BY <1>4, NewPlanIs
    <2> QED  BY <2>1, PlanSame
  <1>5. p.stage \in PlanStages
    BY PlanHas
  <1> QED  BY <1>1, <1>2, <1>3, <1>4, <1>5 DEF PlanStages

\* So for a directory, for X access and for the file.
LEMMA NewDirShape ==
  ASSUME NEW d \in DirType, DirShape(d), NEW w
  PROVE  /\ DirShape(NewDir(d, w))
         /\ d.stage = "none" => NewDir(d, w).stage = "none"
         /\ DirFits(w, d) => DirStepOK(d, NewDir(d, w))
  <1> DEFINE e == NewDir(d, w)
  <1>1. /\ d.stage = "planned" => e = [d EXCEPT !.stage = IF w = "none" THEN "removed" ELSE "staged"]
        /\ d.stage \in {"staged", "rename-planned"} /\ w = "final" =>
             e = [stage |-> "created", renamed |-> TRUE]
        /\ d.stage = "removing" /\ w = "none" => e = [d EXCEPT !.stage = "removed"]
        /\ d.stage \in {"none", "created", "removed"} => e = d
        /\ d.stage \in {"staged", "rename-planned"} /\ w # "final" => e = d
        /\ d.stage = "removing" /\ w # "none" => e = d
    BY DEF NewDir
  <1>2. d.stage \in DirStages /\ d.renamed \in BOOLEAN
    BY DEF DirType
  <1> HIDE DEF e
  <1>3. CASE d.stage = "planned"
    <2>1. e.stage \in {"removed", "staged"} /\ e.renamed = d.renamed
      BY <1>1, <1>3 DEF DirType
    <2> QED  BY <1>3, <2>1 DEF DirShape, ValidDir, DirStepOK, NextDir, e
  <1>4. CASE d.stage \in {"staged", "rename-planned"} /\ w = "final"
    <2>1. e.stage = "created" /\ e.renamed
      BY <1>1, <1>4
    <2> QED  BY <1>4, <2>1 DEF DirShape, ValidDir, DirStepOK, NextDir, DirFits, e
  <1>5. CASE d.stage = "removing" /\ w = "none"
    <2>1. e.stage = "removed" /\ e.renamed = d.renamed
      BY <1>1, <1>5 DEF DirType
    <2> QED  BY <1>5, <2>1 DEF DirShape, ValidDir, DirStepOK, NextDir, e
  <1>6. CASE e = d
    BY <1>6, DirSame DEF e, DirType
  <1> QED  BY <1>1, <1>2, <1>3, <1>4, <1>5, <1>6 DEF DirStages

LEMMA NewXShape ==
  ASSUME NEW q \in XType, XShape(q)
  PROVE  XShape(NewX(q)) /\ XStepOK(q, NewX(q))
  <1>1. CASE q.stage = "grant-planned"
    <2>1. NewX(q).stage = "failed" /\ NewX(q).before = q.before
      BY <1>1 DEF NewX, XType
    <2> QED  BY <1>1, <2>1 DEF XShape, XStepOK, NextX
  <1>2. CASE q.stage = "revoking" /\ xs = "absent"
    <2>1. NewX(q).stage = "restored" /\ NewX(q).before = q.before
      BY <1>2 DEF NewX, XType
    <2> QED  BY <1>2, <2>1 DEF XShape, XStepOK, NextX
  <1>3. CASE q.stage # "grant-planned" /\ ~(q.stage = "revoking" /\ xs = "absent")
    <2>1. NewX(q) = q
      BY <1>3 DEF NewX
    <2> QED  BY <2>1, XSame DEF XType
  <1> QED  BY <1>1, <1>2, <1>3

LEMMA NewArtStep ==
  ASSUME NEW a \in ArtStages
  PROVE  IF a = "none" THEN NewArt(a) = "none" ELSE NewArt(a) \in NextArt(a)
  BY ArtSame DEF NewArt, NextArt

\* What a preflight writes follows on what it found.
LEMMA PreflightShape ==
  ASSUME NEW j, Typed(j), Shape(j), PlansOK(j), table \in FinMounts
  PROVE  /\ Shape(Preflighted(j))
         /\ Begun(j) /\ DirsFit(dirs, j.dirs) => Follows(j, Preflighted(j))
  <1> DEFINE n == Preflighted(j)
  <1>1. /\ Typed(n) /\ n.phase = j.phase
        /\ DOMAIN n.mounts = DOMAIN j.mounts
        /\ \A i \in DOMAIN j.mounts : n.mounts[i] = NewPlan(j.mounts[i], i)
        /\ \A k \in Places : n.dirs[k] = NewDir(j.dirs[k], dirs[k])
        /\ n.art = NewArt(j.art) /\ n.x = NewX(j.x)
    BY PreflightedHas
  <1>2. /\ \A i \in DOMAIN j.mounts : j.mounts[i] \in PlanType
        /\ \A k \in Places : j.dirs[k] \in DirType
        /\ j.art \in ArtStages /\ j.x \in XType
    BY StateHas DEF Typed, DirType, XType
  <1> HIDE DEF n
  <1>3. \A i \in DOMAIN j.mounts : PlanShape(n.mounts[i]) /\ PlanOK(j.mounts[i], n.mounts[i])
    BY <1>1, <1>2, NewPlanShape DEF Shape, PlansOK
  <1>4. \A k \in Places : /\ DirShape(n.dirs[k])
                          /\ j.dirs[k].stage = "none" => n.dirs[k].stage = "none"
                          /\ DirFits(dirs[k], j.dirs[k]) => DirStepOK(j.dirs[k], n.dirs[k])
    BY <1>1, <1>2, NewDirShape DEF Shape
  <1>5. XShape(n.x) /\ XStepOK(j.x, n.x)
    BY <1>1, <1>2, NewXShape DEF Shape
  <1>6. Shape(n)
    BY <1>1, <1>3, <1>4, <1>5 DEF Shape
  <1>7. ASSUME Begun(j), DirsFit(dirs, j.dirs), j.phase # "complete"  PROVE PendingOK(j, n)
    <2>1. n.phase \in NextPhase(j.phase)
      BY <1>1, <1>7, PhaseSame DEF Begun
    <2>2. \A k \in Places : IF j.dirs[k].stage = "none" THEN n.dirs[k].stage = "none"
                            ELSE DirStepOK(j.dirs[k], n.dirs[k])
      BY <1>4, <1>7 DEF DirsFit
    <2>3. IF j.art = "none" THEN n.art = "none" ELSE n.art \in NextArt(j.art)
      BY <1>1, <1>2, NewArtStep
    <2> QED  BY <1>1, <1>3, <1>5, <1>6, <1>7, <2>1, <2>2, <2>3, StepsOn
  <1> QED  BY <1>6, <1>7 DEF Follows, n

--------------------------------------------------------------------------------
(* Steps that keep the record in step with the journal *)

\* A journal that is none, and one that is begun.
LEMMA NothingShaped ==
  /\ NoJournal' = NoJournal /\ Torn' = Torn /\ Fresh' = Fresh
  /\ \A s : Shape(State(s))
  /\ JournalShape(NoJournal) /\ PendingShape(NoJournal) /\ PendingShape(Torn)
  /\ Shape(Fresh) /\ Begun(Fresh)
  /\ \A D : DirsFit(D, Fresh.dirs) /\ DirsFit(D, NoJournal.dirs) /\ DirsFit(D, Torn.dirs)
  <1>1. \A s : Shape(State(s))
    BY DEF Shape, State, NoDir, PlanShape, DirShape, ValidDir, XShape
  <1>2. Shape(NoJournal) /\ Shape(Torn) /\ Shape(Fresh)
    BY <1>1 DEF NoJournal, Torn, Fresh
  <1>3. Begun(Fresh)
    BY DEF Begun, Fresh, State
  <1>4. \A D, s : DirsFit(D, State(s).dirs)
    BY DEF DirsFit, DirFits, State, NoDir
  <1> QED  BY <1>1, <1>2, <1>3, <1>4 DEF JournalShape, PendingShape, Fresh, NoJournal, Torn, State, NoDir

\* Where the body and the cleanup are not, their places say nothing.
LEMMA NotOpen ==
  ASSUME pc' \notin Opened
  PROVE  OpenHere'
  BY DEF OpenHere, Opened, BodySites, DirSites, NoArtYet

LEMMA NotClosing ==
  ASSUME pc' \notin Settling \cup {"clean.remove"}
  PROVE  CloseHere'
  BY DEF CloseHere, Settling, MountCleanSites, CleanSites, FileSites, XSites, AfterX

LEMMA NotDirHere ==
  ASSUME pc' \notin Settling \cup DirSites
  PROVE  DirHere'
  BY DEF DirHere, DirSites

\* The sites of the cleanup, and those of the body.
LEMMA SitesApart ==
  /\ Opened \cap (Settling \cup {"clean.preflight", "clean.remove", "idle"} \cup EnterSites) = {"body"}
  /\ DirSites \subseteq Opened /\ BodySites \subseteq Opened
  /\ (Settling \cup {"clean.preflight", "clean.remove"}) = MountCleanSites \cup CleanSites
  /\ Loaded = Opened \cup MountCleanSites \cup CleanSites
  /\ "idle" \notin Loaded /\ "enter.pending" \notin Loaded /\ "enter.load" \notin Loaded
  /\ "clean.preflight" \notin Settling /\ "clean.remove" \notin Settling
  BY DEF Loaded, Opened, Settling, BodySites, DirSites, MountCleanSites, CleanSites, EnterSites

\* A step that writes the record it has moved on, or leaves it alone.
LEMMA StepSaved ==
  ASSUME ShapedInv, SavedInv, io = "idle", pc \in Loaded, pc' \in Loaded,
         UNCHANGED <<store, persisted>>, faults' = 0 => faults = 0, faults' = 0 => ok',
         \/ io' = "idle" /\ mem' = mem
         \/ /\ io' = "write" /\ Shape(mem') /\ Begun(mem')
            /\ faults' = 0 => Follows(mem, mem') /\ DirsFit(dirs', mem'.dirs),
         OpenHere', CloseHere',
         faults' = 0 => DirsFit(dirs', mem.dirs) /\ DirHere'
  PROVE  ShapedInv' /\ SavedInv'
  <1>1. journal' = journal /\ pending' = pending /\ persisted' = persisted /\ io' # "replace"
    BY DEF store
  <1>2. JournalShape(journal)' /\ PendingShape(pending)'
    BY <1>1, NothingShaped DEF ShapedInv, ShapeInv, JournalShape, PendingShape, Shape, Begun
  <1>3. Shape(mem)' /\ Begun(mem)'
    <2>1. Shape(mem') /\ Begun(mem')
      BY DEF ShapedInv, ShapeInv
    <2> QED  BY <2>1 DEF Shape, Begun
  <1>4. ShapedInv'
    BY <1>1, <1>2, <1>3 DEF ShapedInv, ShapeInv
  <1>5. ASSUME faults' = 0  PROVE ok' /\ InStep' /\ DirsInv' /\ DirHere'
    <2>1. faults = 0
      BY <1>5
    <2>2. persisted = journal /\ mem = journal /\ pending = NoJournal
      BY <2>1 DEF SavedInv, InStep
    <2>3. Follows(mem, mem') => Follows(journal, mem)'
      BY <1>1, <2>2 DEF Follows
    <2>4. InStep'
      BY <1>1, <1>5, <2>1, <2>2, <2>3, NothingShaped DEF InStep
    <2>5. DirsFit(dirs', mem'.dirs)
      BY <1>5
    <2>6. DirsInv'
      BY <1>1, <1>5, <2>1, <2>2, <2>5, NothingShaped DEF DirsInv, DirsFit
    <2> QED  BY <1>5, <2>4, <2>6
  <1> QED  BY <1>4, <1>5 DEF SavedInv

\* A step that ends outside the body and the cleanup.
LEMMA LeaveSaved ==
  ASSUME ShapedInv, SavedInv, pc' \in {"idle", "enter.pending", "enter.load"}, io' = "idle",
         Shape(mem'), JournalShape(journal'), PendingShape(pending'), faults = 0 => faults' # 0 \/ ok',
         faults' = 0 => /\ Whole(pending') => Follows(journal', pending')
                        /\ DirsFit(dirs', journal'.dirs) /\ DirsFit(dirs', pending'.dirs)
                        /\ DirsFit(dirs', mem'.dirs),
         faults' = 0 => faults = 0
  PROVE  ShapedInv' /\ SavedInv'
  <1>1. pc' \notin Loaded \cup Settling \cup {"clean.remove"} \cup DirSites \cup Opened
    BY SitesApart DEF Loaded
  <1>2. OpenHere' /\ CloseHere' /\ DirHere'
    BY <1>1, NotOpen, NotClosing, NotDirHere
  <1>3. Shape(mem)' /\ JournalShape(journal)' /\ PendingShape(pending)'
    BY NothingShaped DEF Shape, JournalShape, PendingShape, Begun
  <1>4. ShapedInv'
    BY <1>1, <1>2, <1>3 DEF ShapedInv, ShapeInv
  <1>5. faults' = 0 => InStep' /\ DirsInv'
    <2>1. ASSUME faults' = 0  PROVE InStep'
      <3>1. Whole(pending)' => Whole(pending')
        BY WholePrime
      <3> QED  BY <1>1, <2>1, <3>1 DEF InStep, Follows
    <2> QED  BY <2>1 DEF DirsInv, DirsFit
  <1> QED  BY <1>2, <1>4, <1>5 DEF SavedInv

\* The end of a session.
LEMMA ExitSaved ==
  ASSUME ShapedInv, SavedInv, Exit, JournalShape(journal'), PendingShape(pending'),
         faults' = 0 => faults = 0,
         faults' = 0 => /\ Whole(pending') => Follows(journal', pending')
                        /\ DirsFit(dirs', journal'.dirs) /\ DirsFit(dirs', pending'.dirs)
  PROVE  ShapedInv' /\ SavedInv'
  <1>1. pc' = "idle" /\ io' = "idle" /\ mem' = NoJournal /\ ok' = TRUE
    BY DEF Exit, Goto
  <1>2. Shape(mem') /\ \A D : DirsFit(D, mem'.dirs)
    BY <1>1, NothingShaped DEF JournalShape
  <1> QED  BY <1>1, <1>2, LeaveSaved

\* Where an exception leads inside a session.
LEMMA RaiseSites ==
  ASSUME RaiseFrom(pc), ~Exit
  PROVE  /\ pc \in Loaded /\ pc' \in {"clean.preflight", "clean.mount", "clean.dir", "clean.final"}
         /\ io' = "idle" /\ mem' = mem /\ persisted' = persisted
         /\ ok' = ok \/ ok' = TRUE
         /\ pc' = "clean.mount" => pc \in MountCleanSites
         /\ pc' \in {"clean.dir", "clean.final"} => pc \in Settling \ {"clean.mark"}
         /\ pc' # "clean.dir" => cur' = cur
         /\ pc' = "clean.final" => pc \in XSites
  <1>1. CASE pc \in BodySites \cup DirSites
    <2>1. Goto("clean.preflight") /\ UNCHANGED <<mem, persisted, kind, after, loop>>
      BY <1>1 DEF RaiseFrom, BodySites, DirSites, MountCleanSites
    <2> QED  BY <1>1, <2>1, SitesApart DEF Goto, loop
  <1>2. CASE pc \in MountCleanSites
    BY <1>2, SitesApart DEF RaiseFrom, Goto, Settling, CleanSites, MountCleanSites, BodySites, DirSites
  <1>3. CASE pc \in {"clean.file", "clean.unlink", "clean.dir", "clean.rmdir"}
    <2>1. pc \in CleanSites /\ pc \in Settling \ {"clean.mark"} /\ pc \notin MountCleanSites
      BY <1>3 DEF CleanSites, Settling, MountCleanSites
    <2> QED  BY <1>3, <2>1, SitesApart DEF RaiseFrom, Goto, BodySites, DirSites
  <1>4. CASE pc \in {"clean.x", "clean.xrun", "clean.xverify"}
    <2>1. pc \in CleanSites /\ pc \in Settling \ {"clean.mark"} /\ pc \notin MountCleanSites
      BY <1>4 DEF CleanSites, Settling, MountCleanSites
    <2> QED  BY <1>4, <2>1, SitesApart DEF RaiseFrom, Goto, BodySites, DirSites, XSites
  <1>5. CASE pc \notin BodySites \cup DirSites \cup MountCleanSites
                \cup {"clean.file", "clean.unlink", "clean.dir", "clean.rmdir",
                      "clean.x", "clean.xrun", "clean.xverify"}
    BY <1>5 DEF RaiseFrom
  <1> QED  BY <1>1, <1>2, <1>3, <1>4, <1>5

\* An exception between two writes, or in a session that is cut off from then on.
LEMMA RaiseFromSaved ==
  ASSUME ShapedInv, SavedInv, RaiseFrom(pc), UNCHANGED disk,
         JournalShape(journal'), PendingShape(pending'),
         faults' = 0 => faults = 0 /\ UNCHANGED store /\ io = "idle"
  PROVE  ShapedInv' /\ SavedInv'
  <1>0. dirs' = dirs
    BY DEF disk
  <1>1. CASE Exit
    <2>1. ASSUME faults' = 0
          PROVE  /\ Whole(pending') => Follows(journal', pending')
                 /\ DirsFit(dirs', journal'.dirs) /\ DirsFit(dirs', pending'.dirs)
      <3>1. journal' = journal /\ pending' = pending /\ InStep /\ DirsInv
        BY <2>1 DEF SavedInv, store
      <3>2. Whole(pending) => Follows(journal, pending)
        BY <2>1, <3>1, TornIs DEF InStep
      <3> QED  BY <1>0, <3>1, <3>2 DEF DirsInv
    <2> QED  BY <1>1, <2>1, ExitSaved
  <1>2. CASE ~Exit
    <2>1. /\ pc \in Loaded /\ pc' \in {"clean.preflight", "clean.mount", "clean.dir", "clean.final"}
          /\ io' = "idle" /\ mem' = mem /\ persisted' = persisted
          /\ ok' = ok \/ ok' = TRUE
          /\ pc' = "clean.mount" => pc \in MountCleanSites
          /\ pc' \in {"clean.dir", "clean.final"} => pc \in Settling \ {"clean.mark"}
          /\ pc' # "clean.dir" => cur' = cur
          /\ pc' = "clean.final" => pc \in XSites
      BY <1>2, RaiseSites
    <2>2. pc' \in Loaded /\ pc' \notin Opened \cup DirSites
      BY <2>1 DEF Loaded, Settling, Opened, BodySites, DirSites, MountCleanSites, CleanSites
    <2>3. OpenHere'
      BY <2>2, NotOpen
    <2>4. pc' \in Settling => pc \in Settling \ {"clean.mark"}
      BY <2>1, SitesApart DEF Settling, MountCleanSites, CleanSites
    <2>5. CloseHere'
      <3>1. pc' \in Settling => mem.phase = "cleaning"
        BY <2>4 DEF ShapedInv, CloseHere
      <3>2. pc' = "clean.mount" => cur' = NumRequests + 1
        BY <2>1 DEF ShapedInv, CloseHere
      <3>3. pc' = "clean.final" => cur' = 0
        BY <2>1 DEF ShapedInv, CloseHere
      <3>4. pc' \in Settling => mem.art # "planned"
        BY <2>4 DEF ShapedInv, CloseHere
      <3> QED  BY <2>1, <3>1, <3>2, <3>3, <3>4 DEF CloseHere, MountCleanSites, FileSites, XSites, AfterX
    <2>6. ShapeInv'
      <3>1. JournalShape(journal)' /\ PendingShape(pending)'
        BY NothingShaped DEF JournalShape, PendingShape, Shape, Begun
      <3>2. Shape(mem)' /\ Begun(mem)'
        BY <2>1 DEF ShapedInv, ShapeInv, Shape, Begun
      <3> QED  BY <2>1, <3>1, <3>2 DEF ShapeInv
    <2>7. ASSUME faults' = 0  PROVE ok' /\ InStep' /\ DirsInv' /\ DirHere'
      <3>1. faults = 0 /\ journal' = journal /\ pending' = pending /\ io = "idle"
        BY <2>7 DEF store
      <3>2. ok /\ InStep /\ DirsInv /\ DirHere
        BY <3>1 DEF SavedInv
      <3>3. ok'
        BY <2>1, <3>2, Zenon
      <3>4. InStep'
        BY <2>1, <2>2, <3>1, <3>2, NothingShaped DEF InStep
      <3>5. DirsInv'
        BY <1>0, <2>1, <3>1, <3>2 DEF DirsInv, DirsFit
      <3>6. DirHere'
        BY <1>0, <2>1, <2>2, <2>4, <3>2 DEF DirHere, DirSites
      <3> QED  BY <3>3, <3>4, <3>5, <3>6
    <2> QED  BY <2>3, <2>5, <2>6, <2>7 DEF ShapedInv, SavedInv
  <1> QED  BY <1>1, <1>2

\* The journals as they are.
LEMMA StoreShaped ==
  ASSUME ShapedInv, UNCHANGED store
  PROVE  JournalShape(journal') /\ PendingShape(pending') /\ journal' = journal /\ pending' = pending
  BY DEF ShapedInv, ShapeInv, store

LEMMA RaiseSaved ==
  ASSUME ShapedInv, SavedInv, Raise, faults = 0 => io = "idle"
  PROVE  ShapedInv' /\ SavedInv'
  <1>1. RaiseFrom(pc) /\ UNCHANGED disk /\ UNCHANGED store /\ faults' = faults
    BY DEF Raise, bounds
  <1>2. JournalShape(journal') /\ PendingShape(pending')
    BY <1>1, StoreShaped
  <1> QED  BY <1>1, <1>2, RaiseFromSaved

\* What is about to replace the journal is the record.
LEMMA ReplacingShaped ==
  ASSUME ShapedInv, SiteInv, io # "idle"
  PROVE  Begun(mem) /\ Shape(mem) /\ JournalShape(mem) /\ PendingShape(mem)
  BY DEF ShapedInv, ShapeInv, SiteInv, JournalShape, PendingShape

LEMMA FaultSaved ==
  ASSUME TypeInv, SiteInv, ShapedInv, SavedInv, Fault
  PROVE  ShapedInv' /\ SavedInv'
  <1>1. faults' # 0
    BY DEF Fault, TypeInv, BoundType
  <1>2. /\ RaiseFrom(pc) /\ UNCHANGED disk
        /\ \/ UNCHANGED store
           \/ pending' = Torn /\ journal' = journal
           \/ io = "replace" /\ journal' = pending /\ pending' = NoJournal
    BY DEF Fault
  <1>3. JournalShape(journal') /\ PendingShape(pending')
    BY <1>2, StoreShaped, ReplacingShaped, NothingShaped DEF ShapedInv, ShapeInv
  <1> QED  BY <1>1, <1>2, <1>3, RaiseFromSaved

LEMMA CrashSaved ==
  ASSUME ShapedInv, SavedInv, SiteInv, Crash
  PROVE  ShapedInv' /\ SavedInv'
  <1>1. /\ Exit /\ journal' = journal /\ faults' = faults /\ dirs' = dirs
        /\ pending' = pending \/ pending' = Torn
    BY DEF Crash, disk, store
  <1>2. JournalShape(journal') /\ PendingShape(pending')
    BY <1>1, NothingShaped DEF ShapedInv, ShapeInv
  <1>3. ASSUME faults' = 0
        PROVE  /\ Whole(pending') => Follows(journal', pending')
               /\ DirsFit(dirs', journal'.dirs) /\ DirsFit(dirs', pending'.dirs)
    <2>1. InStep /\ DirsInv
      BY <1>1, <1>3 DEF SavedInv
    <2>2. Whole(pending) => Follows(journal, pending)
      BY <2>1, TornIs DEF InStep
    <2>3. DirsFit(dirs, Torn.dirs) /\ ~Whole(Torn)
      BY NothingShaped, TornIs
    <2> QED  BY <1>1, <2>1, <2>2, <2>3 DEF DirsInv
  <1> QED  BY <1>1, <1>2, <1>3, ExitSaved

\* Where the control and the record stay, so do the places.
LEMMA SamePlaces ==
  ASSUME UNCHANGED <<pc, mem, dirs, cur, todo>>
  PROVE  /\ OpenHere => OpenHere'
         /\ CloseHere => CloseHere'
         /\ DirHere => DirHere'
  <1>1. OpenHere => OpenHere'
    BY NothingShaped DEF OpenHere, Place
  <1>2. CloseHere => CloseHere'
    BY DEF CloseHere, Stage, Target, Slot
  <1>3. DirHere => DirHere'
    BY DEF DirHere, Place
  <1> QED  BY <1>1, <1>2, <1>3

LEMMA PersistSaved ==
  ASSUME SiteInv, ShapedInv, SavedInv, WritePending \/ ReplaceJournal
  PROVE  ShapedInv' /\ SavedInv'
  <1>1. CASE WritePending /\ PersistOK /\ pending' = mem
    <2>1. /\ io = "write" /\ io' = "replace" /\ pending' = mem
          /\ journal' = journal /\ mem' = mem /\ persisted' = persisted /\ pc' = pc
          /\ dirs' = dirs /\ cur' = cur /\ todo' = todo /\ faults' = faults /\ ok' = ok
      BY <1>1 DEF WritePending, Raise, disk, loop, bounds
    <2>2. pc \in Loaded /\ PendingShape(mem)
      BY <2>1, ReplacingShaped DEF SiteInv
    <2>3. OpenHere' /\ CloseHere' /\ (DirHere => DirHere')
      BY <2>1, SamePlaces DEF ShapedInv
    <2>4. ShapeInv'
      <3>1. JournalShape(journal)' /\ PendingShape(pending)'
        BY <2>1, <2>2, NothingShaped DEF ShapedInv, ShapeInv, JournalShape, PendingShape, Shape, Begun
      <3>2. Shape(mem)' /\ (pc \in Loaded => Begun(mem))'
        BY <2>1 DEF ShapedInv, ShapeInv, Shape, Begun
      <3> QED  BY <2>1, <3>1, <3>2 DEF ShapeInv
    <2>5. ASSUME faults' = 0  PROVE ok' /\ InStep' /\ DirsInv' /\ DirHere'
      <3>1. ok /\ InStep /\ DirsInv /\ DirHere
        BY <2>1, <2>5 DEF SavedInv
      <3>2. ok'
        BY <2>1, <3>1, Zenon
      <3>3. InStep'
        BY <2>1, <2>2, <3>1 DEF InStep, Follows
      <3>4. DirsInv'
        BY <2>1, <3>1 DEF DirsInv, DirsFit
      <3> QED  BY <2>3, <3>1, <3>2, <3>3, <3>4
    <2> QED  BY <2>3, <2>4, <2>5 DEF ShapedInv, SavedInv
  <1>2. CASE WritePending /\ ~PersistOK
    <2>1. Raise /\ io = "write"
      BY <1>2 DEF WritePending
    <2>2. faults # 0
      <3>1. ASSUME faults = 0  PROVE FALSE
        <4>1. pc \in Loaded /\ Shape(mem)
          BY <2>1, ReplacingShaped DEF SiteInv
        <4>2. pending = NoJournal /\ journal = persisted
          BY <2>1, <3>1, <4>1 DEF SavedInv, InStep
        <4> QED  BY <1>2, <4>1, <4>2, ShapeValid DEF PersistOK
      <3> QED  BY <3>1
    <2> QED  BY <2>1, <2>2, RaiseSaved
  <1>3. CASE ReplaceJournal
    <2>1. /\ io = "replace" /\ io' = "idle" /\ journal' = pending /\ pending' = NoJournal
          /\ mem' = mem /\ persisted' = mem /\ pc' = pc
          /\ dirs' = dirs /\ cur' = cur /\ todo' = todo /\ faults' = faults /\ ok' = ok
      BY <1>3 DEF ReplaceJournal, disk, loop, bounds
    <2>2. pc \in Loaded /\ JournalShape(mem) /\ pending = mem
      BY <2>1, ReplacingShaped DEF SiteInv, ShapedInv, ShapeInv
    <2>3. OpenHere' /\ CloseHere' /\ (DirHere => DirHere')
      BY <2>1, SamePlaces DEF ShapedInv
    <2>4. ShapeInv'
      <3>1. JournalShape(journal)' /\ PendingShape(pending)'
        BY <2>1, <2>2, NothingShaped DEF ShapedInv, ShapeInv, JournalShape, PendingShape, Shape, Begun
      <3>2. Shape(mem)' /\ (pc \in Loaded => Begun(mem))'
        BY <2>1 DEF ShapedInv, ShapeInv, Shape, Begun
      <3> QED  BY <2>1, <3>1, <3>2 DEF ShapeInv
    <2>5. ASSUME faults' = 0  PROVE ok' /\ InStep' /\ DirsInv' /\ DirHere'
      <3>1. ok /\ InStep /\ DirsInv /\ DirHere
        BY <2>1, <2>5 DEF SavedInv
      <3>2. ok'
        BY <2>1, <3>1, Zenon
      <3>3. InStep'
        BY <2>1, <2>2, <3>1, NothingShaped DEF InStep
      <3>4. DirsInv'
        BY <2>1, <2>2, <3>1, NothingShaped DEF DirsInv, DirsFit
      <3> QED  BY <2>3, <3>1, <3>2, <3>3, <3>4
    <2> QED  BY <2>3, <2>4, <2>5 DEF ShapedInv, SavedInv
  <1>4. WritePending => (PersistOK /\ pending' = mem) \/ ~PersistOK
    BY DEF WritePending
  <1> QED  BY <1>1, <1>2, <1>3, <1>4

LEMMA StartSaved ==
  ASSUME SiteInv, ShapedInv, SavedInv, \E k \in Kinds : Start(k)
  PROVE  ShapedInv' /\ SavedInv'
  <1>1. /\ pc = "idle" /\ pc' = "enter.pending" /\ io' = io /\ mem' = mem /\ dirs' = dirs
        /\ journal' = journal /\ pending' = pending /\ faults' = faults /\ ok' = ok
    BY DEF Start, disk, store, loop, bounds
  <1>2. io' = "idle" /\ pc \notin Loaded
    BY <1>1, SitesApart DEF SiteInv
  <1>3. Shape(mem') /\ JournalShape(journal') /\ PendingShape(pending')
    BY <1>1 DEF ShapedInv, ShapeInv
  <1>4. faults' = 0 => /\ Whole(pending') => Follows(journal', pending')
                       /\ DirsFit(dirs', journal'.dirs) /\ DirsFit(dirs', pending'.dirs)
                       /\ DirsFit(dirs', mem'.dirs)
    BY <1>1, <1>2 DEF SavedInv, InStep, DirsInv
  <1>5. faults = 0 => ok'
    BY <1>1, Zenon DEF SavedInv
  <1> QED  BY <1>1, <1>2, <1>3, <1>4, <1>5, LeaveSaved

LEMMA EnterReconcileSaved ==
  ASSUME SiteInv, ShapedInv, SavedInv, EnterReconcile
  PROVE  ShapedInv' /\ SavedInv'
  <1>0. pc = "enter.pending" /\ io = "idle" /\ pc \notin Loaded
    BY SitesApart DEF EnterReconcile, At
  <1>1. CASE Raise
    BY <1>0, <1>1, RaiseSaved
  <1>2. CASE ~Raise
    <2>1. /\ pc' = "enter.load" /\ io' = "idle" /\ mem' = mem /\ dirs' = dirs /\ faults' = faults
          /\ ok' = ok
          /\ \/ pending = NoJournal /\ journal' = journal /\ pending' = pending
             \/ Whole(pending) /\ journal' = pending /\ pending' = NoJournal
      BY <1>2 DEF EnterReconcile, Goto, Quiet, disk, store, loop, bounds
    <2>2. ShapeInv
      BY DEF ShapedInv
    <2>3. Whole(pending) => JournalShape(pending)
      BY <2>2 DEF ShapeInv, PendingShape, JournalShape, Whole
    <2>4. Shape(mem') /\ JournalShape(journal') /\ PendingShape(pending')
      BY <2>1, <2>2, <2>3, NothingShaped DEF ShapeInv
    <2>5. faults' = 0 => /\ Whole(pending') => Follows(journal', pending')
                         /\ DirsFit(dirs', journal'.dirs) /\ DirsFit(dirs', pending'.dirs)
                         /\ DirsFit(dirs', mem'.dirs)
      BY <2>1, TornIs, NothingShaped DEF SavedInv, DirsInv
    <2>6. faults = 0 => ok'
      BY <2>1, Zenon DEF SavedInv
    <2> QED  BY <2>1, <2>4, <2>5, <2>6, LeaveSaved
  <1> QED  BY <1>1, <1>2

\* What a session that begins afresh writes first.
LEMMA FreshFollows == Follows(NoJournal, Fresh) /\ Fresh.phase = "active" /\ Fresh.art = "none"
                        /\ Fresh.mounts = << >> /\ \A k \in Places : Fresh.dirs[k].stage = "none"
  <1>1. ValidState(Fresh)
    BY NothingShaped, ShapeValid
  <1>2. PendingOK(NoJournal, Fresh)
    BY <1>1 DEF PendingOK
  <1> QED  BY <1>2 DEF Follows, Fresh, State, NoDir

LEMMA FreshHere ==
  ASSUME pc' = "body", mem' = Fresh
  PROVE  OpenHere' /\ CloseHere' /\ DirHere'
  <1>1. pc' \notin Settling \cup {"clean.remove"} \cup DirSites
    BY DEF Settling, MountCleanSites, CleanSites, DirSites
  <1>2. Place' = 0 /\ 0 \in Places
    BY FreshFollows DEF Place, Places
  <1>3. OpenHere'
    BY <1>1, <1>2, FreshFollows, NothingShaped DEF OpenHere, NoArtYet
  <1> QED  BY <1>1, <1>3, NotClosing, NotDirHere

LEMMA EnterLoadSaved ==
  ASSUME SyncInv, SiteInv, ShapedInv, SavedInv, EnterLoad
  PROVE  ShapedInv' /\ SavedInv'
  <1>0. /\ pc = "enter.load" /\ io = "idle" /\ pc \notin Loaded /\ pending = NoJournal
        /\ journal' = journal /\ pending' = pending /\ dirs' = dirs /\ faults' = faults /\ ok' = ok
    BY SitesApart DEF EnterLoad, At, SyncInv, disk, store, loop, bounds
  <1>1. ShapeInv
    BY DEF ShapedInv
  <1>2. CASE journal = NoJournal
    <2>1. mem' = Fresh /\ persisted' = NoJournal /\ pc' = "body" /\ io' = "write"
      BY <1>2 DEF EnterLoad, Save
    <2>2. OpenHere' /\ CloseHere' /\ DirHere'
      BY <2>1, FreshHere
    <2>3. ShapeInv'
      <3>1. JournalShape(journal)' /\ PendingShape(pending)'
        BY <1>0, <1>1, NothingShaped DEF ShapeInv, JournalShape, PendingShape, Shape, Begun
      <3>2. Shape(mem)' /\ Begun(mem)'
        BY <2>1, NothingShaped DEF Shape, Begun
      <3> QED  BY <2>1, <3>1, <3>2 DEF ShapeInv
    <2>4. ASSUME faults' = 0  PROVE ok' /\ InStep' /\ DirsInv' /\ DirHere'
      <3>1. ok /\ DirsInv
        BY <1>0, <2>4 DEF SavedInv
      <3>2. ok'
        BY <1>0, <3>1, Zenon
      <3>3. Follows(journal, mem)'
        BY <1>0, <1>2, <2>1, FreshFollows DEF Follows
      <3>4. InStep'
        BY <1>0, <1>2, <2>1, <3>3, SitesApart, NothingShaped DEF InStep, Loaded, Opened
      <3>5. DirsInv'
        BY <1>0, <2>1, <3>1, NothingShaped DEF DirsInv, DirsFit
      <3> QED  BY <2>2, <3>2, <3>4, <3>5
    <2> QED  BY <2>2, <2>3, <2>4 DEF ShapedInv, SavedInv
  <1>3. CASE journal # NoJournal
    <2>1. mem' = journal /\ persisted' = journal /\ pc' = "clean.preflight" /\ io' = "idle"
      BY <1>3 DEF EnterLoad, Goto
    <2>2. pc' \notin Opened \cup Settling \cup {"clean.remove"} \cup DirSites /\ pc' \in Loaded
      BY <2>1, SitesApart DEF Opened, BodySites, DirSites, Loaded
    <2>3. OpenHere' /\ CloseHere' /\ DirHere'
      BY <2>2, NotOpen, NotClosing, NotDirHere
    <2>4. Shape(journal) /\ Begun(journal)
      BY <1>1, <1>3 DEF ShapeInv, JournalShape
    <2>5. ShapeInv'
      <3>1. JournalShape(journal)' /\ PendingShape(pending)'
        BY <1>0, <1>1, NothingShaped DEF ShapeInv, JournalShape, PendingShape, Shape, Begun
      <3>2. Shape(mem)' /\ Begun(mem)'
        BY <2>1, <2>4 DEF Shape, Begun
      <3> QED  BY <2>1, <3>1, <3>2 DEF ShapeInv
    <2>6. ASSUME faults' = 0  PROVE ok' /\ InStep' /\ DirsInv' /\ DirHere'
      <3>1. ok /\ DirsInv
        BY <1>0, <2>6 DEF SavedInv
      <3>2. ok'
        BY <1>0, <3>1, Zenon
      <3>3. InStep'
        BY <1>0, <2>1, <2>2, NothingShaped DEF InStep
      <3>4. DirsInv'
        BY <1>0, <2>1, <3>1, NothingShaped DEF DirsInv, DirsFit
      <3> QED  BY <2>3, <3>2, <3>3, <3>4
    <2> QED  BY <2>3, <2>5, <2>6 DEF ShapedInv, SavedInv
  <1> QED  BY <1>2, <1>3

\* Nobody but the session touches the directories and the records.
LEMMA SameSaved ==
  ASSUME ShapedInv, SavedInv,
         UNCHANGED <<pc, io, mem, persisted, dirs, journal, pending, cur, todo, faults>>, ok' = ok
  PROVE  ShapedInv' /\ SavedInv'
  <1>1. /\ pc' = pc /\ io' = io /\ mem' = mem /\ persisted' = persisted /\ dirs' = dirs
        /\ journal' = journal /\ pending' = pending /\ cur' = cur /\ todo' = todo
        /\ faults' = faults
    OBVIOUS
  <1>2. OpenHere' /\ CloseHere' /\ (DirHere => DirHere')
    BY <1>1, SamePlaces DEF ShapedInv
  <1>3. ShapeInv'
    BY <1>1, NothingShaped DEF ShapedInv, ShapeInv, JournalShape, PendingShape, Shape, Begun
  <1>4. ASSUME faults = 0  PROVE ok'
    <2>1. ok
      BY <1>4 DEF SavedInv
    <2> QED  BY <2>1, Zenon
  <1>5. faults = 0 => InStep'
    BY <1>1, WholePrime, NothingShaped DEF SavedInv, InStep, Follows
  <1>6. faults = 0 => DirsInv' /\ DirHere'
    BY <1>1, <1>2 DEF SavedInv, DirsInv, DirsFit
  <1> QED  BY <1>1, <1>2, <1>3, <1>4, <1>5, <1>6 DEF ShapedInv, SavedInv

LEMMA OthersSaved ==
  ASSUME ShapedInv, SavedInv, Host \/ UNCHANGED vars
  PROVE  ShapedInv' /\ SavedInv'
  <1>1. UNCHANGED <<pc, io, mem, persisted, dirs, journal, pending, cur, todo, faults>> /\ ok' = ok
    BY DEF Host, vars, disk, store, loop, bounds
  <1> QED  BY <1>1, SameSaved

--------------------------------------------------------------------------------
(* The body keeps the record in step *)

\* The place at hand is a place, and the record has its type and its shape.
LEMMA PlaceIs ==
  ASSUME TypeInv
  PROVE  /\ Place \in Places /\ Place \in Nat /\ Typed(mem)
         /\ \A k \in Places : k \in Nat
         /\ mem.dirs \in [Places -> DirType]
         /\ mem.dirs[Place] \in DirType /\ mem.art \in ArtStages /\ mem.x \in XType
  <1>1. Typed(mem)
    BY MemTyped
  <1>2. Place \in Nat /\ Place <= NumRequests
    BY <1>1, StateHas DEF Typed, Place
  <1>3. mem.dirs \in [Places -> DirType] /\ mem.art \in ArtStages /\ mem.x \in XType
    BY <1>1, StateHas DEF Typed, DirType, XType
  <1> QED  BY <1>1, <1>2, <1>3 DEF Places

\* At a place of the body.
LEMMA BodyHas ==
  ASSUME ShapedInv, SavedInv, pc \in Opened
  PROVE  /\ Shape(mem) /\ Begun(mem) /\ mem.phase = "active" /\ pc \in Loaded
         /\ OpenHere
         /\ faults = 0 => ok /\ DirsFit(dirs, mem.dirs) /\ DirHere
  BY SitesApart DEF ShapedInv, ShapeInv, OpenHere, SavedInv, DirsInv

\* A step of the body that leaves the directories alone.
LEMMA BodyStep ==
  ASSUME ShapedInv, SavedInv, pc \in Opened, io = "idle", UNCHANGED <<store, persisted>>,
         faults' = 0 => faults = 0, dirs' = dirs, ok' = ok \/ ok' = TRUE \/ faults' # 0, pc' \in Opened \cup {"clean.preflight"},
         pc' \notin {"dir.staged", "dir.done"},
         \/ io' = "idle" /\ mem' = mem
         \/ /\ io' = "write" /\ Shape(mem') /\ mem'.phase = mem.phase /\ Follows(mem, mem')
            /\ faults' = 0 => DirsFit(dirs, mem'.dirs),
         OpenHere'
  PROVE  ShapedInv' /\ SavedInv'
  <1>1. pc \in Loaded /\ pc' \in Loaded /\ pc' \notin Settling \cup {"clean.remove"}
    BY DEF Loaded, Opened, Settling, BodySites, DirSites, MountCleanSites, CleanSites
  <1>2. CloseHere'
    BY <1>1, NotClosing
  <1>3. ASSUME faults' = 0  PROVE ok'
    <2>1. ok /\ (ok' = ok \/ ok' = TRUE)
      BY <1>3 DEF SavedInv
    <2> QED  BY <2>1, Zenon
  <1>4. DirHere'
    BY <1>1 DEF DirHere
  <1>5. faults' = 0 => DirsFit(dirs', mem.dirs)
    BY DEF SavedInv, DirsInv
  <1>6. io' = "write" => Begun(mem')
    BY <1>1 DEF Begun, ShapedInv, ShapeInv
  <1>7. mem' = mem \/ (faults' = 0 => DirsFit(dirs', mem'.dirs))
    OBVIOUS
  <1> QED  BY <1>1, <1>2, <1>3, <1>4, <1>5, <1>6, <1>7, StepSaved

LEMMA BodySaved ==
  ASSUME TypeInv, ShapedInv, SavedInv, Body
  PROVE  ShapedInv' /\ SavedInv'
  <1>0. kind \in {"hook", "shell", "clean"} /\ pc = "body" /\ io = "idle"
    BY DEF Body, At, TypeInv, ControlType
  <1>1. /\ pc' \in {"stage.dir", "mount.plan", "clean.preflight"} /\ io' = "idle" /\ mem' = mem
        /\ UNCHANGED <<store, persisted, faults>> /\ dirs' = dirs /\ ok' = ok
    BY <1>0 DEF Body, Goto, Quiet, disk, loop, bounds
  <1>2. pc \in Opened /\ pc' \in Opened \cup {"clean.preflight"}
    BY <1>0, <1>1 DEF Opened, BodySites
  <1>3. OpenHere'
    <2>1. OpenHere /\ Place' = Place
      BY <1>1 DEF ShapedInv, Place
    <2> QED  BY <1>0, <1>1, <1>2, <2>1 DEF OpenHere, Opened, BodySites, DirSites, NoArtYet
  <1> QED  BY <1>0, <1>1, <1>2, <1>3, BodyStep

\* The record of the directory at hand, written by the body.
LEMMA DirWritten ==
  ASSUME TypeInv, ShapedInv, SavedInv, pc \in Opened, NEW d \in DirType, PutDir(d),
         ~d.renamed \/ d.stage = "created", d.stage \in {"planned", "staged", "rename-planned", "created"},
         d.stage = "created" => d.renamed,
         IF mem.dirs[Place].stage = "none" THEN d = [NoDir EXCEPT !.stage = "planned"]
         ELSE DirStepOK(mem.dirs[Place], d)
  PROVE  /\ Shape(mem') /\ mem'.phase = "active" /\ Follows(mem, mem') /\ Place' = Place
         /\ mem'.mounts = mem.mounts /\ mem'.art = mem.art /\ mem'.x = mem.x /\ mem'.dirs[Place] = d
         /\ \A k \in Places : k # Place => mem'.dirs[k] = mem.dirs[k]
         /\ \A w : DirFits(w, d) /\ dirs[Place] = w /\ faults = 0 => DirsFit(dirs, mem'.dirs)
  <1>1. Typed(mem) /\ Shape(mem) /\ mem.phase = "active" /\ Place \in Places
    BY PlaceIs, BodyHas
  <1>2. DirShape(d)
    BY DEF DirShape, ValidDir
  <1>3. /\ Shape(mem') /\ mem'.phase = "active"
        /\ mem'.mounts = mem.mounts /\ mem'.art = mem.art /\ mem'.x = mem.x /\ mem'.dirs[Place] = d
        /\ \A k \in Places : k # Place => mem'.dirs[k] = mem.dirs[k]
    BY <1>1, <1>2, DirEdit DEF PutDir
  <1>4. Follows(mem, mem')
    BY <1>1, <1>2, DirStep DEF PutDir
  <1>5. Place' = Place
    BY <1>3 DEF Place
  <1>6. faults = 0 => DirsFit(dirs, mem.dirs)
    BY BodyHas
  <1>7. \A w : DirFits(w, d) /\ dirs[Place] = w /\ faults = 0 => DirsFit(dirs, mem'.dirs)
    BY <1>3, <1>6 DEF DirsFit
  <1> QED  BY <1>3, <1>4, <1>5, <1>7

\* _ensure_directory.
LEMMA EnsureDirectorySaved ==
  ASSUME TypeInv, SiteInv, ShapedInv, SavedInv, EnsureDirectory
  PROVE  ShapedInv' /\ SavedInv'
  <1>p. Place \in Places /\ Place \in Nat /\ mem.dirs[Place] \in DirType /\ (\A k \in Places : k \in Nat)
    BY PlaceIs
  <1>a. AfterDir \in {"stage.plan", "mount.check"} /\ (AfterDir = "stage.plan" => Place = 0)
    BY DEF AfterDir
  <1>1. CASE StageDir
    <2>1. /\ pc = "stage.dir" /\ io = "idle" /\ pc' = "dir.plan" /\ io' = "idle" /\ mem' = mem
          /\ UNCHANGED <<store, persisted, faults>> /\ dirs' = dirs /\ ok' = ok
      BY <1>1 DEF StageDir, At, Goto, Quiet, disk, loop, bounds
    <2>2. pc \in Opened /\ pc' \in Opened
      BY <2>1 DEF Opened, BodySites, DirSites
    <2>3. OpenHere'
      <3>1. OpenHere /\ Place' = Place
        BY <2>1 DEF ShapedInv, Place
      <3> QED  BY <2>1, <2>2, <3>1 DEF OpenHere, DirSites, NoArtYet
    <2> QED  BY <2>1, <2>2, <2>3, BodyStep
  <1>2. CASE DirPlan
    <2>1. /\ pc = "dir.plan" /\ io = "idle"
          /\ UNCHANGED <<store, persisted, faults>> /\ dirs' = dirs /\ ok' = ok
      BY <1>2 DEF DirPlan, At, Quiet, disk, loop, bounds
    <2>2. pc \in Opened /\ pc \in DirSites
      BY <2>1 DEF Opened, DirSites
    <2>3. OpenHere /\ mem.dirs[Place].stage = "none" /\ DirShape(mem.dirs[Place])
      BY <1>p, <2>1, <2>2, BodyHas DEF OpenHere, Shape
    <2>4. CASE dirs[Place] \in {"host", "final"}
      <3>1. pc' = AfterDir /\ io' = "idle" /\ mem' = mem
        BY <1>2, <2>4 DEF DirPlan, Goto
      <3>2. pc' \in Opened
        BY <1>a, <3>1 DEF Opened, BodySites
      <3>3. OpenHere'
        <4>1. Place' = Place
          BY <3>1 DEF Place
        <4> QED  BY <1>a, <2>1, <2>2, <2>3, <3>1, <3>2, <4>1 DEF OpenHere, DirSites, NoArtYet
      <3> QED  BY <1>a, <2>1, <2>2, <3>1, <3>2, <3>3, BodyStep
    <2>5. CASE dirs[Place] \notin {"host", "final"}
      <3> DEFINE d == [mem.dirs[Place] EXCEPT !.stage = "planned"]
      <3>1. pc' = "dir.make" /\ io' = "write" /\ PutDir(d)
        BY <1>2, <2>5 DEF DirPlan, Save, PutDirStage
      <3>2. d \in DirType /\ d.stage = "planned" /\ ~d.renamed /\ d = [NoDir EXCEPT !.stage = "planned"]
        <4>1. mem.dirs[Place].renamed = FALSE
          BY <1>p, <2>3, Zenon DEF DirShape, DirType
        <4>2. mem.dirs[Place] = NoDir
          BY <1>p, <2>3, <4>1 DEF NoDir, DirType
        <4>3. d = [NoDir EXCEPT !.stage = "planned"]
          BY <4>2
        <4> HIDE DEF d
        <4>4. d = [stage |-> "planned", renamed |-> FALSE]
          BY <4>3 DEF NoDir
        <4>5. d \in DirType /\ d.stage = "planned" /\ ~d.renamed
          BY <4>4 DEF DirType, DirStages
        <4> QED  BY <4>3, <4>5
      <3> HIDE DEF d
      <3>3. /\ Shape(mem') /\ mem'.phase = "active" /\ Follows(mem, mem') /\ Place' = Place
            /\ mem'.mounts = mem.mounts /\ mem'.art = mem.art /\ mem'.x = mem.x /\ mem'.dirs[Place] = d
            /\ \A k \in Places : k # Place => mem'.dirs[k] = mem.dirs[k]
            /\ \A w : DirFits(w, d) /\ dirs[Place] = w /\ faults = 0 => DirsFit(dirs, mem'.dirs)
        BY <2>2, <2>3, <3>1, <3>2, DirWritten
      <3>4. DirFits(dirs[Place], d)
        BY <1>p, <2>5, <3>2 DEF DirFits, TypeInv, DiskType
      <3>5. pc' \in Opened
        BY <3>1 DEF Opened, DirSites
      <3>6. OpenHere'
        BY <1>p, <2>1, <2>2, <2>3, <3>1, <3>2, <3>3, <3>5 DEF OpenHere, DirSites, NoArtYet
      <3>7. faults = 0 => DirsFit(dirs, mem'.dirs)
        BY <3>3, <3>4
      <3>8. mem'.phase = mem.phase
        BY <2>2, <3>3, BodyHas
      <3> QED  BY <2>1, <2>2, <3>1, <3>3, <3>5, <3>6, <3>7, <3>8, BodyStep
    <2> QED  BY <2>4, <2>5
  <1>3. CASE DirMake \/ DirMode \/ DirMove
    <2>1. /\ io = "idle" /\ io' = "idle" /\ mem' = mem
          /\ UNCHANGED <<store, persisted, faults>> /\ ok' = ok
          /\ \/ pc = "dir.make" /\ pc' = "dir.mode" /\ dirs' = [dirs EXCEPT ![Place] = "private"]
             \/ pc = "dir.mode" /\ pc' = "dir.staged" /\ dirs' = [dirs EXCEPT ![Place] = "staging"]
             \/ pc = "dir.move" /\ pc' = "dir.done" /\ dirs' = [dirs EXCEPT ![Place] = "final"]
      BY <1>3 DEF DirMake, DirMode, DirMove, MoveDir, At, Goto, loop, bounds
    <2>2. /\ pc \in Opened /\ pc' \in Opened /\ pc \in DirSites /\ pc \in Loaded /\ pc' \in Loaded
          /\ pc' \notin Settling \cup {"clean.remove"}
      BY <2>1 DEF Opened, DirSites, Loaded, Settling, MountCleanSites, CleanSites
    <2>3. OpenHere /\ (faults = 0 => ok /\ DirsFit(dirs, mem.dirs))
      BY <2>2, BodyHas
    <2>4. Place' = Place
      BY <2>1 DEF Place
    <2>5. dirs'[Place] = IF pc' = "dir.mode" THEN "private" ELSE IF pc' = "dir.staged" THEN "staging" ELSE "final"
      BY <1>p, <2>1 DEF TypeInv, DiskType
    <2>6. mem.dirs[Place].stage = IF pc = "dir.move" THEN "rename-planned" ELSE "planned"
      BY <2>1, <2>3 DEF OpenHere
    <2>7. faults = 0 => DirsFit(dirs', mem.dirs)
      <3>1. \A k \in Places : k # Place => dirs'[k] = dirs[k]
        BY <2>1 DEF TypeInv, DiskType
      <3>2. DirFits(dirs'[Place], mem.dirs[Place])
        BY <2>1, <2>5, <2>6 DEF DirFits
      <3> QED  BY <2>3, <3>1, <3>2 DEF DirsFit
    <2>8. OpenHere'
      BY <2>1, <2>2, <2>3, <2>4 DEF OpenHere, DirSites, NoArtYet
    <2>9. DirHere'
      BY <2>1, <2>2, <2>4, <2>5 DEF DirHere
    <2>10. CloseHere'
      BY <2>2, NotClosing
    <2>11. faults = 0 => ok'
      <3> SUFFICES ASSUME faults = 0  PROVE ok'
        OBVIOUS
      <3>1. ok /\ ok' = ok
        BY <2>1, <2>3
      <3> QED  BY <3>1, Zenon
    <2> QED  BY <2>1, <2>2, <2>7, <2>8, <2>9, <2>10, <2>11, StepSaved
  <1>4. CASE DirStaged \/ DirRename \/ DirDone
    <2> DEFINE d == IF pc = "dir.staged" THEN [mem.dirs[Place] EXCEPT !.stage = "staged"]
                    ELSE IF pc = "dir.rename" THEN [mem.dirs[Place] EXCEPT !.stage = "rename-planned"]
                    ELSE [stage |-> "created", renamed |-> TRUE]
    <2>1. /\ io = "idle" /\ io' = "write" /\ PutDir(d)
          /\ UNCHANGED <<store, persisted, faults>> /\ dirs' = dirs /\ ok' = ok
          /\ \/ pc = "dir.staged" /\ pc' = "dir.rename"
             \/ pc = "dir.rename" /\ pc' = "dir.move"
             \/ pc = "dir.done" /\ pc' = AfterDir
      BY <1>4 DEF DirStaged, DirRename, DirDone, PutDirStage, At, Save, Quiet, disk, loop, bounds
    <2>2. pc \in Opened /\ pc \in DirSites /\ pc' \in Opened
      BY <1>a, <2>1 DEF Opened, DirSites, BodySites
    <2>3. OpenHere /\ (faults = 0 => DirHere) /\ mem.phase = "active" /\ DirShape(mem.dirs[Place])
      BY <1>p, <2>2, BodyHas DEF Shape
    <2>4. mem.dirs[Place].stage = IF pc = "dir.staged" THEN "planned"
                                  ELSE IF pc = "dir.rename" THEN "staged" ELSE "rename-planned"
      BY <2>1, <2>3 DEF OpenHere
    <2>5. ~mem.dirs[Place].renamed
      BY <2>1, <2>3, <2>4 DEF DirShape, ValidDir
    <2>6. /\ d \in DirType
          /\ d.stage = IF pc = "dir.staged" THEN "staged"
                       ELSE IF pc = "dir.rename" THEN "rename-planned" ELSE "created"
          /\ d.renamed = IF pc \in {"dir.staged", "dir.rename"} THEN mem.dirs[Place].renamed ELSE TRUE
      BY <1>p, <2>1 DEF DirType, DirStages
    <2> HIDE DEF d
    <2>7. DirStepOK(mem.dirs[Place], d)
      BY <2>1, <2>4, <2>5, <2>6 DEF DirStepOK, NextDir
    <2>8. ~d.renamed \/ d.stage = "created"
      BY <2>1, <2>5, <2>6
    <2>9. d.stage = "created" => d.renamed
      BY <2>1, <2>6
    <2>10. mem.dirs[Place].stage # "none" /\ d.stage \in {"planned", "staged", "rename-planned", "created"}
      BY <2>1, <2>4, <2>6
    <2>11. /\ Shape(mem') /\ mem'.phase = "active" /\ Follows(mem, mem') /\ Place' = Place
           /\ mem'.mounts = mem.mounts /\ mem'.art = mem.art /\ mem'.x = mem.x /\ mem'.dirs[Place] = d
           /\ \A k \in Places : k # Place => mem'.dirs[k] = mem.dirs[k]
           /\ \A w : DirFits(w, d) /\ dirs[Place] = w /\ faults = 0 => DirsFit(dirs, mem'.dirs)
      BY <2>1, <2>2, <2>6, <2>7, <2>8, <2>9, <2>10, DirWritten
    <2>12. faults = 0 => DirFits(dirs[Place], d)
      <3>1. faults = 0 => DirFits(dirs[Place], mem.dirs[Place])
        BY <1>p, <2>2, BodyHas DEF DirsFit
      <3>2. faults = 0 /\ pc = "dir.staged" => dirs[Place] = "staging"
        BY <2>3 DEF DirHere
      <3>3. faults = 0 /\ pc = "dir.done" => dirs[Place] = "final"
        BY <2>3 DEF DirHere
      <3> QED  BY <2>1, <2>4, <2>6, <3>1, <3>2, <3>3 DEF DirFits
    <2>13. faults = 0 => DirsFit(dirs, mem'.dirs)
      BY <2>11, <2>12
    <2>14. OpenHere'
      BY <1>a, <1>p, <2>1, <2>2, <2>3, <2>6, <2>11 DEF OpenHere, DirSites, NoArtYet
    <2>15. pc' \notin {"dir.staged", "dir.done"}
      BY <1>a, <2>1
    <2> QED  BY <2>1, <2>2, <2>3, <2>11, <2>13, <2>14, <2>15, BodyStep
  <1> QED  BY <1>1, <1>2, <1>3, <1>4 DEF EnsureDirectory

\* Past the directories the body goes on in a record whose directories it leaves alone.
LEMMA OpenOn ==
  ASSUME TypeInv, ShapedInv, pc \in Opened, pc' \in Opened \ ({"body", "stage.dir"} \cup DirSites),
         Place' \in {Place, Place + 1}, mem'.phase = "active", mem'.dirs = mem.dirs,
         pc' = "stage.plan" => mem'.art = "none",
         pc' \in {"stage.create", "stage.record"} => mem'.art = "planned",
         pc' \in {"stage.copy", "stage.rest"} => mem'.art = "writing",
         pc' \in {"x.mutate", "x.verify"} => mem'.x.stage = "grant-planned"
  PROVE  OpenHere'
  <1>1. \A k \in Places : k > Place => mem.dirs[k].stage = "none"
    BY DEF ShapedInv, OpenHere
  <1>2. \A k \in Places : k > Place' => mem'.dirs[k].stage = "none"
    BY <1>1, PlaceIs
  <1> QED  BY <1>2 DEF OpenHere, NoArtYet, DirSites

LEMMA AbortSaved ==
  ASSUME ShapedInv, SavedInv, Abort
  PROVE  ShapedInv' /\ SavedInv'
  BY RaiseSaved DEF Abort, At

\* stage_file.
LEMMA StageFileSaved ==
  ASSUME TypeInv, ShapedInv, SavedInv, StageFile
  PROVE  ShapedInv' /\ SavedInv'
  <1>1. CASE StagePlan \/ StageRecord \/ StageRest
    <2> DEFINE a == IF pc = "stage.plan" THEN "planned" ELSE IF pc = "stage.record" THEN "writing" ELSE "active"
    <2>1. /\ io = "idle" /\ io' = "write" /\ mem' = [mem EXCEPT !.art = a]
          /\ UNCHANGED <<store, persisted, faults>> /\ dirs' = dirs /\ ok' = ok
          /\ \/ pc = "stage.plan" /\ pc' = "stage.create"
             \/ pc = "stage.record" /\ pc' = "stage.copy"
             \/ pc = "stage.rest" /\ pc' = "x.query"
      BY <1>1 DEF StagePlan, StageRecord, StageRest, PutArt, PutFile, At, Save, Quiet, disk, loop, bounds
    <2>2. pc \in Opened /\ pc' \in Opened \ ({"body", "stage.dir"} \cup DirSites)
      BY <2>1 DEF Opened, BodySites, DirSites
    <2>3. /\ Shape(mem) /\ mem.phase = "active" /\ OpenHere /\ Typed(mem)
          /\ faults = 0 => DirsFit(dirs, mem.dirs)
      BY <2>2, BodyHas, PlaceIs
    <2>4. mem.art = IF pc = "stage.plan" THEN "none" ELSE IF pc = "stage.record" THEN "planned" ELSE "writing"
      BY <2>1, <2>3 DEF OpenHere, NoArtYet
    <2>5. a \in ArtStages /\ (IF mem.art = "none" THEN a = "planned" ELSE a \in NextArt(mem.art))
      BY <2>1, <2>4 DEF ArtStages, NextArt
    <2>6. a = IF pc' = "stage.create" THEN "planned" ELSE IF pc' = "stage.copy" THEN "writing" ELSE "active"
      BY <2>1
    <2> HIDE DEF a
    <2>7. /\ Shape(mem') /\ mem'.phase = "active" /\ mem'.mounts = mem.mounts /\ mem'.dirs = mem.dirs
          /\ mem'.art = a /\ mem'.x = mem.x
      BY <2>1, <2>3, <2>5, ArtEdit
    <2>8. Follows(mem, mem')
      BY <2>1, <2>3, <2>5, ArtStep
    <2>9. OpenHere'
      <3>1. Place' = Place
        BY <2>7 DEF Place
      <3> QED  BY <2>1, <2>2, <2>6, <2>7, <3>1, OpenOn
    <2>10. pc' \notin {"dir.staged", "dir.done"}
      BY <2>1
    <2> QED  BY <2>1, <2>2, <2>3, <2>7, <2>8, <2>9, <2>10, BodyStep
  <1>2. CASE StageCreate \/ StageCopy
    <2>1. /\ io = "idle" /\ io' = "idle" /\ mem' = mem
          /\ UNCHANGED <<store, persisted, faults>> /\ dirs' = dirs /\ ok' = ok
          /\ \/ pc = "stage.create" /\ pc' = "stage.record"
             \/ pc = "stage.copy" /\ pc' = "stage.rest"
      BY <1>2 DEF StageCreate, StageCopy, PutFile, At, Goto, loop, bounds
    <2>2. pc \in Opened /\ pc' \in Opened \ ({"body", "stage.dir"} \cup DirSites)
      BY <2>1 DEF Opened, BodySites, DirSites
    <2>3. mem.phase = "active" /\ OpenHere
      BY <2>2, BodyHas
    <2>4. OpenHere'
      <3>1. Place' = Place
        BY <2>1 DEF Place
      <3> QED  BY <2>1, <2>2, <2>3, <3>1, OpenOn DEF OpenHere
    <2>5. pc' \notin {"dir.staged", "dir.done"}
      BY <2>1
    <2> QED  BY <2>1, <2>2, <2>4, <2>5, BodyStep
  <1> QED  BY <1>1, <1>2 DEF StageFile

\* The record of X access, written by the body.
LEMMA XWritten ==
  ASSUME TypeInv, ShapedInv, SavedInv, pc \in {"x.query", "x.verify"}, io = "idle", io' = "write",
         NEW q \in XType, XShape(q), XStepOK(mem.x, q), mem' = [mem EXCEPT !.x = q],
         UNCHANGED <<store, persisted, faults>>, dirs' = dirs, ok' = ok \/ ok' = TRUE,
         pc' \in {"x.mutate", "mount.plan", "abort"}, pc' = "x.mutate" => q.stage = "grant-planned"
  PROVE  ShapedInv' /\ SavedInv'
  <1>1. pc \in Opened /\ pc' \in Opened \ ({"body", "stage.dir"} \cup DirSites)
    BY DEF Opened, BodySites, DirSites
  <1>2. /\ Shape(mem) /\ mem.phase = "active" /\ Typed(mem)
        /\ faults = 0 => DirsFit(dirs, mem.dirs)
    BY <1>1, BodyHas, PlaceIs
  <1>3. /\ Shape(mem') /\ mem'.phase = "active" /\ mem'.mounts = mem.mounts /\ mem'.dirs = mem.dirs
        /\ mem'.x = q
    BY <1>2, XEdit
  <1>4. Follows(mem, mem')
    BY <1>2, XStep
  <1>5. OpenHere'
    <2>1. Place' = Place
      BY <1>3 DEF Place
    <2> QED  BY <1>1, <1>3, <2>1, OpenOn
  <1>6. ok' = ok \/ ok' = TRUE \/ faults' # 0
    BY Zenon
  <1> QED  BY <1>1, <1>2, <1>3, <1>4, <1>5, <1>6, BodyStep

\* A command leaves a session in step, or it counts as a fault.
LEMMA CommandSaved ==
  ASSUME TypeInv, NEW T, NEW v
  PROVE  /\ Command(table' = T, UNCHANGED table) => (faults' = 0 => UNCHANGED bounds /\ ok' = TRUE /\ table' = T)
         /\ Command(xs' = v, UNCHANGED xs) => (faults' = 0 => UNCHANGED bounds /\ ok' = TRUE /\ xs' = v)
         /\ Command(table' = T, UNCHANGED table) \/ Command(xs' = v, UNCHANGED xs) => (faults' = 0 => faults = 0)
  <1>1. faults \in Nat
    BY DEF TypeInv, BoundType
  <1>2. faults' = faults + 1 => faults' # 0
    BY <1>1
  <1>3. UNCHANGED bounds => faults' = faults
    BY DEF bounds
  <1>4. Command(table' = T, UNCHANGED table) => (UNCHANGED bounds /\ ok' = TRUE /\ table' = T) \/ faults' = faults + 1
    BY Zenon DEF Command
  <1>5. Command(xs' = v, UNCHANGED xs) => (UNCHANGED bounds /\ ok' = TRUE /\ xs' = v) \/ faults' = faults + 1
    BY Zenon DEF Command
  <1> QED  BY <1>2, <1>3, <1>4, <1>5, Zenon

\* allow_local_x_access.
LEMMA GrantXSaved ==
  ASSUME TypeInv, SiteInv, ShapedInv, SavedInv, GrantX
  PROVE  ShapedInv' /\ SavedInv'
  <1>0. mem.x \in XType
    BY PlaceIs
  <1>1. CASE XQuery
    <2> DEFINE q == IF xs = "absent" THEN [stage |-> "grant-planned", before |-> "absent"]
                    ELSE [stage |-> "no-change", before |-> IF Local THEN "present" ELSE "off"]
    <2>1. /\ pc = "x.query" /\ io = "idle" /\ io' = "write" /\ mem' = [mem EXCEPT !.x = q]
          /\ UNCHANGED <<store, persisted, faults>> /\ dirs' = dirs /\ ok' = ok
          /\ pc' = IF xs = "absent" THEN "x.mutate" ELSE "mount.plan"
      BY <1>1 DEF XQuery, At, Save, Quiet, disk, loop, bounds
    <2>2. mem.x.stage = "unexamined"
      BY <2>1 DEF SiteInv, XOpen
    <2>3. q \in XType /\ q.before # "none" /\ q.stage = IF xs = "absent" THEN "grant-planned" ELSE "no-change"
      BY DEF XType, XStages
    <2>4. q.stage = "grant-planned" => q.before = "absent"
      OBVIOUS
    <2> HIDE DEF q
    <2>5. XShape(q) /\ XStepOK(mem.x, q)
      BY <2>2, <2>3, <2>4 DEF XShape, XStepOK, NextX
    <2>6. pc' = "x.mutate" => q.stage = "grant-planned"
      BY <2>1, <2>3
    <2> QED  BY <2>1, <2>3, <2>5, <2>6, XWritten
  <1>2. CASE XMutate
    <2>1. CASE Raise
      BY <1>2, <2>1, RaiseSaved DEF XMutate, At
    <2>2. CASE ~Raise
      <3>1. /\ pc = "x.mutate" /\ io = "idle" /\ pc' = "x.verify" /\ io' = "idle"
            /\ Command(xs' = "granted", UNCHANGED xs)
            /\ dirs' = dirs /\ mem' = mem /\ UNCHANGED <<store, persisted>>
        BY <1>2, <2>2 DEF XMutate, At, Goto
      <3>2. faults' = 0 => faults = 0 /\ ok' = TRUE
        BY <3>1, CommandSaved
      <3>3. pc \in Opened /\ pc' \in Opened \ ({"body", "stage.dir"} \cup DirSites)
        BY <3>1 DEF Opened, BodySites, DirSites
      <3>4. mem.phase = "active" /\ OpenHere
        BY <3>3, BodyHas
      <3>5. OpenHere'
        <4>1. Place' = Place
          BY <3>1 DEF Place
        <4> QED  BY <3>1, <3>3, <3>4, <4>1, OpenOn DEF OpenHere
      <3>6. faults' = 0 => faults = 0
        BY <3>2
      <3>7. ok' = ok \/ ok' = TRUE \/ faults' # 0
        BY <3>2, Zenon
      <3>8. pc' \notin {"dir.staged", "dir.done"}
        BY <3>1
      <3> QED  BY <3>1, <3>3, <3>5, <3>6, <3>7, <3>8, BodyStep
    <2> QED  BY <2>1, <2>2
  <1>3. CASE XVerify
    <2>1. CASE Raise
      BY <1>3, <2>1, RaiseSaved DEF XVerify, At
    <2>2. CASE ~Raise
      <3> DEFINE s == IF Local THEN "owned" ELSE "failed"
                 q == [mem.x EXCEPT !.stage = s]
      <3>1. /\ pc = "x.verify" /\ io = "idle" /\ io' = "write" /\ PutX(s) /\ ok' = TRUE
            /\ pc' \in {"mount.plan", "abort"} /\ dirs' = dirs
            /\ UNCHANGED <<store, persisted, faults>>
        BY <1>3, <2>2 DEF XVerify, At, Save, disk, bounds
      <3>2. mem' = [mem EXCEPT !.x = q]
        BY <3>1 DEF PutX
      <3>3. Shape(mem) /\ mem.x.stage = "grant-planned"
        <4>1. pc \in Opened
          BY <3>1 DEF Opened, BodySites
        <4> QED  BY <3>1, <4>1, BodyHas DEF OpenHere
      <3>4. q \in XType /\ q.stage = s /\ q.before = mem.x.before /\ s \in {"owned", "failed"}
        BY <1>0 DEF XType, XStages
      <3>5. mem.x.before = "absent"
        BY <3>3 DEF Shape, XShape
      <3> HIDE DEF q, s
      <3>6. XShape(q) /\ XStepOK(mem.x, q)
        BY <3>3, <3>4, <3>5 DEF XShape, XStepOK, NextX
      <3>7. ok' = ok \/ ok' = TRUE
        BY <3>1, Zenon
      <3> QED  BY <3>1, <3>2, <3>4, <3>6, <3>7, XWritten
    <2> QED  BY <2>1, <2>2
  <1> QED  BY <1>1, <1>2, <1>3 DEF GrantX

\* The plan of the request at hand, written by the body.
LEMMA PlanWritten ==
  ASSUME TypeInv, ShapedInv, SavedInv, pc \in {"mount.check", "mount.after"}, io = "idle", io' = "write",
         Place > 0, NEW p \in PlanType, PlanShape(p), PlanOK(Current, p), PutPlan(p),
         UNCHANGED <<store, persisted, faults>>, dirs' = dirs, ok' = ok \/ ok' = TRUE,
         pc' \in {"mount.run", "mount.plan", "abort"}
  PROVE  ShapedInv' /\ SavedInv'
  <1>1. pc \in Opened /\ pc' \in Opened \ ({"body", "stage.dir"} \cup DirSites)
    BY DEF Opened, BodySites, DirSites
  <1>2. /\ Shape(mem) /\ mem.phase = "active" /\ Typed(mem)
        /\ faults = 0 => DirsFit(dirs, mem.dirs)
    BY <1>1, BodyHas, PlaceIs
  <1>3. Place \in DOMAIN mem.mounts /\ mem' = [mem EXCEPT !.mounts[Place] = p]
    BY CurrentTyped DEF PutPlan
  <1>4. /\ Shape(mem') /\ mem'.phase = "active" /\ mem'.dirs = mem.dirs /\ mem'.art = mem.art
        /\ mem'.x = mem.x /\ Len(mem'.mounts) = Len(mem.mounts)
    BY <1>2, <1>3, PlanEdit
  <1>5. Follows(mem, mem')
    BY <1>2, <1>3, PlanStep DEF Current
  <1>6. OpenHere'
    <2>1. Place' = Place
      BY <1>4 DEF Place
    <2> QED  BY <1>1, <1>4, <2>1, OpenOn
  <1>7. ok' = ok \/ ok' = TRUE \/ faults' # 0
    BY Zenon
  <1>8. pc' \notin {"dir.staged", "dir.done"}
    OBVIOUS
  <1> QED  BY <1>1, <1>2, <1>4, <1>5, <1>6, <1>7, <1>8, BodyStep

\* A plan that owns nothing.
LEMMA BarePlan ==
  ASSUME NEW p, Owned(p) = {}, p.inferred = {}, p.stage # "owned"
  PROVE  PlanShape(p)
  BY DEF PlanShape, ValidPlan

\* The same of a record that is given.
LEMMA RecordAdded ==
  ASSUME NEW j, Typed(j), Shape(j), j.phase \in {"active", "cleaning"}, NEW p \in PlanType,
         PlanShape(p), NewPlanOK(p), Len(j.mounts) < NumRequests,
         NEW w, w = [j EXCEPT !.mounts = Append(@, p)]
  PROVE  /\ Shape(w) /\ w.phase = j.phase /\ w.dirs = j.dirs /\ w.art = j.art /\ w.x = j.x
         /\ Len(w.mounts) = Len(j.mounts) + 1 /\ Follows(j, w)
         /\ Typed(w) /\ w.mounts[Len(j.mounts) + 1] = p
         /\ DOMAIN w.mounts = DOMAIN j.mounts \cup {Len(j.mounts) + 1}
         /\ \A i \in DOMAIN j.mounts : w.mounts[i] = j.mounts[i]
  <1> DEFINE m == [j EXCEPT !.mounts = Append(@, p)]
  <1>1. Shape(m) /\ Typed(m)
    BY PlanAdded
  <1>2. m.phase = j.phase /\ m.dirs = j.dirs /\ m.art = j.art /\ m.x = j.x
    BY PlanAdded
  <1>3. Len(m.mounts) = Len(j.mounts) + 1
    BY PlanAdded
  <1>4. Follows(j, m)
    BY PlanAdded
  <1>5. m.mounts[Len(j.mounts) + 1] = p
    BY PlanAdded
  <1>6. DOMAIN m.mounts = DOMAIN j.mounts \cup {Len(j.mounts) + 1}
    BY PlanAdded
  <1>7. \A i \in DOMAIN j.mounts : m.mounts[i] = j.mounts[i]
    BY PlanAdded
  <1> HIDE DEF m
  <1>8. w = m
    BY DEF m
  <1> QED  BY <1>1, <1>2, <1>3, <1>4, <1>5, <1>6, <1>7, <1>8

LEMMA MountPlanSaved ==
  ASSUME TypeInv, ShapedInv, SavedInv, MountPlan
  PROVE  ShapedInv' /\ SavedInv'
  <1>0. pc = "mount.plan" /\ io = "idle" /\ Place < NumRequests
    BY DEF MountPlan, At
  <1>1. CASE Raise
    BY <1>0, <1>1, RaiseSaved
  <1>2. CASE ~Raise
    <2> DEFINE S == Scope(Place + 1)
    <2>1. PICK p \in {Plan("already-present", S, S), Plan("planned", {}, {})} :
            /\ mem' = [mem EXCEPT !.mounts = Append(@, p)]
            /\ io' = "write" /\ UNCHANGED <<store, persisted, faults>> /\ dirs' = dirs /\ ok' = ok
            /\ pc' \in {"mount.plan", "dir.plan"}
      BY <1>2 DEF MountPlan, Save, Quiet, disk, loop, bounds
    <2>2. S \in FinMounts
      BY ScopeFin
    <2>3. /\ p \in PlanType /\ p.stage \in {"already-present", "planned"} /\ p.owned = << >>
          /\ p.inferred = {} /\ (p.stage = "planned" => p.seen = {})
          /\ (p.stage = "already-present" => p.seen = p.before)
      <3>1. \A s \in PlanStages, B, V \in FinMounts : Plan(s, B, V) \in PlanType
        BY FinEmpty, NothingOwned DEF Plan, PlanType
      <3>2. {"already-present", "planned"} \subseteq PlanStages
        BY DEF PlanStages
      <3>3. p \in PlanType
        BY <2>1, <2>2, <3>1, <3>2, FinEmpty
      <3> QED  BY <2>1, <3>3 DEF Plan
    <2>4. Owned(p) = {}
      BY <2>3 DEF Owned
    <2>5. PlanShape(p) /\ NewPlanOK(p)
      BY <2>3, <2>4, BarePlan DEF NewPlanOK
    <2>6. pc \in Opened /\ pc' \in Opened
      BY <1>0, <2>1 DEF Opened, BodySites, DirSites
    <2>7. Shape(mem) /\ mem.phase = "active" /\ Typed(mem) /\ (faults = 0 => DirsFit(dirs, mem.dirs)) /\ OpenHere
      BY <2>6, BodyHas, PlaceIs
    <2>8. /\ Shape(mem') /\ mem'.phase = mem.phase /\ mem'.dirs = mem.dirs /\ mem'.art = mem.art /\ mem'.x = mem.x
          /\ Len(mem'.mounts) = Len(mem.mounts) + 1 /\ Follows(mem, mem')
      <3>1. Len(mem.mounts) < NumRequests /\ mem.phase \in {"active", "cleaning"}
        BY <1>0, <2>7 DEF Place
      <3>2. p \in PlanType /\ PlanShape(p) /\ NewPlanOK(p) /\ Typed(mem) /\ Shape(mem)
        BY <2>3, <2>5, <2>7
      <3>3. mem' = [mem EXCEPT !.mounts = Append(@, p)]
        BY <2>1
      <3> QED  BY ONLY <3>1, <3>2, <3>3, RecordAdded
    <2>9. Place' = Place + 1 /\ Place \in Nat /\ Place + 1 \in Places
      BY <1>0, <2>8, PlaceIs DEF Place, Places
    <2>10. OpenHere'
      <3>1. \A k \in Places : k > Place => mem.dirs[k].stage = "none"
        BY <2>6, <2>7 DEF OpenHere
      <3>2. \A k \in Places : k > Place' => mem'.dirs[k].stage = "none"
        BY <2>8, <2>9, <3>1, PlaceIs
      <3>3. mem'.dirs[Place'].stage = "none"
        BY <2>8, <2>9, <3>1
      <3> QED  BY <2>1, <2>7, <2>8, <2>9, <3>2, <3>3 DEF OpenHere, NoArtYet
    <2>11. pc' \notin {"dir.staged", "dir.done"}
      BY <2>1
    <2> QED  BY <1>0, <2>1, <2>6, <2>7, <2>8, <2>10, <2>11, BodyStep
  <1> QED  BY <1>1, <1>2

\* A request that ran found something to own, or owns nothing.
LEMMA AttributableThere ==
  ASSUME NEW r, Attributable(r)
  PROVE  Scope(r) # {}
  <1>1. AtPath(r, "root") # {}
    BY FS_EmptySet DEF Attributable
  <1> QED  BY <1>1 DEF AtPath, Scope

\* _acquire_mount.
LEMMA AcquireMountSaved ==
  ASSUME TypeInv, OwnInv, ShapedInv, SavedInv, AcquireMount
  PROVE  ShapedInv' /\ SavedInv'
  <1>p. pc \in {"mount.check", "mount.run", "mount.after"} => Place > 0
    BY DEF TypeInv, ControlType, MountSites
  <1>c. ASSUME Place > 0
        PROVE  Current \in PlanType /\ (pc \in Loaded => PlanShape(Current)) /\ PlanShape(Current)
    <2>1. Current \in PlanType /\ Place \in DOMAIN mem.mounts
      BY <1>c, CurrentTyped
    <2> QED  BY <2>1 DEF ShapedInv, ShapeInv, Shape, Current
  <1>1. CASE MountPlan
    BY <1>1, MountPlanSaved
  <1>2. CASE MountsDone
    <2>1. /\ pc = "mount.plan" /\ io = "idle" /\ pc' = "work" /\ io' = "idle" /\ mem' = mem
          /\ UNCHANGED <<store, persisted, faults>> /\ dirs' = dirs /\ ok' = ok
      BY <1>2 DEF MountsDone, At, Goto, Quiet, disk, loop, bounds
    <2>2. pc \in Opened /\ pc' \in Opened \ ({"body", "stage.dir"} \cup DirSites)
      BY <2>1 DEF Opened, BodySites, DirSites
    <2>3. OpenHere'
      <3>1. Place' = Place /\ mem.phase = "active"
        BY <2>1, <2>2, BodyHas DEF Place
      <3> QED  BY <2>1, <2>2, <3>1, OpenOn
    <2>4. pc' \notin {"dir.staged", "dir.done"}
      BY <2>1
    <2> QED  BY <2>1, <2>2, <2>3, <2>4, BodyStep
  <1>3. CASE MountCheck
    <2>1. /\ pc = "mount.check" /\ io = "idle" /\ io' = "write" /\ pc' \in {"mount.run", "abort"}
          /\ UNCHANGED <<store, persisted, faults>> /\ dirs' = dirs /\ ok' = ok
      BY <1>3 DEF MountCheck, At, Save, Quiet, disk, loop, bounds
    <2>2. Current.stage = "planned" /\ Current \in PlanType /\ Owned(Current) = {} /\ Current.inferred = {}
      BY <1>p, <1>c, <2>1 DEF OwnInv, RunInv, PlanShape, ValidPlan
    <2>3. Scope(Place) \in FinMounts
      BY ScopeFin
    <2> DEFINE S == Scope(Place)
    <2>4. PICK p \in {[Current EXCEPT !.stage = "command-started"],
                      [Current EXCEPT !.stage = "ambiguous", !.seen = S]} : PutPlan(p)
      BY <1>3 DEF MountCheck
    <2>5. p \in PlanType
      <3>1. {"command-started", "ambiguous"} \subseteq PlanStages
        BY DEF PlanStages
      <3>2. /\ [Current EXCEPT !.stage = "command-started"] \in PlanType
            /\ [Current EXCEPT !.stage = "ambiguous", !.seen = S] \in PlanType
        BY <2>2, <2>3, <3>1, PutStages
      <3> QED  BY <2>4, <3>2
    <2>6. /\ p.stage \in {"command-started", "ambiguous"} /\ p.before = Current.before
          /\ p.owned = Current.owned /\ p.inferred = Current.inferred
          /\ p.stage = "command-started" => p.seen = Current.seen
      BY <2>2, <2>4 DEF PlanType
    <2>7. Owned(p) = {}
      BY <2>2, <2>6 DEF Owned
    <2>8. PlanShape(p)
      BY <2>2, <2>6, <2>7, BarePlan
    <2>9. PlanOK(Current, p)
      BY <2>2, <2>6 DEF PlanOK, NextPlan, ObservationOK, OwnedOK
    <2>10. ok' = ok \/ ok' = TRUE
      BY <2>1, Zenon
    <2> QED  BY <1>p, <2>1, <2>4, <2>5, <2>8, <2>9, <2>10, PlanWritten
  <1>4. CASE MountRun
    <2>1. /\ pc = "mount.run" /\ io = "idle" /\ pc' = "mount.after" /\ io' = "idle" /\ mem' = mem
          /\ Command(table' = table \cup Bound(Place), UNCHANGED table)
          /\ dirs' = dirs /\ UNCHANGED <<store, persisted>>
      BY <1>4 DEF MountRun, At, Goto
    <2>2. faults' = 0 => faults = 0 /\ ok' = TRUE
      BY <2>1, CommandSaved
    <2>3. pc \in Opened /\ pc' \in Opened \ ({"body", "stage.dir"} \cup DirSites)
      BY <2>1 DEF Opened, BodySites, DirSites
    <2>4. OpenHere'
      <3>1. Place' = Place /\ mem.phase = "active"
        BY <2>1, <2>3, BodyHas DEF Place
      <3> QED  BY <2>1, <2>3, <3>1, OpenOn
    <2>5. faults' = 0 => faults = 0
      BY <2>2
    <2>6. ok' = ok \/ ok' = TRUE \/ faults' # 0
      BY <2>2, Zenon
    <2>7. pc' \notin {"dir.staged", "dir.done"}
      BY <2>1
    <2> QED  BY <2>1, <2>3, <2>4, <2>5, <2>6, <2>7, BodyStep
  <1>5. CASE MountAfter
    <2> DEFINE S == Scope(Place)
               f == [m \in S |-> "owned"]
               c == [Current EXCEPT !.seen = S]
    <2>1. /\ pc = "mount.after" /\ io = "idle" /\ io' = "write" /\ pc' \in {"mount.plan", "abort"}
          /\ UNCHANGED <<store, persisted, faults>> /\ dirs' = dirs /\ ok' = TRUE
      BY <1>5 DEF MountAfter, At, Save, disk, bounds
    <2>2. Current.stage = "command-started" /\ Current \in PlanType /\ Owned(Current) = {} /\ Current.inferred = {}
      BY <1>p, <1>c, <2>1 DEF OwnInv, RunInv, PlanShape, ValidPlan
    <2>3. S \in FinMounts
      BY ScopeFin
    <2>4. ok' = ok \/ ok' = TRUE
      BY <2>1, Zenon
    <2>5. CASE ~ok \/ ~Attributable(Place)
      <3>1. PICK p \in {[c EXCEPT !.stage = "failed"], [c EXCEPT !.stage = "ambiguous"]} : PutPlan(p)
        BY <1>5, <2>5 DEF MountAfter
      <3>2. p \in PlanType
        <4>1. {"failed", "ambiguous"} \subseteq PlanStages
          BY DEF PlanStages
        <4>2. [c EXCEPT !.stage = "failed"] \in PlanType /\ [c EXCEPT !.stage = "ambiguous"] \in PlanType
          BY <2>2, <2>3, <4>1, PutStages
        <4> QED  BY <3>1, <4>2
      <3>3. /\ p.stage \in {"failed", "ambiguous"} /\ p.before = Current.before
            /\ p.owned = Current.owned /\ p.inferred = Current.inferred
        BY <2>2, <3>1 DEF PlanType
      <3>4. Owned(p) = {}
        BY <2>2, <3>3 DEF Owned
      <3>5. PlanShape(p)
        BY <2>2, <3>3, <3>4, BarePlan
      <3>6. PlanOK(Current, p)
        BY <2>2, <3>3, <3>4 DEF PlanOK, NextPlan, ObservationOK, OwnedOK
      <3> QED  BY <1>p, <2>1, <2>4, <3>1, <3>2, <3>5, <3>6, PlanWritten
    <2>6. CASE ok /\ Attributable(Place)
      <3> DEFINE p == [c EXCEPT !.stage = "owned", !.owned = f]
      <3>1. PutPlan(p)
        BY <1>5, <2>6, Zenon DEF MountAfter
      <3>2. p \in PlanType
        <4>1. "owned" \in PlanStages
          BY DEF PlanStages
        <4> QED  BY <2>2, <2>3, <4>1, PutStages
      <3>3. DOMAIN f = S /\ \A m \in S : f[m] = "owned"
        OBVIOUS
      <3> HIDE DEF f
      <3>4. /\ p.stage = "owned" /\ p.before = Current.before /\ p.seen = S
            /\ p.owned = f /\ p.inferred = Current.inferred
        BY <2>2, <2>3 DEF PlanType
      <3> HIDE DEF p
      <3>5. Owned(p) = S /\ \A m \in S : p.owned[m] = "owned"
        BY <3>3, <3>4 DEF Owned
      <3>6. S # {}
        BY <2>6, AttributableThere
      <3> HIDE DEF S
      <3>7. PlanShape(p)
        BY <2>2, <3>4, <3>5, <3>6 DEF PlanShape, ValidPlan
      <3>8. PlanOK(Current, p)
        BY <2>2, <3>4, <3>5, <3>6 DEF PlanOK, NextPlan, ObservationOK, OwnedOK
      <3> QED  BY <1>p, <2>1, <2>4, <3>1, <3>2, <3>7, <3>8, PlanWritten
    <2> QED  BY <2>5, <2>6
  <1> QED  BY <1>1, <1>2, <1>3, <1>4, <1>5 DEF AcquireMount

\* The work, after which the body is over.
LEMMA WorkSaved ==
  ASSUME ShapedInv, SavedInv, Work
  PROVE  ShapedInv' /\ SavedInv'
  <1>1. /\ pc = "work" /\ io = "idle" /\ pc' = "clean.preflight" /\ io' = "idle" /\ mem' = mem
        /\ UNCHANGED <<store, persisted, faults>> /\ dirs' = dirs /\ ok' = ok
    BY DEF Work, At, Goto, PutFile, Quiet, disk, loop, bounds
  <1>2. pc \in Opened /\ pc' \notin Opened
    BY <1>1 DEF Opened, BodySites, DirSites
  <1>3. OpenHere'
    BY <1>2, NotOpen
  <1>4. pc' \notin {"dir.staged", "dir.done"}
    BY <1>1
  <1> QED  BY <1>1, <1>2, <1>3, <1>4, BodyStep

--------------------------------------------------------------------------------
(* The cleanup keeps the record in step *)

\* What the preflight makes of the directories fits what it makes of the record.
LEMMA NormalisedFits ==
  ASSUME NEW D, NEW k, NEW d \in DirType, DirFits(D, d),
         D \in {"host", "none", "private", "staging", "final"}
  PROVE  LET w == IF d.stage = "planned" /\ D = "private" THEN "staging" ELSE D IN
         /\ DirFits(w, d) /\ DirFits(w, NewDir(d, D))
         /\ NewDir(d, D).stage # "planned"
         /\ NewDir(d, D).stage = "rename-planned" => w = "staging"
  <1> DEFINE e == NewDir(d, D)
             w == IF d.stage = "planned" /\ D = "private" THEN "staging" ELSE D
  <1>1. /\ d.stage = "planned" => e = [d EXCEPT !.stage = IF D = "none" THEN "removed" ELSE "staged"]
        /\ d.stage \in {"staged", "rename-planned"} /\ D = "final" =>
             e = [stage |-> "created", renamed |-> TRUE]
        /\ d.stage = "removing" /\ D = "none" => e = [d EXCEPT !.stage = "removed"]
        /\ d.stage \in {"none", "created", "removed"} => e = d
        /\ d.stage \in {"staged", "rename-planned"} /\ D # "final" => e = d
        /\ d.stage = "removing" /\ D # "none" => e = d
    BY DEF NewDir
  <1>2. d.stage \in DirStages
    BY DEF DirType
  <1>3. DirFits(w, d)
    BY DEF DirFits
  <1> HIDE DEF e
  <1>4. CASE d.stage = "planned"
    <2>1. e.stage = IF D = "none" THEN "removed" ELSE "staged"
      BY <1>1, <1>4 DEF DirType
    <2> QED  BY <1>3, <1>4, <2>1 DEF DirFits, e
  <1>5. CASE d.stage \in {"staged", "rename-planned"} /\ D = "final"
    <2>1. e.stage = "created" /\ w = "final"
      BY <1>1, <1>5
    <2> QED  BY <1>3, <2>1 DEF DirFits, e
  <1>6. CASE d.stage = "removing" /\ D = "none"
    <2>1. e.stage = "removed" /\ w = "none"
      BY <1>1, <1>6 DEF DirType
    <2> QED  BY <1>3, <2>1 DEF DirFits, e
  <1>7. CASE e = d /\ d.stage # "planned" /\ ~(d.stage = "rename-planned" /\ D = "final")
    BY <1>3, <1>7 DEF DirFits, e
  <1> QED  BY <1>1, <1>2, <1>4, <1>5, <1>6, <1>7 DEF DirStages

LEMMA CleanPreflightSaved ==
  ASSUME TypeInv, ShapedInv, SavedInv, CleanPreflight
  PROVE  ShapedInv' /\ SavedInv'
  <1>0. /\ pc = "clean.preflight" /\ io = "idle" /\ UNCHANGED <<store, faults>> /\ table \in FinMounts
        /\ Typed(mem) /\ pc \in Loaded /\ Shape(mem) /\ Begun(mem)
    BY MemTyped DEF CleanPreflight, At, bounds, TypeInv, DiskType, Loaded, ShapedInv, ShapeInv
  <1>1. \A k \in Places : mem.dirs[k] \in DirType /\ dirs[k] \in {"host", "none", "private", "staging", "final"}
    BY PlaceIs DEF TypeInv, DiskType
  <1>2. \A k \in Places : Normalised(mem)[k] = IF mem.dirs[k].stage = "planned" /\ dirs[k] = "private"
                                               THEN "staging" ELSE dirs[k]
    BY DEF Normalised
  <1>3. ASSUME faults = 0  PROVE DirsFit(dirs, mem.dirs) /\ DirsFit(Normalised(mem), mem.dirs)
    <2>1. DirsFit(dirs, mem.dirs)
      BY <1>3 DEF SavedInv, DirsInv
    <2> QED  BY <1>1, <1>2, <2>1, NormalisedFits DEF DirsFit
  <1>4. CASE PreflightOK(mem)
    <2>1. /\ mem' = Preflighted(mem) /\ dirs' = Normalised(mem) /\ persisted' = persisted /\ ok' = ok
          /\ pc' = "clean.mark" /\ io' = IF mem' = mem THEN "idle" ELSE "write"
      BY <1>4 DEF CleanPreflight, Goto, Save, loop
    <2>2. /\ Shape(Preflighted(mem))
          /\ faults = 0 => Follows(mem, Preflighted(mem))
      BY <1>0, <1>3, <1>4, PreflightShape DEF PreflightOK
    <2>3. /\ Preflighted(mem).phase = mem.phase /\ Preflighted(mem).art = NewArt(mem.art)
          /\ \A k \in Places : Preflighted(mem).dirs[k] = NewDir(mem.dirs[k], dirs[k])
      BY <1>0, PreflightedHas
    <2>4. pc' \in Loaded /\ pc' \notin Opened /\ pc' \in Settling
      BY <2>1 DEF Loaded, Settling, CleanSites, Opened, BodySites, DirSites
    <2>5. OpenHere'
      BY <2>4, NotOpen
    <2>6. CloseHere'
      <3>1. mem'.art # "planned"
        BY <2>1, <2>3 DEF NewArt
      <3> QED  BY <2>1, <3>1 DEF CloseHere, MountCleanSites, FileSites, XSites, AfterX
    <2>7. Begun(mem')
      BY <1>0, <2>1, <2>3 DEF Begun
    <2>8. ASSUME faults = 0  PROVE DirsFit(dirs', mem.dirs) /\ DirsFit(dirs', mem'.dirs) /\ DirHere'
      <3>1. DirsFit(dirs', mem.dirs)
        BY <1>3, <2>1, <2>8
      <3>2. \A k \in Places : /\ DirFits(dirs'[k], mem'.dirs[k])
                              /\ mem'.dirs[k].stage # "planned"
                              /\ mem'.dirs[k].stage = "rename-planned" => dirs'[k] = "staging"
        BY <1>1, <1>2, <1>3, <2>1, <2>3, <2>8, NormalisedFits DEF DirsFit
      <3>3. DirsFit(dirs', mem'.dirs)
        BY <3>2 DEF DirsFit
      <3>4. DirHere'
        BY <2>1, <3>2 DEF DirHere
      <3> QED  BY <3>1, <3>3, <3>4
    <2>9. ASSUME faults' = 0  PROVE ok'
      <3>1. ok /\ ok' = ok
        BY <1>0, <2>1, <2>9 DEF SavedInv
      <3> QED  BY <3>1, Zenon
    <2>10. \/ io' = "idle" /\ mem' = mem
           \/ /\ io' = "write" /\ Shape(mem') /\ Begun(mem')
              /\ faults' = 0 => Follows(mem, mem') /\ DirsFit(dirs', mem'.dirs)
      BY <1>0, <2>1, <2>2, <2>7, <2>8
    <2>11. UNCHANGED <<store, persisted>> /\ (faults' = 0 => faults = 0)
      BY <1>0, <2>1
    <2> QED  BY <1>0, <2>4, <2>5, <2>6, <2>8, <2>9, <2>10, <2>11, StepSaved
  <1>5. CASE ~PreflightOK(mem)
    <2>1. Exit /\ dirs' \in {Normalised(mem), dirs}
      BY <1>5 DEF CleanPreflight
    <2>2. /\ JournalShape(journal') /\ PendingShape(pending') /\ journal' = journal /\ pending' = pending
          /\ faults' = faults
      BY <1>0, StoreShaped
    <2>3. ASSUME faults' = 0
          PROVE  /\ Whole(pending') => Follows(journal', pending')
                 /\ DirsFit(dirs', journal'.dirs) /\ DirsFit(dirs', pending'.dirs)
      <3>1. InStep /\ faults = 0
        BY <2>2, <2>3 DEF SavedInv
      <3>2. mem = journal /\ pending = NoJournal
        BY <1>0, <3>1 DEF InStep
      <3>3. ~Whole(NoJournal) /\ DirsFit(dirs', NoJournal.dirs)
        BY NothingShaped, TornIs
      <3> QED  BY <1>3, <2>1, <2>2, <3>1, <3>2, <3>3
    <2>4. faults' = 0 => faults = 0
      BY <2>2
    <2> QED  BY <2>1, <2>2, <2>3, <2>4, ExitSaved
  <1> QED  BY <1>4, <1>5

\* A step past the preflight.
LEMMA SettleStep ==
  ASSUME ShapedInv, SavedInv, pc \in Settling, pc' \in Settling \cup {"clean.remove"}, io = "idle",
         UNCHANGED <<store, persisted>>, faults' = 0 => faults = 0,
         ok' = ok \/ ok' = TRUE \/ faults' # 0,
         \/ io' = "idle" /\ mem' = mem
         \/ /\ io' = "write" /\ Shape(mem') /\ mem'.phase \in {"cleaning", "complete"}
            /\ faults' = 0 => Follows(mem, mem'),
         \A k \in Places : \/ mem'.dirs[k] = mem.dirs[k] /\ dirs'[k] = dirs[k]
                           \/ /\ mem'.dirs[k].stage \in {"removing", "removed"}
                              /\ faults' = 0 => DirFits(dirs'[k], mem.dirs[k]) /\ DirFits(dirs'[k], mem'.dirs[k]),
         CloseHere'
  PROVE  ShapedInv' /\ SavedInv'
  <1>1. pc \in Loaded /\ pc' \in Loaded /\ pc' \notin Opened /\ pc' \notin DirSites
    BY DEF Loaded, Settling, Opened, BodySites, DirSites, MountCleanSites, CleanSites
  <1>2. OpenHere'
    BY <1>1, NotOpen
  <1>3. ASSUME faults' = 0
        PROVE  ok' /\ DirsFit(dirs', mem.dirs) /\ DirsFit(dirs', mem'.dirs) /\ DirHere'
    <2>1. ok /\ (ok' = ok \/ ok' = TRUE) /\ DirHere /\ DirsFit(dirs, mem.dirs)
      BY <1>3 DEF SavedInv, DirsInv
    <2>2. ok'
      BY <2>1, Zenon
    <2>3. DirsFit(dirs', mem.dirs) /\ DirsFit(dirs', mem'.dirs)
      BY <1>3, <2>1 DEF DirsFit
    <2>4. \A k \in Places : /\ mem'.dirs[k].stage # "planned"
                            /\ mem'.dirs[k].stage = "rename-planned" => dirs'[k] = "staging"
      BY <2>1 DEF DirHere
    <2>5. DirHere'
      BY <1>1, <2>4 DEF DirHere, DirSites
    <2> QED  BY <2>2, <2>3, <2>5
  <1>4. \/ io' = "idle" /\ mem' = mem
        \/ /\ io' = "write" /\ Shape(mem') /\ Begun(mem')
           /\ faults' = 0 => Follows(mem, mem') /\ DirsFit(dirs', mem'.dirs)
    BY <1>3 DEF Begun
  <1>5. faults' = 0 => ok'
    BY <1>3
  <1> QED  BY <1>1, <1>2, <1>3, <1>4, <1>5, StepSaved

\* What is known there, and where the cleanup goes from it.
LEMMA SettleHas ==
  ASSUME TypeInv, ShapedInv, SavedInv, pc \in Settling
  PROVE  /\ Shape(mem) /\ Begun(mem) /\ Typed(mem) /\ CloseHere /\ mem.art # "planned"
         /\ pc # "clean.mark" => mem.phase = "cleaning"
         /\ mem.phase \in Phases
         /\ faults = 0 => ok /\ DirsFit(dirs, mem.dirs) /\ DirHere
  BY MemTyped, StateHas DEF Loaded, ShapedInv, ShapeInv, CloseHere, SavedInv, DirsInv, Typed, StateType

\* A step that does not touch the directories, on to a place whose needs are met.
LEMMA SettleQuiet ==
  ASSUME ShapedInv, SavedInv, pc \in Settling \ {"clean.mark"}, pc' \in Settling, io = "idle",
         UNCHANGED <<store, persisted>>, faults' = 0 => faults = 0,
         ok' = ok \/ ok' = TRUE \/ faults' # 0, dirs' = dirs,
         \/ io' = "idle" /\ mem' = mem
         \/ /\ io' = "write" /\ Shape(mem') /\ mem'.phase = "cleaning" /\ mem'.dirs = mem.dirs
            /\ faults' = 0 => Follows(mem, mem'),
         CloseHere'
  PROVE  ShapedInv' /\ SavedInv'
  BY SettleStep

LEMMA CleanMarkSaved ==
  ASSUME TypeInv, ShapedInv, SavedInv, CleanMark
  PROVE  ShapedInv' /\ SavedInv'
  <1>0. /\ pc = "clean.mark" /\ pc \in Settling /\ io = "idle" /\ UNCHANGED <<store, persisted, faults>>
        /\ dirs' = dirs /\ ok' = ok
    BY DEF CleanMark, At, Quiet, disk, loop, bounds, Settling, CleanSites
  <1>1. Shape(mem) /\ Begun(mem) /\ Typed(mem) /\ mem.art # "planned"
    BY <1>0, SettleHas
  <1>2. CASE mem.phase # "cleaning"
    <2>1. mem' = [mem EXCEPT !.phase = "cleaning"] /\ pc' = "clean.mark" /\ io' = "write"
      BY <1>0, <1>2 DEF CleanMark, Save
    <2>2. /\ Shape(mem') /\ mem'.phase = "cleaning"
          /\ mem'.dirs = mem.dirs /\ mem'.art = mem.art
      <3>1. "cleaning" \in Phases
        BY DEF Phases
      <3> QED  BY <1>1, <2>1, <3>1, PhaseEdit
    <2>3. Follows(mem, mem')
      BY <1>1, <2>1, PhaseStep
    <2>4. CloseHere'
      BY <1>1, <2>1, <2>2 DEF CloseHere, MountCleanSites, FileSites, XSites, AfterX
    <2>5. pc' \in Settling
      BY <1>0, <2>1
    <2> QED  BY <1>0, <2>1, <2>2, <2>3, <2>4, <2>5, SettleStep
  <1>3. CASE mem.phase = "cleaning"
    <2>1. mem' = mem /\ pc' = "clean.mount" /\ io' = "idle" /\ cur' = NumRequests + 1
      BY <1>0, <1>3 DEF CleanMark, Goto
    <2>2. CloseHere'
      BY <1>1, <1>3, <2>1 DEF CloseHere, MountCleanSites, FileSites, XSites, AfterX
    <2>3. pc' \in Settling
      BY <2>1 DEF Settling, MountCleanSites
    <2> QED  BY <1>0, <2>1, <2>2, <2>3, SettleStep
  <1> QED  BY <1>2, <1>3

\* The owned mount at hand is one of the record's.
LEMMA TargetIs ==
  ASSUME TypeInv, OwnInv, pc \in MountCleanSites, todo # {}
  PROVE  /\ Target \in todo /\ Target.req \in DOMAIN mem.mounts /\ Target \in Owned(mem.mounts[Target.req])
         /\ Stage(Target) \in OwnedStages
  <1>1. Target \in todo
    BY FirstIn DEF Target, TypeInv, LoopType
  <1>2. PICK i \in DOMAIN mem.mounts : Target \in Owned(mem.mounts[i])
    BY <1>1 DEF OwnInv, TodoInv, AllOwned
  <1>3. Target.req = i
    BY <1>2 DEF OwnInv, Sound, PlanSound
  <1>4. mem.mounts[i] \in PlanType
    BY MemTyped, StateHas DEF Typed
  <1>5. mem.mounts[i].owned[Target] \in OwnedStages
    BY <1>2, <1>4, PlanHas
  <1> QED  BY <1>1, <1>2, <1>3, <1>5 DEF Stage

\* A record in which the stage of an owned mount is written.
OwnedSet(j, k, m, s) == [j EXCEPT !.mounts[k].owned[m] = s]
LEMMA OwnedPut ==
  ASSUME NEW j, Typed(j), Shape(j), NEW k \in DOMAIN j.mounts, NEW m \in Owned(j.mounts[k]),
         NEW s \in OwnedStages
  PROVE  LET w == OwnedSet(j, k, m, s) IN
         /\ Shape(w) /\ w.phase = j.phase /\ w.dirs = j.dirs /\ w.art = j.art /\ w.x = j.x
         /\ DOMAIN w.mounts = DOMAIN j.mounts
         /\ \A i \in DOMAIN j.mounts : i # k => w.mounts[i] = j.mounts[i]
         /\ w.mounts[k].stage = j.mounts[k].stage /\ w.mounts[k].before = j.mounts[k].before
         /\ Owned(w.mounts[k]) = Owned(j.mounts[k])
         /\ \A u \in Owned(j.mounts[k]) : w.mounts[k].owned[u] = IF u = m THEN s ELSE j.mounts[k].owned[u]
         /\ j.phase \in {"active", "cleaning"} /\ s \in NextOwned(j.mounts[k].owned[m]) => Follows(j, w)
  <1> DEFINE n == [j EXCEPT !.mounts[k].owned[m] = s]
  <1>1. Shape(n)
    BY OwnedEdit
  <1>2. n.phase = j.phase /\ n.dirs = j.dirs /\ n.art = j.art /\ n.x = j.x
    BY OwnedEdit
  <1>3. DOMAIN n.mounts = DOMAIN j.mounts
    BY OwnedEdit
  <1>4. \A i \in DOMAIN j.mounts : n.mounts[i] = IF i = k THEN [j.mounts[i] EXCEPT !.owned[m] = s]
                                                  ELSE j.mounts[i]
    BY OwnedEdit
  <1>5. j.phase \in {"active", "cleaning"} /\ s \in NextOwned(j.mounts[k].owned[m]) => Follows(j, n)
    BY OwnedStep
  <1> HIDE DEF n
  <1>6. OwnedSet(j, k, m, s) = n
    BY DEF n, OwnedSet
  <1>7. j.mounts[k] \in PlanType
    BY StateHas DEF Typed
  <1>8. /\ n.mounts[k].stage = j.mounts[k].stage /\ n.mounts[k].before = j.mounts[k].before
        /\ Owned(n.mounts[k]) = Owned(j.mounts[k])
        /\ \A u \in Owned(j.mounts[k]) : n.mounts[k].owned[u] = IF u = m THEN s ELSE j.mounts[k].owned[u]
    <2> DEFINE p == j.mounts[k]
               q == [p EXCEPT !.owned[m] = s]
    <2>1. q.stage = p.stage /\ q.before = p.before
      BY <1>7, OwnedStageIs
    <2>2. Owned(q) = Owned(p)
      BY <1>7, OwnedStageIs
    <2>3. \A u \in Owned(p) : q.owned[u] = IF u = m THEN s ELSE p.owned[u]
      BY <1>7, OwnedStageIs
    <2>4. n.mounts[k] = q
      BY <1>4
    <2> HIDE DEF q
    <2> QED  BY <2>1, <2>2, <2>3, <2>4
  <1> QED  BY <1>1, <1>2, <1>3, <1>4, <1>5, <1>6, <1>8

\* Its stage is written.
LEMMA OwnedWritten ==
  ASSUME TypeInv, OwnInv, ShapedInv, SavedInv, pc \in MountCleanSites, todo # {}, io = "idle",
         NEW s \in OwnedStages, s \in NextOwned(Stage(Target)), PutOwned(Target, s), io' = "write",
         UNCHANGED <<store, persisted, faults, cur, todo>>, dirs' = dirs, ok' = ok,
         pc' = "clean.mount" \/ (pc' = "clean.umount" /\ s = "unmounting")
  PROVE  ShapedInv' /\ SavedInv'
  <1>1. pc \in Settling \ {"clean.mark"} /\ pc' \in Settling
    BY DEF Settling, MountCleanSites
  <1>2. /\ Shape(mem) /\ Typed(mem) /\ CloseHere /\ mem.phase = "cleaning" /\ mem.art # "planned"
        /\ cur = NumRequests + 1
    BY <1>1, SettleHas DEF CloseHere
  <1>3. Target.req \in DOMAIN mem.mounts /\ Target \in Owned(mem.mounts[Target.req])
    BY TargetIs
  <1>4. mem' = OwnedSet(mem, Target.req, Target, s)
    BY DEF PutOwned, OwnedSet
  <1>5. /\ Shape(mem') /\ mem'.phase = "cleaning" /\ mem'.dirs = mem.dirs /\ mem'.art = mem.art
        /\ mem'.mounts[Target.req].owned[Target] = s
    <2> DEFINE w == OwnedSet(mem, Target.req, Target, s)
    <2>1. Shape(w) /\ w.phase = mem.phase /\ w.dirs = mem.dirs /\ w.art = mem.art
      BY <1>2, <1>3, OwnedPut
    <2>2. w.mounts[Target.req].owned[Target] = s
      BY <1>2, <1>3, OwnedPut
    <2> HIDE DEF w
    <2>3. mem' = w
      BY <1>4 DEF w
    <2> QED  BY <1>2, <2>1, <2>2, <2>3
  <1>6. Follows(mem, mem')
    BY <1>2, <1>3, <1>4, OwnedPut DEF Stage
  <1>7. Stage(Target)' = s
    <2>1. Target' = Target
      BY DEF Target
    <2> QED  BY <1>5, <2>1 DEF Stage
  <1>8. CloseHere'
    BY <1>2, <1>5, <1>7 DEF CloseHere, MountCleanSites, FileSites, XSites, AfterX
  <1> QED  BY <1>1, <1>2, <1>5, <1>6, <1>8, SettleQuiet

\* A step to the next place of the cleanup with nothing written.
LEMMA SettleOn ==
  ASSUME TypeInv, ShapedInv, SavedInv, pc \in Settling \ {"clean.mark"}, io = "idle", io' = "idle",
         pc' \in Settling \ {"clean.umount", "clean.unlink", "clean.rmdir"},
         mem' = mem, UNCHANGED <<store, persisted>>, faults' = 0 => faults = 0,
         ok' = ok \/ ok' = TRUE \/ faults' # 0, dirs' = dirs,
         pc' \in MountCleanSites \cup FileSites => cur' = NumRequests + 1,
         pc' \in XSites \cup AfterX => cur' = 0,
         pc' = "clean.umounted" => todo' # {} /\ Stage(Target)' = "unmounting",
         pc' \in {"clean.xrun", "clean.xverify"} => mem.x.stage = "revoking"
  PROVE  ShapedInv' /\ SavedInv'
  <1>1. mem.phase = "cleaning" /\ mem.art # "planned"
    BY SettleHas
  <1>2. pc' # "clean.remove"
    BY DEF Settling, MountCleanSites, CleanSites
  <1>3. CloseHere'
    BY <1>1, <1>2 DEF CloseHere
  <1> QED  BY <1>3, SettleQuiet

\* _cleanup_owned_mount.
LEMMA CleanMountsSaved ==
  ASSUME TypeInv, OwnInv, ShapedInv, SavedInv, MountsCleaned \/ CleanMount \/ CleanUmount \/ CleanUmounted
  PROVE  ShapedInv' /\ SavedInv'
  <1>0. /\ pc \in MountCleanSites /\ pc \in Settling \ {"clean.mark"} /\ io = "idle"
        /\ MountCleanSites \subseteq Settling
    BY DEF MountsCleaned, CleanMount, CleanUmount, CleanUmounted, At, Settling, MountCleanSites
  <1>1. CloseHere /\ cur = NumRequests + 1
    BY <1>0, SettleHas DEF CloseHere
  <1>2. CASE Raise
    BY <1>0, <1>2, RaiseSaved
  <1>3. CASE MountsCleaned
    <2>1. /\ pc' = "clean.file" /\ io' = "idle" /\ mem' = mem /\ UNCHANGED <<store, persisted, faults>>
          /\ dirs' = dirs /\ ok' = ok /\ cur' = cur
      BY <1>3 DEF MountsCleaned, Goto, Quiet, disk, loop, bounds
    <2>2. pc' \in Settling \ {"clean.umount", "clean.unlink", "clean.rmdir"} /\ pc' \notin XSites \cup AfterX
      BY <2>1 DEF Settling, CleanSites, XSites, AfterX
    <2> QED  BY <1>0, <1>1, <2>1, <2>2, SettleOn
  <1>4. CASE CleanMount /\ ~Raise
    <2>0. todo # {} /\ Stage(Target) \in OwnedStages /\ "removed" \in OwnedStages /\ "unmounting" \in OwnedStages
      BY <1>0, <1>4, TargetIs DEF CleanMount, OwnedStages
    <2>1. CASE /\ Goto("clean.mount") /\ UNCHANGED <<disk, store, mem, persisted, cur, ok, bounds>>
      <3>1. /\ pc' = "clean.mount" /\ io' = "idle" /\ mem' = mem /\ UNCHANGED <<store, persisted, faults>>
            /\ dirs' = dirs /\ ok' = ok /\ cur' = cur
        BY <2>1 DEF Goto, disk, bounds
      <3>2. pc' \in Settling \ {"clean.umount", "clean.unlink", "clean.rmdir"} /\ pc' \notin XSites \cup AfterX
        BY <3>1 DEF Settling, MountCleanSites, XSites, AfterX
      <3> QED  BY <1>0, <1>1, <3>1, <3>2, SettleOn
    <2>2. CASE Stage(Target) = "unmounting" /\ PutOwned(Target, "removed") /\ Save("clean.mount") /\ Quiet
      <3>1. /\ pc' = "clean.mount" /\ io' = "write" /\ UNCHANGED <<store, persisted, faults, cur, todo>>
            /\ dirs' = dirs /\ ok' = ok /\ PutOwned(Target, "removed")
        BY <2>2 DEF Save, Quiet, disk, loop, bounds
      <3>2. "removed" \in NextOwned(Stage(Target))
        BY <2>2 DEF NextOwned
      <3> QED  BY <1>0, <2>0, <3>1, <3>2, OwnedWritten
    <2>3. CASE Stage(Target) \in {"owned", "unmounting"} /\ PutOwned(Target, "unmounting") /\ Save("clean.umount") /\ Quiet
      <3>1. /\ pc' = "clean.umount" /\ io' = "write" /\ UNCHANGED <<store, persisted, faults, cur, todo>>
            /\ dirs' = dirs /\ ok' = ok /\ PutOwned(Target, "unmounting")
        BY <2>3 DEF Save, Quiet, disk, loop, bounds
      <3>2. "unmounting" \in NextOwned(Stage(Target))
        BY <2>3 DEF NextOwned
      <3> QED  BY <1>0, <2>0, <3>1, <3>2, OwnedWritten
    <2> QED  BY <1>4, <2>1, <2>2, <2>3 DEF CleanMount
  <1>5. CASE CleanUmount /\ ~Raise
    <2>1. /\ pc = "clean.umount" /\ pc' = "clean.umounted" /\ io' = "idle"
          /\ Command(table' = Unmounted(Target), UNCHANGED table)
          /\ mem' = mem /\ UNCHANGED <<store, persisted>> /\ dirs' = dirs /\ cur' = cur /\ todo' = todo
      BY <1>5 DEF CleanUmount, Umount, Goto, At
    <2>2. faults' = 0 => faults = 0 /\ ok' = TRUE
      BY <2>1, CommandSaved
    <2>3. faults' = 0 => faults = 0
      BY <2>2
    <2>4. ok' = ok \/ ok' = TRUE \/ faults' # 0
      BY <2>2, Zenon
    <2>5. todo' # {} /\ Stage(Target)' = "unmounting"
      BY <1>1, <2>1 DEF CloseHere, Stage, Target
    <2>6. pc' \in Settling \ {"clean.umount", "clean.unlink", "clean.rmdir"} /\ pc' \notin XSites \cup AfterX
      BY <2>1 DEF Settling, MountCleanSites, XSites, AfterX
    <2> QED  BY <1>0, <1>1, <2>1, <2>3, <2>4, <2>5, <2>6, SettleOn
  <1>6. CASE CleanUmounted /\ ~Raise
    <2>1. /\ pc = "clean.umounted" /\ pc' = "clean.mount" /\ io' = "write" /\ PutOwned(Target, "removed")
          /\ UNCHANGED <<store, persisted, faults, cur, todo>> /\ dirs' = dirs /\ ok' = ok
      BY <1>6 DEF CleanUmounted, At, Save, disk, bounds
    <2>2. todo # {} /\ Stage(Target) = "unmounting"
      BY <1>1, <2>1 DEF CloseHere
    <2>3. "removed" \in OwnedStages /\ "removed" \in NextOwned(Stage(Target))
      BY <2>2 DEF OwnedStages, NextOwned
    <2> QED  BY <1>0, <2>1, <2>2, <2>3, OwnedWritten
  <1> QED  BY <1>2, <1>3, <1>4, <1>5, <1>6

\* _cleanup_artifact.
LEMMA CleanFileSaved ==
  ASSUME TypeInv, ShapedInv, SavedInv, CleanFile \/ CleanUnlink
  PROVE  ShapedInv' /\ SavedInv'
  <1>0. /\ pc \in FileSites /\ pc \in Settling \ {"clean.mark"} /\ io = "idle"
        /\ UNCHANGED <<store, persisted, faults>> /\ dirs' = dirs /\ ok' = ok /\ cur' = cur
    BY DEF CleanFile, CleanUnlink, At, Settling, CleanSites, FileSites, Quiet, PutFile, disk, loop, bounds
  <1>1. /\ CloseHere /\ cur = NumRequests + 1 /\ Shape(mem) /\ Typed(mem) /\ mem.phase = "cleaning"
        /\ mem.art # "planned" /\ mem.art \in ArtStages
    BY <1>0, SettleHas, PlaceIs DEF CloseHere
  <1>2. CASE Goto("clean.dir") /\ mem' = mem
    <2>1. pc' = "clean.dir" /\ io' = "idle"
      BY <1>2 DEF Goto
    <2>2. pc' \in Settling \ {"clean.umount", "clean.unlink", "clean.rmdir"}
          /\ pc' \notin XSites \cup AfterX \cup MountCleanSites \cup FileSites
      BY <2>1 DEF Settling, CleanSites, XSites, AfterX, MountCleanSites, FileSites
    <2> QED  BY <1>0, <1>2, <2>1, <2>2, SettleOn
  <1>3. ASSUME NEW a \in {"removing", "removed"}, PutArt(a), io' = "write", pc' \in FileSites,
               a \in NextArt(mem.art), mem.art # "none", pc' = "clean.unlink" => a = "removing"
        PROVE  ShapedInv' /\ SavedInv'
    <2>1. a \in ArtStages
      BY <1>3 DEF ArtStages
    <2>2. /\ Shape(mem') /\ mem'.phase = "cleaning" /\ mem'.dirs = mem.dirs /\ mem'.art = a /\ mem'.x = mem.x
          /\ mem'.mounts = mem.mounts
      BY <1>1, <1>3, <2>1, ArtEdit DEF PutArt
    <2>3. Follows(mem, mem')
      BY <1>1, <1>3, <2>1, ArtStep DEF PutArt
    <2>4. CloseHere'
      BY <1>0, <1>1, <1>3, <2>2 DEF CloseHere, MountCleanSites, FileSites, XSites, AfterX
    <2>5. pc' \in Settling
      BY <1>3 DEF FileSites, Settling, CleanSites
    <2> QED  BY <1>0, <1>3, <2>2, <2>3, <2>4, <2>5, SettleQuiet
  <1>4. CASE CleanFile /\ mem.art \notin {"none", "removed"}
    <2>1. mem.art \in {"writing", "active", "removing"}
      BY <1>1, <1>4 DEF ArtStages
    <2>2. \/ mem.art = "removing" /\ PutArt("removed") /\ io' = "write" /\ pc' = "clean.file"
          \/ PutArt("removing") /\ io' = "write" /\ pc' = "clean.unlink"
      BY <1>4 DEF CleanFile, Save
    <2>3. "removing" \in NextArt(mem.art) /\ (mem.art = "removing" => "removed" \in NextArt(mem.art))
      BY <2>1 DEF NextArt
    <2> QED  BY <1>3, <1>4, <2>2, <2>3 DEF FileSites
  <1>5. CASE CleanUnlink
    <2>1. pc = "clean.unlink" /\ PutArt("removed") /\ io' = "write" /\ pc' = "clean.file"
      BY <1>5 DEF CleanUnlink, At, Save
    <2>2. mem.art = "removing" /\ "removed" \in NextArt(mem.art)
      BY <1>1, <2>1 DEF CloseHere, NextArt
    <2> QED  BY <1>3, <2>1, <2>2 DEF FileSites
  <1>6. CleanFile => (Goto("clean.dir") /\ mem' = mem) \/ mem.art \notin {"none", "removed"}
    BY DEF CleanFile
  <1> QED  BY <1>2, <1>4, <1>5, <1>6

--------------------------------------------------------------------------------
(* The rest of the cleanup *)

\* The directory at hand.
LEMMA SlotIs ==
  ASSUME TypeInv, cur > 0
  PROVE  Slot \in Places /\ cur - 1 \in Nat /\ mem.dirs[Slot] \in DirType /\ Slot + 1 = cur
  <1>1. cur \in 0..(NumRequests + 1)
    BY DEF TypeInv, LoopType
  <1>2. Slot \in Places
    BY <1>1 DEF Slot, Places
  <1> QED  BY <1>1, <1>2, PlaceIs DEF Slot

\* The stage of its record is written.
LEMMA SlotWritten ==
  ASSUME TypeInv, ShapedInv, SavedInv, pc \in {"clean.dir", "clean.rmdir"}, io = "idle", cur > 0,
         NEW s \in {"removing", "removed"}, PutSlot(s), io' = "write",
         pc' = IF s = "removing" THEN "clean.rmdir" ELSE "clean.dir",
         mem.dirs[Slot].stage # "none", s = "removed" => mem.dirs[Slot].stage = "removing" /\ dirs'[Slot] = "none",
         UNCHANGED <<store, persisted, faults, cur>>, ok' = ok,
         dirs' = dirs \/ (s = "removed" /\ dirs' = [dirs EXCEPT ![Slot] = "none"]),
         s = "removing" => mem.dirs[Slot].stage # "removed"
  PROVE  ShapedInv' /\ SavedInv'
  <1>1. pc \in Settling /\ pc' \in Settling
    BY DEF Settling, CleanSites
  <1>2. /\ Shape(mem) /\ Typed(mem) /\ mem.phase = "cleaning" /\ mem.art # "planned"
        /\ faults = 0 => DirHere /\ DirsFit(dirs, mem.dirs)
    BY <1>1, SettleHas
  <1>3. Slot \in Places /\ mem.dirs[Slot] \in DirType
    BY SlotIs
  <1> DEFINE d == mem.dirs[Slot]
             e == [d EXCEPT !.stage = s]
  <1>4. e \in DirType /\ e.stage = s /\ e.renamed = d.renamed
    BY <1>3 DEF DirType, DirStages
  <1>5. mem' = [mem EXCEPT !.dirs[Slot] = e]
    BY DEF PutSlot
  <1> HIDE DEF e
  <1>6. DirShape(e)
    BY <1>4 DEF DirShape, ValidDir
  <1>7. /\ Shape(mem') /\ mem'.phase = "cleaning" /\ mem'.dirs[Slot] = e /\ mem'.art = mem.art
        /\ \A i \in Places : i # Slot => mem'.dirs[i] = mem.dirs[i]
    BY <1>2, <1>3, <1>4, <1>5, <1>6, DirEdit
  <1>8. ASSUME faults' = 0  PROVE Follows(mem, mem')
    <2>1. d.stage \in {"staged", "rename-planned", "created", "removing"}
      BY <1>2, <1>3, <1>8 DEF DirHere, DirType, DirStages, Settling, CleanSites
    <2>2. DirStepOK(d, e)
      BY <1>4, <2>1 DEF DirStepOK, NextDir
    <2>3. DirsFit(dirs, mem.dirs) /\ Begun(mem)
      BY <1>2, <1>8 DEF Begun
    <2> QED  BY <1>2, <1>3, <1>4, <1>5, <1>6, <2>1, <2>2, DirStep
  <1>9. CloseHere'
    <2>1. cur' = cur /\ Slot' = Slot
      BY DEF Slot
    <2> QED  BY <1>2, <1>4, <1>7, <2>1 DEF CloseHere, MountCleanSites, FileSites, XSites, AfterX
  <1>10. ASSUME faults' = 0  PROVE DirFits(dirs'[Slot], d) /\ DirFits(dirs'[Slot], e)
    <2>1. /\ DirFits(dirs[Slot], d) /\ d.stage \in {"staged", "rename-planned", "created", "removing"}
          /\ d.stage = "rename-planned" => dirs[Slot] = "staging"
      BY <1>1, <1>2, <1>3, <1>10 DEF DirHere, DirType, DirStages, DirsFit
    <2>2. d.stage \in {"staged", "rename-planned"} => ~d.renamed
      BY <1>2, <1>3 DEF Shape, DirShape, ValidDir
    <2>3. d.stage = "created" => d.renamed
      BY <1>2, <1>3 DEF Shape, DirShape, ValidDir
    <2>4. CASE s = "removing"
      <3>1. dirs' = dirs
        BY <2>4
      <3> QED  BY <1>4, <2>1, <2>2, <2>3, <2>4, <3>1 DEF DirFits
    <2>5. CASE s = "removed"
      BY <1>4, <2>5 DEF DirFits
    <2> QED  BY <2>4, <2>5
  <1>11. \A i \in Places : i # Slot => dirs'[i] = dirs[i]
    <2>1. dirs \in [Places -> {"host", "none", "private", "staging", "final"}]
      BY DEF TypeInv, DiskType
    <2> QED  BY <2>1, <1>3
  <1>12. \A k \in Places : \/ mem'.dirs[k] = mem.dirs[k] /\ dirs'[k] = dirs[k]
                           \/ /\ mem'.dirs[k].stage \in {"removing", "removed"}
                              /\ faults' = 0 => DirFits(dirs'[k], mem.dirs[k]) /\ DirFits(dirs'[k], mem'.dirs[k])
    BY <1>4, <1>7, <1>10, <1>11
  <1> QED  BY <1>1, <1>7, <1>8, <1>9, <1>12, SettleStep

\* _cleanup_directory.
LEMMA CleanDirsSaved ==
  ASSUME TypeInv, ShapedInv, SavedInv, DirsCleaned \/ CleanDirSkip \/ CleanDir \/ CleanRmdir
  PROVE  ShapedInv' /\ SavedInv'
  <1>0. /\ pc \in {"clean.dir", "clean.rmdir"} /\ pc \in Settling \ {"clean.mark"} /\ io = "idle"
    BY DEF DirsCleaned, CleanDirSkip, CleanDir, CleanRmdir, At, Settling, CleanSites
  <1>1. CASE Raise
    BY <1>0, <1>1, RaiseSaved
  <1>2. CASE DirsCleaned
    <2>1. /\ pc' = "clean.x" /\ io' = "idle" /\ mem' = mem /\ UNCHANGED <<store, persisted, faults>>
          /\ dirs' = dirs /\ ok' = ok /\ cur' = 0
      BY <1>2 DEF DirsCleaned, Goto, Quiet, disk, loop, bounds
    <2>2. pc' \in Settling \ {"clean.umount", "clean.unlink", "clean.rmdir"} /\ pc' \notin MountCleanSites \cup FileSites
      BY <2>1 DEF Settling, CleanSites, MountCleanSites, FileSites
    <2> QED  BY <1>0, <2>1, <2>2, SettleOn
  <1>3. CASE CleanDirSkip
    <2>1. /\ pc' = "clean.dir" /\ io' = "idle" /\ mem' = mem /\ UNCHANGED <<store, persisted, faults>>
          /\ dirs' = dirs /\ ok' = ok
      BY <1>3 DEF CleanDirSkip, Goto, disk, bounds
    <2>2. pc' \in Settling \ {"clean.umount", "clean.unlink", "clean.rmdir"}
          /\ pc' \notin MountCleanSites \cup FileSites \cup XSites \cup AfterX
      BY <2>1 DEF Settling, CleanSites, MountCleanSites, FileSites, XSites, AfterX
    <2> QED  BY <1>0, <2>1, <2>2, SettleOn
  <1>4. CASE CleanDir
    <2>1. /\ pc = "clean.dir" /\ cur > 0 /\ io' = "write" /\ UNCHANGED <<store, persisted, faults, cur>>
          /\ dirs' = dirs /\ ok' = ok /\ mem.dirs[Slot].stage \notin {"none", "removed"}
          /\ \/ /\ mem.dirs[Slot].stage = "removing" /\ dirs[Slot] = "none"
                /\ PutSlot("removed") /\ pc' = "clean.dir"
             \/ PutSlot("removing") /\ pc' = "clean.rmdir"
      BY <1>4 DEF CleanDir, At, Save, Quiet, disk, loop, bounds
    <2> QED  BY <1>0, <2>1, SlotWritten
  <1>5. CASE CleanRmdir /\ ~Raise
    <2>1. /\ pc = "clean.rmdir" /\ dirs' = [dirs EXCEPT ![Slot] = "none"] /\ PutSlot("removed")
          /\ pc' = "clean.dir" /\ io' = "write" /\ UNCHANGED <<store, persisted, faults, cur>> /\ ok' = ok
      BY <1>5 DEF CleanRmdir, At, Save, loop, bounds
    <2>2. cur > 0 /\ mem.dirs[Slot].stage = "removing"
      BY <1>0, <2>1, SettleHas DEF CloseHere
    <2>3. dirs'[Slot] = "none"
      BY <2>1, <2>2, SlotIs DEF TypeInv, DiskType
    <2> QED  BY <1>0, <2>1, <2>2, <2>3, SlotWritten
  <1> QED  BY <1>1, <1>2, <1>3, <1>4, <1>5


\* _cleanup_x_access: a stage of the record is written.
LEMMA XSettled ==
  ASSUME TypeInv, ShapedInv, SavedInv, pc \in XSites, io = "idle", io' = "write",
         NEW s \in {"revoking", "restored"}, PutX(s), s \in NextX(mem.x.stage),
         mem.x.stage \in {"owned", "revoking"},
         pc' = IF s = "revoking" THEN "clean.xrun" ELSE "clean.x",
         UNCHANGED <<store, persisted, faults, cur>>, dirs' = dirs, ok' = ok
  PROVE  ShapedInv' /\ SavedInv'
  <1>1. pc \in Settling \ {"clean.mark"} /\ pc' \in Settling
    BY DEF Settling, CleanSites, XSites
  <1>2. /\ Shape(mem) /\ Typed(mem) /\ mem.phase = "cleaning" /\ mem.art # "planned" /\ cur = 0
        /\ mem.x \in XType
    BY <1>1, SettleHas, PlaceIs DEF CloseHere
  <1> DEFINE q == [mem.x EXCEPT !.stage = s]
  <1>3. q \in XType /\ q.stage = s /\ q.before = mem.x.before
    BY <1>2 DEF XType, XStages
  <1>4. mem' = [mem EXCEPT !.x = q]
    BY DEF PutX
  <1>5. mem.x.before = "absent"
    BY <1>2 DEF Shape, XShape
  <1> HIDE DEF q
  <1>6. XShape(q) /\ XStepOK(mem.x, q)
    BY <1>3, <1>5 DEF XShape, XStepOK
  <1>7. Shape(mem') /\ mem'.phase = "cleaning" /\ mem'.dirs = mem.dirs /\ mem'.art = mem.art /\ mem'.x = q
    BY <1>2, <1>3, <1>4, <1>6, XEdit
  <1>8. Follows(mem, mem')
    BY <1>2, <1>3, <1>4, <1>6, XStep
  <1>9. CloseHere'
    BY <1>2, <1>3, <1>7 DEF CloseHere, MountCleanSites, FileSites, XSites, AfterX
  <1> QED  BY <1>1, <1>7, <1>8, <1>9, SettleQuiet

LEMMA CleanXsSaved ==
  ASSUME TypeInv, ShapedInv, SavedInv, CleanX \/ CleanXRun \/ CleanXVerify
  PROVE  ShapedInv' /\ SavedInv'
  <1>0. pc \in XSites /\ pc \in Settling \ {"clean.mark"} /\ io = "idle"
    BY DEF CleanX, CleanXRun, CleanXVerify, At, XSites, Settling, CleanSites
  <1>1. cur = 0 /\ CloseHere
    BY <1>0, SettleHas DEF CloseHere
  <1>2. CASE Raise
    BY <1>0, <1>2, RaiseSaved
  <1>3. CASE CleanX
    <2>1. /\ UNCHANGED <<store, persisted, faults, cur>> /\ dirs' = dirs /\ ok' = ok
          /\ \/ mem.x.stage = "owned" /\ PutX("revoking") /\ pc' = "clean.xrun" /\ io' = "write"
             \/ mem' = mem /\ io' = "idle" /\ pc' = "clean.xrun" /\ mem.x.stage = "revoking"
             \/ mem' = mem /\ io' = "idle" /\ pc' = "clean.final"
      BY <1>3 DEF CleanX, Save, Goto, Quiet, disk, loop, bounds
    <2>2. CASE io' = "write"
      <3>1. "revoking" \in NextX("owned")
        BY DEF NextX
      <3> QED  BY <1>0, <2>1, <2>2, <3>1, XSettled
    <2>3. CASE io' = "idle"
      <3>1. pc' \in Settling \ {"clean.umount", "clean.unlink", "clean.rmdir"}
            /\ pc' \notin MountCleanSites \cup FileSites
        BY <2>1, <2>3 DEF Settling, CleanSites, MountCleanSites, FileSites
      <3>2. pc' # "clean.umounted" /\ pc' # "clean.xverify" /\ mem' = mem /\ (pc' = "clean.xrun" => mem.x.stage = "revoking")
        BY <2>1, <2>3
      <3> QED  BY <1>0, <1>1, <2>1, <2>3, <3>1, <3>2, SettleOn
    <2> QED  BY <2>1, <2>2, <2>3
  <1>4. CASE CleanXRun /\ ~Raise
    <2>1. /\ pc = "clean.xrun" /\ pc' = "clean.xverify" /\ io' = "idle"
          /\ Command(xs' = "absent", UNCHANGED xs)
          /\ mem' = mem /\ UNCHANGED <<store, persisted>> /\ dirs' = dirs /\ cur' = cur
      BY <1>4 DEF CleanXRun, Goto, At
    <2>2. faults' = 0 => faults = 0 /\ ok' = TRUE
      BY <2>1, CommandSaved
    <2>3. faults' = 0 => faults = 0
      BY <2>2
    <2>4. ok' = ok \/ ok' = TRUE \/ faults' # 0
      BY <2>2, Zenon
    <2>5. mem.x.stage = "revoking"
      BY <1>1, <2>1 DEF CloseHere
    <2>6. pc' \in Settling \ {"clean.umount", "clean.unlink", "clean.rmdir"}
          /\ pc' \notin MountCleanSites \cup FileSites
      BY <2>1 DEF Settling, CleanSites, MountCleanSites, FileSites
    <2> QED  BY <1>0, <1>1, <2>1, <2>3, <2>4, <2>5, <2>6, SettleOn
  <1>5. CASE CleanXVerify /\ ~Raise
    <2>1. /\ pc = "clean.xverify" /\ pc' = "clean.x" /\ io' = "write" /\ PutX("restored")
          /\ UNCHANGED <<store, persisted, faults, cur>> /\ dirs' = dirs /\ ok' = ok
      BY <1>5 DEF CleanXVerify, At, Save, Quiet, disk, loop, bounds
    <2>2. mem.x.stage = "revoking" /\ "restored" \in NextX("revoking")
      BY <1>1, <2>1 DEF CloseHere, NextX
    <2> QED  BY <1>0, <2>1, <2>2, XSettled
  <1> QED  BY <1>2, <1>3, <1>4, <1>5

\* The end of a session that has a record in step with its journal.
LEMMA EndSaved ==
  ASSUME ShapedInv, SavedInv, Exit, io = "idle", pc \in Loaded, dirs' = dirs, faults' = faults,
         pending' = pending, journal' \in {journal, NoJournal}
  PROVE  ShapedInv' /\ SavedInv'
  <1>1. JournalShape(journal') /\ PendingShape(pending')
    BY NothingShaped DEF ShapedInv, ShapeInv
  <1>2. ASSUME faults' = 0
        PROVE  /\ Whole(pending') => Follows(journal', pending')
               /\ DirsFit(dirs', journal'.dirs) /\ DirsFit(dirs', pending'.dirs)
    <2>1. InStep /\ DirsInv
      BY <1>2 DEF SavedInv
    <2>2. pending' = NoJournal /\ DirsFit(dirs', journal.dirs) /\ ~Whole(NoJournal)
      BY <2>1, TornIs DEF InStep, DirsInv
    <2> QED  BY <2>2, NothingShaped
  <1> QED  BY <1>1, <1>2, ExitSaved

LEMMA CleanFinalSaved ==
  ASSUME TypeInv, ShapedInv, SavedInv, CleanFinal
  PROVE  ShapedInv' /\ SavedInv'
  <1>0. /\ pc = "clean.final" /\ pc \in Settling \ {"clean.mark"} /\ pc \in Loaded /\ io = "idle"
        /\ UNCHANGED <<store, faults>> /\ journal' = journal /\ pending' = pending /\ dirs' = dirs
    BY DEF CleanFinal, At, Settling, Loaded, CleanSites, Quiet, disk, store, bounds
  <1>1. CASE Exit
    BY <1>0, <1>1, EndSaved
  <1>2. CASE ~Exit
    <2>1. /\ mem' = [mem EXCEPT !.phase = "complete"] /\ pc' = "clean.remove" /\ io' = "write"
          /\ persisted' = persisted /\ cur' = cur /\ ok' = ok
      BY <1>2 DEF CleanFinal, Save, Quiet, loop
    <2>2. Shape(mem) /\ Begun(mem) /\ Typed(mem) /\ mem.phase = "cleaning" /\ mem.art # "planned" /\ cur = 0
      BY <1>0, SettleHas DEF CloseHere, AfterX
    <2>3. "complete" \in Phases
      BY DEF Phases
    <2>4. Shape(mem') /\ mem'.phase = "complete" /\ mem'.dirs = mem.dirs /\ mem'.art = mem.art
      BY <2>1, <2>2, <2>3, PhaseEdit
    <2>5. Follows(mem, mem')
      BY <2>1, <2>2, PhaseStep
    <2>6. CloseHere'
      BY <2>1, <2>2, <2>4 DEF CloseHere, MountCleanSites, FileSites, XSites, AfterX, Settling, CleanSites
    <2> QED  BY <1>0, <2>1, <2>4, <2>5, <2>6, SettleStep
  <1> QED  BY <1>1, <1>2

LEMMA RemoveJournalSaved ==
  ASSUME TypeInv, ShapedInv, SavedInv, RemoveJournal
  PROVE  ShapedInv' /\ SavedInv'
  <1>0. /\ pc = "clean.remove" /\ pc \in Loaded /\ io = "idle" /\ pending = NoJournal /\ pending' = pending
        /\ journal' = NoJournal /\ faults' = faults /\ dirs' = dirs
    BY DEF RemoveJournal, At, Loaded, disk, bounds
  <1>1. CASE Exit
    BY <1>0, <1>1, EndSaved
  <1>2. CASE ~Exit
    <2>1. mem' = Fresh /\ persisted' = NoJournal /\ pc' = "body" /\ io' = "write" /\ ok' = ok
      BY <1>2 DEF RemoveJournal, Save, loop
    <2>2. OpenHere' /\ CloseHere' /\ DirHere'
      BY <2>1, FreshHere
    <2>3. ShapeInv'
      BY <1>0, <2>1, NothingShaped DEF ShapeInv, JournalShape, PendingShape, Shape, Begun
    <2>4. ASSUME faults' = 0  PROVE ok' /\ InStep' /\ DirsInv'
      <3>1. ok /\ ok' = ok
        BY <1>0, <2>1, <2>4 DEF SavedInv
      <3>2. ok'
        BY <3>1, Zenon
      <3>3. InStep'
        BY <1>0, <2>1, FreshFollows, NothingShaped DEF InStep, Loaded, Opened, BodySites, Follows, PendingOK
      <3>4. DirsInv'
        BY <1>0, <2>1, NothingShaped DEF DirsInv
      <3> QED  BY <3>2, <3>3, <3>4
    <2> QED  BY <2>2, <2>3, <2>4 DEF ShapedInv, SavedInv
  <1> QED  BY <1>1, <1>2

--------------------------------------------------------------------------------
(* Every step keeps the records in shape and in step *)

LEMMA SavedInitially == Init => ShapedInv /\ SavedInv
  <1> SUFFICES ASSUME Init  PROVE ShapedInv /\ SavedInv
    OBVIOUS
  <1>1. /\ journal = NoJournal /\ pending = NoJournal /\ mem = NoJournal /\ pc = "idle" /\ io = "idle"
        /\ ok = TRUE
    BY DEF Init
  <1>2. pc \notin Loaded \cup Settling \cup {"clean.remove"} \cup DirSites \cup Opened
    BY <1>1, SitesApart DEF DirSites, Settling, MountCleanSites, CleanSites, Loaded, Opened, BodySites
  <1>3. OpenHere /\ CloseHere /\ DirHere
    BY <1>1, <1>2 DEF OpenHere, CloseHere, DirHere, Opened, Settling, DirSites, BodySites, MountCleanSites,
                      CleanSites, FileSites, XSites, AfterX, NoArtYet
  <1>4. ShapeInv
    BY <1>1, <1>2, NothingShaped DEF ShapeInv, JournalShape
  <1>5. InStep /\ DirsInv
    BY <1>1, <1>2, NothingShaped DEF InStep, DirsInv, Whole
  <1> QED  BY <1>1, <1>3, <1>4, <1>5 DEF ShapedInv, SavedInv

LEMMA SavedInductive ==
  TypeInv /\ NamedInv /\ OwnInv /\ ShapedInv /\ SavedInv /\ [Next]_vars => ShapedInv' /\ SavedInv'
  <1> SUFFICES ASSUME TypeInv, NamedInv, OwnInv, ShapedInv, SavedInv, [Next]_vars
               PROVE  ShapedInv' /\ SavedInv'
    OBVIOUS
  <1>0. SyncInv /\ SiteInv
    BY DEF NamedInv
  <1>1. CASE UNCHANGED vars \/ Host
    BY <1>1, OthersSaved
  <1>2. CASE Enter \/ \E k \in Kinds : Start(k)
    BY <1>0, <1>2, StartSaved, EnterReconcileSaved, EnterLoadSaved, BodySaved, AbortSaved DEF Enter
  <1>3. CASE EnsureDirectory \/ StageFile \/ GrantX
    BY <1>0, <1>3, EnsureDirectorySaved, StageFileSaved, GrantXSaved
  <1>4. CASE AcquireMount \/ Work
    BY <1>0, <1>4, AcquireMountSaved, WorkSaved
  <1>5. CASE Cleanup
    <2>1. CASE CleanPreflight \/ CleanMark \/ MountsCleaned \/ CleanMount \/ CleanUmount \/ CleanUmounted
      BY <2>1, CleanPreflightSaved, CleanMarkSaved, CleanMountsSaved
    <2>2. CASE CleanFile \/ CleanUnlink \/ DirsCleaned \/ CleanDirSkip \/ CleanDir \/ CleanRmdir
      BY <2>2, CleanFileSaved, CleanDirsSaved
    <2>3. CASE CleanX \/ CleanXRun \/ CleanXVerify \/ CleanFinal \/ RemoveJournal
      BY <2>3, CleanXsSaved, CleanFinalSaved, RemoveJournalSaved
    <2> QED  BY <1>5, <2>1, <2>2, <2>3 DEF Cleanup
  <1>6. CASE WritePending \/ ReplaceJournal
    BY <1>0, <1>6, PersistSaved
  <1>7. CASE Fault \/ Crash
    BY <1>0, <1>7, FaultSaved, CrashSaved
  <1> QED  BY <1>1, <1>2, <1>3, <1>4, <1>5, <1>6, <1>7 DEF Next, Step

\* What the session is about to write its own validator accepts, and a whole
\* pending journal the next session.
LEMMA SavedWrites == NamedInv /\ ShapedInv /\ SavedInv => WritesValidRecords /\ PendingAccepted
  <1> SUFFICES ASSUME NamedInv, ShapedInv, SavedInv  PROVE WritesValidRecords /\ PendingAccepted
    OBVIOUS
  <1>1. WritesValidRecords
    BY ShapeValid DEF WritesValidRecords, ShapedInv, ShapeInv
  <1>2. ASSUME faults = 0, Whole(pending)  PROVE Follows(journal, pending)
    <2>1. InStep
      BY <1>2 DEF SavedInv
    <2> QED  BY <1>2, <2>1 DEF InStep, Whole
  <1> QED  BY <1>1, <1>2 DEF PendingAccepted, Follows

--------------------------------------------------------------------------------
(* Where nobody but the session touches its resources *)

RecordFits(T, v, j) == PlansFit(T, j.mounts) /\ XFits(v, j.x)
LoneInv == TypeInv /\ NamedInv /\ OwnInv /\ ShapedInv /\ SavedInv /\ AloneInv /\ LeftInv /\ Alone

\* What is known there.
LEMMA LoneHas ==
  ASSUME LoneInv
  PROVE  /\ failed = FALSE /\ AloneFits /\ AloneSites /\ InStep /\ DirHere /\ DirsInv
         /\ \A m \in table : m.by = "session"
         /\ table \in FinMounts /\ table \subseteq Mount
         /\ Typed(mem) /\ Shape(mem) /\ DirsFit(dirs, mem.dirs) /\ RecordFits(table, xs, mem)
         /\ \A i \in DOMAIN mem.mounts : mem.mounts[i] \in PlanType
         /\ OpenHere /\ CloseHere /\ SiteInv /\ SyncInv /\ StoreInv /\ MemInv /\ RunInv /\ TodoInv
         /\ pc \in Loaded /\ io = "idle" => mem = journal /\ pending = NoJournal
         /\ pc \in Loaded => Begun(mem)
  <1>1. failed = FALSE /\ AloneFits /\ AloneSites
    BY DEF LoneInv, AloneInv
  <1>2. InStep /\ DirHere /\ DirsInv
    BY DEF LoneInv, SavedInv, Alone
  <1>3. Typed(mem) /\ table \in FinMounts
    BY MemTyped DEF LoneInv, TypeInv, DiskType
  <1>4. table \subseteq Mount
    BY <1>3, FinIs
  <1>5. \A i \in DOMAIN mem.mounts : mem.mounts[i] \in PlanType
    BY <1>3, StateHas DEF Typed
  <1>6. /\ Shape(mem) /\ OpenHere /\ CloseHere /\ SiteInv /\ SyncInv /\ StoreInv /\ MemInv /\ RunInv /\ TodoInv
        /\ pc \in Loaded => Begun(mem)
    BY DEF LoneInv, ShapedInv, ShapeInv, NamedInv, OwnInv
  <1>7. pc \in Loaded /\ io = "idle" => mem = journal /\ pending = NoJournal
    BY <1>2 DEF InStep
  <1>8. DirsFit(dirs, mem.dirs) /\ RecordFits(table, xs, mem) /\ \A m \in table : m.by = "session"
    BY <1>1, <1>2 DEF DirsInv, AloneFits, RecordFits
  <1> QED  BY <1>1, <1>2, <1>3, <1>4, <1>5, <1>6, <1>7, <1>8

LEMMA LoneOk ==
  ASSUME LoneInv
  PROVE  ok /\ ok = TRUE
  <1>1. ok \in BOOLEAN /\ ok
    BY DEF LoneInv, TypeInv, LoopType, SavedInv, Alone
  <1> QED  BY <1>1, Zenon

\* Nothing is said of a record that names nothing.
LEMMA NothingFits ==
  /\ \A T, v, s : RecordFits(T, v, State(s))
  /\ \A T, v : RecordFits(T, v, NoJournal) /\ RecordFits(T, v, Torn) /\ RecordFits(T, v, Fresh)
  <1>1. \A T, v, s : RecordFits(T, v, State(s))
    <2> TAKE T, v, s
    <2>1. State(s).mounts = << >> /\ State(s).x.stage = "unexamined"
      BY DEF State
    <2> QED  BY <2>1 DEF RecordFits, PlansFit, XFits
  <1> QED  BY <1>1 DEF NoJournal, Torn, Fresh

\* A step from a place with a record in step, to another of them.
LEMMA LoneStep ==
  ASSUME LoneInv, pc \in Loaded, pc' \in Loaded, io = "idle", UNCHANGED store, failed' = failed,
         \A m \in table' : m.by = "session",
         RecordFits(table', xs', mem), RecordFits(table', xs', mem'), AloneSites'
  PROVE  AloneInv' /\ LeftInv'
  <1>1. mem = journal /\ pending = NoJournal /\ journal' = journal /\ pending' = pending /\ failed = FALSE
    BY LoneHas DEF store
  <1>2. RecordFits(table', xs', NoJournal)
    BY NothingFits
  <1>3. AloneFits'
    <2>1. /\ RecordFits(table', xs', journal') /\ RecordFits(table', xs', pending')
      BY <1>1, <1>2
    <2> QED  BY <2>1 DEF AloneFits, RecordFits
  <1> QED  BY <1>1, <1>3 DEF AloneInv, LeftInv

\* One that touches neither the mounts nor X.
LEMMA LoneQuiet ==
  ASSUME LoneInv, pc \in Loaded, pc' \in Loaded, io = "idle", UNCHANGED store, failed' = failed,
         table' = table, xs' = xs, mem' = mem \/ RecordFits(table, xs, mem'), AloneSites'
  PROVE  AloneInv' /\ LeftInv'
  <1>1. RecordFits(table, xs, mem) /\ \A m \in table : m.by = "session"
    BY LoneHas
  <1>2. RecordFits(table', xs', mem')
    BY <1>1
  <1>3. RecordFits(table', xs', mem) /\ \A m \in table' : m.by = "session"
    BY <1>1
  <1> QED  BY <1>2, <1>3, LoneStep

\* One that moves whole records about.
LEMMA LoneMove ==
  ASSUME LoneInv, failed' \in {failed, FALSE}, table' = table, xs' = xs,
         journal' \in {journal, pending, NoJournal}, pending' \in {pending, mem, NoJournal, Torn},
         mem' \in {mem, journal, NoJournal, Fresh}, AloneSites'
  PROVE  AloneInv'
  <1>1. AloneFits /\ failed = FALSE
    BY LoneHas
  <1>2. AloneFits'
    <2>1. /\ RecordFits(table, xs, journal) /\ RecordFits(table, xs, pending) /\ RecordFits(table, xs, mem)
          /\ RecordFits(table, xs, NoJournal) /\ RecordFits(table, xs, Torn) /\ RecordFits(table, xs, Fresh)
      BY <1>1, NothingFits DEF AloneFits, RecordFits
    <2>2. /\ RecordFits(table', xs', journal') /\ RecordFits(table', xs', pending')
          /\ RecordFits(table', xs', mem')
      BY <2>1
    <2> QED  BY <1>1, <2>2 DEF AloneFits, RecordFits
  <1> QED  BY <1>1, <1>2 DEF AloneInv

\* Nothing is asked where no session has a record.
LEMMA LeftSites ==
  ASSUME pc' \notin Loaded
  PROVE  AloneSites'
  BY DEF AloneSites, Loaded, Opened, BodySites, Settling, MountCleanSites, CleanSites, AfterMounts,
         AfterFile, FileSites, XSites, AfterX

\* Little is asked of the body.
LEMMA OpenSites ==
  ASSUME pc' \in Opened \cup {"clean.preflight"}, pc' = "mount.after" => Equivalent(Place)',
         pc' = "x.verify" => Local'
  PROVE  AloneSites'
  BY DEF AloneSites, Opened, BodySites, DirSites, Settling, MountCleanSites, CleanSites, AfterMounts,
         AfterFile, FileSites, XSites, AfterX
--------------------------------------------------------------------------------
(* What a plan says of the mounts at its destination *)

\* It says nothing of the other destinations.
LEMMA PathOf == \A T, r, a : PathIn(T, r, a) = {m \in ScopeIn(T, r) : m.at = a}
  BY DEF PathIn, ScopeIn
LEMMA EquivalentLocal ==
  ASSUME NEW T, NEW U, NEW r, ScopeIn(U, r) = ScopeIn(T, r), EquivalentIn(T, r)
  PROVE  EquivalentIn(U, r)
  <1>1. \A a : PathIn(U, r, a) = PathIn(T, r, a)
    BY PathOf
  <1>2. \A a : \A m \in T : PathIn(T, r, a) = {m} => m \in U
    BY <1>1 DEF PathIn
  <1>3. \E m \in U : PathIn(U, r, "root") = {m} /\ m.like
    <2>1. PICK m \in T : PathIn(T, r, "root") = {m} /\ m.like
      BY DEF EquivalentIn
    <2> QED  BY <1>1, <1>2, <2>1
  <1>4. r \in Recursive => \E m \in U : PathIn(U, r, "sub") = {m} /\ m.like
    <2> HAVE r \in Recursive
    <2>1. PICK m \in T : PathIn(T, r, "sub") = {m} /\ m.like
      BY DEF EquivalentIn
    <2> QED  BY <1>1, <1>2, <2>1
  <1>5. r \notin Recursive => PathIn(U, r, "sub") = {}
    BY <1>1 DEF EquivalentIn
  <1> QED  BY <1>3, <1>4, <1>5 DEF EquivalentIn

LEMMA PlanLocal ==
  ASSUME NEW T, NEW U, NEW p, NEW r, ScopeIn(U, r) = ScopeIn(T, r), \A m \in Owned(p) : m.req = r,
         PlanFits(T, p, r)
  PROVE  PlanFits(U, p, r)
  <1>1. \A a : PathIn(U, r, a) = PathIn(T, r, a)
    BY PathOf
  <1>2. \A m \in Owned(p) : OwnedFit(T, p, m) => OwnedFit(U, p, m)
    BY <1>1 DEF OwnedFit
  <1>3. EquivalentIn(T, r) => EquivalentIn(U, r)
    BY EquivalentLocal
  <1> QED  BY <1>2, <1>3 DEF PlanFits

\* Mounts that are equivalent to a request are alone at their paths.
LEMMA EquivalentAlone ==
  ASSUME NEW T, T \subseteq Mount, NEW r, EquivalentIn(T, r), NEW m \in ScopeIn(T, r)
  PROVE  PathIn(T, m.req, m.at) = {m}
  <1>1. m \in T /\ m.req = r /\ m.at \in {"root", "sub"} /\ m \in PathIn(T, r, m.at)
    BY DEF ScopeIn, PathIn, Mount
  <1>2. CASE m.at = "root"
    <2>1. PICK n \in T : PathIn(T, r, "root") = {n}
      BY DEF EquivalentIn
    <2> QED  BY <1>1, <1>2, <2>1
  <1>3. CASE m.at = "sub"
    <2>1. r \in Recursive
      BY <1>1, <1>3 DEF EquivalentIn
    <2>2. PICK n \in T : PathIn(T, r, "sub") = {n}
      BY <2>1 DEF EquivalentIn
    <2> QED  BY <1>1, <1>3, <2>2
  <1> QED  BY <1>1, <1>2, <1>3

\* The operators of the model and those over any mounts are the same.
LEMMA ScopesAre ==
  /\ \A r : Scope(r) = ScopeIn(table, r) /\ (Equivalent(r) <=> EquivalentIn(table, r))
  /\ \A m : There(m) = PathIn(table, m.req, m.at)
  /\ \A r, a : AtPath(r, a) = PathIn(table, r, a)
  BY DEF Scope, ScopeIn, Equivalent, EquivalentIn, There, AtPath, PathIn

\* What a plan owns is of its own request.
LEMMA OwnReq ==
  ASSUME OwnInv
  PROVE  \A i \in DOMAIN mem.mounts : \A m \in Owned(mem.mounts[i]) : m.req = i
  BY DEF OwnInv, Sound, PlanSound

\* What the preflight makes of a plan fits the mounts as well.
LEMMA PlanRecovered ==
  ASSUME NEW p \in PlanType, NEW r, table \subseteq Mount, PlanFits(table, p, r), PlanStateOK(p, r),
         \A m \in Owned(p) : m.req = r
  PROVE  PlanFits(table, NewPlan(p, r), r) /\ NewPlan(p, r).stage \in {"owned", "failed"}
  <1> DEFINE q == NewPlan(p, r)
  <1>s. Scope(r) = ScopeIn(table, r) /\ p.before = {} /\ p.stage \in PlanStages
    BY ScopesAre, PlanHas DEF PlanFits
  <1>1. CASE p.stage = "planned" \/ (p.stage = "command-started" /\ Scope(r) = p.before)
    <2>1. q.stage = "failed" /\ q.before = p.before
      BY <1>1, NewPlanIs
    <2>2. ScopeIn(table, r) = {}
      BY <1>1, <1>s DEF PlanFits
    <2> QED  BY <1>s, <2>1, <2>2 DEF PlanFits
  <1>2. CASE p.stage = "command-started" /\ Scope(r) # p.before
    <2>1. q.stage = "owned" /\ q.before = p.before
      BY <1>2, NewPlanIs
    <2>2. Owned(q) = Scope(r) /\ \A m \in Scope(r) : q.owned[m] = "owned"
      BY <1>2, NewPlanIs
    <2>3. EquivalentIn(table, r)
      BY <1>2, <1>s DEF PlanFits
    <2> HIDE DEF q
    <2>4. ASSUME NEW m \in Owned(q)  PROVE OwnedFit(table, q, m)
      <3>1. m \in ScopeIn(table, r) /\ q.owned[m] = "owned"
        BY <1>s, <2>2, <2>4
      <3>2. PathIn(table, m.req, m.at) = {m}
        BY <2>3, <3>1, EquivalentAlone
      <3> QED  BY <3>1, <3>2 DEF OwnedFit
    <2> QED  BY <1>s, <2>1, <2>2, <2>4 DEF PlanFits, q
  <1>3. CASE p.stage = "owned"
    <2>0. Extras(p, r) = {}
      BY <1>3, <1>s DEF Extras, PlanFits
    <2>1. q.stage = "owned" /\ q.before = p.before
      BY <1>3, NewPlanIs
    <2>2. Owned(q) = Owned(p) \cup Extras(p, r)
      BY <1>3, NewPlanIs
    <2>3. \A m \in Owned(q) :
            q.owned[m] = IF m \notin Owned(p) THEN "owned"
                         ELSE IF p.owned[m] = "unmounting" /\ m \notin table THEN "removed"
                         ELSE p.owned[m]
      BY <1>3, NewPlanIs
    <2> HIDE DEF q
    <2>4. ASSUME NEW m \in Owned(q)  PROVE OwnedFit(table, q, m)
      <3>1. m \in Owned(p) /\ OwnedFit(table, p, m)
        BY <1>3, <2>0, <2>2, <2>4 DEF PlanFits
      <3>2. CASE p.owned[m] = "unmounting" /\ m \notin table
        <4>1. q.owned[m] = "removed"
          BY <2>3, <2>4, <3>1, <3>2
        <4>2. PathIn(table, m.req, m.at) \subseteq {m}
          BY <3>1, <3>2 DEF OwnedFit
        <4>3. m \notin PathIn(table, m.req, m.at)
          BY <3>2 DEF PathIn
        <4>4. PathIn(table, m.req, m.at) = {}
          BY <4>2, <4>3
        <4> QED  BY <4>1, <4>4 DEF OwnedFit
      <3>3. CASE ~(p.owned[m] = "unmounting" /\ m \notin table)
        <4>1. q.owned[m] = p.owned[m]
          BY <2>3, <2>4, <3>1, <3>3
        <4> QED  BY <3>1, <4>1 DEF OwnedFit
      <3> QED  BY <3>2, <3>3
    <2>5. ScopeIn(table, r) \subseteq Owned(q)
      BY <1>3, <2>0, <2>2 DEF PlanFits
    <2> QED  BY <1>s, <2>1, <2>4, <2>5 DEF PlanFits, q
  <1>4. CASE p.stage = "failed"
    <2>1. q = p
      BY <1>4, NewPlanIs
    <2> QED  BY <1>4, <2>1
  <1> QED  BY <1>1, <1>2, <1>3, <1>4, <1>s DEF PlanFits, PlanStages

--------------------------------------------------------------------------------
(* The body of a session that is alone *)

\* The fields of a record that a step does not write.
LEMMA OtherFields ==
  ASSUME NEW j \in StateType
  PROVE  /\ \A k, d : LET n == [j EXCEPT !.dirs[k] = d] IN n.mounts = j.mounts /\ n.x = j.x
         /\ \A k, s : LET n == [j EXCEPT !.dirs[k].stage = s] IN n.mounts = j.mounts /\ n.x = j.x
         /\ \A a : LET n == [j EXCEPT !.art = a] IN n.mounts = j.mounts /\ n.x = j.x /\ n.dirs = j.dirs
         /\ \A s : LET n == [j EXCEPT !.phase = s] IN
                     n.mounts = j.mounts /\ n.x = j.x /\ n.dirs = j.dirs /\ n.art = j.art
         /\ \A q : LET n == [j EXCEPT !.x = q] IN
                     n.mounts = j.mounts /\ n.x = q /\ n.dirs = j.dirs /\ n.art = j.art
  BY DEF StateType

LEMMA SameFits ==
  ASSUME NEW T, NEW v, NEW j, NEW n, n.mounts = j.mounts, n.x = j.x
  PROVE  RecordFits(T, v, n) <=> RecordFits(T, v, j)
  BY DEF RecordFits

\* An exception in the body changes nothing but the place.
LEMMA BodyRaise ==
  ASSUME LoneInv, pc \in BodySites \cup DirSites, io = "idle", Raise
  PROVE  AloneInv' /\ LeftInv'
  <1>1. Goto("clean.preflight") /\ UNCHANGED <<mem, persisted, kind, after, loop>>
        /\ UNCHANGED <<disk, store>>
    BY DEF Raise, RaiseFrom, BodySites, DirSites, MountCleanSites
  <1>2. pc' = "clean.preflight" /\ mem' = mem /\ failed' = failed /\ table' = table /\ xs' = xs
    BY <1>1 DEF Goto, loop, disk
  <1>3. pc \in Loaded /\ pc' \in Loaded
    BY <1>2 DEF Loaded, Opened
  <1>4. AloneSites'
    BY <1>2, OpenSites
  <1> QED  BY <1>1, <1>2, <1>3, <1>4, LoneQuiet

\* The journal that an undisturbed session left stays.
LEMMA LeftKept ==
  ASSUME LeftInv, Alone, pc \notin Loaded, journal' = journal, pending' = pending, file' = file, xs' = xs,
         crashes' = crashes
  PROVE  LeftInv'
  <1>1. Unproved(journal)' <=> Unproved(journal)
    BY DEF Unproved, Local
  <1>2. NoJournal' = NoJournal
    BY NothingShaped
  <1> QED  BY <1>1, <1>2 DEF LeftInv

LEMMA EnterLone ==
  ASSUME LoneInv, EnterReconcile \/ EnterLoad \/ (\E k \in Kinds : Start(k))
  PROVE  AloneInv' /\ LeftInv'
  <1>0. LeftInv /\ Alone
    BY DEF LoneInv
  <1>1. CASE \E k \in Kinds : Start(k)
    <2>1. /\ pc = "idle" /\ pc' = "enter.pending" /\ table' = table /\ xs' = xs /\ file' = file
          /\ journal' = journal /\ pending' = pending /\ mem' = mem /\ failed' = failed /\ crashes' = crashes
      BY <1>1 DEF Start, disk, store, loop, bounds
    <2>2. pc \notin Loaded /\ pc' \notin Loaded
      BY <2>1, SitesApart
    <2> QED  BY <1>0, <2>1, <2>2, LoneMove, LeftSites, LeftKept
  <1>2. CASE EnterReconcile
    <2>1. pc = "enter.pending" /\ pc \notin Loaded /\ table' = table /\ xs' = xs /\ file' = file
          /\ crashes' = crashes
      BY <1>2, SitesApart DEF EnterReconcile, At, Raise, Quiet, disk, bounds
    <2>2. CASE pending = NoJournal
      <3>1. /\ pc' = "enter.load" /\ journal' = journal /\ pending' = pending /\ mem' = mem
            /\ failed' = failed
        BY <1>2, <2>2, TornIs DEF EnterReconcile, Goto, Quiet, store, loop
      <3>2. pc' \notin Loaded
        BY <3>1, SitesApart
      <3> QED  BY <1>0, <2>1, <3>1, <3>2, LoneMove, LeftSites, LeftKept
    <2>3. CASE pending # NoJournal
      <3>1. /\ pc' \in {"enter.load", "idle"} /\ mem' \in {mem, NoJournal} /\ failed' \in {failed, FALSE}
            /\ \/ journal' = pending /\ pending' = NoJournal
               \/ journal' = journal /\ pending' = pending
        <4>1. CASE Raise
          <5>1. Exit /\ UNCHANGED store
            BY <2>1, <4>1 DEF Raise, RaiseFrom, BodySites, DirSites, MountCleanSites
          <5> QED  BY <5>1 DEF Exit, Goto, store
        <4>2. CASE ~Raise
          BY <1>2, <2>3, <4>2 DEF EnterReconcile, Goto, loop
        <4> QED  BY <4>1, <4>2
      <3>2. pc' \notin Loaded
        BY <3>1, SitesApart
      <3>3. AloneInv'
        BY <2>1, <3>1, <3>2, LoneMove, LeftSites
      <3>4. crashes # 0
        BY <1>0, <2>1, <2>3 DEF LeftInv
      <3> QED  BY <2>1, <3>3, <3>4 DEF LeftInv
    <2> QED  BY <2>2, <2>3
  <1>3. CASE EnterLoad
    <2>1. /\ table' = table /\ xs' = xs /\ failed' = failed /\ journal' = journal /\ pending' = pending
          /\ mem' \in {journal, Fresh} /\ pc' \in {"body", "clean.preflight"}
      BY <1>3 DEF EnterLoad, Save, Goto, disk, store, loop
    <2>2. pc' \in Opened \cup {"clean.preflight"} /\ pc' \in Loaded
      BY <2>1 DEF Opened, Loaded
    <2>3. AloneSites'
      BY <2>1, <2>2, OpenSites
    <2>4. LeftInv'
      BY <2>2 DEF LeftInv
    <2> QED  BY <2>1, <2>3, <2>4, LoneMove
  <1> QED  BY <1>1, <1>2, <1>3

\* What neither mounts nor grants.
LEMMA MakeLone ==
  ASSUME LoneInv, Body \/ Abort \/ EnsureDirectory \/ StageFile \/ MountsDone \/ Work
  PROVE  AloneInv' /\ LeftInv'
  <1>0. mem \in StateType
    BY LoneHas DEF Typed
  <1>1. CASE Abort
    BY <1>1, BodyRaise DEF Abort, At, BodySites
  <1>2. CASE ~Abort
    <2>1. /\ table' = table /\ xs' = xs /\ UNCHANGED store /\ failed' = failed /\ io = "idle"
          /\ pc \in Opened /\ pc' \in Opened \cup {"clean.preflight"} /\ pc' \notin {"mount.after", "x.verify"}
      <3>1. CASE Body
        <4>1. kind \in {"hook", "shell", "clean"}
          BY <3>1 DEF LoneInv, TypeInv, ControlType, Body, At
        <4> QED  BY <3>1, <4>1 DEF Body, At, Goto, Quiet, disk, loop, Opened, BodySites
      <3>2. CASE EnsureDirectory
        BY <3>2 DEF EnsureDirectory, StageDir, DirPlan, DirMake, DirMode, DirStaged, DirRename, DirMove,
           DirDone, MoveDir, AfterDir, At, Goto, Save, Quiet, disk, loop, Opened, BodySites, DirSites
      <3>3. CASE StageFile
        BY <3>3 DEF StageFile, StagePlan, StageCreate, StageRecord, StageCopy, StageRest, PutFile,
           At, Goto, Save, Quiet, disk, loop, Opened, BodySites
      <3>4. CASE MountsDone \/ Work
        BY <3>4 DEF MountsDone, Work, PutFile, At, Goto, Quiet, disk, loop, Opened, BodySites
      <3> QED  BY <1>2, <3>1, <3>2, <3>3, <3>4
    <2>2. mem'.mounts = mem.mounts /\ mem'.x = mem.x
      <3>1. CASE mem' = mem
        BY <3>1
      <3>2. CASE \E d : PutDir(d)
        BY <1>0, <3>2, OtherFields DEF PutDir
      <3>3. CASE \E a : PutArt(a)
        BY <1>0, <3>3, OtherFields DEF PutArt
      <3>4. EnsureDirectory => mem' = mem \/ \E d : PutDir(d)
        BY DEF EnsureDirectory, StageDir, DirPlan, DirMake, DirMode, DirStaged, DirRename, DirMove,
           DirDone, MoveDir, PutDirStage
      <3>5. StageFile => mem' = mem \/ \E a : PutArt(a)
        BY DEF StageFile, StagePlan, StageCreate, StageRecord, StageCopy, StageRest
      <3> QED  BY <1>2, <3>1, <3>2, <3>3, <3>4, <3>5 DEF Body, MountsDone, Work
    <2>3. RecordFits(table, xs, mem')
      BY <2>2, LoneHas, SameFits
    <2>4. AloneSites'
      BY <2>1, OpenSites
    <2>5. pc \in Loaded /\ pc' \in Loaded
      BY <2>1 DEF Loaded
    <2> QED  BY <2>1, <2>3, <2>4, <2>5, LoneQuiet
  <1> QED  BY <1>1, <1>2

\* allow_local_x_access.
LEMMA GrantXLone ==
  ASSUME LoneInv, Alone', GrantX
  PROVE  AloneInv' /\ LeftInv'
  <1>0. /\ mem \in StateType /\ mem.x \in XType /\ AloneSites /\ RecordFits(table, xs, mem)
        /\ \A m \in table : m.by = "session"
    BY LoneHas, PlaceIs DEF Typed, LoneInv
  <1>1. CASE Raise
    <2>1. pc \in BodySites /\ io = "idle"
      BY DEF GrantX, XQuery, XMutate, XVerify, At, BodySites
    <2> QED  BY <1>1, <2>1, BodyRaise
  <1>2. CASE ~Raise
    <2>1. io = "idle" /\ pc \in Loaded /\ table' = table /\ UNCHANGED store /\ failed' = failed
      BY <1>2 DEF GrantX, XQuery, XMutate, XVerify, At, Quiet, Loaded, Opened, BodySites, disk, loop
    <2>2. CASE XQuery
      <3> DEFINE q == IF xs = "absent" THEN [stage |-> "grant-planned", before |-> "absent"]
                      ELSE [stage |-> "no-change", before |-> IF Local THEN "present" ELSE "off"]
      <3>1. pc' \in {"x.mutate", "mount.plan"} /\ xs' = xs /\ mem' = [mem EXCEPT !.x = q]
        BY <2>2 DEF XQuery, Save, Quiet, disk
      <3>2. q.stage = IF xs = "absent" THEN "grant-planned" ELSE "no-change"
        OBVIOUS
      <3> HIDE DEF q
      <3>3. mem'.mounts = mem.mounts /\ mem'.x = q
        BY <1>0, <3>1, OtherFields
      <3>4. RecordFits(table, xs, mem')
        BY <1>0, <3>2, <3>3 DEF RecordFits, XFits
      <3>5. pc' \in Opened /\ pc' \in Loaded
        BY <3>1 DEF Opened, BodySites, Loaded
      <3>6. AloneSites'
        BY <3>1, <3>5, OpenSites
      <3> QED  BY <2>1, <3>1, <3>4, <3>5, <3>6, LoneQuiet
    <2>3. CASE XMutate
      <3>1. /\ pc = "x.mutate" /\ pc' = "x.verify" /\ mem' = mem
            /\ Command(xs' = "granted", UNCHANGED xs)
        BY <1>2, <2>3 DEF XMutate, At, Goto
      <3>2. xs' = "granted"
        BY <3>1, CommandSaved DEF LoneInv, Alone
      <3>3. RecordFits(table', xs', mem)
        <4>1. mem.x.stage = "grant-planned"
          BY <3>1, LoneHas DEF SiteInv
        <4> QED  BY <1>0, <2>1, <3>2, <4>1 DEF RecordFits, XFits
      <3>4. pc' \in Opened /\ pc' \in Loaded
        BY <3>1 DEF Opened, BodySites, Loaded
      <3>5. AloneSites'
        BY <3>1, <3>2, <3>4, OpenSites DEF Local
      <3> QED  BY <1>0, <2>1, <3>1, <3>3, <3>4, <3>5, LoneStep
    <2>4. CASE XVerify
      <3>1. /\ pc = "x.verify" /\ pc' \in {"mount.plan", "abort"} /\ xs' = xs
            /\ PutX(IF Local THEN "owned" ELSE "failed")
        BY <1>2, <2>4 DEF XVerify, At, Save, disk
      <3>2. Local
        BY <1>0, <3>1 DEF AloneSites
      <3>3. mem' = [mem EXCEPT !.x = [mem.x EXCEPT !.stage = "owned"]]
        BY <3>1, <3>2 DEF PutX
      <3>4. mem'.mounts = mem.mounts /\ mem'.x = [mem.x EXCEPT !.stage = "owned"]
        BY <1>0, <3>3, OtherFields
      <3>5. mem'.x.stage = "owned"
        BY <1>0, <3>4 DEF XType
      <3>6. RecordFits(table, xs, mem')
        BY <1>0, <3>2, <3>4, <3>5 DEF RecordFits, XFits, Local
      <3>7. pc' \in Opened /\ pc' \in Loaded
        BY <3>1 DEF Opened, BodySites, Loaded
      <3>8. AloneSites'
        BY <3>1, <3>7, OpenSites
      <3> QED  BY <2>1, <3>1, <3>6, <3>7, <3>8, LoneQuiet
    <2> QED  BY <2>2, <2>3, <2>4 DEF GrantX
  <1> QED  BY <1>1, <1>2


\* The plan at hand, and a record in which it is written.
LEMMA PlanPut ==
  ASSUME TypeInv, Place > 0
  PROVE  /\ Place \in DOMAIN mem.mounts /\ Current \in PlanType
         /\ \A p : PutPlan(p) => /\ mem'.x = mem.x /\ DOMAIN mem'.mounts = DOMAIN mem.mounts
                                 /\ mem'.mounts[Place] = p
                                 /\ \A i \in DOMAIN mem.mounts : i # Place => mem'.mounts[i] = mem.mounts[i]
  <1>1. mem \in StateType
    BY MemTyped DEF Typed
  <1>2. Place \in DOMAIN mem.mounts /\ Current \in PlanType
    BY <1>1, StateHas DEF Place, Current
  <1>3. \A p : [mem EXCEPT !.mounts[Place] = p].mounts = [mem.mounts EXCEPT ![Place] = p]
    BY <1>1 DEF StateType
  <1>4. \A p : [mem EXCEPT !.mounts[Place] = p].x = mem.x
    BY <1>1 DEF StateType
  <1>5. mem.mounts \in [DOMAIN mem.mounts -> PlanType]
    BY <1>1, StateHas
  <1>6. ASSUME NEW p, PutPlan(p)
        PROVE  /\ mem'.x = mem.x /\ DOMAIN mem'.mounts = DOMAIN mem.mounts /\ mem'.mounts[Place] = p
               /\ \A i \in DOMAIN mem.mounts : i # Place => mem'.mounts[i] = mem.mounts[i]
    <2>1. mem'.mounts = [mem.mounts EXCEPT ![Place] = p] /\ mem'.x = mem.x
      BY <1>3, <1>4, <1>6 DEF PutPlan
    <2> QED  BY <1>2, <1>5, <2>1
  <1> QED  BY <1>2, <1>6

\* Where the plan that is written fits the mounts, the record does.
LEMMA PlanPutFits ==
  ASSUME LoneInv, Place > 0, NEW p, PutPlan(p), PlanFits(table, p, Place)
  PROVE  RecordFits(table, xs, mem')
  BY PlanPut, LoneHas DEF RecordFits, PlansFit, LoneInv

\* Before its request is recorded nothing is mounted at a destination.
LEMMA MountPlanLone ==
  ASSUME LoneInv, MountPlan
  PROVE  AloneInv' /\ LeftInv'
  <1>0. /\ pc = "mount.plan" /\ io = "idle" /\ Place < NumRequests /\ pc \in Opened /\ pc \in Loaded
        /\ mem \in StateType
    BY LoneHas DEF MountPlan, At, Opened, BodySites, Loaded, Typed
  <1>1. Scope(Place + 1) = {}
    <2>1. \A m \in table : m.req \in DOMAIN mem.mounts
      BY <1>0, LoneHas DEF StoreInv, Names, NamesIn, NamesMounts
    <2>2. Place + 1 \notin DOMAIN mem.mounts
      BY <1>0, StateHas DEF Place
    <2> QED  BY <2>1, <2>2 DEF Scope
  <1>2. /\ mem' = [mem EXCEPT !.mounts = Append(@, Plan("planned", {}, {}))]
        /\ pc' = "dir.plan" /\ table' = table /\ xs' = xs /\ UNCHANGED store /\ failed' = failed
    <2>1. AtPath(Place + 1, "root") = {}
      BY <1>1 DEF Scope, AtPath
    <2> QED  BY <1>1, <2>1 DEF MountPlan, Save, Quiet, disk, loop
  <1>3. mem'.mounts = Append(mem.mounts, Plan("planned", {}, {})) /\ mem'.x = mem.x
    BY <1>0, <1>2 DEF StateType
  <1>4. RecordFits(table, xs, mem')
    <2>1. mem.mounts \in Seq(PlanType) /\ Len(mem.mounts) \in Nat
      BY <1>0, StateHas
    <2>2. /\ DOMAIN mem'.mounts = 1..(Place + 1)
          /\ \A i \in 1..Place : mem'.mounts[i] = mem.mounts[i] /\ i \in DOMAIN mem.mounts
          /\ mem'.mounts[Place + 1] = Plan("planned", {}, {})
      BY <1>3, <2>1 DEF Place
    <2>3. PlanFits(table, Plan("planned", {}, {}), Place + 1)
      BY <1>1, ScopesAre DEF PlanFits, Plan
    <2>4. \A i \in 1..(Place + 1) : PlanFits(table, mem'.mounts[i], i)
      BY <2>1, <2>2, <2>3, LoneHas DEF RecordFits, PlansFit, Place
    <2> QED  BY <1>3, <2>2, <2>4, LoneHas DEF RecordFits, PlansFit
  <1>5. pc' \in Opened /\ pc' \in Loaded
    BY <1>2 DEF Opened, DirSites, Loaded
  <1>6. AloneSites'
    BY <1>2, <1>5, OpenSites
  <1> QED  BY <1>0, <1>2, <1>4, <1>5, <1>6, LoneQuiet

LEMMA MountCheckLone ==
  ASSUME LoneInv, MountCheck
  PROVE  AloneInv' /\ LeftInv'
  <1>0. /\ pc = "mount.check" /\ io = "idle" /\ pc \in Opened /\ pc \in Loaded /\ TypeInv /\ Place > 0
    BY DEF MountCheck, At, Opened, BodySites, Loaded, LoneInv, TypeInv, ControlType, MountSites
  <1>1. Place \in DOMAIN mem.mounts /\ Current \in PlanType
    BY <1>0, PlanPut
  <1>2. Current.stage = "planned" /\ PlanFits(table, Current, Place)
    BY <1>0, <1>1, LoneHas DEF RunInv, RecordFits, PlansFit, Current
  <1>3. Scope(Place) = {} /\ Current.before = {}
    BY <1>2, ScopesAre DEF PlanFits
  <1> DEFINE p == [Current EXCEPT !.stage = "command-started"]
  <1>4. PutPlan(p) /\ pc' = "mount.run" /\ table' = table /\ xs' = xs /\ UNCHANGED store /\ failed' = failed
    BY <1>3 DEF MountCheck, Save, Quiet, disk, loop
  <1>5. p.stage = "command-started" /\ p.before = {}
    BY <1>1, <1>3 DEF PlanType
  <1> HIDE DEF p
  <1>6. PlanFits(table, p, Place)
    BY <1>3, <1>5, ScopesAre DEF PlanFits
  <1>7. RecordFits(table, xs, mem')
    BY <1>0, <1>4, <1>6, PlanPutFits
  <1>8. pc' \in Opened /\ pc' \in Loaded
    BY <1>4 DEF Opened, BodySites, Loaded
  <1>9. AloneSites'
    BY <1>4, <1>8, OpenSites
  <1> QED  BY <1>0, <1>4, <1>7, <1>8, <1>9, LoneQuiet

\* mount(8) adds what makes its destination equivalent, and nothing elsewhere.
LEMMA BoundEquivalent ==
  ASSUME NEW r, ScopeIn(table, r) = {}
  PROVE  /\ EquivalentIn(table \cup Bound(r), r)
         /\ \A k : k # r => ScopeIn(table \cup Bound(r), k) = ScopeIn(table, k)
         /\ \A m \in Bound(r) : m.by = "session"
  <1> DEFINE U == table \cup Bound(r)
             a == NewMount(NewId, r, "root", "session", TRUE)
             b == NewMount(NextId, r, "sub", "session", TRUE)
  <1>1. Bound(r) = {a} \cup (IF r \in Recursive THEN {b} ELSE {})
    BY DEF Bound
  <1>2. /\ a.req = r /\ a.at = "root" /\ a.by = "session" /\ a.like = TRUE
        /\ b.req = r /\ b.at = "sub" /\ b.by = "session" /\ b.like = TRUE
    BY DEF NewMount
  <1> HIDE DEF a, b
  <1>3. \A m \in table : m.req # r
    BY DEF ScopeIn
  <1>4. PathIn(U, r, "root") = {a} /\ a \in U
    BY <1>1, <1>2, <1>3 DEF PathIn
  <1>5. IF r \in Recursive THEN PathIn(U, r, "sub") = {b} /\ b \in U ELSE PathIn(U, r, "sub") = {}
    BY <1>1, <1>2, <1>3 DEF PathIn
  <1>6. EquivalentIn(U, r)
    <2>1. a.like /\ b.like
      BY <1>2
    <2> HIDE DEF U
    <2> QED  BY <1>4, <1>5, <2>1 DEF EquivalentIn
  <1>7. \A k : k # r => ScopeIn(U, k) = ScopeIn(table, k)
    BY <1>1, <1>2 DEF ScopeIn
  <1>8. \A m \in Bound(r) : m.by = "session"
    BY <1>1, <1>2
  <1> QED  BY <1>6, <1>7, <1>8

LEMMA MountRunLone ==
  ASSUME LoneInv, Alone', MountRun
  PROVE  AloneInv' /\ LeftInv'
  <1>0. /\ pc = "mount.run" /\ io = "idle" /\ pc \in Opened /\ pc \in Loaded /\ TypeInv /\ Place > 0
        /\ pc' = "mount.after" /\ xs' = xs /\ UNCHANGED store /\ failed' = failed /\ mem' = mem
        /\ Command(table' = table \cup Bound(Place), UNCHANGED table)
    BY DEF MountRun, At, Goto, Opened, BodySites, Loaded, LoneInv, TypeInv, ControlType, MountSites
  <1>1. table' = table \cup Bound(Place)
    BY <1>0, CommandSaved DEF Alone
  <1>2. Place \in DOMAIN mem.mounts /\ Current.stage = "command-started" /\ ScopeIn(table, Place) = {}
    BY <1>0, PlanPut, LoneHas, ScopesAre DEF RunInv
  <1>3. /\ EquivalentIn(table', Place)
        /\ \A k : k # Place => ScopeIn(table', k) = ScopeIn(table, k)
        /\ \A m \in table' : m.by = "session"
    BY <1>1, <1>2, BoundEquivalent, LoneHas
  <1>4. ASSUME NEW i \in DOMAIN mem.mounts  PROVE PlanFits(table', mem.mounts[i], i)
    <2>1. PlanFits(table, mem.mounts[i], i)
      BY LoneHas DEF RecordFits, PlansFit
    <2>2. CASE i = Place
      BY <1>2, <1>3, <2>1, <2>2 DEF PlanFits, Current
    <2>3. CASE i # Place
      <3>1. \A m \in Owned(mem.mounts[i]) : m.req = i
        BY OwnReq DEF LoneInv
      <3> QED  BY <1>3, <2>1, <2>3, <3>1, PlanLocal
    <2> QED  BY <2>2, <2>3
  <1>5. RecordFits(table', xs', mem)
    BY <1>0, <1>4, LoneHas DEF RecordFits, PlansFit
  <1>6. pc' \in Opened /\ pc' \in Loaded
    BY <1>0 DEF Opened, BodySites, Loaded
  <1>7. AloneSites'
    <2>1. Equivalent(Place)'
      <3>1. Place' = Place
        BY <1>0 DEF Place
      <3> QED  BY <1>3, <3>1 DEF Equivalent, EquivalentIn, AtPath, PathIn
    <2> QED  BY <1>0, <1>6, <2>1, OpenSites
  <1> QED  BY <1>0, <1>3, <1>5, <1>6, <1>7, LoneStep

LEMMA MountAfterLone ==
  ASSUME LoneInv, MountAfter
  PROVE  AloneInv' /\ LeftInv'
  <1>0. /\ pc = "mount.after" /\ io = "idle" /\ pc \in Opened /\ pc \in Loaded /\ TypeInv /\ Place > 0
        /\ table' = table /\ xs' = xs /\ UNCHANGED store /\ failed' = failed
    BY DEF MountAfter, At, Opened, BodySites, Loaded, LoneInv, TypeInv, ControlType, MountSites, disk
  <1>1. Equivalent(Place) /\ EquivalentIn(table, Place)
    BY <1>0, LoneHas, ScopesAre DEF AloneSites
  <1>2. Place \in DOMAIN mem.mounts /\ Current \in PlanType /\ PlanFits(table, Current, Place)
    BY <1>0, PlanPut, LoneHas DEF RecordFits, PlansFit, Current
  <1>3. Attributable(Place)
    <2>1. PICK m \in table : AtPath(Place, "root") = {m}
      BY <1>1 DEF Equivalent
    <2>2. Cardinality(AtPath(Place, "root")) = 1
      BY <2>1, FS_Singleton
    <2>3. Place \in Recursive \/ AtPath(Place, "sub") = {}
      BY <1>1 DEF Equivalent
    <2> QED  BY <2>2, <2>3 DEF Attributable
  <1> DEFINE S == Scope(Place)
             f == [m \in S |-> "owned"]
             p == [[Current EXCEPT !.seen = S] EXCEPT !.stage = "owned", !.owned = f]
  <1>4. PutPlan(p) /\ pc' = "mount.plan"
    BY <1>3, LoneOk DEF MountAfter, Save
  <1>5. p.stage = "owned" /\ p.before = Current.before /\ p.owned = f
    BY <1>2 DEF PlanType
  <1> HIDE DEF p
  <1>6. Owned(p) = S /\ \A m \in S : p.owned[m] = "owned"
    BY <1>5 DEF Owned
  <1>7. PlanFits(table, p, Place)
    <2>1. S = ScopeIn(table, Place) /\ p.before = {}
      BY <1>2, <1>5, ScopesAre DEF PlanFits
    <2> HIDE DEF S, f
    <2>2. ASSUME NEW m \in Owned(p)  PROVE OwnedFit(table, p, m)
      <3>1. m \in ScopeIn(table, Place) /\ p.owned[m] = "owned"
        BY <1>6, <2>1, <2>2
      <3>2. PathIn(table, m.req, m.at) = {m}
        BY <1>1, <3>1, EquivalentAlone, LoneHas
      <3> QED  BY <3>1, <3>2 DEF OwnedFit
    <2> QED  BY <1>5, <1>6, <2>1, <2>2 DEF PlanFits
  <1>8. RecordFits(table, xs, mem')
    BY <1>0, <1>4, <1>7, PlanPutFits
  <1>9. pc' \in Opened /\ pc' \in Loaded
    BY <1>4 DEF Opened, BodySites, Loaded
  <1>10. AloneSites'
    BY <1>4, <1>9, OpenSites
  <1> QED  BY <1>0, <1>4, <1>8, <1>9, <1>10, LoneQuiet

--------------------------------------------------------------------------------
(* The journal writes of a session that is alone, and its death *)

\* What is asked of a place stays while nothing it is about changes.
LEMMA SameSites ==
  ASSUME AloneSites, pc' = pc, mem' = mem, table' = table, xs' = xs, dirs' = dirs, todo' = todo,
         cur' = cur, snap' = snap
  PROVE  AloneSites'
  <1>1. (Equivalent(Place) => Equivalent(Place)') /\ (Local => Local')
    BY DEF Equivalent, AtPath, Place, Local
  <1>2. SettlingInv => SettlingInv'
    BY <1>1 DEF SettlingInv
  <1>3. Target' = Target /\ There(Target)' = There(Target) /\ SlotPath' = SlotPath /\ Slot' = Slot
    BY DEF Target, There, AtPath, SlotPath, Slot
  <1> QED  BY <1>1, <1>2, <1>3 DEF AloneSites

LEMMA PersistLone ==
  ASSUME LoneInv, WritePending \/ ReplaceJournal
  PROVE  AloneInv' /\ LeftInv'
  <1>0. pc \in Loaded /\ AloneSites /\ InStep /\ ValidState(mem)
    BY LoneHas, ShapeValid DEF WritePending, ReplaceJournal, SiteInv
  <1>1. /\ mem' = mem /\ failed' = failed /\ table' = table /\ xs' = xs /\ dirs' = dirs /\ pc' = pc
        /\ todo' = todo /\ cur' = cur /\ snap' = snap
        /\ \/ journal' = journal /\ pending' = mem
           \/ journal' = pending /\ pending' = NoJournal
    <2>1. WritePending => PersistOK
      BY <1>0 DEF WritePending, PersistOK, InStep
    <2> QED  BY <2>1 DEF WritePending, ReplaceJournal, disk, loop
  <1>2. AloneSites'
    BY <1>0, <1>1, SameSites
  <1>3. AloneInv'
    BY <1>1, <1>2, LoneMove
  <1> QED  BY <1>0, <1>1, <1>3 DEF LeftInv

LEMMA CrashLone ==
  ASSUME LoneInv, Crash
  PROVE  AloneInv' /\ LeftInv'
  <1>1. /\ Exit /\ table' = table /\ xs' = xs /\ journal' = journal /\ pending' \in {pending, Torn}
        /\ crashes' # 0
    BY DEF Crash, disk, store, LoneInv, TypeInv, BoundType
  <1>2. pc' \notin Loaded /\ mem' = NoJournal /\ failed' = FALSE
    BY <1>1, SitesApart DEF Exit, Goto
  <1> QED  BY <1>1, <1>2, LoneMove, LeftSites DEF LeftInv
--------------------------------------------------------------------------------
(* What a session left alone is recovered *)

LEMMA Recoverable ==
  ASSUME LoneInv, NEW j, Typed(j), Shape(j), Names(j), DirsFit(dirs, j.dirs), RecordFits(table, xs, j)
  PROVE  PreflightOK(j) \/ Unproved(j)
  <1>0. /\ \A i \in DOMAIN j.mounts : j.mounts[i] \in PlanType
        /\ \A k \in Places : j.dirs[k] \in DirType
        /\ j.art \in ArtStages /\ j.x \in XType
        /\ xs \in {"off", "absent", "present", "granted"}
    BY StateHas DEF Typed, DirType, XType, LoneInv, TypeInv, DiskType
  <1>1. ASSUME NEW i \in DOMAIN j.mounts  PROVE PlanStateOK(j.mounts[i], i)
    <2> DEFINE p == j.mounts[i]
    <2>1. PlanFits(table, p, i) /\ p.stage \in PlanStages /\ p.before = {}
      BY <1>0, PlanHas DEF RecordFits, PlansFit, PlanFits
    <2>2. p.stage = "owned" => OwnedMountsOK(p, i)
      <3> HAVE p.stage = "owned"
      <3>1. Extras(p, i) = {}
        BY <2>1, ScopesAre DEF PlanFits, Extras
      <3>2. \A m \in Owned(p) : OwnedFit(table, p, m) /\ p.owned[m] \in OwnedStages
        BY <1>0, <2>1, PlanHas DEF PlanFits
      <3>3. \A m \in Owned(p) :
              CASE p.owned[m] = "owned"      -> There(m) = {m}
                [] p.owned[m] = "unmounting" -> There(m) \subseteq {m}
                [] p.owned[m] = "removed"    -> There(m) = {}
        BY <3>2, ScopesAre DEF OwnedFit, OwnedStages
      <3> QED  BY <2>1, <3>1, <3>3 DEF OwnedMountsOK
    <2>3. p.stage \in {"planned", "failed"} => Scope(i) = p.before
      BY <2>1, ScopesAre DEF PlanFits
    <2>4. p.stage = "command-started" => Scope(i) = p.before \/ (p.before = {} /\ Equivalent(i))
      BY <2>1, ScopesAre DEF PlanFits
    <2>5. p.stage \notin {"already-present", "ambiguous"}
      BY <2>1 DEF PlanFits
    <2> HIDE DEF p
    <2> QED  BY <2>1, <2>2, <2>3, <2>4, <2>5 DEF PlanStateOK, PlanStages, p
  <1>2. ArtOK(j.art) \/ Unproved(j)
    BY <1>0 DEF ArtOK, Unproved, ArtStages, Names, NamesIn, NamesFile, Gone
  <1>3. \A k \in Places : DirOK(j.dirs[k], dirs[k])
    <2> TAKE k \in Places
    <2>1. DirFits(dirs[k], j.dirs[k]) /\ j.dirs[k].stage \in DirStages
      BY <1>0 DEF DirsFit, DirType
    <2> QED  BY <2>1 DEF DirFits, DirOK, DirStages
  <1>4. XOK(j.x) \/ Unproved(j)
    <2>1. j.x.stage = "grant-planned" => j.x.before = "absent"
      BY DEF Shape, XShape
    <2> QED  BY <1>0, <2>1 DEF XOK, Unproved, Local, RecordFits, XFits
  <1> QED  BY <1>1, <1>2, <1>3, <1>4, ShapeValid DEF PreflightOK, PlansOK

LEMMA CleanPreflightLone ==
  ASSUME LoneInv, CleanPreflight
  PROVE  AloneInv' /\ LeftInv'
  <1>0. /\ pc = "clean.preflight" /\ io = "idle" /\ pc \in Loaded /\ table' = table /\ xs' = xs
        /\ file' = file /\ UNCHANGED store /\ journal' = journal /\ pending' = pending
    BY DEF CleanPreflight, At, Loaded, store
  <1>1. /\ Typed(mem) /\ Shape(mem) /\ DirsFit(dirs, mem.dirs) /\ RecordFits(table, xs, mem)
        /\ table \in FinMounts /\ table \subseteq Mount /\ mem = journal /\ pending = NoJournal
        /\ \A i \in DOMAIN mem.mounts : mem.mounts[i] \in PlanType
        /\ mem.x \in XType /\ xs \in {"off", "absent", "present", "granted"}
        /\ StoreInv
    BY <1>0, LoneHas, PlaceIs DEF LoneInv, TypeInv, DiskType
  <1>2. CASE PreflightOK(mem)
    <2>1. mem' = Preflighted(mem) /\ pc' = "clean.mark" /\ failed' = failed
      BY <1>2 DEF CleanPreflight, Goto, Save, loop
    <2>2. /\ DOMAIN mem'.mounts = DOMAIN mem.mounts
          /\ \A i \in DOMAIN mem.mounts : mem'.mounts[i] = NewPlan(mem.mounts[i], i)
          /\ mem'.x = NewX(mem.x)
      BY <1>1, <2>1, PreflightedHas
    <2>3. \A i \in DOMAIN mem.mounts : /\ PlanFits(table, mem'.mounts[i], i)
                                       /\ mem'.mounts[i].stage \in {"owned", "failed"}
      <3> TAKE i \in DOMAIN mem.mounts
      <3>1. \A m \in Owned(mem.mounts[i]) : m.req = i
        BY OwnReq DEF LoneInv
      <3>2. PlanFits(table, mem.mounts[i], i) /\ PlanStateOK(mem.mounts[i], i)
        BY <1>1, <1>2 DEF RecordFits, PlansFit, PreflightOK, PlansOK
      <3> QED  BY <1>1, <2>2, <3>1, <3>2, PlanRecovered
    <2>4. /\ XFits(xs, mem'.x) /\ mem'.x.stage # "grant-planned"
          /\ mem'.x.stage = "revoking" => Local
      <3>1. XFits(xs, mem.x)
        BY <1>1 DEF RecordFits
      <3>2. CASE mem.x.stage = "grant-planned"
        <4>1. mem'.x.stage = "failed"
          BY <1>1, <2>2, <3>2 DEF NewX, XType
        <4> QED  BY <4>1 DEF XFits
      <3>3. CASE mem.x.stage = "revoking" /\ xs = "absent"
        <4>1. mem'.x.stage = "restored"
          BY <1>1, <2>2, <3>3 DEF NewX, XType
        <4> QED  BY <4>1 DEF XFits
      <3>4. CASE mem.x.stage # "grant-planned" /\ ~(mem.x.stage = "revoking" /\ xs = "absent")
        <4>1. mem'.x = mem.x
          BY <2>2, <3>4 DEF NewX
        <4> QED  BY <1>1, <3>1, <3>4, <4>1 DEF XFits, Local
      <3> QED  BY <3>2, <3>3, <3>4
    <2>5. RecordFits(table, xs, mem')
      BY <2>2, <2>3, <2>4 DEF RecordFits, PlansFit
    <2>6. SettlingInv'
      BY <1>0, <2>2, <2>3, <2>4 DEF SettlingInv, Local
    <2>7. AloneSites'
      BY <2>1, <2>6 DEF AloneSites, MountCleanSites, AfterMounts, AfterFile, FileSites, XSites, AfterX
    <2>8. pc' \in Loaded
      BY <2>1 DEF Loaded, Settling, CleanSites
    <2> QED  BY <1>0, <2>1, <2>5, <2>7, <2>8, LoneQuiet
  <1>3. CASE ~PreflightOK(mem)
    <2>1. pc' = "idle" /\ mem' = NoJournal /\ failed' = FALSE
      BY <1>3 DEF CleanPreflight, Exit, Goto
    <2>2. pc' \notin Loaded
      BY <2>1, SitesApart
    <2>3. AloneInv'
      BY <1>0, <2>1, <2>2, LoneMove, LeftSites
    <2>4. Unproved(journal)
      BY <1>1, <1>3, Recoverable DEF StoreInv
    <2>5. Unproved(journal)'
      BY <1>0, <2>4 DEF Unproved, Local
    <2>6. NoJournal' = NoJournal
      BY NothingShaped
    <2> QED  BY <1>0, <1>1, <2>3, <2>5, <2>6 DEF LeftInv
  <1> QED  BY <1>2, <1>3

--------------------------------------------------------------------------------
(* The cleanup of a session that is alone: its mounts *)

LEMMA SettlingOn ==
  ASSUME SettlingInv, pc # "clean.xverify", DOMAIN mem'.mounts = DOMAIN mem.mounts,
         \A i \in DOMAIN mem.mounts : mem'.mounts[i].stage = mem.mounts[i].stage,
         mem'.x = mem.x, xs' = xs
  PROVE  SettlingInv'
  BY DEF SettlingInv, Local

LEMMA MountsSites ==
  ASSUME pc' \in MountCleanSites, SettlingInv',
         \A i \in DOMAIN mem'.mounts : Live(mem'.mounts[i]) \subseteq todo',
         pc' = "clean.umount" => Target' \in table',
         pc' = "clean.umounted" => snap' \ table' = {Target'} /\ There(Target)' = {}
  PROVE  AloneSites'
  BY DEF AloneSites, MountCleanSites, AfterMounts, AfterFile, FileSites, XSites, AfterX

LEMMA CleanMarkLone ==
  ASSUME LoneInv, CleanMark
  PROVE  AloneInv' /\ LeftInv'
  <1>0. /\ pc = "clean.mark" /\ io = "idle" /\ pc \in Loaded /\ pc \in Settling /\ table' = table /\ xs' = xs
        /\ UNCHANGED store /\ failed' = failed /\ mem \in StateType /\ SettlingInv
    BY LoneHas DEF CleanMark, At, Loaded, Settling, CleanSites, Quiet, disk, loop, Typed, AloneSites
  <1>1. CASE mem.phase # "cleaning"
    <2>1. mem' = [mem EXCEPT !.phase = "cleaning"] /\ pc' = "clean.mark"
      BY <1>0, <1>1 DEF CleanMark, Save
    <2>2. mem'.mounts = mem.mounts /\ mem'.x = mem.x
      BY <1>0, <2>1, OtherFields
    <2>3. RecordFits(table, xs, mem')
      BY <2>2, SameFits, LoneHas
    <2>4. SettlingInv'
      BY <1>0, <2>2, SettlingOn
    <2>5. AloneSites'
      BY <2>1, <2>4 DEF AloneSites, MountCleanSites, AfterMounts, AfterFile, FileSites, XSites, AfterX
    <2>6. pc' \in Loaded
      BY <1>0, <2>1
    <2> QED  BY <1>0, <2>3, <2>5, <2>6, LoneQuiet
  <1>2. CASE mem.phase = "cleaning"
    <2>1. mem' = mem /\ pc' = "clean.mount" /\ todo' = AllOwned(mem)
      BY <1>0, <1>2 DEF CleanMark, Goto
    <2>2. SettlingInv'
      BY <1>0, <2>1, SettlingOn
    <2>3. \A i \in DOMAIN mem.mounts : Live(mem.mounts[i]) \subseteq AllOwned(mem)
      BY DEF Live, AllOwned
    <2>4. pc' \in Loaded /\ pc' \in MountCleanSites
      BY <2>1 DEF Loaded, Settling, MountCleanSites
    <2>5. AloneSites'
      BY <2>1, <2>2, <2>3, <2>4, MountsSites
    <2> QED  BY <1>0, <2>1, <2>4, <2>5, LoneQuiet
  <1> QED  BY <1>1, <1>2

\* What is known of the mount at hand.
LEMMA TargetHas ==
  ASSUME LoneInv, pc \in MountCleanSites, todo # {}
  PROVE  /\ Target \in todo /\ Target \in Mount /\ Target.req \in DOMAIN mem.mounts
         /\ Target \in Owned(mem.mounts[Target.req]) /\ Stage(Target) \in OwnedStages
         /\ mem.mounts[Target.req].stage = "owned" /\ OwnedFit(table, mem.mounts[Target.req], Target)
         /\ ScopeIn(table, Target.req) \subseteq Owned(mem.mounts[Target.req])
         /\ \A i \in DOMAIN mem.mounts : Live(mem.mounts[i]) \subseteq todo
         /\ \A n \in todo : ~Deeper(n, Target)
         /\ SettlingInv /\ pc \in Loaded /\ pc # "clean.xverify"
  <1>1. /\ Target \in todo /\ Target.req \in DOMAIN mem.mounts
        /\ Target \in Owned(mem.mounts[Target.req]) /\ Stage(Target) \in OwnedStages
    BY TargetIs DEF LoneInv
  <1>2. todo \subseteq Mount
    BY DEF LoneInv, TypeInv, LoopType
  <1>3. \A n \in todo : ~Deeper(n, Target)
    BY <1>2, FirstIn DEF Target
  <1>4. mem.mounts[Target.req].stage = "owned"
    BY <1>1, LoneHas DEF Shape, PlanShape, ValidPlan
  <1>5. PlanFits(table, mem.mounts[Target.req], Target.req)
    BY <1>1, LoneHas DEF RecordFits, PlansFit
  <1>6. /\ OwnedFit(table, mem.mounts[Target.req], Target)
        /\ ScopeIn(table, Target.req) \subseteq Owned(mem.mounts[Target.req])
    BY <1>1, <1>4, <1>5 DEF PlanFits
  <1>7. pc \in Settling /\ pc \in Loaded /\ pc # "clean.xverify"
    BY DEF Settling, Loaded, MountCleanSites
  <1>8. SettlingInv /\ \A i \in DOMAIN mem.mounts : Live(mem.mounts[i]) \subseteq todo
    BY <1>7, LoneHas DEF AloneSites
  <1> QED  BY <1>1, <1>2, <1>3, <1>4, <1>6, <1>7, <1>8

\* What the writing of a stage keeps, and what it changes.
LEMMA OwnedKeeps ==
  ASSUME NEW j, Typed(j), Shape(j), NEW k \in DOMAIN j.mounts, NEW m \in Owned(j.mounts[k]),
         NEW s \in OwnedStages
  PROVE  LET w == OwnedSet(j, k, m, s) IN
         /\ w.x = j.x /\ DOMAIN w.mounts = DOMAIN j.mounts
         /\ \A i \in DOMAIN j.mounts : i # k => w.mounts[i] = j.mounts[i]
  <1> DEFINE n == [j EXCEPT !.mounts[k].owned[m] = s]
  <1>1. n.x = j.x
    BY OwnedEdit
  <1>2. DOMAIN n.mounts = DOMAIN j.mounts
    BY OwnedEdit
  <1>3. \A i \in DOMAIN j.mounts : n.mounts[i] = IF i = k THEN [j.mounts[i] EXCEPT !.owned[m] = s]
                                                  ELSE j.mounts[i]
    BY OwnedEdit
  <1> HIDE DEF n
  <1>4. OwnedSet(j, k, m, s) = n
    BY DEF n, OwnedSet
  <1> QED  BY <1>1, <1>2, <1>3, <1>4
LEMMA OwnedChanges ==
  ASSUME NEW j, Typed(j), Shape(j), NEW k \in DOMAIN j.mounts, NEW m \in Owned(j.mounts[k]),
         NEW s \in OwnedStages
  PROVE  LET q == OwnedSet(j, k, m, s).mounts[k]
             p == j.mounts[k]
         IN /\ q.stage = p.stage /\ q.before = p.before /\ Owned(q) = Owned(p)
            /\ \A u \in Owned(p) : q.owned[u] = IF u = m THEN s ELSE p.owned[u]
  <1> DEFINE q == OwnedSet(j, k, m, s).mounts[k]
             p == j.mounts[k]
  <1>1. q.stage = p.stage
    BY OwnedPut
  <1>2. q.before = p.before
    BY OwnedPut
  <1>3. Owned(q) = Owned(p)
    BY OwnedPut
  <1>4. \A u \in Owned(p) : q.owned[u] = IF u = m THEN s ELSE p.owned[u]
    <2> DEFINE n == [j EXCEPT !.mounts[k].owned[m] = s]
               e == [p EXCEPT !.owned[m] = s]
    <2>1. n.mounts[k] = e
      BY OwnedEdit
    <2>2. p \in PlanType
      BY StateHas DEF Typed
    <2>3. \A u \in Owned(p) : e.owned[u] = IF u = m THEN s ELSE p.owned[u]
      BY <2>2, OwnedStageIs
    <2> HIDE DEF n, e
    <2>4. OwnedSet(j, k, m, s) = n
      BY DEF n, OwnedSet
    <2> QED  BY <2>1, <2>3, <2>4
  <1> QED  BY <1>1, <1>2, <1>3, <1>4

\* A record in which its stage is written.
LEMMA OwnedPutFits ==
  ASSUME LoneInv, pc \in MountCleanSites, todo # {}, NEW s \in OwnedStages, PutOwned(Target, s),
         s # "owned",
         s = "unmounting" => PathIn(table, Target.req, Target.at) \subseteq {Target},
         s = "removed" => PathIn(table, Target.req, Target.at) = {},
         xs' = xs
  PROVE  /\ RecordFits(table, xs, mem') /\ SettlingInv'
         /\ \A i \in DOMAIN mem'.mounts : Live(mem'.mounts[i]) \subseteq todo
         /\ s = "removed" => \A i \in DOMAIN mem'.mounts : Target \notin Live(mem'.mounts[i])
  <1> DEFINE k == Target.req
             p == mem.mounts[k]
             q == mem'.mounts[k]
  <1>1. /\ k \in DOMAIN mem.mounts /\ Target \in Owned(p) /\ p.stage = "owned" /\ Target \in todo
        /\ ScopeIn(table, k) \subseteq Owned(p) /\ SettlingInv /\ pc # "clean.xverify"
        /\ \A i \in DOMAIN mem.mounts : Live(mem.mounts[i]) \subseteq todo
    BY TargetHas
  <1>2. mem' = OwnedSet(mem, k, Target, s)
    BY DEF PutOwned, OwnedSet
  <1>a. Typed(mem) /\ Shape(mem)
    BY LoneHas
  <1>b. k \in DOMAIN mem.mounts /\ Target \in Owned(p)
    BY <1>1
  <1>3. /\ mem'.x = mem.x /\ DOMAIN mem'.mounts = DOMAIN mem.mounts
        /\ \A i \in DOMAIN mem.mounts : i # k => mem'.mounts[i] = mem.mounts[i]
    BY <1>2, <1>a, <1>b, OwnedKeeps
  <1>4. /\ q.stage = p.stage /\ q.before = p.before /\ Owned(q) = Owned(p)
        /\ \A u \in Owned(p) : q.owned[u] = IF u = Target THEN s ELSE p.owned[u]
    BY <1>2, <1>a, <1>b, OwnedChanges
  <1> HIDE DEF q
  <1>5. PlanFits(table, p, k)
    BY <1>1, LoneHas DEF RecordFits, PlansFit
  <1>6. PlanFits(table, q, k)
    <2>1. ASSUME NEW m \in Owned(q)  PROVE OwnedFit(table, q, m)
      <3>1. OwnedFit(table, p, m) /\ m \in Owned(p)
        BY <1>1, <1>4, <1>5, <2>1 DEF PlanFits
      <3>2. CASE m = Target
        BY <1>4, <3>1, <3>2 DEF OwnedFit, OwnedStages
      <3>3. CASE m # Target
        BY <1>4, <3>1, <3>3 DEF OwnedFit
      <3> QED  BY <3>2, <3>3
    <2>2. q.before = {} /\ q.stage = "owned" /\ ScopeIn(table, k) \subseteq Owned(q)
      BY <1>1, <1>4, <1>5 DEF PlanFits
    <2> QED  BY <2>1, <2>2 DEF PlanFits
  <1>7. RecordFits(table, xs, mem')
    BY <1>3, <1>6, LoneHas DEF RecordFits, PlansFit, q
  <1>8. SettlingInv'
    BY <1>1, <1>3, <1>4, SettlingOn DEF q
  <1>9. ASSUME NEW i \in DOMAIN mem'.mounts
        PROVE  /\ Live(mem'.mounts[i]) \subseteq todo
               /\ s = "removed" => Target \notin Live(mem'.mounts[i])
    <2>1. CASE i = k
      <3>1. Live(q) \subseteq Live(p) \cup {Target} /\ (s = "removed" => Target \notin Live(q))
        BY <1>1, <1>4 DEF Live
      <3> QED  BY <1>1, <2>1, <3>1 DEF q
    <2>2. CASE i # k
      <3>1. mem'.mounts[i] = mem.mounts[i] /\ i \in DOMAIN mem.mounts
        BY <1>3, <1>9, <2>2
      <3>2. Target \notin Owned(mem.mounts[i])
        BY <2>2, <3>1, OwnReq DEF LoneInv
      <3>3. Target \notin Live(mem.mounts[i])
        BY <3>2 DEF Live
      <3> QED  BY <1>1, <3>1, <3>3
    <2> QED  BY <2>1, <2>2
  <1> QED  BY <1>7, <1>8, <1>9

LEMMA CleanMountLone ==
  ASSUME LoneInv, MountsCleaned \/ CleanMount
  PROVE  AloneInv' /\ LeftInv'
  <1>0. /\ pc = "clean.mount" /\ io = "idle" /\ pc \in MountCleanSites /\ pc \in Settling /\ pc \in Loaded
        /\ SettlingInv /\ \A i \in DOMAIN mem.mounts : Live(mem.mounts[i]) \subseteq todo
    BY LoneHas DEF MountsCleaned, CleanMount, At, MountCleanSites, Settling, Loaded, AloneSites
  <1>1. CASE MountsCleaned
    <2>1. /\ pc' = "clean.file" /\ mem' = mem /\ todo = {} /\ table' = table /\ xs' = xs /\ UNCHANGED store
          /\ failed' = failed
      BY <1>1 DEF MountsCleaned, Goto, Quiet, disk, loop
    <2>2. SettlingInv'
      BY <1>0, <2>1, SettlingOn
    <2>3. \A i \in DOMAIN mem.mounts : Live(mem.mounts[i]) = {}
      BY <1>0, <2>1
    <2>4. AloneSites'
      BY <2>1, <2>2, <2>3 DEF AloneSites, MountCleanSites, AfterMounts, AfterFile, FileSites, XSites, AfterX
    <2>5. pc' \in Loaded
      BY <2>1 DEF Loaded, Settling, CleanSites
    <2> QED  BY <1>0, <2>1, <2>4, <2>5, LoneQuiet
  <1>2. CASE CleanMount
    <2>0. /\ todo # {} /\ Target \in todo /\ Target.req \in DOMAIN mem.mounts /\ Stage(Target) \in OwnedStages
          /\ OwnedFit(table, mem.mounts[Target.req], Target)
      BY <1>0, <1>2, TargetHas DEF CleanMount
    <2>1. CASE Stage(Target) = "removed"
      <3>1. /\ todo' = todo \ {Target} /\ pc' = "clean.mount" /\ mem' = mem /\ table' = table /\ xs' = xs
            /\ UNCHANGED store /\ failed' = failed
        BY <1>2, <2>1 DEF CleanMount, Goto, disk
      <3>2. SettlingInv'
        BY <1>0, <3>1, SettlingOn
      <3>3. \A i \in DOMAIN mem.mounts : Target \notin Live(mem.mounts[i])
        <4>1. \A i \in DOMAIN mem.mounts : Target \in Owned(mem.mounts[i]) => i = Target.req
          BY OwnReq DEF LoneInv
        <4> QED  BY <2>1, <4>1 DEF Live, Stage
      <3>4. AloneSites'
        BY <1>0, <3>1, <3>2, <3>3, MountsSites
      <3> QED  BY <1>0, <3>1, <3>4, LoneQuiet
    <2>2. ASSUME NEW s \in {"unmounting", "removed"}, PutOwned(Target, s), Quiet,
                 IF s = "removed" THEN pc' = "clean.mount" ELSE pc' = "clean.umount" /\ Target \in table,
                 s = "unmounting" => PathIn(table, Target.req, Target.at) \subseteq {Target},
                 s = "removed" => PathIn(table, Target.req, Target.at) = {}
          PROVE  AloneInv' /\ LeftInv'
      <3>1. table' = table /\ xs' = xs /\ UNCHANGED store /\ failed' = failed /\ todo' = todo /\ s \in OwnedStages
        BY <2>2 DEF Quiet, disk, loop, OwnedStages
      <3>2. /\ RecordFits(table, xs, mem') /\ SettlingInv'
            /\ \A i \in DOMAIN mem'.mounts : Live(mem'.mounts[i]) \subseteq todo
        BY <1>0, <2>0, <2>2, <3>1, OwnedPutFits
      <3>3. Target' = Target /\ pc' \in MountCleanSites /\ pc' # "clean.umounted"
        BY <2>2, <3>1 DEF Target, MountCleanSites
      <3>4. AloneSites'
        BY <2>2, <3>1, <3>2, <3>3, MountsSites
      <3>5. pc' \in Loaded
        BY <3>3 DEF Loaded, Settling
      <3> QED  BY <1>0, <3>1, <3>2, <3>4, <3>5, LoneQuiet
    <2>3. Target \in PathIn(table, Target.req, Target.at) <=> Target \in table
      BY DEF PathIn
    <2>4. CASE Stage(Target) = "unmounting" /\ Target \notin table
      <3>1. PathIn(table, Target.req, Target.at) = {}
        BY <2>0, <2>3, <2>4 DEF OwnedFit, Stage
      <3>2. PutOwned(Target, "removed") /\ Quiet /\ pc' = "clean.mount"
        BY <1>2, <2>4, <3>1, ScopesAre DEF CleanMount, Save
      <3> QED  BY <2>2, <3>1, <3>2
    <2>5. CASE Stage(Target) = "owned" \/ (Stage(Target) = "unmounting" /\ Target \in table)
      <3>1. PathIn(table, Target.req, Target.at) \subseteq {Target} /\ Target \in table
        BY <2>0, <2>3, <2>5 DEF OwnedFit, Stage
      <3>2. PutOwned(Target, "unmounting") /\ Quiet /\ pc' = "clean.umount"
        BY <1>2, <2>5, <3>1 DEF CleanMount, Save
      <3> QED  BY <2>2, <3>1, <3>2
    <2> QED  BY <2>0, <2>1, <2>4, <2>5 DEF OwnedStages
  <1> QED  BY <1>1, <1>2

LEMMA CleanUmountLone ==
  ASSUME LoneInv, Alone', CleanUmount
  PROVE  AloneInv' /\ LeftInv'
  <1>0. pc = "clean.umount" /\ io = "idle" /\ pc \in MountCleanSites
    BY DEF CleanUmount, At, MountCleanSites
  <1>1. todo # {} /\ Stage(Target) = "unmounting" /\ Target \in table
    BY <1>0, LoneHas DEF CloseHere, AloneSites
  <1> DEFINE k == Target.req
             p == mem.mounts[k]
  <1>2. /\ Target \in Mount /\ k \in DOMAIN mem.mounts /\ Target \in Owned(p) /\ p.stage = "owned"
        /\ OwnedFit(table, p, Target) /\ ScopeIn(table, k) \subseteq Owned(p)
        /\ \A i \in DOMAIN mem.mounts : Live(mem.mounts[i]) \subseteq todo
        /\ \A n \in todo : ~Deeper(n, Target)
        /\ SettlingInv /\ pc \in Loaded /\ pc # "clean.xverify"
    BY <1>0, <1>1, TargetHas
  <1>3. PathIn(table, k, Target.at) = {Target}
    <2>1. PathIn(table, k, Target.at) \subseteq {Target}
      BY <1>1, <1>2 DEF OwnedFit, Stage
    <2> QED  BY <1>1, <2>1 DEF PathIn
  <1>4. /\ Command(table' = Unmounted(Target), UNCHANGED table) /\ snap' = table /\ pc' = "clean.umounted"
        /\ xs' = xs /\ UNCHANGED store /\ mem' = mem /\ todo' = todo /\ failed' = failed
    BY <1>3, ScopesAre DEF CleanUmount, Umount, Goto
  <1>5. PlanFits(table, p, k) /\ p \in PlanType
    BY <1>2, LoneHas DEF RecordFits, PlansFit
  <1>6. Target.at = "root" => AtPath(k, "sub") = {}
    <2> SUFFICES ASSUME Target.at = "root", NEW n \in AtPath(k, "sub")  PROVE FALSE
      OBVIOUS
    <2>1. n \in table /\ n.req = k /\ n.at = "sub" /\ n \in Owned(p)
      BY <1>2 DEF AtPath, ScopeIn
    <2>2. OwnedFit(table, p, n) /\ n \in PathIn(table, n.req, n.at)
      BY <1>2, <1>5, <2>1 DEF PlanFits, PathIn
    <2>3. p.owned[n] \in OwnedStages
      BY <1>5, <2>1, PlanHas
    <2>4. n \in Live(p)
      BY <2>1, <2>2, <2>3 DEF OwnedFit, Live, OwnedStages
    <2>5. n \in todo /\ Deeper(n, Target)
      BY <1>2, <2>1, <2>4 DEF Deeper
    <2> QED  BY <1>2, <2>5
  <1>7. table' = table \ {Target}
    <2>1. table' = Unmounted(Target)
      BY <1>4, CommandSaved DEF Alone, LoneInv
    <2> QED  BY <1>6, <2>1 DEF Unmounted
  <1>8. ASSUME NEW i \in DOMAIN mem.mounts  PROVE PlanFits(table', mem.mounts[i], i)
    <2>1. PlanFits(table, mem.mounts[i], i)
      BY LoneHas DEF RecordFits, PlansFit
    <2>2. CASE i # k
      <3>1. ScopeIn(table', i) = ScopeIn(table, i)
        BY <1>7, <2>2 DEF ScopeIn
      <3>2. \A m \in Owned(mem.mounts[i]) : m.req = i
        BY OwnReq DEF LoneInv
      <3> QED  BY <2>1, <3>1, <3>2, PlanLocal
    <2>3. CASE i = k
      <3>1. ASSUME NEW m \in Owned(p)  PROVE OwnedFit(table', p, m)
        <4>1. OwnedFit(table, p, m)
          BY <1>2, <1>5, <3>1 DEF PlanFits
        <4>2. PathIn(table', m.req, m.at) = PathIn(table, m.req, m.at) \ {Target}
          BY <1>7 DEF PathIn
        <4>3. p.owned[m] = "owned" => m # Target
          BY <1>1 DEF Stage
        <4> QED  BY <4>1, <4>2, <4>3 DEF OwnedFit
      <3>2. ScopeIn(table', k) \subseteq Owned(p)
        BY <1>2, <1>7 DEF ScopeIn
      <3> QED  BY <1>2, <1>5, <2>3, <3>1, <3>2 DEF PlanFits
    <2> QED  BY <2>2, <2>3
  <1>9. RecordFits(table', xs', mem) /\ \A m \in table' : m.by = "session"
    BY <1>4, <1>7, <1>8, LoneHas DEF RecordFits, PlansFit
  <1>10. SettlingInv'
    BY <1>2, <1>4, SettlingOn
  <1>11. Target' = Target /\ snap' \ table' = {Target} /\ There(Target)' = {}
    <2>1. Target' = Target
      BY <1>4 DEF Target
    <2>2. PathIn(table', k, Target.at) = {}
      BY <1>3, <1>7 DEF PathIn
    <2> QED  BY <1>1, <1>4, <1>7, <2>1, <2>2 DEF There, AtPath, PathIn
  <1>12. pc' \in MountCleanSites /\ pc' \in Loaded
    BY <1>4 DEF MountCleanSites, Settling, Loaded
  <1>13. AloneSites'
    BY <1>2, <1>4, <1>10, <1>11, <1>12, MountsSites
  <1> QED  BY <1>0, <1>2, <1>4, <1>9, <1>12, <1>13, LoneStep

LEMMA CleanUmountedLone ==
  ASSUME LoneInv, CleanUmounted
  PROVE  AloneInv' /\ LeftInv'
  <1>0. pc = "clean.umounted" /\ io = "idle" /\ pc \in MountCleanSites
    BY DEF CleanUmounted, At, MountCleanSites
  <1>1. todo # {} /\ snap \ table = {Target} /\ There(Target) = {}
    BY <1>0, LoneHas DEF CloseHere, AloneSites
  <1>2. /\ PutOwned(Target, "removed") /\ pc' = "clean.mount" /\ table' = table /\ xs' = xs /\ UNCHANGED store
        /\ todo' = todo /\ failed' = failed
    BY <1>1, LoneOk DEF CleanUmounted, Save, disk
  <1>3. /\ RecordFits(table, xs, mem') /\ SettlingInv'
        /\ \A i \in DOMAIN mem'.mounts : Live(mem'.mounts[i]) \subseteq todo
    <2>1. "removed" \in OwnedStages /\ PathIn(table, Target.req, Target.at) = {}
      BY <1>1, ScopesAre DEF OwnedStages
    <2> QED  BY <1>0, <1>1, <1>2, <2>1, OwnedPutFits
  <1>4. pc' \in MountCleanSites /\ pc \in Loaded /\ pc' \in Loaded
    BY <1>0, <1>2 DEF MountCleanSites, Settling, Loaded
  <1>5. AloneSites'
    BY <1>2, <1>3, <1>4, MountsSites
  <1> QED  BY <1>0, <1>2, <1>3, <1>4, <1>5, LoneQuiet

--------------------------------------------------------------------------------
(* The cleanup of a session that is alone: file, directories and X access *)

\* What is asked of the places after the mounts.
LEMMA LaterSites ==
  ASSUME LoneInv, pc \in AfterMounts, pc' \in AfterMounts, mem'.mounts = mem.mounts,
         pc' \in Settling => SettlingInv',
         pc' = "clean.xverify" => xs' = "absent",
         pc' \in AfterFile => mem'.art \in Gone,
         pc' \in AfterFile => \A k \in Places : k >= cur' => mem'.dirs[k].stage \in Gone,
         pc' = "clean.rmdir" => dirs'[Slot'] = SlotPath',
         pc' \in AfterX => mem'.x.stage \notin {"grant-planned", "owned", "revoking"}
  PROVE  AloneSites'
  <1>1. \A i \in DOMAIN mem'.mounts : Live(mem'.mounts[i]) = {}
    BY LoneHas DEF AloneSites
  <1> QED  BY <1>1 DEF AloneSites, MountCleanSites, AfterMounts, AfterFile, FileSites, XSites, AfterX

\* A step between them that neither mounts nor grants.
LEMMA LaterLone ==
  ASSUME LoneInv, pc \in AfterMounts \ {"clean.remove", "clean.xverify"}, io = "idle",
         pc' \in AfterMounts \ {"clean.xverify"}, UNCHANGED store, failed' = failed,
         table' = table, xs' = xs, mem'.mounts = mem.mounts, mem'.x = mem.x,
         pc' \in AfterFile => mem'.art \in Gone,
         pc' \in AfterFile => \A k \in Places : k >= cur' => mem'.dirs[k].stage \in Gone,
         pc' = "clean.rmdir" => dirs'[Slot'] = SlotPath',
         pc' \in AfterX => mem'.x.stage \notin {"grant-planned", "owned", "revoking"}
  PROVE  AloneInv' /\ LeftInv'
  <1>1. pc \in Settling /\ pc \in Loaded /\ pc' \in Loaded
    BY DEF AfterMounts, AfterFile, FileSites, XSites, AfterX, Settling, Loaded, CleanSites
  <1>2. SettlingInv'
    <2>1. SettlingInv
      BY <1>1, LoneHas DEF AloneSites
    <2> QED  BY <2>1, SettlingOn
  <1>3. AloneSites'
    BY <1>2, LaterSites
  <1>4. RecordFits(table, xs, mem')
    BY LoneHas, SameFits
  <1> QED  BY <1>1, <1>3, <1>4, LoneQuiet

\* _cleanup_artifact.
LEMMA CleanFileLone ==
  ASSUME LoneInv, CleanFile \/ CleanUnlink
  PROVE  AloneInv' /\ LeftInv'
  <1>0. /\ pc \in FileSites /\ io = "idle" /\ pc \in AfterMounts \ {"clean.remove", "clean.xverify"}
        /\ UNCHANGED store /\ failed' = failed /\ table' = table /\ xs' = xs /\ cur' = cur
    BY DEF CleanFile, CleanUnlink, At, FileSites, AfterMounts, PutFile, Quiet, disk, loop
  <1>1. mem \in StateType /\ cur = NumRequests + 1
    BY <1>0, LoneHas DEF Typed, CloseHere
  <1>2. CASE mem.art \in Gone /\ pc' = "clean.dir" /\ mem' = mem
    <2>1. \A k \in Places : ~(k >= cur')
      BY <1>0, <1>1 DEF Places
    <2>2. pc' \in AfterMounts \ {"clean.xverify"} /\ pc' \notin AfterX /\ pc' # "clean.rmdir"
      BY <1>2 DEF AfterMounts, AfterFile, AfterX
    <2> QED  BY <1>0, <1>2, <2>1, <2>2, LaterLone
  <1>3. CASE pc' \in FileSites /\ \E a : PutArt(a)
    <2>1. mem'.mounts = mem.mounts /\ mem'.x = mem.x
      BY <1>1, <1>3, OtherFields DEF PutArt
    <2>2. pc' \in AfterMounts \ {"clean.xverify"} /\ pc' \notin AfterFile /\ pc' # "clean.rmdir" /\ pc' \notin AfterX
      BY <1>3 DEF AfterMounts, AfterFile, AfterX, XSites, FileSites
    <2> QED  BY <1>0, <2>1, <2>2, LaterLone
  <1> QED  BY <1>2, <1>3 DEF CleanFile, CleanUnlink, Goto, Save, Gone, FileSites

\* Nothing is mounted any more, and no resource is active in a directory.
LEMMA NotBusy ==
  ASSUME LoneInv, pc \in {"clean.dir", "clean.rmdir"}
  PROVE  /\ table = {} /\ (cur > 0 => ~Busy(Slot))
         /\ mem.art \in Gone /\ \A k \in Places : k >= cur => mem.dirs[k].stage \in Gone
  <1>1. pc \in Settling /\ pc \in AfterMounts /\ pc \in AfterFile
    BY DEF Settling, CleanSites, AfterMounts, AfterFile
  <1>2. /\ \A i \in DOMAIN mem.mounts : Live(mem.mounts[i]) = {}
        /\ mem.art \in Gone /\ \A k \in Places : k >= cur => mem.dirs[k].stage \in Gone
    BY <1>1, LoneHas DEF AloneSites
  <1>3. table = {}
    BY <1>1, <1>2, LoneHas DEF MemInv, Claims
  <1>4. ASSUME cur > 0  PROVE ~Busy(Slot)
    <2>1. Slot \in Nat /\ (Slot > 0 /\ Slot <= Len(mem.mounts) => Slot \in DOMAIN mem.mounts)
      BY <1>4, SlotIs, PlaceIs, StateHas DEF Typed, LoneInv
    <2> QED  BY <1>2, <1>3, <2>1 DEF Busy, Gone
  <1> QED  BY <1>2, <1>3, <1>4

\* A record in which the stage of the directory at hand is written.
LEMMA SlotPut ==
  ASSUME TypeInv, cur > 0, NEW s, PutSlot(s)
  PROVE  /\ mem'.mounts = mem.mounts /\ mem'.x = mem.x /\ mem'.art = mem.art
         /\ mem'.dirs[Slot].renamed = mem.dirs[Slot].renamed /\ mem'.dirs[Slot].stage = s
         /\ \A k \in Places : k # Slot => mem'.dirs[k] = mem.dirs[k]
  <1>1. mem \in StateType /\ mem.dirs \in [Places -> DirType] /\ Slot \in Places
    BY PlaceIs, SlotIs DEF Typed
  <1>2. mem'.dirs = [mem.dirs EXCEPT ![Slot].stage = s]
    BY <1>1 DEF PutSlot, StateType
  <1>3. mem'.mounts = mem.mounts /\ mem'.x = mem.x /\ mem'.art = mem.art
    BY <1>1 DEF PutSlot, StateType
  <1> QED  BY <1>1, <1>2, <1>3 DEF DirType

\* _cleanup_directory.
LEMMA CleanDirLone ==
  ASSUME LoneInv, DirsCleaned \/ CleanDirSkip \/ CleanDir \/ CleanRmdir
  PROVE  AloneInv' /\ LeftInv'
  <1>0. /\ pc \in {"clean.dir", "clean.rmdir"} /\ io = "idle"
        /\ pc \in AfterMounts \ {"clean.remove", "clean.xverify"} /\ pc \in Settling
        /\ cur \in Nat /\ \A k \in Places : k \in Nat
    BY PlaceIs DEF DirsCleaned, CleanDirSkip, CleanDir, CleanRmdir, At, AfterMounts, AfterFile, Settling,
                   CleanSites, LoneInv, TypeInv, LoopType
  <1>1. /\ table = {} /\ (cur > 0 => ~Busy(Slot))
        /\ mem.art \in Gone /\ \A k \in Places : k >= cur => mem.dirs[k].stage \in Gone
    BY <1>0, NotBusy
  <1>2. ASSUME pc' \in {"clean.dir", "clean.x"}, mem' = mem, UNCHANGED store, failed' = failed, table' = table,
               xs' = xs, \A k \in Places : k >= cur' => mem.dirs[k].stage \in Gone
        PROVE  AloneInv' /\ LeftInv'
    <2>1. pc' \in AfterMounts \ {"clean.xverify"} /\ pc' \notin AfterX /\ pc' # "clean.rmdir"
      BY <1>2 DEF AfterMounts, AfterFile, AfterX, XSites
    <2> QED  BY <1>0, <1>1, <1>2, <2>1, LaterLone
  <1>3. CASE DirsCleaned
    <2>1. /\ pc' = "clean.x" /\ mem' = mem /\ UNCHANGED store /\ failed' = failed /\ table' = table /\ xs' = xs
          /\ cur' = cur
      BY <1>3 DEF DirsCleaned, Goto, Quiet, disk, loop
    <2> QED  BY <1>1, <1>2, <2>1
  <1>4. CASE CleanDirSkip
    <2>1. /\ pc' = "clean.dir" /\ mem' = mem /\ UNCHANGED store /\ failed' = failed /\ table' = table /\ xs' = xs
          /\ cur' = cur - 1 /\ cur > 0 /\ mem.dirs[Slot].stage \in Gone
      BY <1>1, <1>4 DEF CleanDirSkip, Goto, disk, Gone
    <2>2. \A k \in Places : k >= cur' => k >= cur \/ k = Slot
      BY <1>0, <2>1 DEF Slot
    <2> QED  BY <1>1, <1>2, <2>1, <2>2
  <1>5. ASSUME NEW s \in {"removing", "removed"}, cur > 0, PutSlot(s), UNCHANGED store, failed' = failed,
               table' = table, xs' = xs, cur' = cur, pc' = IF s = "removed" THEN "clean.dir" ELSE "clean.rmdir",
               s = "removing" => dirs' = dirs /\ dirs[Slot] = SlotPath
        PROVE  AloneInv' /\ LeftInv'
    <2>1. /\ mem'.mounts = mem.mounts /\ mem'.x = mem.x /\ mem'.art = mem.art
          /\ mem'.dirs[Slot].renamed = mem.dirs[Slot].renamed
          /\ \A k \in Places : k # Slot => mem'.dirs[k] = mem.dirs[k]
      BY <1>5, SlotPut DEF LoneInv
    <2>2. \A k \in Places : k >= cur' => mem'.dirs[k].stage \in Gone
      BY <1>0, <1>1, <1>5, <2>1 DEF Slot
    <2>3. pc' = "clean.rmdir" => dirs'[Slot'] = SlotPath'
      <3>1. Slot' = Slot
        BY <1>5 DEF Slot
      <3> QED  BY <1>5, <2>1, <3>1 DEF SlotPath
    <2>4. pc' \in AfterMounts \ {"clean.xverify"} /\ pc' \notin AfterX
      BY <1>5 DEF AfterMounts, AfterFile, AfterX
    <2> QED  BY <1>0, <1>1, <1>5, <2>1, <2>2, <2>3, <2>4, LaterLone
  <1>6. CASE CleanDir
    <2>1. /\ cur > 0 /\ mem.dirs[Slot].stage \notin {"none", "removed"}
          /\ UNCHANGED store /\ failed' = failed /\ table' = table /\ xs' = xs /\ cur' = cur /\ dirs' = dirs
          /\ \/ PutSlot("removed") /\ pc' = "clean.dir"
             \/ /\ ~(mem.dirs[Slot].stage = "removing" /\ dirs[Slot] = "none")
                /\ PutSlot("removing") /\ pc' = "clean.rmdir"
      BY <1>6 DEF CleanDir, Save, Quiet, disk, loop
    <2>2. ASSUME ~(mem.dirs[Slot].stage = "removing" /\ dirs[Slot] = "none")
          PROVE  dirs[Slot] = SlotPath
      <3> DEFINE d == mem.dirs[Slot]
      <3>1. Slot \in Places /\ d \in DirType
        BY <2>1, SlotIs DEF LoneInv
      <3>2. DirFits(dirs[Slot], d) /\ DirShape(d)
        BY <3>1, LoneHas DEF DirsFit, Shape
      <3>3. d.stage # "planned" /\ (d.stage = "rename-planned" => dirs[Slot] = "staging")
        BY <1>0, <3>1, LoneHas DEF DirHere
      <3>4. d.stage \in {"staged", "rename-planned", "created", "removing"}
        BY <2>1, <3>1, <3>3 DEF DirType, DirStages
      <3> QED  BY <2>2, <3>2, <3>3, <3>4 DEF DirFits, DirShape, ValidDir, SlotPath
    <2> QED  BY <1>5, <2>1, <2>2
  <1>7. CASE CleanRmdir
    <2>1. pc = "clean.rmdir"
      BY <1>7 DEF CleanRmdir, At
    <2>2. dirs[Slot] = SlotPath /\ cur > 0
      BY <2>1, LoneHas DEF AloneSites, CloseHere
    <2>3. /\ PutSlot("removed") /\ pc' = "clean.dir" /\ UNCHANGED store /\ failed' = failed /\ table' = table
          /\ xs' = xs /\ cur' = cur
      BY <1>1, <1>7, <2>2 DEF CleanRmdir, Save, loop
    <2> QED  BY <1>5, <2>2, <2>3
  <1> QED  BY <1>3, <1>4, <1>6, <1>7

\* _cleanup_x_access.
LEMMA CleanXLone ==
  ASSUME LoneInv, Alone', CleanX \/ CleanXRun \/ CleanXVerify
  PROVE  AloneInv' /\ LeftInv'
  <1>0. /\ pc \in XSites /\ io = "idle" /\ pc \in AfterMounts /\ pc \in AfterFile /\ pc \in Settling /\ pc \in Loaded
    BY DEF CleanX, CleanXRun, CleanXVerify, At, XSites, AfterMounts, AfterFile, Settling, Loaded, CleanSites
  <1>1. /\ SettlingInv /\ mem.art \in Gone /\ \A k \in Places : k >= cur => mem.dirs[k].stage \in Gone
        /\ mem \in StateType /\ mem.x \in XType /\ XFits(xs, mem.x) /\ PlansFit(table, mem.mounts)
        /\ \A m \in table : m.by = "session"
    BY <1>0, LoneHas, PlaceIs DEF AloneSites, RecordFits, LoneInv, Typed
  <1>2. ASSUME NEW s \in {"revoking", "restored"}, PutX(s), UNCHANGED store, failed' = failed, table' = table,
               xs' = xs, cur' = cur, pc' = IF s = "revoking" THEN "clean.xrun" ELSE "clean.x",
               s = "revoking" => Local
        PROVE  AloneInv' /\ LeftInv'
    <2> DEFINE q == [mem.x EXCEPT !.stage = s]
    <2>1. q.stage = s
      BY <1>1 DEF XType
    <2>2. mem' = [mem EXCEPT !.x = q]
      BY <1>2 DEF PutX
    <2> HIDE DEF q
    <2>3. mem'.mounts = mem.mounts /\ mem'.x = q /\ mem'.dirs = mem.dirs /\ mem'.art = mem.art
      BY <1>1, <2>2, OtherFields
    <2>4. RecordFits(table, xs, mem')
      BY <1>1, <1>2, <2>1, <2>3 DEF RecordFits, XFits, Local
    <2>5. SettlingInv'
      BY <1>1, <1>2, <2>1, <2>3 DEF SettlingInv, Local
    <2>6. pc' \in AfterMounts /\ pc' \in Loaded /\ pc' # "clean.xverify" /\ pc' \notin AfterX /\ pc' # "clean.rmdir"
      BY <1>2 DEF AfterMounts, AfterFile, XSites, AfterX, Loaded, Settling, CleanSites
    <2>7. AloneSites'
      BY <1>0, <1>1, <1>2, <2>3, <2>5, <2>6, LaterSites
    <2> QED  BY <1>0, <1>2, <2>4, <2>6, <2>7, LoneQuiet
  <1>3. CASE CleanX
    <2>1. /\ pc = "clean.x" /\ UNCHANGED store /\ failed' = failed /\ table' = table /\ xs' = xs /\ cur' = cur
          /\ \/ mem.x.stage = "owned" /\ PutX("revoking") /\ pc' = "clean.xrun"
             \/ mem' = mem /\ pc' = "clean.xrun"
             \/ mem' = mem /\ mem.x.stage \notin {"owned", "revoking"} /\ pc' = "clean.final"
      BY <1>3 DEF CleanX, At, Save, Goto, Quiet, disk, loop
    <2>2. mem.x.stage = "owned" => Local
      BY <1>1 DEF XFits, Local
    <2>3. mem.x.stage # "grant-planned"
      BY <1>1 DEF SettlingInv
    <2>4. ASSUME mem' = mem, pc' = "clean.xrun" \/ (pc' = "clean.final" /\ mem.x.stage \notin {"owned", "revoking"})
          PROVE  AloneInv' /\ LeftInv'
      <3>1. /\ pc \in AfterMounts \ {"clean.remove", "clean.xverify"} /\ pc' \in AfterMounts \ {"clean.xverify"}
            /\ pc' # "clean.rmdir"
        BY <1>0, <2>1, <2>4 DEF AfterMounts, AfterFile, XSites, AfterX
      <3>2. pc' \in AfterX => mem'.x.stage \notin {"grant-planned", "owned", "revoking"}
        BY <2>3, <2>4 DEF AfterX
      <3> QED  BY <1>0, <1>1, <2>1, <2>4, <3>1, <3>2, LaterLone
    <2> QED  BY <1>2, <2>1, <2>2, <2>4
  <1>4. CASE CleanXRun
    <2>1. pc = "clean.xrun"
      BY <1>4 DEF CleanXRun, At
    <2>2. mem.x.stage = "revoking" /\ Local
      BY <1>1, <2>1, LoneHas DEF CloseHere, SettlingInv
    <2>3. /\ Command(xs' = "absent", UNCHANGED xs) /\ pc' = "clean.xverify" /\ table' = table /\ UNCHANGED store
          /\ mem' = mem /\ failed' = failed /\ cur' = cur
      BY <1>4, <2>2 DEF CleanXRun, Goto
    <2>4. xs' = "absent"
      BY <2>3, CommandSaved DEF LoneInv, Alone
    <2>5. RecordFits(table', xs', mem) /\ RecordFits(table', xs', mem')
      BY <1>1, <2>2, <2>3, <2>4 DEF RecordFits, XFits
    <2>6. SettlingInv'
      BY <1>1, <2>3 DEF SettlingInv
    <2>7. pc' \in AfterMounts /\ pc' \in Loaded /\ pc' \notin AfterX
      BY <2>3 DEF AfterMounts, AfterFile, XSites, AfterX, Loaded, Settling, CleanSites
    <2>8. AloneSites'
      BY <1>0, <1>1, <2>3, <2>4, <2>6, <2>7, LaterSites
    <2> QED  BY <1>0, <1>1, <2>3, <2>5, <2>7, <2>8, LoneStep
  <1>5. CASE CleanXVerify
    <2>1. pc = "clean.xverify"
      BY <1>5 DEF CleanXVerify, At
    <2>2. xs = "absent" /\ mem.x.before = "absent"
      BY <2>1, LoneHas DEF AloneSites, CloseHere, Shape, XShape
    <2>3. /\ PutX("restored") /\ pc' = "clean.x" /\ UNCHANGED store /\ failed' = failed /\ table' = table
          /\ xs' = xs /\ cur' = cur
      BY <1>5, <2>2, LoneOk DEF CleanXVerify, Save, Quiet, disk, loop
    <2> QED  BY <1>2, <2>3
  <1> QED  BY <1>3, <1>4, <1>5

\* It finds nothing left that is active, and takes its journal away.
LEMMA CleanFinalLone ==
  ASSUME LoneInv, CleanFinal
  PROVE  AloneInv' /\ LeftInv'
  <1>0. /\ pc = "clean.final" /\ io = "idle" /\ pc \in AfterMounts \ {"clean.remove", "clean.xverify"}
        /\ pc \in AfterFile /\ pc \in AfterX /\ pc \in Settling
    BY DEF CleanFinal, At, AfterMounts, AfterFile, AfterX, Settling, CleanSites
  <1>1. /\ SettlingInv /\ mem.art \in Gone /\ mem.x.stage \notin {"grant-planned", "owned", "revoking"}
        /\ \A k \in Places : k >= cur => mem.dirs[k].stage \in Gone
        /\ \A i \in DOMAIN mem.mounts : Live(mem.mounts[i]) = {}
        /\ failed = FALSE /\ mem \in StateType /\ cur = 0 /\ \A k \in Places : k \in Nat
    BY <1>0, LoneHas, PlaceIs DEF AloneSites, CloseHere, LoneInv, Typed
  <1>2. ~Active(mem)
    <2>1. \A k \in Places : mem.dirs[k].stage \in Gone
      BY <1>1
    <2> QED  BY <1>1, <2>1 DEF Active, SettlingInv, Gone
  <1>3. /\ mem' = [mem EXCEPT !.phase = "complete"] /\ pc' = "clean.remove" /\ UNCHANGED store /\ failed' = failed
        /\ table' = table /\ xs' = xs /\ cur' = cur
    BY <1>1, <1>2 DEF CleanFinal, Save, Quiet, disk, loop
  <1>4. mem'.mounts = mem.mounts /\ mem'.x = mem.x /\ mem'.dirs = mem.dirs /\ mem'.art = mem.art
    BY <1>1, <1>3, OtherFields
  <1>5. pc' \in AfterMounts \ {"clean.xverify"} /\ pc' # "clean.rmdir"
    BY <1>3 DEF AfterMounts, AfterFile, AfterX
  <1> QED  BY <1>0, <1>1, <1>3, <1>4, <1>5, LaterLone

LEMMA RemoveJournalLone ==
  ASSUME LoneInv, RemoveJournal
  PROVE  AloneInv' /\ LeftInv'
  <1>0. /\ table' = table /\ xs' = xs /\ journal' = NoJournal /\ pending' = NoJournal
    BY DEF RemoveJournal, disk
  <1>1. CASE Exit
    <2>1. pc' = "idle" /\ mem' = NoJournal /\ failed' = FALSE
      BY <1>1 DEF Exit, Goto
    <2>2. pc' \notin Loaded
      BY <2>1, SitesApart
    <2>3. NoJournal' = NoJournal
      BY NothingShaped
    <2> QED  BY <1>0, <2>1, <2>2, <2>3, LoneMove, LeftSites DEF LeftInv
  <1>2. CASE ~Exit
    <2>1. mem' = Fresh /\ pc' = "body" /\ failed' = failed
      BY <1>2 DEF RemoveJournal, Save, loop
    <2>2. pc' \in Opened /\ pc' \in Loaded
      BY <2>1 DEF Opened, Loaded
    <2> QED  BY <1>0, <2>1, <2>2, LoneMove, OpenSites DEF LeftInv
  <1> QED  BY <1>1, <1>2

--------------------------------------------------------------------------------
(* Every step of a session that is alone *)

\* Nobody is alone any more after a failed call or a change by the host.
LEMMA AloneBefore ==
  ASSUME TypeInv, [Next]_vars, Alone'
  PROVE  Alone /\ ~Fault /\ ~Host
  <1>0. faults \in Nat /\ host \in Nat /\ faults' = 0 /\ host' = 0
    BY DEF TypeInv, BoundType, Alone
  <1>1. ~Fault
    <2>1. Fault => faults' = faults + 1
      BY DEF Fault
    <2> QED  BY <1>0, <2>1
  <1>2. ~Host
    <2>1. Host => host' = host + 1
      BY DEF Host
    <2> QED  BY <1>0, <2>1
  <1> SUFFICES Alone
    BY <1>1, <1>2
  <1>3. UNCHANGED bounds => Alone
    BY <1>0 DEF bounds, Alone
  <1>4. CASE UNCHANGED vars
    BY <1>3, <1>4 DEF vars
  <1>5. CASE Raise
    BY <1>3, <1>5 DEF Raise
  <1>6. CASE (\E k \in Kinds : Start(k)) \/ (Enter /\ ~Raise)
    <2>1. UNCHANGED bounds
      BY <1>6 DEF Start, Enter, EnterReconcile, EnterLoad, Body, Abort, Quiet
    <2> QED  BY <1>3, <2>1
  <1>7. CASE EnsureDirectory \/ StageFile \/ Work
    <2>1. UNCHANGED bounds
      BY <1>7 DEF EnsureDirectory, StageDir, DirPlan, DirMake, DirMode, DirStaged, DirRename, DirMove,
                  DirDone, MoveDir, StageFile, StagePlan, StageCreate, StageRecord, StageCopy, StageRest,
                  PutFile, Work, Quiet
    <2> QED  BY <1>3, <2>1
  <1>8. CASE GrantX /\ ~Raise
    <2>1. CASE XMutate
      BY <1>0, <1>3, <1>8, <2>1, CommandSaved DEF XMutate
    <2>2. CASE XQuery \/ XVerify
      BY <1>3, <1>8, <2>2 DEF XQuery, XVerify, Quiet
    <2> QED  BY <1>8, <2>1, <2>2 DEF GrantX
  <1>9. CASE AcquireMount /\ ~Raise
    <2>1. CASE MountRun
      BY <1>0, <1>3, <2>1, CommandSaved DEF MountRun
    <2>2. CASE MountPlan \/ MountsDone \/ MountCheck \/ MountAfter
      BY <1>3, <1>9, <2>2 DEF MountPlan, MountsDone, MountCheck, MountAfter, Quiet
    <2> QED  BY <1>9, <2>1, <2>2 DEF AcquireMount
  <1>10. CASE Cleanup /\ ~Raise
    <2>1. CASE CleanUmount
      BY <1>0, <1>3, <1>10, <2>1, CommandSaved DEF CleanUmount, Umount
    <2>2. CASE CleanXRun
      BY <1>0, <1>3, <1>10, <2>2, CommandSaved DEF CleanXRun
    <2>3. CASE CleanPreflight \/ CleanMark \/ MountsCleaned \/ CleanMount \/ CleanUmounted
      BY <1>3, <1>10, <2>3 DEF CleanPreflight, CleanMark, MountsCleaned, CleanMount, CleanUmounted, Quiet
    <2>4. CASE CleanFile \/ CleanUnlink \/ DirsCleaned \/ CleanDirSkip \/ CleanDir \/ CleanRmdir
      BY <1>3, <1>10, <2>4 DEF CleanFile, CleanUnlink, DirsCleaned, CleanDirSkip, CleanDir, CleanRmdir,
                               PutFile, Quiet
    <2>5. CASE CleanX \/ CleanXVerify \/ CleanFinal \/ RemoveJournal
      BY <1>3, <1>10, <2>5 DEF CleanX, CleanXVerify, CleanFinal, RemoveJournal, Quiet
    <2> QED  BY <1>10, <2>1, <2>2, <2>3, <2>4, <2>5 DEF Cleanup
  <1>11. CASE (WritePending \/ ReplaceJournal) /\ ~Raise
    BY <1>3, <1>11 DEF WritePending, ReplaceJournal
  <1>12. CASE Crash
    BY <1>0, <1>12 DEF Crash, Alone
  <1> QED  BY <1>1, <1>2, <1>4, <1>5, <1>6, <1>7, <1>8, <1>9, <1>10, <1>11, <1>12 DEF Next, Step

LEMMA LoneStutter ==
  ASSUME LoneInv, UNCHANGED vars
  PROVE  AloneInv' /\ LeftInv'
  <1>1. /\ pc' = pc /\ mem' = mem /\ table' = table /\ xs' = xs /\ dirs' = dirs /\ file' = file /\ todo' = todo
        /\ cur' = cur /\ snap' = snap /\ failed' = failed /\ journal' = journal /\ pending' = pending
        /\ crashes' = crashes
    BY DEF vars, disk, store, loop, bounds
  <1>2. AloneInv'
    BY <1>1, SameSites, LoneHas, LoneMove
  <1>3. CASE pc \in Loaded
    BY <1>1, <1>2, <1>3 DEF LeftInv
  <1>4. CASE pc \notin Loaded
    BY <1>1, <1>2, <1>4, LeftKept DEF LoneInv
  <1> QED  BY <1>3, <1>4

LEMMA LoneInitially == Init => AloneInv /\ LeftInv
  <1> SUFFICES ASSUME Init  PROVE AloneInv /\ LeftInv
    OBVIOUS
  <1>1. /\ journal = NoJournal /\ pending = NoJournal /\ mem = NoJournal /\ pc = "idle" /\ table = {}
        /\ failed = FALSE
    BY DEF Init
  <1>2. AloneFits
    <2>1. RecordFits(table, xs, NoJournal)
      BY NothingFits
    <2> QED  BY <1>1, <2>1 DEF AloneFits, RecordFits
  <1>3. AloneSites
    BY <1>1 DEF AloneSites, Settling, MountCleanSites, CleanSites, AfterMounts, AfterFile, FileSites, XSites, AfterX
  <1> QED  BY <1>1, <1>2, <1>3 DEF AloneInv, LeftInv

LEMMA LoneInductive ==
  TypeInv /\ NamedInv /\ OwnInv /\ ShapedInv /\ SavedInv /\ AloneInv /\ LeftInv /\ [Next]_vars
    => AloneInv' /\ LeftInv'
  <1> SUFFICES ASSUME TypeInv, NamedInv, OwnInv, ShapedInv, SavedInv, AloneInv, LeftInv, [Next]_vars
               PROVE  AloneInv' /\ LeftInv'
    OBVIOUS
  <1>0. CASE ~Alone'
    BY <1>0 DEF AloneInv, LeftInv
  <1>a. CASE Alone'
    <2>0. LoneInv /\ ~Fault /\ ~Host
      BY <1>a, AloneBefore DEF LoneInv
    <2>1. CASE UNCHANGED vars
      BY <2>0, <2>1, LoneStutter
    <2>2. CASE Enter \/ \E k \in Kinds : Start(k)
      BY <2>0, <2>2, EnterLone, MakeLone DEF Enter
    <2>3. CASE EnsureDirectory \/ StageFile \/ GrantX \/ Work
      BY <1>a, <2>0, <2>3, MakeLone, GrantXLone
    <2>4. CASE AcquireMount
      BY <1>a, <2>0, <2>4, MakeLone, MountPlanLone, MountCheckLone, MountRunLone, MountAfterLone DEF AcquireMount
    <2>5. CASE Cleanup
      <3>1. CASE CleanPreflight \/ CleanMark \/ MountsCleaned \/ CleanMount \/ CleanUmount \/ CleanUmounted
        BY <1>a, <2>0, <3>1, CleanPreflightLone, CleanMarkLone, CleanMountLone, CleanUmountLone,
           CleanUmountedLone
      <3>2. CASE CleanFile \/ CleanUnlink \/ DirsCleaned \/ CleanDirSkip \/ CleanDir \/ CleanRmdir
        BY <2>0, <3>2, CleanFileLone, CleanDirLone
      <3>3. CASE CleanX \/ CleanXRun \/ CleanXVerify \/ CleanFinal \/ RemoveJournal
        BY <1>a, <2>0, <3>3, CleanXLone, CleanFinalLone, RemoveJournalLone
      <3> QED  BY <2>5, <3>1, <3>2, <3>3 DEF Cleanup
    <2>6. CASE WritePending \/ ReplaceJournal \/ Crash
      BY <2>0, <2>6, PersistLone, CrashLone
    <2> QED  BY <2>0, <2>1, <2>2, <2>3, <2>4, <2>5, <2>6 DEF Next, Step
  <1> QED  BY <1>0, <1>a

\* What the invariant says of an idle journal is that the next session accepts it.
HandOverInv == TypeInv /\ NamedInv /\ OwnInv /\ HandInv
LEMMA HandOverGives == HandOverInv => SessionsHandOver
  <1> SUFFICES ASSUME HandOverInv  PROVE SessionsHandOver
    OBVIOUS
  <1>1. WritesValidRecords /\ PendingAccepted
    BY SavedWrites DEF HandOverInv, HandInv
  <1>2. ASSUME pc = "idle", faults = 0, host = 0  PROVE Accepted(journal)
    <2>1. LoneInv
      BY <1>2 DEF LoneInv, HandOverInv, HandInv, Alone
    <2>2. Typed(journal)
      BY MemTyped DEF HandOverInv
    <2>3. Shape(journal) /\ Names(journal)
      BY DEF HandOverInv, HandInv, ShapedInv, ShapeInv, JournalShape, NamedInv, StoreInv
    <2>4. DirsFit(dirs, journal.dirs) /\ RecordFits(table, xs, journal)
      BY <2>1, LoneHas DEF DirsInv, AloneFits, RecordFits
    <2> QED  BY <2>1, <2>2, <2>3, <2>4, Recoverable DEF Accepted
  <1> QED  BY <1>1, <1>2 DEF SessionsHandOver, JournalRecoverable

LEMMA HandOverInitially == Init => HandOverInv
  BY TypeInitially, NamedInitially, OwnInitially, SavedInitially, LoneInitially DEF HandOverInv, HandInv

LEMMA HandOverInductive == HandOverInv /\ [Next]_vars => HandOverInv'
  <1> SUFFICES ASSUME HandOverInv, [Next]_vars  PROVE HandOverInv'
    OBVIOUS
  <1>0. TypeInv /\ NamedInv /\ OwnInv /\ ShapedInv /\ SavedInv /\ AloneInv /\ LeftInv
    BY DEF HandOverInv, HandInv
  <1>1. TypeInv' /\ NamedInv' /\ OwnInv'
    BY <1>0, TypeInductive, NamedInductive, OwnInductive
  <1>2. ShapedInv' /\ SavedInv'
    BY <1>0, SavedInductive
  <1>3. AloneInv' /\ LeftInv'
    BY <1>0, LoneInductive
  <1> QED  BY <1>1, <1>2, <1>3 DEF HandOverInv, HandInv

\* Wherever a session ends, the next one can go on: it never writes a record
\* its own validator refuses; while no call failed, a whole pending journal is
\* a step the next session accepts; and while the host leaves the resources
\* alone as well, so is the journal and what it finds on disk, after any number
\* of deaths at any place.
THEOREM SessionsHandTheirJournalsOver == Spec => []SessionsHandOver
  <1>1. Init => HandOverInv
    BY HandOverInitially
  <1>2. HandOverInv /\ [Next]_vars => HandOverInv'
    BY HandOverInductive
  <1>3. HandOverInv => SessionsHandOver
    BY HandOverGives
  <1> QED  BY <1>1, <1>2, <1>3, PTL DEF Spec

\* A session that nothing disturbed takes its journal away, but for the file,
\* or the X access, that it could not prove to be its own.
THEOREM UndisturbedLeavesNothing == Spec => []UndisturbedClean
  <1>1. Init => HandOverInv
    BY HandOverInitially
  <1>2. HandOverInv /\ [Next]_vars => HandOverInv'
    BY HandOverInductive
  <1>3. HandOverInv => UndisturbedClean
    <2>1. "idle" \notin Loaded
      BY SitesApart
    <2> QED  BY <2>1 DEF HandOverInv, HandInv, LeftInv, Alone, UndisturbedClean
  <1> QED  BY <1>1, <1>2, <1>3, PTL DEF Spec
==============================================================================
