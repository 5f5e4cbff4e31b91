----------------------------- MODULE RebuildRunProofs -----------------------------
(***************************************************************************)
(* Proofs about RebuildRun for any number of runs, with or without          *)
(* executors, files that cannot be removed, deaths, faults and edits.       *)
(***************************************************************************)
EXTENDS RebuildRun, TLAPS

USE RebuildAssumption

Task == [executor : Executors, missing : BOOLEAN, done : 0..2, raising : BOOLEAN,
         granted : {<<>>, <<Update>>, <<Purge, Install>>}, excuses : SUBSET Excuses]
Publication == [stage : {"none", "candidate", "sealed"}, image : Image \cup {NoImage}]

TypeInv == /\ TypeOK
           /\ pub \in Publication
           /\ edits \in 0..MaxEdits /\ {deaths, faults} \subseteq Nat

\* Packages come with operations of other commands, and no initrd is newer than they.
FsInv == fs.initrd <= fs.packages /\ fs.packages <= edits

\* A run is inside a session exactly while it holds the lock.
SessionInv == \A r \in Runs : session = r <=> at[r] \in InSession

BeforeChroot == {"idle", "recover", "finish", "observe", "purge", "kernelSession"}
AtTarget     == {"chroot", "locale", "target"}

\* How far a run is in its list of commands.
TaskOK(r) ==
  /\ mine[r].raising => at[r] \in {"cleanup", "leave"}
  /\ at[r] = "idle" => mine[r] = Unset(mine[r].executor)
  /\ at[r] \in BeforeChroot => mine[r].done = 0
  /\ at[r] \in AtTarget \/ (at[r] = "cleanup" /\ ~mine[r].raising) =>
       mine[r].done < Len(Commands(mine[r].missing))

\* What a run nobody meddled with finds in the media tree is its own work.
Undisturbed(r) == mine[r].excuses \cap {"media", "kept"} = {}
AfterPurge == AtTarget \cup {"kernelSession", "cleanup", "leave", "copy", "finalSession", "squashfs"}
AfterCopy  == {"finalSession", "squashfs", "manifest", "sums", "image"}
TreeOK(r) ==
  /\ at[r] \in AfterPurge => tree["squashfs"] = {}
  /\ at[r] \in AfterCopy => \E n \in 0..MaxEdits : tree["kernel"] = {[by |-> r, packages |-> n]}
  /\ at[r] \in {"manifest", "sums", "image"} => tree["squashfs"] = {Here(r)}
  /\ at[r] \in {"sums", "image"} => tree["manifest"] = {Here(r)}
  /\ at[r] = "image" => sums = tree

\* From its first target on a kernel that is there is that of the packages.
KernelReady(r) ==
  /\ ~mine[r].raising
  /\ at[r] \in {"cleanup", "leave", "copy"} \/ (at[r] \in AtTarget /\ mine[r].done > 0)
Current == fs.boot => fs.initrd = fs.packages
KernelOK(r) ==
  /\ KernelReady(r) => Current
  /\ at[r] \in AfterCopy => tree["kernel"] = {Here(r)}

RunOK(r) == /\ TaskOK(r)
            /\ Undisturbed(r) => TreeOK(r)
            /\ mine[r].excuses = {} => KernelOK(r)
RunInv == \A r \in Runs : RunOK(r)

IInv == TypeInv /\ FsInv /\ SessionInv /\ RunInv /\ ImageWhole /\ KernelCurrent

\* A run that is alone, step by step.
AloneOK(r) ==
  /\ at[r] # "finish" /\ outcome[r] \notin {"failed", "dead"}
  /\ session \in {r, None} /\ ~mine[r].raising
  /\ lock = IF at[r] \in InTransaction THEN "held" ELSE "free"
  /\ pub.stage = IF at[r] \in {"squashfs", "manifest", "sums", "image", "seal"} THEN "candidate"
                 ELSE IF at[r] = "publish" THEN "sealed" ELSE "none"
  /\ at[r] \in AtTarget \cup {"kernelSession", "cleanup", "leave", "copy"} /\ ~mine[r].missing =>
       fs.boot
  /\ mine[r].missing /\ (at[r] \in {"leave", "copy"} \/ (at[r] = "cleanup" /\ mine[r].done = 1)) =>
       fs.boot
AloneInv == \A r \in Runs \ Granted : Alone(r) => AloneOK(r)
--------------------------------------------------------------------------------
(* What a step of one run does to the others *)

Excuse(q, e) == [mine[q] EXCEPT !.excuses = @ \cup e]

LEMMA ExcuseIs ==
  ASSUME TypeInv, NEW q \in Runs, NEW e \in SUBSET Excuses
  PROVE  /\ Excuse(q, e) \in Task
         /\ Excuse(q, e).excuses = mine[q].excuses \cup e
         /\ Excuse(q, e).raising = mine[q].raising /\ Excuse(q, e).done = mine[q].done
         /\ Excuse(q, e).missing = mine[q].missing /\ Excuse(q, e).executor = mine[q].executor
         /\ Excuse(q, e).granted = mine[q].granted
BY DEF TypeInv, TypeOK, Task, Excuse

LEMMA MeddledAll ==
  ASSUME TypeInv, NEW qs \in SUBSET Runs, NEW e \in SUBSET Excuses
  PROVE  /\ Excused(qs, e) \in [Runs -> Task]
         /\ \A q \in Runs :
              Excused(qs, e)[q] = IF q \in qs /\ Running(q) THEN Excuse(q, e) ELSE mine[q]
<1>1. Excused(qs, e) = [p \in Runs |-> IF p \in qs /\ Running(p) THEN Excuse(p, e) ELSE mine[p]]
  BY DEF Excused, Excuse
<1>2. mine \in [Runs -> Task]
  BY DEF TypeInv, TypeOK, Task
<1> QED
  BY <1>1, <1>2, ExcuseIs

LEMMA Meddled ==
  ASSUME TypeInv, NEW qs \in SUBSET Runs, NEW e \in SUBSET Excuses, NEW q \in Runs
  PROVE  /\ Excused(qs, e)[q] = IF q \in qs /\ Running(q) THEN Excuse(q, e) ELSE mine[q]
         /\ Excused(qs, e) \in [Runs -> Task]
BY MeddledAll

\* One that is not touched.
LEMMA Untouched ==
  ASSUME IInv, NEW q \in Runs, at'[q] = at[q], mine'[q] = mine[q], UNCHANGED <<tree, sums>>,
         fs'.packages = fs.packages, Current => Current'
  PROVE  RunOK(q)'
BY DEF IInv, RunInv, RunOK, TaskOK, Undisturbed, TreeOK, KernelOK, KernelReady, Here

\* One whose tree is meddled with knows it.
LEMMA Disturbed ==
  ASSUME IInv, NEW q \in Runs, at'[q] = at[q], NEW e \in SUBSET Excuses, "media" \in e,
         mine'[q] = IF Running(q) THEN Excuse(q, e) ELSE mine[q]
  PROVE  RunOK(q)'
<1>1. RunOK(q) /\ TypeInv
  BY DEF IInv, RunInv
<1>2. CASE Running(q)
  <2>1. mine'[q] = Excuse(q, e) /\ "media" \in mine'[q].excuses
    BY <1>1, <1>2, ExcuseIs
  <2>2. at[q] # "idle"
    BY <1>2 DEF Running
  <2> QED
    BY <1>1, <2>1, <2>2, ExcuseIs DEF RunOK, TaskOK, Undisturbed
<1>3. CASE ~Running(q)
  BY <1>1, <1>3 DEF RunOK, TaskOK, Running, TreeOK, KernelOK, KernelReady, AfterPurge, AfterCopy,
     AtTarget
<1> QED
  BY <1>2, <1>3

\* What holds after a step of r from what it does to r.
LEMMA StepOf ==
  ASSUME IInv, NEW r \in Runs, TypeInv', FsInv', RunOK(r)', Images' \subseteq Images,
         \A q \in Runs \ {r} : at'[q] = at[q],
         session' = r <=> at'[r] \in InSession,
         session' = session \/ (session \notin Runs \ {r} /\ session' \notin Runs \ {r}),
         \/ /\ UNCHANGED <<tree, sums>> /\ fs'.packages = fs.packages /\ (Current => Current')
            /\ \A q \in Runs \ {r} : mine'[q] = mine[q]
         \/ \A q \in Runs \ {r} :
              mine'[q] = IF Running(q) THEN Excuse(q, {"media"}) ELSE mine[q]
  PROVE  IInv'
<1>1. SessionInv'
  BY DEF IInv, SessionInv
<1>2. ASSUME NEW q \in Runs \ {r} PROVE RunOK(q)'
  <2>1. {"media"} \in SUBSET Excuses
    BY DEF Excuses
  <2> QED
    BY <2>1, Untouched, Disturbed
<1>3. RunInv'
  BY <1>2 DEF RunInv
<1>4. ImageWhole' /\ KernelCurrent'
  BY DEF IInv, ImageWhole, KernelCurrent
<1> QED
  BY <1>1, <1>3, <1>4 DEF IInv

\* What __enter__ and __exit__ keep of a publication is typed and no new image.
LEMMA KeptIs ==
  ASSUME TypeInv
  PROVE  /\ Kept \in Publication /\ NoPublication \in Publication
         /\ Kept.image \in {pub.image, NoImage} /\ NoPublication.image = NoImage
BY DEF TypeInv, Kept, NoPublication, Publication

LEMMA ImagesFrom ==
  ASSUME pub'.image \in {pub.image, NoImage}, final' \in {final, pub.image}
  PROVE  Images' \subseteq Images
BY DEF Images

\* A run that ends, however it does.
LEMMA EndsOK ==
  ASSUME IInv, NEW r \in Runs, NEW how \in Outcomes, Ends(r, how)
  PROVE  /\ at' \in [Runs -> Places] /\ at'[r] = "end" /\ RunOK(r)'
         /\ mine' \in [Runs -> Task] /\ outcome' \in [Runs -> Outcomes]
         /\ \A q \in Runs \ {r} : at'[q] = at[q] /\ mine'[q] = mine[q]
<1>1. /\ at \in [Runs -> Places] /\ mine \in [Runs -> Task] /\ outcome \in [Runs -> Outcomes]
  BY DEF IInv, TypeInv, TypeOK, Task
<1>2. mine' = [mine EXCEPT ![r] = Unset(mine[r].executor)]
  BY DEF Ends
<1>3. /\ Unset(mine[r].executor) \in Task /\ ~Unset(mine[r].executor).raising
  BY <1>1 DEF Unset, Task
<1>4. /\ at' \in [Runs -> Places] /\ at'[r] = "end" /\ outcome' \in [Runs -> Outcomes]
      /\ \A q \in Runs \ {r} : at'[q] = at[q]
  BY <1>1 DEF Ends, Go, Places
<1>5. mine' \in [Runs -> Task] /\ mine'[r] = Unset(mine[r].executor)
      /\ \A q \in Runs \ {r} : mine'[q] = mine[q]
  BY <1>1, <1>2, <1>3
<1>6. RunOK(r)'
  BY <1>3, <1>4, <1>5 DEF RunOK, TaskOK, TreeOK, KernelOK, KernelReady, AfterPurge, AfterCopy,
     AtTarget, BeforeChroot
<1> QED
  BY <1>4, <1>5, <1>6

LEMMA FailsKeeps ==
  ASSUME IInv, NEW r \in Runs, at[r] \notin {"idle", "cleanup", "leave", "end"}, Fails(r),
         faults' \in Nat
  PROVE  IInv'
<1>1. /\ at \in [Runs -> Places] /\ mine \in [Runs -> Task] /\ outcome \in [Runs -> Outcomes]
      /\ RunOK(r) /\ (session = r <=> at[r] \in InSession)
  BY DEF IInv, TypeInv, TypeOK, Task, RunInv, SessionInv
<1>2. /\ UNCHANGED <<fs, tree, sums, final, lock, edits, deaths>> /\ Current' = Current
  BY DEF Fails, Current
<1>3. CASE at[r] \in InTransaction
  <2>1. /\ at' = [at EXCEPT ![r] = "cleanup"] /\ mine' = [mine EXCEPT ![r] = [@ EXCEPT !.raising = TRUE]]
        /\ UNCHANGED <<pub, session, outcome>>
    BY <1>3 DEF Fails, Go, Set
  <2>2. /\ mine' \in [Runs -> Task] /\ mine'[r].raising /\ mine'[r].excuses = mine[r].excuses
        /\ \A q \in Runs \ {r} : mine'[q] = mine[q]
    BY ZenonT(60), <1>1, <2>1 DEF Task
  <2>3. /\ at' \in [Runs -> Places] /\ at'[r] = "cleanup" /\ \A q \in Runs \ {r} : at'[q] = at[q]
    BY <1>1, <2>1 DEF Places
  <2>4. RunOK(r)'
    BY <1>1, <1>2, <1>3, <2>2, <2>3 DEF RunOK, TaskOK, Undisturbed, TreeOK, KernelOK, KernelReady,
       AfterPurge, AfterCopy, AtTarget, BeforeChroot, InTransaction
  <2>5. TypeInv' /\ FsInv'
    BY <1>2, <2>1, <2>2, <2>3 DEF IInv, TypeInv, TypeOK, FsInv, Task
  <2>6. Images' \subseteq Images
    BY <1>2, <2>1 DEF Images
  <2>7. session' = r <=> at'[r] \in InSession
    BY <1>1, <1>3, <2>1, <2>3 DEF InSession, InTransaction
  <2> QED
    BY <1>2, <2>1, <2>2, <2>3, <2>4, <2>5, <2>6, <2>7, StepOf
<1>4. CASE at[r] \notin InTransaction
  <2>1. Ends(r, "failed") /\ "failed" \in Outcomes
    BY <1>4 DEF Fails, Outcomes
  <2>2. /\ session' = (IF at[r] \in InSession THEN None ELSE session)
        /\ pub' = (IF at[r] \in InSession THEN Kept ELSE pub)
    BY <1>4 DEF Fails
  <2>3. TypeInv' /\ FsInv'
    BY <1>2, <2>1, <2>2, EndsOK, KeptIs DEF IInv, TypeInv, TypeOK, FsInv, Task, Publication
  <2>4. Images' \subseteq Images
    BY <1>2, <2>2, KeptIs, ImagesFrom DEF IInv
  <2>5. session' = r <=> at'[r] \in InSession
    BY <1>1, <2>1, <2>2, EndsOK DEF InSession
  <2>6. session' = session \/ (session \notin Runs \ {r} /\ session' \notin Runs \ {r})
    BY <1>1, <2>2
  <2> QED
    BY <1>2, <2>1, <2>3, <2>4, <2>5, <2>6, EndsOK, StepOf
<1> QED
  BY <1>3, <1>4

LEMMA FaultsKeep ==
  ASSUME IInv, NEW r \in Runs,
         \/ Fault(r) \/ Busy(r) \/ ChrootRefused(r) \/ LocaleRefused(r) \/ NoKernel(r) \/ ImageRefused(r)
  PROVE  IInv'
<1>1. faults \in Nat
  BY DEF IInv, TypeInv
<1>2. /\ Fails(r) /\ faults' \in {faults, faults + 1}
      /\ at[r] \notin {"idle", "cleanup", "leave", "end"}
  BY DEF Fault, Busy, ChrootRefused, LocaleRefused, NoKernel, ImageRefused, Refused
<1> QED
  BY <1>1, <1>2, FailsKeeps

\* A run ends and leaves the trees as they are.
LEMMA EndingKeeps ==
  ASSUME IInv, NEW r \in Runs, NEW how \in Outcomes, Ends(r, how), UNCHANGED <<fs, tree, sums, edits, faults>>,
         deaths' \in Nat, lock' \in {"free", "held", "stale", "orphan"},
         session' \in {None, "left", session}, session' # r,
         session' = session \/ session = r,
         pub' \in {pub, Kept, NoPublication}, final' \in {final, pub.image}
  PROVE  IInv'
<1>1. TypeInv' /\ FsInv'
  BY EndsOK, KeptIs DEF IInv, TypeInv, TypeOK, FsInv, Task, Publication
<1>2. Images' \subseteq Images
  BY KeptIs, ImagesFrom DEF IInv
<1>3. /\ session' = r <=> at'[r] \in InSession
      /\ session' = session \/ (session \notin Runs \ {r} /\ session' \notin Runs \ {r})
  BY EndsOK DEF InSession
<1>4. Current' = Current
  BY DEF Current
<1> QED
  BY <1>1, <1>2, <1>3, <1>4, EndsOK, StepOf

LEMMA DieKeeps ==
  ASSUME IInv, NEW r \in Runs, Die(r)
  PROVE  IInv'
<1>1. /\ Ends(r, "dead") /\ "dead" \in Outcomes /\ deaths' \in Nat
      /\ UNCHANGED <<fs, tree, sums, pub, final, edits, faults>>
      /\ session' = IF session = r THEN "left" ELSE session
  BY DEF IInv, TypeInv, Die, Outcomes
<1>2. lock' \in {"free", "held", "stale", "orphan"}
  BY DEF IInv, TypeInv, TypeOK, Die
<1> QED
  BY <1>1, <1>2, EndingKeeps

LEMMA FinishKeeps ==
  ASSUME IInv, NEW r \in Runs, Finish(r) \/ Publish(r)
  PROVE  IInv'
<1>1. /\ \E how \in Outcomes : Ends(r, how)
      /\ UNCHANGED <<fs, tree, sums, lock, bounds>> /\ session' = None
      /\ final' = pub.image /\ pub' = NoPublication /\ at[r] \in InSession
  BY DEF Finish, Publish, Result, Outcomes, InSession
<1>2. session = r /\ lock \in {"free", "held", "stale", "orphan"} /\ deaths \in Nat
  BY <1>1 DEF IInv, TypeInv, TypeOK, SessionInv
<1> QED
  BY <1>1, <1>2, EndingKeeps DEF bounds

\* A run goes on without touching the trees.
LEMMA MoveKeeps ==
  ASSUME IInv, NEW r \in Runs, NEW place \in Places, Go(r, place), place # "idle",
         UNCHANGED <<tree, sums, outcome, edits, deaths>>, faults' \in Nat, FsInv',
         fs' \in [packages : 0..MaxEdits, boot : BOOLEAN, initrd : 0..MaxEdits],
         fs'.packages = fs.packages, Current => Current',
         mine' \in [Runs -> Task], \A q \in Runs \ {r} : mine'[q] = mine[q],
         pub' \in Publication, final' = final, lock' \in {"free", "held", "stale", "orphan"},
         session' \in Runs \cup {None, "left"}, Images' \subseteq Images,
         session' = r <=> place \in InSession,
         session' = session \/ (session \notin Runs \ {r} /\ session' \notin Runs \ {r}),
         at'[r] = place => RunOK(r)'
  PROVE  IInv'
<1>1. /\ at' \in [Runs -> Places] /\ at'[r] = place /\ \A q \in Runs \ {r} : at'[q] = at[q]
  BY DEF IInv, TypeInv, TypeOK, Go
<1>2. TypeInv'
  BY <1>1 DEF IInv, TypeInv, TypeOK, Task, Publication
<1> QED
  BY <1>1, <1>2, StepOf

\* What is known of a run before its step.
LEMMA Before ==
  ASSUME IInv, NEW r \in Runs
  PROVE  /\ mine \in [Runs -> Task] /\ mine[r] \in Task /\ RunOK(r) /\ TypeInv /\ FsInv
         /\ fs \in [packages : 0..MaxEdits, boot : BOOLEAN, initrd : 0..MaxEdits]
         /\ tree \in Tree /\ sums \in Tree /\ pub \in Publication
         /\ final \in Image \cup {NoImage} /\ pub.image \in Image \cup {NoImage}
         /\ session \in Runs \cup {None, "left"} /\ (session = r <=> at[r] \in InSession)
         /\ lock \in {"free", "held", "stale", "orphan"} /\ at \in [Runs -> Places]
         /\ deaths \in Nat /\ faults \in Nat
BY DEF IInv, TypeInv, TypeOK, Task, RunInv, SessionInv

LEMMA StartKeeps ==
  ASSUME IInv, NEW r \in Runs, Start(r)
  PROVE  IInv'
<1>1. CASE lock = "free"
  <2>1. PICK list \in {<<>>, <<Update>>, <<Purge, Install>>} :
          mine' = [mine EXCEPT ![r] = [@ EXCEPT !.granted = list]]
    BY <1>1 DEF Start, Set, Commands
  <2>2. /\ at[r] = "idle" /\ Go(r, "recover") /\ UNCHANGED <<world, outcome, bounds>>
    BY <1>1 DEF Start
  <2>3. /\ mine' \in [Runs -> Task] /\ \A q \in Runs \ {r} : mine'[q] = mine[q]
        /\ mine'[r].raising = mine[r].raising /\ mine'[r].done = mine[r].done
    BY ZenonT(60), <2>1, Before DEF Task
  <2>4. ~mine[r].raising /\ mine[r].done = 0
    BY <2>2, Before DEF RunOK, TaskOK, BeforeChroot
  <2>5. at'[r] = "recover" => RunOK(r)'
    BY <2>3, <2>4 DEF RunOK, TaskOK, Undisturbed, TreeOK, KernelOK, KernelReady, Current, Here, AfterPurge,
     AfterCopy, AtTarget, BeforeChroot
  <2>6. /\ Images' = Images /\ FsInv' /\ Current' = Current
    BY <2>2, Before DEF Images, FsInv, Current, world, bounds
  <2> QED
    BY <2>2, <2>3, <2>5, <2>6, Before, MoveKeeps DEF world, bounds, Places, InSession
<1>2. CASE lock # "free"
  <2>1. /\ Ends(r, "failed") /\ "failed" \in Outcomes /\ UNCHANGED <<world, bounds>> /\ at[r] = "idle"
    BY <1>2 DEF Start, Outcomes
  <2>2. session # r /\ deaths \in Nat
    BY <2>1, Before DEF InSession
  <2> QED
    BY <2>1, <2>2, Before, EndingKeeps DEF world, bounds
<1> QED
  BY <1>1, <1>2

LEMMA ObserveKeeps ==
  ASSUME IInv, NEW r \in Runs, Observe(r)
  PROVE  IInv'
<1>1. /\ at[r] = "observe" /\ Go(r, "purge") /\ UNCHANGED <<fs, tree, sums, final, mine, outcome, bounds>>
  BY DEF Observe, Enter, world
<1>2. at'[r] = "purge" => RunOK(r)'
  BY <1>1, Before DEF RunOK, TaskOK, Undisturbed, TreeOK, KernelOK, KernelReady, Current, Here, AfterPurge,
     AfterCopy, AtTarget, BeforeChroot, Commands
<1>3. FsInv' /\ Current' = Current
  BY <1>1, Before DEF FsInv, Current, bounds
<1>4. UNCHANGED <<pub, session, lock>>
  BY DEF Observe, world
<1>5. Images' = Images
  BY <1>1, <1>4 DEF Images
<1> QED
  BY <1>1, <1>2, <1>3, <1>4, <1>5, Before, MoveKeeps DEF bounds, Places, InSession

LEMMA EnterKernelKeeps ==
  ASSUME IInv, NEW r \in Runs, EnterKernel(r)
  PROVE  IInv'
<1>1. /\ at[r] = "kernelSession" /\ Go(r, "chroot") /\ UNCHANGED <<fs, tree, sums, final, mine, outcome, bounds>>
  BY DEF EnterKernel, Enter, world
<1>2. at'[r] = "chroot" => RunOK(r)'
  BY <1>1, Before DEF RunOK, TaskOK, Undisturbed, TreeOK, KernelOK, KernelReady, Current, Here, AfterPurge,
     AfterCopy, AtTarget, BeforeChroot, Commands
<1>3. FsInv' /\ Current' = Current
  BY <1>1, Before DEF FsInv, Current, bounds
<1>4. /\ session \notin Runs /\ session' = r /\ lock' = lock
      /\ pub' \in Publication /\ pub'.image \in {pub.image, NoImage}
  BY Before, KeptIs DEF EnterKernel, Enter, Unlocked, Publication
<1>5. Images' \subseteq Images
  BY <1>1, <1>4, ImagesFrom
<1> QED
  BY <1>1, <1>2, <1>3, <1>4, <1>5, Before, MoveKeeps DEF bounds, Places, InSession

LEMMA BeginChrootKeeps ==
  ASSUME IInv, NEW r \in Runs, BeginChroot(r)
  PROVE  IInv'
<1>1. /\ at[r] = "chroot" /\ Go(r, "locale") /\ UNCHANGED <<fs, tree, sums, final, mine, outcome, bounds>>
  BY DEF BeginChroot, Enter, world
<1>2. at'[r] = "locale" => RunOK(r)'
  BY <1>1, Before DEF RunOK, TaskOK, Undisturbed, TreeOK, KernelOK, KernelReady, Current, Here, AfterPurge,
     AfterCopy, AtTarget, BeforeChroot, Commands
<1>3. FsInv' /\ Current' = Current
  BY <1>1, Before DEF FsInv, Current, bounds
<1>4. UNCHANGED <<pub, session>> /\ lock' = "held"
  BY DEF BeginChroot
<1>5. Images' = Images
  BY <1>1, <1>4 DEF Images
<1> QED
  BY <1>1, <1>2, <1>3, <1>4, <1>5, Before, MoveKeeps DEF bounds, Places, InSession

LEMMA LocaleKeeps ==
  ASSUME IInv, NEW r \in Runs, Locale(r)
  PROVE  IInv'
<1>1. /\ at[r] = "locale" /\ Go(r, "target") /\ UNCHANGED <<fs, tree, sums, final, mine, outcome, bounds>>
  BY DEF Locale, Enter, world
<1>2. at'[r] = "target" => RunOK(r)'
  BY <1>1, Before DEF RunOK, TaskOK, Undisturbed, TreeOK, KernelOK, KernelReady, Current, Here, AfterPurge,
     AfterCopy, AtTarget, BeforeChroot, Commands
<1>3. FsInv' /\ Current' = Current
  BY <1>1, Before DEF FsInv, Current, bounds
<1>4. UNCHANGED <<pub, session, lock>>
  BY DEF Locale, world
<1>5. Images' = Images
  BY <1>1, <1>4 DEF Images
<1> QED
  BY <1>1, <1>2, <1>3, <1>4, <1>5, Before, MoveKeeps DEF bounds, Places, InSession

LEMMA EnterFinalKeeps ==
  ASSUME IInv, NEW r \in Runs, EnterFinal(r)
  PROVE  IInv'
<1>1. /\ at[r] = "finalSession" /\ Go(r, "squashfs") /\ UNCHANGED <<fs, tree, sums, final, mine, outcome, bounds>>
  BY DEF EnterFinal, Enter, world
<1>2. at'[r] = "squashfs" => RunOK(r)'
  BY <1>1, Before DEF RunOK, TaskOK, Undisturbed, TreeOK, KernelOK, KernelReady, Current, Here, AfterPurge,
     AfterCopy, AtTarget, BeforeChroot, Commands
<1>3. FsInv' /\ Current' = Current
  BY <1>1, Before DEF FsInv, Current, bounds
<1>4. /\ session \notin Runs /\ session' = r /\ lock' = lock
      /\ pub' \in Publication /\ pub'.image \in {pub.image, NoImage}
  BY Before, KeptIs DEF EnterFinal, Enter, Unlocked, Publication
<1>5. Images' \subseteq Images
  BY <1>1, <1>4, ImagesFrom
<1> QED
  BY <1>1, <1>2, <1>3, <1>4, <1>5, Before, MoveKeeps DEF bounds, Places, InSession

LEMMA SealKeeps ==
  ASSUME IInv, NEW r \in Runs, Seal(r)
  PROVE  IInv'
<1>1. /\ at[r] = "seal" /\ Go(r, "publish") /\ UNCHANGED <<fs, tree, sums, final, mine, outcome, bounds>>
  BY DEF Seal, Enter, world
<1>2. at'[r] = "publish" => RunOK(r)'
  BY <1>1, Before DEF RunOK, TaskOK, Undisturbed, TreeOK, KernelOK, KernelReady, Current, Here, AfterPurge,
     AfterCopy, AtTarget, BeforeChroot, Commands
<1>3. FsInv' /\ Current' = Current
  BY <1>1, Before DEF FsInv, Current, bounds
<1>4. UNCHANGED <<session, lock>> /\ pub' \in Publication /\ pub'.image = pub.image
  BY Before DEF Seal, Publication
<1>5. Images' \subseteq Images
  BY <1>1, <1>4 DEF Images
<1> QED
  BY <1>1, <1>2, <1>3, <1>4, <1>5, Before, MoveKeeps DEF bounds, Places, InSession

LEMMA RecoverKeeps ==
  ASSUME IInv, NEW r \in Runs, Recover(r)
  PROVE  IInv'
<1>1. PICK place \in {"finish", "observe"} :
        /\ Go(r, place) /\ session' = (IF place = "finish" THEN r ELSE None)
  BY DEF Recover, Enter
<1>2. /\ at[r] = "recover" /\ UNCHANGED <<fs, tree, sums, final, lock, mine, outcome, bounds>>
      /\ pub' = Kept /\ session \notin Runs
  BY DEF Recover, Enter, Unlocked
<1>3. at'[r] = place => RunOK(r)'
  BY <1>2, Before DEF RunOK, TaskOK, Undisturbed, TreeOK, KernelOK, KernelReady, Current, Here, AfterPurge,
     AfterCopy, AtTarget, BeforeChroot, Commands
<1>4. FsInv' /\ Current' = Current
  BY <1>2, Before DEF FsInv, Current, bounds
<1>5. /\ Images' \subseteq Images /\ pub' \in Publication
  BY <1>2, Before, KeptIs, ImagesFrom
<1>6. session' = r <=> place \in InSession
  BY <1>1 DEF InSession
<1>7. /\ session' = session \/ (session \notin Runs \ {r} /\ session' \notin Runs \ {r})
      /\ session' \in Runs \cup {None, "left"}
  BY <1>1, <1>2
<1> QED
  BY <1>1, <1>2, <1>3, <1>4, <1>5, <1>6, <1>7, Before, MoveKeeps DEF bounds, Places

LEMMA TargetKeeps ==
  ASSUME IInv, NEW r \in Runs, Target(r)
  PROVE  IInv'
<1>1. /\ at[r] = "target" /\ Go(r, "cleanup") /\ fs' = After(NextCommand(r))
      /\ UNCHANGED <<tree, sums, pub, final, session, lock, mine, outcome, bounds>>
  BY DEF Target
<1>2. mine[r].done < Len(Commands(mine[r].missing)) /\ ~mine[r].raising
  BY <1>1, Before DEF RunOK, TaskOK, AtTarget
<1>3. NextCommand(r) \in {Purge, Install, Update}
  BY <1>2, Before DEF NextCommand, Commands, Task
<1>4. /\ fs' \in [packages : 0..MaxEdits, boot : BOOLEAN, initrd : 0..MaxEdits]
      /\ fs'.packages = fs.packages /\ FsInv'
  <2>1. PICK boot \in BOOLEAN, built \in {fs.packages, fs.initrd} :
          fs' = [fs EXCEPT !.boot = boot, !.initrd = built]
    <3>1. CASE NextCommand(r) = Purge
      BY <1>1, <3>1, Before DEF After, Purge, Install, Update
    <3>2. CASE NextCommand(r) = Install
      BY <1>1, <3>2, Before DEF After, Purge, Install, Update
    <3>3. CASE NextCommand(r) = Update
      BY <1>1, <3>3, Before DEF After, Purge, Install, Update
    <3> QED
      BY <1>3, <3>1, <3>2, <3>3
  <2>2. built \in 0..MaxEdits /\ built <= fs.packages /\ fs.packages <= edits /\ edits' = edits
    BY <1>1, Before DEF FsInv, bounds
  <2>3. fs'.packages = fs.packages /\ fs'.initrd = built
    BY <2>1, Before
  <2>4. fs' \in [packages : 0..MaxEdits, boot : BOOLEAN, initrd : 0..MaxEdits]
    BY <2>1, <2>2, Before
  <2> QED
    BY <2>2, <2>3, <2>4 DEF FsInv
<1>5. Current'
  <2>1. /\ mine[r].missing \in BOOLEAN /\ mine[r].done \in 0..2
    BY Before DEF Task
  <2>2. \/ NextCommand(r) \in {Purge, Install}
        \/ NextCommand(r) = Update /\ ~mine[r].missing
    BY <1>2, <2>1 DEF NextCommand, Commands
  <2> QED
    BY <1>1, <2>2, Before DEF After, Purge, Install, Update, Current
<1>6. at'[r] = "cleanup" => RunOK(r)'
  BY <1>1, <1>2, <1>4, <1>5, Before DEF RunOK, TaskOK, Undisturbed, TreeOK, KernelOK, KernelReady,
     Here, AfterPurge, AfterCopy, AtTarget, BeforeChroot
<1>7. Images' = Images
  BY <1>1 DEF Images
<1> QED
  BY <1>1, <1>4, <1>5, <1>6, <1>7, Before, MoveKeeps DEF bounds, Places, InSession

LEMMA TargetFailsKeeps ==
  ASSUME IInv, NEW r \in Runs, TargetFails(r)
  PROVE  IInv'
<1>1. /\ at[r] = "target" /\ Go(r, "cleanup") /\ mine' = Excused({r}, {"command"})
      /\ UNCHANGED <<world, outcome, edits, deaths>> /\ faults' = faults + 1
  BY DEF TargetFails
<1>2. {"command"} \in SUBSET Excuses /\ {r} \in SUBSET Runs /\ Running(r)
  BY <1>1 DEF Excuses, Running
<1>3. /\ mine' \in [Runs -> Task] /\ mine'[r] = Excuse(r, {"command"})
      /\ \A q \in Runs \ {r} : mine'[q] = mine[q]
  <2>1. /\ mine' \in [Runs -> Task]
        /\ \A q \in Runs : mine'[q] = IF q \in {r} /\ Running(q) THEN Excuse(q, {"command"})
                                                              ELSE mine[q]
    <3>1. TypeInv
      BY Before
    <3>2. /\ Excused({r}, {"command"}) \in [Runs -> Task]
          /\ \A q \in Runs : Excused({r}, {"command"})[q] =
               IF q \in {r} /\ Running(q) THEN Excuse(q, {"command"}) ELSE mine[q]
      BY <1>2, <3>1, MeddledAll
    <3> QED
      BY <1>1, <3>2
  <2> QED
    BY <1>2, <2>1
<1>4. /\ mine'[r].excuses = mine[r].excuses \cup {"command"}
      /\ mine'[r].done = mine[r].done /\ mine'[r].missing = mine[r].missing
      /\ mine'[r].raising = mine[r].raising
  BY <1>2, <1>3, Before, ExcuseIs
<1>5. at'[r] = "cleanup" => RunOK(r)'
  <2>1. mine'[r].excuses # {} /\ (Undisturbed(r)' => Undisturbed(r))
    BY <1>4 DEF Undisturbed
  <2>2. at'[r] = "cleanup" => TaskOK(r)' /\ (Undisturbed(r) => TreeOK(r)')
    BY <1>1, <1>4, Before DEF world, RunOK, TaskOK, TreeOK, AfterPurge, AfterCopy, AtTarget,
       BeforeChroot
  <2> QED
    BY <2>1, <2>2 DEF RunOK
<1>6. FsInv' /\ Current' = Current /\ Images' = Images
  BY <1>1, Before DEF FsInv, Current, Images, world
<1>7. UNCHANGED <<fs, tree, sums, pub, final, session, lock, outcome, edits, deaths>>
  BY <1>1 DEF world
<1>8. faults' \in Nat
  BY <1>1, Before
<1> QED
  BY <1>1, <1>3, <1>5, <1>6, <1>7, <1>8, Before, MoveKeeps DEF Places, InSession

LEMMA EndChrootKeeps ==
  ASSUME IInv, NEW r \in Runs, EndChroot(r)
  PROVE  IInv'
<1>1. /\ at[r] = "cleanup" /\ lock' = "free"
      /\ UNCHANGED <<fs, tree, sums, pub, final, session, outcome, bounds>>
  BY DEF EndChroot
<1>2. FsInv' /\ Current' = Current /\ Images' = Images
  BY <1>1, Before DEF FsInv, Current, Images, bounds
<1>3. CASE mine[r].raising
  <2>1. Go(r, "leave") /\ UNCHANGED mine
    BY <1>3 DEF EndChroot
  <2>2. at'[r] = "leave" => RunOK(r)'
    BY <1>1, <2>1, Before DEF RunOK, TaskOK, Undisturbed, TreeOK, KernelOK, KernelReady, Current, Here, AfterPurge,
     AfterCopy, AtTarget, BeforeChroot, Commands
  <2> QED
    BY <1>1, <1>2, <2>1, <2>2, Before, MoveKeeps DEF bounds, Places, InSession
<1>4. CASE ~mine[r].raising
  <2>1. /\ mine' = [mine EXCEPT ![r] = [@ EXCEPT !.done = mine[r].done + 1]]
        /\ Go(r, IF mine'[r].done = Len(Commands(mine[r].missing)) THEN "leave" ELSE "chroot")
    BY <1>4 DEF EndChroot, Set
  <2>2. mine[r].done < Len(Commands(mine[r].missing)) /\ mine[r].done \in 0..2
    BY <1>1, <1>4, Before DEF RunOK, TaskOK, Task
  <2>3. mine[r].done + 1 \in 0..2
    BY <2>2 DEF Commands
  <2>4. [mine[r] EXCEPT !.done = mine[r].done + 1] \in Task
    BY <2>3, Before DEF Task
  <2>5. /\ mine' \in [Runs -> Task] /\ \A q \in Runs \ {r} : mine'[q] = mine[q]
        /\ mine'[r] = [mine[r] EXCEPT !.done = mine[r].done + 1]
    BY <2>1, <2>4, Before
  <2>6. /\ mine'[r].done = mine[r].done + 1 /\ mine'[r].missing = mine[r].missing
        /\ mine'[r].raising = mine[r].raising /\ mine'[r].excuses = mine[r].excuses
    BY <2>5, Before DEF Task
  <2>7. CASE mine'[r].done = Len(Commands(mine[r].missing))
    <3>1. Go(r, "leave")
      BY <2>1, <2>7
    <3>2. at'[r] = "leave" => RunOK(r)'
      BY <1>1, <1>2, <1>4, <2>6, Before DEF RunOK, TaskOK, Undisturbed, TreeOK, KernelOK,
         KernelReady, Here, AfterPurge, AfterCopy, AtTarget, BeforeChroot
    <3> QED
      BY <1>1, <1>2, <2>5, <3>1, <3>2, Before, MoveKeeps DEF bounds, Places, InSession
  <2>8. CASE mine'[r].done # Len(Commands(mine[r].missing))
    <3>1. Go(r, "chroot")
      BY <2>1, <2>8
    <3>2. mine'[r].done < Len(Commands(mine[r].missing))
      BY <2>2, <2>6, <2>8 DEF Commands
    <3>3. at'[r] = "chroot" => RunOK(r)'
      BY <1>1, <1>2, <1>4, <2>6, <3>2, Before DEF RunOK, TaskOK, Undisturbed, TreeOK, KernelOK,
         KernelReady, Here, AfterPurge, AfterCopy, AtTarget, BeforeChroot
    <3> QED
      BY <1>1, <1>2, <2>5, <3>1, <3>3, Before, MoveKeeps DEF bounds, Places, InSession
  <2> QED
    BY <2>7, <2>8
<1> QED
  BY <1>3, <1>4

LEMMA LeaveKernelKeeps ==
  ASSUME IInv, NEW r \in Runs, LeaveKernel(r)
  PROVE  IInv'
<1>1. /\ at[r] = "leave" /\ session' = None /\ pub' = Kept
      /\ UNCHANGED <<fs, tree, sums, final, lock, bounds>> /\ session = r
  BY Before DEF LeaveKernel, InSession
<1>2. CASE mine[r].raising
  <2>1. Ends(r, "failed") /\ "failed" \in Outcomes
    BY <1>2 DEF LeaveKernel, Outcomes
  <2> QED
    BY <1>1, <2>1, Before, EndingKeeps DEF bounds
<1>3. CASE ~mine[r].raising
  <2>1. Go(r, "copy") /\ UNCHANGED <<mine, outcome>>
    BY <1>3 DEF LeaveKernel
  <2>2. at'[r] = "copy" => RunOK(r)'
    BY <1>1, <1>3, <2>1, Before DEF RunOK, TaskOK, Undisturbed, TreeOK, KernelOK, KernelReady, Current, Here, AfterPurge,
     AfterCopy, AtTarget, BeforeChroot, Commands
  <2>3. FsInv' /\ Current' = Current
    BY <1>1, Before DEF FsInv, Current, bounds
  <2>4. Images' \subseteq Images /\ pub' \in Publication
    BY <1>1, Before, KeptIs, ImagesFrom
  <2> QED
    BY <1>1, <2>1, <2>2, <2>3, <2>4, Before, MoveKeeps DEF bounds, Places, InSession
<1> QED
  BY <1>2, <1>3


\* A run goes on and changes the media tree, which the others are told of.
LEMMA MeddleKeeps ==
  ASSUME IInv, NEW r \in Runs, NEW place \in Places, Go(r, place),
         NEW own \in Task, mine' = [Excused(Runs \ {r}, {"media"}) EXCEPT ![r] = own],
         UNCHANGED <<pub, final, session, lock, outcome, bounds>>,
         tree' \in Tree, sums' \in Tree, FsInv',
         fs' \in [packages : 0..MaxEdits, boot : BOOLEAN, initrd : 0..MaxEdits],
         at[r] \in InSession <=> place \in InSession,
         at'[r] = place /\ mine'[r] = own => RunOK(r)'
  PROVE  IInv'
<1>1. /\ at' \in [Runs -> Places] /\ at'[r] = place /\ \A q \in Runs \ {r} : at'[q] = at[q]
  BY DEF IInv, TypeInv, TypeOK, Go
<1>2. {"media"} \in SUBSET Excuses /\ Runs \ {r} \in SUBSET Runs
  BY DEF Excuses
<1>3. /\ Excused(Runs \ {r}, {"media"}) \in [Runs -> Task]
      /\ \A q \in Runs : Excused(Runs \ {r}, {"media"})[q] =
           IF q \in Runs \ {r} /\ Running(q) THEN Excuse(q, {"media"}) ELSE mine[q]
  BY ZenonT(60), <1>2, Before, Meddled
<1>4. /\ mine' \in [Runs -> Task] /\ mine'[r] = own
      /\ \A q \in Runs \ {r} : mine'[q] = IF Running(q) THEN Excuse(q, {"media"}) ELSE mine[q]
  BY <1>3
<1>5. TypeInv'
  BY <1>1, <1>4 DEF IInv, TypeInv, TypeOK, Task, Publication, bounds
<1>6. Images' \subseteq Images
  BY DEF Images
<1>7. session' = r <=> at'[r] \in InSession
  BY <1>1, Before
<1> QED
  BY <1>1, <1>4, <1>5, <1>6, <1>7, StepOf

\* The run itself is not among those it tells.
LEMMA MeddleIs ==
  ASSUME IInv, NEW r \in Runs, Meddle(r)
  PROVE  mine' = [Excused(Runs \ {r}, {"media"}) EXCEPT ![r] = mine[r]] /\ mine'[r] = mine[r]
<1>1. {"media"} \in SUBSET Excuses /\ Runs \ {r} \in SUBSET Runs
  BY DEF Excuses
<1>2. /\ Excused(Runs \ {r}, {"media"}) \in [Runs -> Task]
      /\ Excused(Runs \ {r}, {"media"})[r] = mine[r]
  BY ZenonT(60), <1>1, Before, Meddled
<1> QED
  BY <1>2 DEF Meddle

LEMMA OwnKeeps ==
  ASSUME IInv, NEW r \in Runs, NEW place \in Places, Go(r, place), Meddle(r),
         UNCHANGED <<pub, final, session, lock, outcome, bounds>>,
         tree' \in Tree, sums' \in Tree, FsInv',
         fs' \in [packages : 0..MaxEdits, boot : BOOLEAN, initrd : 0..MaxEdits],
         at[r] \in InSession <=> place \in InSession,
         at'[r] = place /\ mine'[r] = mine[r] => RunOK(r)'
  PROVE  IInv'
<1>1. mine[r] \in Task
  BY Before
<1>2. mine' = [Excused(Runs \ {r}, {"media"}) EXCEPT ![r] = mine[r]]
  BY MeddleIs
<1> QED
  BY <1>1, <1>2, MeddleKeeps

LEMMA PurgeTreeKeeps ==
  ASSUME IInv, NEW r \in Runs, PurgeTree(r)
  PROVE  IInv'
<1>1. PICK kept \in SUBSET Undeletable :
        /\ tree' = [p \in Parts |-> IF p \in kept THEN tree[p] ELSE {}]
        /\ mine' = [Excused(Runs \ {r}, {"media"}) EXCEPT
                     ![r].missing = ~fs.boot,
                     ![r].excuses = @ \cup IF tree'["squashfs"] = {} THEN {} ELSE {"kept"}]
  BY DEF PurgeTree
<1>2. /\ at[r] = "purge" /\ sums' = NoTree /\ Go(r, "kernelSession")
      /\ UNCHANGED <<fs, pub, final, session, lock, outcome, bounds>>
  BY DEF PurgeTree
<1> DEFINE told == Excused(Runs \ {r}, {"media"})
           more == IF tree'["squashfs"] = {} THEN {} ELSE {"kept"}
           own  == [mine[r] EXCEPT !.missing = ~fs.boot, !.excuses = @ \cup more]
<1>3. told \in [Runs -> Task] /\ told[r] = mine[r]
  <2>1. {"media"} \in SUBSET Excuses /\ Runs \ {r} \in SUBSET Runs
    BY DEF Excuses
  <2> QED
    BY <2>1, Before, Meddled
<1>4. mine' = [told EXCEPT ![r] = own]
  BY <1>1, <1>3
<1>5. more \in SUBSET Excuses /\ (~fs.boot) \in BOOLEAN
  BY DEF Excuses
<1>6. /\ own \in Task /\ own.excuses = mine[r].excuses \cup more
      /\ own.done = mine[r].done /\ own.raising = mine[r].raising
  BY <1>5, Before DEF Task
<1>7. tree' \in Tree /\ sums' \in Tree
  BY <1>1, <1>2, Before DEF Tree, NoTree
<1>8. ASSUME at'[r] = "kernelSession", mine'[r] = own PROVE RunOK(r)'
  <2>1. Undisturbed(r)' => tree'["squashfs"] = {}
    BY <1>6, <1>8 DEF Undisturbed
  <2> QED
    BY <1>2, <1>6, <1>8, <2>1, Before DEF RunOK, TaskOK, TreeOK, KernelOK, KernelReady, AfterCopy,
       AtTarget, BeforeChroot
<1>9. FsInv'
  BY <1>2, Before DEF FsInv, bounds
<1> HIDE DEF told, own
<1> QED
  BY <1>2, <1>4, <1>6, <1>7, <1>8, <1>9, Before, MeddleKeeps DEF told, Places, InSession

\* What a run writes is of the packages there are.
LEMMA HereIs ==
  ASSUME IInv, NEW r \in Runs
  PROVE  Here(r) \in Content /\ Here(r).by = r /\ Here(r).packages \in 0..MaxEdits
BY Before DEF Here, Content

LEMMA CopyKernelKeeps ==
  ASSUME IInv, NEW r \in Runs, CopyKernel(r)
  PROVE  IInv'
<1>1. /\ at[r] = "copy" /\ fs.boot /\ Meddle(r) /\ Go(r, "finalSession")
      /\ tree' = [tree EXCEPT !["kernel"] = {[by |-> r, packages |-> fs.initrd]}]
      /\ fs' \in {fs, [fs EXCEPT !.boot = FALSE]}
      /\ UNCHANGED <<sums, pub, final, session, lock, outcome, bounds>>
  BY DEF CopyKernel
<1>2. /\ fs' \in [packages : 0..MaxEdits, boot : BOOLEAN, initrd : 0..MaxEdits]
      /\ fs'.packages = fs.packages /\ FsInv'
  BY <1>1, Before DEF FsInv, bounds
<1>3. {[by |-> r, packages |-> fs.initrd]} \in SUBSET Content /\ fs.initrd \in 0..MaxEdits
  BY Before DEF Content
<1>4. /\ tree' \in Tree /\ tree'["kernel"] = {[by |-> r, packages |-> fs.initrd]}
      /\ tree'["squashfs"] = tree["squashfs"]
  BY <1>1, <1>3, Before DEF Tree, Parts
<1>5. mine[r].excuses = {} => fs.initrd = fs.packages
  <2>1. ~mine[r].raising
    BY <1>1, Before DEF RunOK, TaskOK
  <2> QED
    BY <1>1, <2>1, Before DEF RunOK, KernelOK, KernelReady, Current
<1>6. ASSUME at'[r] = "finalSession", mine'[r] = mine[r] PROVE RunOK(r)'
  BY <1>1, <1>2, <1>3, <1>4, <1>5, <1>6, Before DEF RunOK, TaskOK, Undisturbed, TreeOK, KernelOK,
     KernelReady, Here, AfterPurge, AtTarget, BeforeChroot
<1> QED
  BY <1>1, <1>2, <1>4, <1>6, Before, OwnKeeps DEF Places, InSession

LEMMA WriteKeeps ==
  ASSUME IInv, NEW r \in Runs, Squashfs(r) \/ Manifest(r) \/ Md5(r)
  PROVE  IInv'
<1>1. FsInv' /\ UNCHANGED <<fs, pub, final, session, lock, outcome, bounds>> /\ Meddle(r)
  <2>1. UNCHANGED <<fs, pub, final, session, lock, outcome, bounds>> /\ Meddle(r)
    BY DEF Squashfs, Manifest, Md5, WriteTree
  <2> QED
    BY <2>1, Before DEF FsInv, bounds
<1>2. ASSUME Squashfs(r) PROVE IInv'
  <2>1. /\ at[r] = "squashfs" /\ Go(r, "manifest") /\ UNCHANGED sums
        /\ tree' = [tree EXCEPT !["squashfs"] = tree["squashfs"] \cup {Here(r)}]
    BY <1>2 DEF Squashfs, WriteTree
  <2>2. /\ tree' \in Tree /\ tree'["squashfs"] = tree["squashfs"] \cup {Here(r)}
        /\ tree'["kernel"] = tree["kernel"]
    BY <2>1, Before, HereIs DEF Tree, Parts
  <2>3. ASSUME at'[r] = "manifest", mine'[r] = mine[r] PROVE RunOK(r)'
    BY <1>1, <2>1, <2>2, <2>3, Before DEF RunOK, TaskOK, Undisturbed, TreeOK, KernelOK, KernelReady,
       Here, AfterPurge, AfterCopy, AtTarget, BeforeChroot
  <2> QED
    BY <1>1, <2>1, <2>2, <2>3, Before, OwnKeeps DEF Places, InSession
<1>3. ASSUME Manifest(r) PROVE IInv'
  <2>1. /\ at[r] = "manifest" /\ Go(r, "sums") /\ UNCHANGED sums
        /\ tree' = [tree EXCEPT !["manifest"] = {Here(r)}]
    BY <1>3 DEF Manifest, WriteTree
  <2>2. /\ tree' \in Tree /\ tree'["manifest"] = {Here(r)}
        /\ tree'["kernel"] = tree["kernel"] /\ tree'["squashfs"] = tree["squashfs"]
    BY <2>1, Before, HereIs DEF Tree, Parts
  <2>3. ASSUME at'[r] = "sums", mine'[r] = mine[r] PROVE RunOK(r)'
    BY <1>1, <2>1, <2>2, <2>3, Before DEF RunOK, TaskOK, Undisturbed, TreeOK, KernelOK, KernelReady,
       Here, AfterPurge, AfterCopy, AtTarget, BeforeChroot
  <2> QED
    BY <1>1, <2>1, <2>2, <2>3, Before, OwnKeeps DEF Places, InSession
<1>4. ASSUME Md5(r) PROVE IInv'
  <2>1. at[r] = "sums" /\ Go(r, "image") /\ UNCHANGED tree /\ sums' = tree
    BY <1>4 DEF Md5
  <2>2. ASSUME at'[r] = "image", mine'[r] = mine[r] PROVE RunOK(r)'
    BY <1>1, <2>1, <2>2, Before DEF RunOK, TaskOK, Undisturbed, TreeOK, KernelOK, KernelReady,
       Here, AfterPurge, AfterCopy, AtTarget, BeforeChroot
  <2> QED
    BY <1>1, <2>1, <2>2, Before, OwnKeeps DEF Places, InSession
<1> QED
  BY <1>2, <1>3, <1>4


LEMMA WriteImageKeeps ==
  ASSUME IInv, NEW r \in Runs, WriteImage(r)
  PROVE  IInv'
<1> DEFINE new == [by |-> r, tree |-> tree, sums |-> sums, excuses |-> mine[r].excuses]
<1>1. /\ at[r] = "image" /\ Go(r, "seal") /\ pub' = [stage |-> "candidate", image |-> new]
      /\ UNCHANGED <<fs, tree, sums, final, session, lock, mine, outcome, bounds>>
  BY DEF WriteImage
<1>2. new \in Image /\ pub' \in Publication
  BY <1>1, Before DEF Image, Publication, Task
<1>3. /\ at' \in [Runs -> Places] /\ at'[r] = "seal" /\ \A q \in Runs \ {r} : at'[q] = at[q]
  BY <1>1, Before DEF Go, Places
<1>4. FsInv' /\ Current' = Current
  BY <1>1, Before DEF FsInv, Current, bounds
<1>5. TypeInv'
  BY <1>1, <1>2, <1>3, Before DEF TypeInv, TypeOK, Task, Publication, bounds
<1>6. ASSUME NEW q \in Runs PROVE RunOK(q)'
  <2>1. CASE q = r
    BY <1>1, <1>3, <2>1, Before DEF RunOK, TaskOK, Undisturbed, TreeOK, KernelOK, KernelReady,
       AfterPurge, AfterCopy, AtTarget, BeforeChroot
  <2>2. CASE q # r
    BY <1>1, <1>3, <1>4, <2>2, Untouched
  <2> QED
    BY <2>1, <2>2
<1>7. SessionInv'
  BY <1>1, <1>3 DEF IInv, SessionInv, InSession
<1>8. new.excuses \cap {"media", "kept"} = {} =>
        /\ new.sums = new.tree
        /\ new.tree["squashfs"] = {Here(r)} /\ new.tree["manifest"] = {Here(r)}
        /\ \E n \in 0..MaxEdits : new.tree["kernel"] = {[by |-> r, packages |-> n]}
  BY <1>1, Before DEF RunOK, Undisturbed, TreeOK, AfterCopy
<1>9. new.excuses = {} => new.tree["kernel"] = {Here(r)} /\ new.tree["squashfs"] = {Here(r)}
  <2>1. new.excuses = {} => new.tree["kernel"] = {Here(r)}
    BY <1>1, Before DEF RunOK, KernelOK, AfterCopy
  <2> QED
    BY <1>8, <2>1
<1>10. \A i \in Images' : i = new \/ i \in Images
  BY <1>1 DEF Images
<1>11. new.by = r
  OBVIOUS
<1> HIDE DEF new
<1>12. ImageWhole'
  <2> SUFFICES ASSUME NEW i \in Images', i.excuses \cap {"media", "kept"} = {}
               PROVE  /\ i.sums = i.tree
                      /\ \E n \in 0..MaxEdits :
                           /\ i.tree["squashfs"] = {[by |-> i.by, packages |-> n]}
                           /\ i.tree["manifest"] = i.tree["squashfs"]
                      /\ i.tree["kernel"] # {}
                      /\ \A c \in i.tree["kernel"] : c.by = i.by
    BY DEF ImageWhole
  <2>1. CASE i \in Images
    BY <2>1 DEF IInv, ImageWhole
  <2>2. CASE i = new
    <3>1. Here(r) = [by |-> new.by, packages |-> Here(r).packages] /\ Here(r).packages \in 0..MaxEdits
      BY <1>11, HereIs DEF Here
    <3>2. /\ new.sums = new.tree /\ new.tree["manifest"] = new.tree["squashfs"]
          /\ new.tree["squashfs"] = {[by |-> new.by, packages |-> Here(r).packages]}
          /\ \E n \in 0..MaxEdits : new.tree["kernel"] = {[by |-> new.by, packages |-> n]}
      BY <1>8, <1>11, <2>2, <3>1
    <3> QED
      BY <2>2, <3>1, <3>2
  <2> QED
    BY <1>10, <2>1, <2>2
<1>13. KernelCurrent'
  <2> SUFFICES ASSUME NEW i \in Images', i.excuses = {}
               PROVE  {c.packages : c \in i.tree["kernel"]} = {c.packages : c \in i.tree["squashfs"]}
    BY DEF KernelCurrent
  <2>1. CASE i \in Images
    BY <2>1 DEF IInv, KernelCurrent
  <2>2. CASE i = new
    BY <1>9, <2>2
  <2> QED
    BY <1>10, <2>1, <2>2
<1> QED
  BY <1>4, <1>5, <1>6, <1>7, <1>12, <1>13 DEF IInv, RunInv

\* An operation of another command: every run is told.
LEMMA OthersKeep ==
  ASSUME IInv, OtherEdits \/ OtherExtracts
  PROVE  IInv'
<1>1. /\ Unlocked /\ edits < MaxEdits /\ edits' = edits + 1 /\ pub' = Kept /\ session' = None
      /\ UNCHANGED <<final, lock, at, outcome, deaths, faults>>
      /\ fs'.packages = fs.packages + 1 /\ fs'.initrd \in {fs.initrd, fs.packages + 1}
      /\ fs' \in [packages : {fs.packages + 1}, boot : BOOLEAN,
                  initrd : {fs.initrd, fs.packages + 1}]
  <2>1. PICK boot \in BOOLEAN, built \in {fs.initrd, fs.packages + 1} :
          fs' = [packages |-> fs.packages + 1, boot |-> boot, initrd |-> built]
    BY DEF OtherEdits, OtherExtracts
  <2>2. /\ Unlocked /\ edits < MaxEdits /\ edits' = edits + 1 /\ pub' = Kept /\ session' = None
        /\ UNCHANGED <<final, lock, at, outcome, deaths, faults>>
    BY DEF OtherEdits, OtherExtracts
  <2> QED
    BY <2>1, <2>2
<1>2. PICK e \in SUBSET Excuses :
        /\ mine' = Excused(Runs, e) /\ "filesystem" \in e
        /\ "media" \in e \/ UNCHANGED <<tree, sums>>
        /\ tree' \in {tree, NoTree} /\ sums' \in {sums, NoTree}
  <2>1. {"filesystem"} \in SUBSET Excuses /\ {"filesystem", "media"} \in SUBSET Excuses
    BY DEF Excuses
  <2>2. CASE OtherEdits
    BY <2>1, <2>2 DEF OtherEdits
  <2>3. CASE OtherExtracts
    BY <2>1, <2>3 DEF OtherExtracts
  <2> QED
    BY <2>2, <2>3
<1>3. Runs \in SUBSET Runs
  OBVIOUS
<1>4. /\ mine' \in [Runs -> Task]
      /\ \A q \in Runs : mine'[q] = IF Running(q) THEN Excuse(q, e) ELSE mine[q]
  <2>1. TypeInv
    BY DEF IInv
  <2> QED
    BY <1>2, <1>3, <2>1, MeddledAll
<1>5. /\ TypeInv /\ FsInv /\ edits \in 0..MaxEdits /\ MaxEdits \in Nat
      /\ fs \in [packages : 0..MaxEdits, boot : BOOLEAN, initrd : 0..MaxEdits]
  BY DEF IInv, TypeInv, TypeOK
<1>6. /\ edits' \in 0..MaxEdits /\ FsInv'
      /\ fs' \in [packages : 0..MaxEdits, boot : BOOLEAN, initrd : 0..MaxEdits]
  BY <1>1, <1>5 DEF FsInv
<1>7. NoTree \in Tree
  BY DEF NoTree, Tree
<1>8. TypeInv'
  BY <1>1, <1>2, <1>4, <1>5, <1>6, <1>7, KeptIs DEF TypeInv, TypeOK, Task, Publication
<1>9. SessionInv'
  BY <1>1 DEF IInv, SessionInv, Unlocked
<1>10. Images' \subseteq Images
  BY <1>1, <1>5, KeptIs, ImagesFrom
<1>11. ImageWhole' /\ KernelCurrent'
  BY <1>10 DEF IInv, ImageWhole, KernelCurrent
<1>12. ASSUME NEW q \in Runs PROVE RunOK(q)'
  <2>1. CASE "media" \in e
    BY <1>1, <1>4, <2>1, Disturbed
  <2>2. CASE "media" \notin e
    <3>1. UNCHANGED <<tree, sums>> /\ RunOK(q) /\ at[q] \notin InSession
      BY <1>1, <1>2, <2>2 DEF IInv, RunInv, SessionInv, Unlocked
    <3>2. CASE Running(q)
      <4>1. mine'[q] = Excuse(q, e)
        BY <1>4, <3>2
      <4>2. /\ mine'[q].excuses = mine[q].excuses \cup e /\ mine'[q].raising = mine[q].raising
            /\ mine'[q].done = mine[q].done /\ mine'[q].missing = mine[q].missing
        BY <1>5, <4>1, ExcuseIs
      <4>3. mine'[q].excuses # {} /\ (Undisturbed(q)' => Undisturbed(q)) /\ at[q] # "idle"
        BY <1>2, <3>2, <4>2 DEF Undisturbed, Running
      <4>4. TaskOK(q)' /\ (Undisturbed(q) => TreeOK(q)')
        BY <1>1, <3>1, <4>2, <4>3 DEF RunOK, TaskOK, TreeOK, AfterPurge, AfterCopy, InSession
      <4> QED
        BY <4>3, <4>4 DEF RunOK
    <3>3. CASE ~Running(q)
      BY <1>1, <1>4, <3>1, <3>3 DEF RunOK, TaskOK, Running, TreeOK, KernelOK, KernelReady,
         AfterPurge, AfterCopy, AtTarget
    <3> QED
      BY <3>2, <3>3
  <2> QED
    BY <2>1, <2>2
<1> QED
  BY <1>6, <1>8, <1>9, <1>11, <1>12 DEF IInv, RunInv

LEMMA RecoverRebuildKeeps ==
  ASSUME IInv, RecoverRebuild
  PROVE  IInv'
<1>1. /\ Unlocked /\ lock' = "free" /\ session' = None /\ pub' = NoPublication
      /\ final' \in {final, pub.image} /\ UNCHANGED <<fs, tree, sums, at, mine, outcome, bounds>>
  BY DEF RecoverRebuild
<1>2. TypeInv' /\ FsInv' /\ Current' = Current
  BY <1>1, KeptIs DEF IInv, TypeInv, TypeOK, FsInv, Current, bounds, Publication
<1>3. SessionInv'
  BY <1>1 DEF IInv, SessionInv, Unlocked
<1>4. Images' \subseteq Images
  BY <1>1, KeptIs, ImagesFrom DEF IInv
<1>5. ImageWhole' /\ KernelCurrent'
  BY <1>4 DEF IInv, ImageWhole, KernelCurrent
<1>6. ASSUME NEW q \in Runs PROVE RunOK(q)'
  BY <1>1, <1>2, Untouched
<1> QED
  BY <1>2, <1>3, <1>5, <1>6 DEF IInv, RunInv
--------------------------------------------------------------------------------
LEMMA Initially == Init => IInv
<1> SUFFICES ASSUME Init PROVE IInv
  OBVIOUS
<1>1. PICK boot \in BOOLEAN, under \in [Runs -> Executors] :
        /\ fs = [packages |-> 0, boot |-> boot, initrd |-> 0]
        /\ mine = [r \in Runs |-> Unset(under[r])]
  BY DEF Init
<1>2. /\ tree = NoTree /\ sums = NoTree /\ final = NoImage
      /\ pub = [stage |-> "none", image |-> NoImage] /\ session = None /\ lock = "free"
      /\ at = [r \in Runs |-> "idle"] /\ outcome = [r \in Runs |-> "none"]
      /\ edits = 0 /\ deaths = 0 /\ faults = 0
  BY DEF Init
<1>3. \A r \in Runs : under[r] \in Executors /\ Unset(under[r]) \in Task
  BY DEF Unset, Task
<1>4. mine \in [Runs -> Task] /\ NoTree \in Tree /\ 0 \in 0..MaxEdits
  BY <1>1, <1>3 DEF NoTree, Tree
<1>5. TypeInv
  BY <1>1, <1>2, <1>4 DEF TypeInv, TypeOK, Task, Publication, Places, Outcomes
<1>6. FsInv /\ SessionInv
  BY <1>1, <1>2 DEF FsInv, SessionInv, InSession
<1>7. ImageWhole /\ KernelCurrent
  BY <1>2 DEF ImageWhole, KernelCurrent, Images
<1>8. ASSUME NEW r \in Runs PROVE RunOK(r)
  <2>1. mine[r] = Unset(under[r]) /\ mine[r].executor = under[r] /\ mine[r].done = 0
        /\ ~mine[r].raising
    BY <1>1 DEF Unset
  <2> QED
    BY <1>2, <2>1 DEF RunOK, TaskOK, TreeOK, KernelOK, KernelReady, AfterPurge, AfterCopy, AtTarget
<1> QED
  BY <1>5, <1>6, <1>7, <1>8 DEF IInv, RunInv

LEMMA Stutters ==
  ASSUME IInv, UNCHANGED vars
  PROVE  IInv'
BY ZenonT(60) DEF vars, world, bounds, IInv, TypeInv, TypeOK, FsInv, SessionInv, RunInv, RunOK, TaskOK,
   Undisturbed, TreeOK, KernelOK, KernelReady, Current, Here, ImageWhole, KernelCurrent, Images

LEMMA StepKeeps ==
  ASSUME IInv, NEW r \in Runs, Step(r)
  PROVE  IInv'
BY StartKeeps, FaultsKeep, RecoverKeeps, FinishKeeps, ObserveKeeps, PurgeTreeKeeps, EnterKernelKeeps,
   BeginChrootKeeps, LocaleKeeps, TargetKeeps, TargetFailsKeeps, EndChrootKeeps, LeaveKernelKeeps,
   CopyKernelKeeps, EnterFinalKeeps, WriteKeeps, WriteImageKeeps, SealKeeps
   DEF Step

LEMMA Inductive == IInv /\ [Next]_vars => IInv'
<1> SUFFICES ASSUME IInv, [Next]_vars PROVE IInv'
  OBVIOUS
<1>1. ASSUME NEW r \in Runs, Step(r) \/ Fault(r) \/ Die(r) PROVE IInv'
  BY <1>1, StepKeeps, FaultsKeep, DieKeeps
<1>2. CASE OtherEdits \/ OtherExtracts \/ RecoverRebuild
  BY <1>2, OthersKeep, RecoverRebuildKeeps
<1>3. CASE UNCHANGED vars
  BY <1>3, Stutters
<1> QED
  BY <1>1, <1>2, <1>3 DEF Next

LEMMA Always == Spec => []IInv
BY Initially, Inductive, PTL DEF Spec

\* The variables keep their types.
THEOREM RebuildTypeCorrect == Spec => []TypeOK
<1>1. IInv => TypeOK
  BY DEF IInv, TypeInv
<1> QED
  BY <1>1, Always, PTL

\* run_rebuild: an image a reader can get, published or still a candidate, is
\* the work of one run, with the manifest and the checksums of what is in it.
THEOREM ImageIsOfOneRun == Spec => []ImageWhole
<1>1. IInv => ImageWhole
  BY DEF IInv
<1> QED
  BY <1>1, Always, PTL

\* The kernel a run copies into the image is that of the packages it packs.
THEOREM KernelIsOfTheImage == Spec => []KernelCurrent
<1>1. IInv => KernelCurrent
  BY DEF IInv
<1> QED
  BY <1>1, Always, PTL

--------------------------------------------------------------------------------
(* A run that is alone *)

\* A step of one run leaves its executor, and the other runs where they are.
LEMMA Stays ==
  ASSUME IInv, NEW r \in Runs, Step(r) \/ Fault(r) \/ Die(r)
  PROVE  /\ mine'[r].executor = mine[r].executor
         /\ at'[r] # "idle" /\ \A q \in Runs \ {r} : at'[q] = at[q]
<1>1. /\ \E place \in Places \ {"idle"} : Go(r, place)
  BY DEF Step, Fault, Die, Start, Busy, Recover, Finish, Observe, PurgeTree, EnterKernel, BeginChroot,
     ChrootRefused, Locale, LocaleRefused, Target, TargetFails, EndChroot, LeaveKernel, CopyKernel,
     NoKernel, EnterFinal, Squashfs, Manifest, Md5, WriteImage, ImageRefused, Seal, Publish, WriteTree,
     Refused, Fails, Ends, Enter, Places
<1>2. /\ at'[r] # "idle" /\ \A q \in Runs \ {r} : at'[q] = at[q]
  BY <1>1, Before DEF Go
<1>3. CASE \E how \in Outcomes : Ends(r, how)
  BY <1>2, <1>3, Before DEF Ends, Unset
<1>4. CASE UNCHANGED mine
  BY <1>2, <1>4
<1>5. CASE \/ Set(r, "raising", TRUE) \/ \E n \in Nat : Set(r, "done", n)
           \/ \E list \in {<<>>, <<Update>>, <<Purge, Install>>} : Set(r, "granted", list)
  BY <1>2, <1>5, Before DEF Set, Task
<1>6. CASE Meddle(r)
  BY <1>2, <1>6, MeddleIs
<1>7. CASE TargetFails(r)
  <2>1. {"command"} \in SUBSET Excuses /\ {r} \in SUBSET Runs /\ TypeInv
    BY Before DEF Excuses
  <2>2. mine'[r] \in {Excuse(r, {"command"}), mine[r]}
    BY <1>7, <2>1, Meddled DEF TargetFails
  <2> QED
    BY <1>2, <2>1, <2>2, ExcuseIs
<1>8. CASE PurgeTree(r)
  <2>1. {"media"} \in SUBSET Excuses /\ Runs \ {r} \in SUBSET Runs /\ TypeInv
    BY Before DEF Excuses
  <2>2. /\ Excused(Runs \ {r}, {"media"}) \in [Runs -> Task]
        /\ Excused(Runs \ {r}, {"media"})[r] = mine[r]
    BY <2>1, Meddled
  <2> QED
    BY <1>2, <1>8, <2>2, Before DEF PurgeTree, Task
<1>9. CASE Step(r) /\ ~TargetFails(r) /\ ~PurgeTree(r)
  <2>1. mine[r].done + 1 \in Nat /\ Result(r, TRUE) \in Outcomes /\ Result(r, FALSE) \in Outcomes
    BY Before DEF Task, Result, Outcomes
  <2>2. {Commands(b) : b \in BOOLEAN} \cup {<<>>} \subseteq {<<>>, <<Update>>, <<Purge, Install>>}
    BY DEF Commands
  <2>3. Start(r) => \/ \E list \in {<<>>, <<Update>>, <<Purge, Install>>} : Set(r, "granted", list)
                    \/ \E how \in Outcomes : Ends(r, how)
    BY DEF Start, Outcomes, Commands
  <2>4. EndChroot(r) => UNCHANGED mine \/ \E n \in Nat : Set(r, "done", n)
    BY <2>1 DEF EndChroot
  <2>5. LeaveKernel(r) => UNCHANGED mine \/ \E how \in Outcomes : Ends(r, how)
    BY DEF LeaveKernel, Outcomes
  <2>6. Finish(r) \/ Publish(r) => \E how \in Outcomes : Ends(r, how)
    BY <2>1 DEF Finish, Publish
  <2>7. Fails(r) => Set(r, "raising", TRUE) \/ \E how \in Outcomes : Ends(r, how)
    BY DEF Fails, Outcomes
  <2>8. CopyKernel(r) \/ Squashfs(r) \/ Manifest(r) \/ Md5(r) => Meddle(r)
    BY DEF CopyKernel, Squashfs, Manifest, Md5, WriteTree
  <2>9. Recover(r) \/ Observe(r) \/ EnterKernel(r) \/ BeginChroot(r) \/ Locale(r) \/ Target(r)
        \/ EnterFinal(r) \/ WriteImage(r) \/ Seal(r) => UNCHANGED mine
    BY DEF Recover, Observe, EnterKernel, BeginChroot, Locale, Target, EnterFinal, WriteImage, Seal
  <2>10. Busy(r) \/ ChrootRefused(r) \/ LocaleRefused(r) \/ NoKernel(r) \/ ImageRefused(r) => Fails(r)
    BY DEF Busy, ChrootRefused, LocaleRefused, NoKernel, ImageRefused, Refused
  <2> QED
    BY <1>3, <1>4, <1>5, <1>6, <1>9, <2>3, <2>4, <2>5, <2>6, <2>7, <2>8, <2>9, <2>10 DEF Step
<1>10. CASE Fault(r) \/ Die(r)
  <2>1. Fault(r) => Set(r, "raising", TRUE) \/ \E how \in Outcomes : Ends(r, how)
    BY DEF Fault, Fails, Outcomes
  <2>2. Die(r) => \E how \in Outcomes : Ends(r, how)
    BY DEF Die, Outcomes
  <2> QED
    BY <1>3, <1>5, <1>10, <2>1, <2>2
<1> QED
  BY <1>7, <1>8, <1>9, <1>10

LEMMA AloneStep ==
  ASSUME IInv, NEW r \in Runs, r \notin Granted, Alone(r), AloneOK(r), Alone(r)',
         Step(r) \/ Fault(r) \/ Die(r)
  PROVE  AloneOK(r)'
<1>1. /\ edits = 0 /\ deaths = 0 /\ faults = 0 /\ edits' = 0 /\ deaths' = 0 /\ faults' = 0
  BY DEF Alone
<1>2. /\ at[r] # "finish" /\ outcome[r] \notin {"failed", "dead"}
      /\ session \in {r, None} /\ ~mine[r].raising
      /\ lock = IF at[r] \in InTransaction THEN "held" ELSE "free"
      /\ pub.stage = IF at[r] \in {"squashfs", "manifest", "sums", "image", "seal"} THEN "candidate"
                     ELSE IF at[r] = "publish" THEN "sealed" ELSE "none"
  BY DEF AloneOK
<1>3. at[r] \notin InSession => session = None
  BY <1>2, Before
<1>4. pub.stage = "none" => Kept = NoPublication
  BY DEF Kept
<1>5. ~(Fault(r) \/ Die(r) \/ TargetFails(r) \/ Busy(r) \/ ChrootRefused(r) \/ LocaleRefused(r)
        \/ NoKernel(r) \/ ImageRefused(r) \/ Finish(r))
  <2>1. ~(Fault(r) \/ Die(r) \/ TargetFails(r))
    BY <1>1 DEF Fault, Die, TargetFails
  <2>2. ~Busy(r)
    BY <1>2, <1>3 DEF Busy, Unlocked, InSession
  <2>3. ~(ChrootRefused(r) \/ LocaleRefused(r))
    BY <1>2 DEF ChrootRefused, LocaleRefused, TargetAuthorized, Authorized, InTransaction
  <2>4. ~(NoKernel(r) \/ ImageRefused(r) \/ Finish(r))
    BY <1>2 DEF NoKernel, ImageRefused, Finish, AloneOK
  <2> QED
    BY <2>1, <2>2, <2>3, <2>4
<1>6. ASSUME NEW place \in Places, Go(r, place) PROVE at'[r] = place
  BY <1>6, Before DEF Go
<1>7. ASSUME Start(r) PROVE AloneOK(r)'
  <2>1. /\ at[r] = "idle" /\ lock = "free" /\ UNCHANGED <<world, outcome>> /\ Go(r, "recover")
    BY <1>2, <1>7 DEF Start, InTransaction
  <2>2. mine'[r].raising = mine[r].raising
    BY <1>2, <1>7, <2>1, Before DEF Start, Set, Task
  <2> QED
    BY <1>2, <1>3, <1>6, <2>1, <2>2 DEF AloneOK, AtTarget, InSession, InTransaction, world, Places
<1>8. ASSUME Recover(r) \/ Observe(r) PROVE AloneOK(r)'
  BY <1>2, <1>3, <1>4, <1>6, <1>8 DEF Recover, Observe, Enter, NoPublication, AloneOK, AtTarget, InSession,
     InTransaction, world, Places
<1>9. ASSUME PurgeTree(r) PROVE AloneOK(r)'
  <2>1. {"media"} \in SUBSET Excuses /\ Runs \ {r} \in SUBSET Runs /\ TypeInv
    BY Before DEF Excuses
  <2>2. /\ Excused(Runs \ {r}, {"media"}) \in [Runs -> Task]
        /\ Excused(Runs \ {r}, {"media"})[r] = mine[r]
    BY <2>1, Meddled
  <2>3. mine'[r].raising = mine[r].raising /\ mine'[r].missing = ~fs.boot
    BY <1>9, <2>2, Before DEF PurgeTree, Task
  <2>4. /\ at[r] = "purge" /\ at'[r] = "kernelSession"
        /\ UNCHANGED <<fs, pub, final, session, lock, outcome, bounds>>
    BY <1>6, <1>9 DEF PurgeTree, Places
  <2> QED
    BY <1>2, <2>3, <2>4 DEF AloneOK, AtTarget, InSession, InTransaction
<1>10. ASSUME EnterKernel(r) \/ BeginChroot(r) \/ Locale(r) PROVE AloneOK(r)'
  BY <1>2, <1>3, <1>4, <1>6, <1>10 DEF EnterKernel, BeginChroot, Locale, Enter, NoPublication, AloneOK,
     AtTarget, InSession, InTransaction, world, Places
<1>11. ASSUME Target(r) PROVE AloneOK(r)'
  <2>1. /\ at[r] = "target" /\ at'[r] = "cleanup" /\ fs' = After(NextCommand(r))
        /\ UNCHANGED <<pub, session, lock, mine, outcome>>
    BY <1>6, <1>11 DEF Target, Places
  <2>2. /\ mine[r].missing \in BOOLEAN /\ mine[r].done \in 0..2
        /\ mine[r].done < Len(Commands(mine[r].missing))
    BY <2>1, Before DEF Task, RunOK, TaskOK, AtTarget
  <2>3. /\ ~mine[r].missing => NextCommand(r) = Update
        /\ mine[r].missing /\ mine[r].done = 1 => NextCommand(r) = Install
    BY <2>2 DEF NextCommand, Commands
  <2>4. ~mine[r].missing => fs.boot
    BY <2>1 DEF AloneOK, AtTarget
  <2>5. /\ ~mine[r].missing => fs'.boot
        /\ mine[r].missing /\ mine[r].done = 1 => fs'.boot
    BY <2>1, <2>3, <2>4, Before DEF After, Purge, Install, Update
  <2> QED
    BY <1>2, <2>1, <2>5 DEF AloneOK, AtTarget, InSession, InTransaction
<1>12. ASSUME EndChroot(r) PROVE AloneOK(r)'
  <2>1. /\ at[r] = "cleanup" /\ lock' = "free" /\ UNCHANGED <<fs, pub, session, outcome>>
        /\ mine' = [mine EXCEPT ![r] = [@ EXCEPT !.done = mine[r].done + 1]]
        /\ Go(r, IF mine'[r].done = Len(Commands(mine[r].missing)) THEN "leave" ELSE "chroot")
    BY <1>2, <1>12 DEF EndChroot, Set
  <2>2. /\ mine[r].missing \in BOOLEAN /\ mine[r].done \in 0..2
        /\ mine[r].done < Len(Commands(mine[r].missing))
    BY <1>2, <2>1, Before DEF Task, RunOK, TaskOK
  <2>3. /\ mine'[r].done = mine[r].done + 1 /\ mine'[r].missing = mine[r].missing
        /\ mine'[r].raising = mine[r].raising
    BY <2>1, Before DEF Task
  <2>4. /\ at'[r] \in {"leave", "chroot"}
        /\ at'[r] = "leave" => mine'[r].done = Len(Commands(mine[r].missing))
    BY <1>6, <2>1 DEF Places
  <2>5. ~mine[r].missing => fs.boot
    BY <2>1 DEF AloneOK
  <2>6. mine[r].missing /\ at'[r] = "leave" => fs.boot
    <3>1. mine[r].missing /\ at'[r] = "leave" => mine[r].done = 1
      BY <2>2, <2>3, <2>4 DEF Commands
    <3> QED
      BY <2>1, <3>1 DEF AloneOK
  <2> QED
    BY <1>2, <2>1, <2>3, <2>4, <2>5, <2>6 DEF AloneOK, AtTarget, InSession, InTransaction
<1>13. ASSUME LeaveKernel(r) PROVE AloneOK(r)'
  BY <1>2, <1>4, <1>6, <1>13 DEF LeaveKernel, NoPublication, AloneOK, AtTarget, InSession, InTransaction,
     Places
<1>14. ASSUME CopyKernel(r) \/ Squashfs(r) \/ Manifest(r) \/ Md5(r) PROVE AloneOK(r)'
  <2>1. mine'[r] = mine[r]
    BY <1>14, MeddleIs DEF CopyKernel, Squashfs, Manifest, Md5, WriteTree
  <2>2. UNCHANGED <<pub, session, lock, outcome>>
    BY <1>14 DEF CopyKernel, Squashfs, Manifest, Md5, WriteTree
  <2>3. \/ at[r] = "copy" /\ at'[r] = "finalSession"
        \/ at[r] = "squashfs" /\ at'[r] = "manifest"
        \/ at[r] = "manifest" /\ at'[r] = "sums"
        \/ at[r] = "sums" /\ at'[r] = "image"
    BY <1>6, <1>14 DEF CopyKernel, Squashfs, Manifest, Md5, WriteTree, Places
  <2> QED
    BY <1>2, <2>1, <2>2, <2>3 DEF AloneOK, AtTarget, InSession, InTransaction
<1>15. ASSUME EnterFinal(r) \/ WriteImage(r) \/ Seal(r) PROVE AloneOK(r)'
  BY <1>2, <1>6, <1>15, Before DEF EnterFinal, WriteImage, Seal, AloneOK, AtTarget, InSession,
     InTransaction, Places, Publication
<1>16. ASSUME Publish(r) PROVE AloneOK(r)'
  <2>1. /\ at[r] = "publish" /\ pub' = NoPublication /\ session' = None /\ lock' = lock
        /\ Ends(r, "succeeded") /\ "succeeded" \in Outcomes
    BY <1>16 DEF Publish, Result, Outcomes
  <2>2. at'[r] = "end" /\ outcome'[r] = "succeeded" /\ ~mine'[r].raising
    BY <2>1, Before DEF Ends, Go, Unset, TypeInv, TypeOK
  <2> QED
    BY <1>2, <2>1, <2>2 DEF AloneOK, AtTarget, InSession, InTransaction, NoPublication
<1> QED
  BY <1>5, <1>7, <1>8, <1>9, <1>10, <1>11, <1>12, <1>13, <1>14, <1>15, <1>16 DEF Step


LEMMA AloneInitially == Init => AloneInv
<1> SUFFICES ASSUME Init, NEW r \in Runs, r \notin Granted PROVE AloneOK(r)
  BY DEF AloneInv
<1>1. ~mine[r].raising
  BY DEF Init, Unset
<1> QED
  BY <1>1 DEF Init, AloneOK, AtTarget, InTransaction

LEMMA AloneInductive == IInv /\ AloneInv /\ [Next]_vars => AloneInv'
<1> SUFFICES ASSUME IInv, AloneInv, [Next]_vars, NEW r \in Runs, r \notin Granted', Alone(r)'
             PROVE  AloneOK(r)'
  BY DEF AloneInv
<1>1. CASE UNCHANGED vars
  BY <1>1 DEF vars, world, bounds, AloneInv, Granted, Alone, AloneOK
<1>2. CASE OtherEdits \/ OtherExtracts
  BY <1>2 DEF IInv, TypeInv, Alone, OtherEdits, OtherExtracts
<1>3. CASE RecoverRebuild
  <2>1. UNCHANGED <<at, mine, bounds>>
    BY <1>3 DEF RecoverRebuild
  <2>2. r \notin Granted /\ Alone(r)
    BY <2>1 DEF Granted, Alone, bounds
  <2>3. AloneOK(r) /\ at[r] \notin InSession
    BY <1>3, <2>2, Before DEF AloneInv, RecoverRebuild, Unlocked
  <2> QED
    BY <1>3, <2>3 DEF AloneOK, RecoverRebuild, InSession, InTransaction
<1>4. ASSUME NEW q \in Runs, Step(q) \/ Fault(q) \/ Die(q) PROVE AloneOK(r)'
  <2>1. q = r
    BY <1>4, Stays DEF Alone
  <2>2. r \notin Granted /\ \A p \in Runs \ {r} : at[p] = "idle"
    BY <1>4, <2>1, Stays DEF Granted, Alone
  <2>3. edits = 0 /\ deaths = 0 /\ faults = 0
    <3>1. /\ edits' \in {edits, edits + 1} /\ deaths' \in {deaths, deaths + 1}
          /\ faults' \in {faults, faults + 1}
      BY <1>4 DEF Step, Fault, Die, Start, Busy, Recover, Finish, Observe, PurgeTree, EnterKernel,
         BeginChroot, ChrootRefused, Locale, LocaleRefused, Target, TargetFails, EndChroot, LeaveKernel,
         CopyKernel, NoKernel, EnterFinal, Squashfs, Manifest, Md5, WriteImage, ImageRefused, Seal,
         Publish, WriteTree, Refused, Fails, bounds
    <3> QED
      BY <3>1, Before DEF TypeInv, Alone
  <2>4. Alone(r) /\ AloneOK(r)
    BY <2>2, <2>3 DEF Alone, AloneInv
  <2> QED
    BY <1>4, <2>1, <2>2, <2>4, AloneStep
<1> QED
  BY <1>1, <1>2, <1>3, <1>4 DEF Next

\* A run of run_rebuild without a grant that nobody disturbs and whose commands
\* succeed does not fail: none of its checks refuses what another part of it did.
THEOREM UndisturbedRunSucceeds == Spec => []DirectSucceeds
<1>1. AloneInv => DirectSucceeds
  BY DEF AloneInv, AloneOK, DirectSucceeds
<1> QED
  BY <1>1, Always, AloneInitially, AloneInductive, PTL DEF Spec

=================================================================================
