------------------------------- MODULE RebuildRun -------------------------------
(***************************************************************************)
(* run_rebuild of liveusb/backend/rebuild.py: three mount sessions, and    *)
(* work on the media tree before, between and inside them.  A run under a  *)
(* factory grant hands every command to the RebuildCommandExecutor of      *)
(* liveusb/backend/factory_execution.py; a direct run has none.            *)
(* The mount session, the chroot transaction and the publication of the    *)
(* pair are taken at their interfaces here: MountSession,                  *)
(* ChrootTransaction and PairPublication are about their insides.          *)
(***************************************************************************)
EXTENDS Naturals, FiniteSets, Sequences

CONSTANTS
  Runs,         \* calls of run_rebuild
  Executors,    \* whether a run may have an executor: a subset of BOOLEAN
  None,         \* nobody
  Undeletable,  \* files of the media tree that os.remove may fail to remove
  BootFiles,    \* ctx.boot_files: the kernel is deleted once it is copied
  MaxEdits,     \* bound: operations of other commands on the workspace
  MaxDeaths,    \* bound: runs that die
  MaxFaults     \* bound: commands or system calls of a run that fail

Parts == {"kernel", "squashfs", "manifest"}

ASSUME RebuildAssumption ==
  /\ Executors \subseteq BOOLEAN
  /\ {None, "left"} \cap Runs = {}
  /\ Undeletable \subseteq Parts
  /\ BootFiles \in BOOLEAN
  /\ {MaxEdits, MaxDeaths, MaxFaults} \subseteq Nat

\* A piece of the media tree: who wrote it, from which packages of FileSystem.
\* A file mksquashfs appends to holds several.
Content == [by : Runs, packages : 0..MaxEdits]
Tree    == [Parts -> SUBSET Content]
NoTree  == [p \in Parts |-> {}]
\* What another actor, a command that failed, or a file that could not be
\* removed may have done to a run.
Excuses == {"media", "filesystem", "command", "kept"}
Image   == [by : Runs, tree : Tree, sums : Tree, excuses : SUBSET Excuses]
NoImage == [by |-> None, tree |-> NoTree, sums |-> NoTree, excuses |-> {}]

Purge == "purge"   Install == "install"   Update == "update"
CommandsTwice(missing) ==  \* faulty: a missing kernel is installed, then updated as well
  IF missing THEN <<Purge, Install, Update>> ELSE <<Update>>
Commands(missing) == IF missing THEN <<Purge, Install>> ELSE <<Update>>

Places == {"idle", "recover", "finish", "observe", "purge", "kernelSession", "chroot",
           "locale", "target", "cleanup", "leave", "copy", "finalSession", "squashfs",
           "manifest", "sums", "image", "seal", "publish", "end"}
Outcomes == {"none", "succeeded", "failed", "dead"}
InSession == {"finish", "chroot", "locale", "target", "cleanup", "leave", "squashfs",
              "manifest", "sums", "image", "seal", "publish"}
InTransaction == {"locale", "target", "cleanup"}

VARIABLES
  fs,        \* FileSystem: packages, boot files present, what the initrd was built from
  tree,      \* the media tree under casper/
  sums,      \* md5sum.txt: the tree it was computed from
  pub,       \* the journal's external publication and its candidate
  final,     \* the published pair
  session,   \* who holds the mount session's lock; "left": only its journal is there
  lock,      \* FileSystem/tmp/lock_chroot; "orphan": without a transaction journal
  at,        \* a run's next step
  mine,      \* a run's variables, while it runs
  outcome,
  edits, deaths, faults

world  == <<fs, tree, sums, pub, final, session, lock>>
bounds == <<edits, deaths, faults>>
vars   == <<world, at, mine, outcome, bounds>>

\* Whether the run has an executor, missing_kernel, the targets run (the
\* executor's _kernel_index), whether an exception is on its way out, the
\* kernel targets the grant lists and, as history, what happened from outside.
Unset(e) == [executor |-> e, missing |-> FALSE, done |-> 0, raising |-> FALSE,
             granted |-> <<>>, excuses |-> {}]

Granted == {r \in Runs : mine[r].executor}

Init ==
  /\ \E boot \in BOOLEAN : fs = [packages |-> 0, boot |-> boot, initrd |-> 0]
  /\ tree = NoTree /\ sums = NoTree
  /\ pub = [stage |-> "none", image |-> NoImage] /\ final = NoImage
  /\ session = None /\ lock = "free"
  /\ at = [r \in Runs |-> "idle"] /\ outcome = [r \in Runs |-> "none"]
  /\ \E under \in [Runs -> Executors] : mine = [r \in Runs |-> Unset(under[r])]
  /\ edits = 0 /\ deaths = 0 /\ faults = 0
--------------------------------------------------------------------------------
(* Control *)

Go(r, place) == at' = [at EXCEPT ![r] = place]
Set(r, field, value) == mine' = [mine EXCEPT ![r] = [@ EXCEPT ![field] = value]]
Ends(r, how) == /\ Go(r, "end") /\ outcome' = [outcome EXCEPT ![r] = how]
                /\ mine' = [mine EXCEPT ![r] = Unset(@.executor)]
Running(q)    == at[q] \notin {"idle", "end"}
Excused(qs, e) ==
  [q \in Runs |-> IF q \in qs /\ Running(q) THEN [mine[q] EXCEPT !.excuses = @ \cup e] ELSE mine[q]]
\* The run changed the tree, which other runs may be relying on.
Meddle(r) == mine' = Excused(Runs \ {r}, {"media"})
Unlocked == session \notin Runs
NoPublication == [stage |-> "none", image |-> NoImage]
\* What __enter__ and __exit__ leave of a publication: only a sealed one is kept.
Kept == IF pub.stage = "sealed" THEN pub ELSE NoPublication

\* An exception: __exit__ of the chroot transaction, then of the session.
Fails(r) ==
  /\ UNCHANGED <<fs, tree, sums, final, lock, edits, deaths>>
  /\ IF at[r] \in InTransaction
       THEN /\ Go(r, "cleanup") /\ Set(r, "raising", TRUE)
            /\ UNCHANGED <<pub, session, outcome>>
       ELSE /\ Ends(r, "failed")
            /\ IF at[r] \in InSession THEN session' = None /\ pub' = Kept
                                      ELSE UNCHANGED <<session, pub>>
Refused(r) == Fails(r) /\ UNCHANGED faults

\* A command, a check or a system call fails.
Fault(r) ==
  /\ at[r] \in Places \ {"idle", "cleanup", "leave", "end"}
  /\ faults < MaxFaults /\ faults' = faults + 1
  /\ Fails(r)

\* The kernel drops the flocks; the session's journal stays, lock_chroot too,
\* and the transaction's journal unless it was removed already.
Die(r) ==
  /\ Running(r) /\ deaths < MaxDeaths /\ deaths' = deaths + 1
  /\ Ends(r, "dead")
  /\ session' = IF session = r THEN "left" ELSE session
  /\ lock' \in IF at[r] \in InTransaction THEN {"stale", "orphan"} ELSE {lock}
  /\ UNCHANGED <<fs, tree, sums, pub, final, edits, faults>>

Enter(r, place) ==
  /\ Unlocked
  /\ session' = r /\ pub' = Kept /\ Go(r, place)
--------------------------------------------------------------------------------
(* The executor *)

\* A command names its program by the word in the source or by the path the
\* plan verified; the authority holds the path.
ChrootProgram(r)  == "word"                     \* chroot_run
ObserveProgram(r) == IF r \in Granted THEN "path" ELSE "word"
Authorized(r, program) == r \in Granted => program = "path"

NextCommand(r) == Commands(mine[r].missing)[mine[r].done + 1]
\* begin_chroot_transaction, for the next target of the run.
TargetAuthorized(r) ==
  r \in Granted => /\ mine[r].done < Len(mine[r].granted)
                   /\ mine[r].granted[mine[r].done + 1] = NextCommand(r)

\* assert_complete, asked by run_rebuild and by execute_issued_rebuild.
Result(r, complete) == IF r \in Granted /\ ~complete THEN "failed" ELSE "succeeded"
--------------------------------------------------------------------------------
(* The recovery session *)

\* check_fs_dir, check_lock.  Under a grant the fresh plan has just been made:
\* it refuses a workspace with a journal, but does not look for lock_chroot.
Start(r) ==
  /\ at[r] = "idle"
  /\ r \in Granted => lock \in {"free", "orphan"} /\ pub.stage = "none" /\ session = None
  /\ IF lock = "free"
       THEN /\ Go(r, "recover") /\ UNCHANGED outcome
            /\ Set(r, "granted", IF r \in Granted THEN Commands(~fs.boot) ELSE <<>>)
       ELSE Ends(r, "failed")
  /\ UNCHANGED <<world, bounds>>

\* Another session holds the lock: flock does not wait.
Busy(r) ==
  /\ at[r] \in {"recover", "kernelSession", "finalSession"}
  /\ ~Unlocked
  /\ Refused(r)

Recover(r) ==
  /\ at[r] = "recover"
  /\ \/ pub.stage = "sealed" /\ Enter(r, "finish")
     \/ /\ pub.stage # "sealed" /\ Unlocked
        /\ pub' = Kept /\ session' = None /\ Go(r, "observe")
  /\ UNCHANGED <<fs, tree, sums, final, lock, mine, outcome, bounds>>

\* _finish_external_publication: the run ends without work of its own.
Finish(r) ==
  /\ at[r] = "finish"
  /\ final' = pub.image /\ pub' = NoPublication /\ session' = None
  /\ Ends(r, Result(r, FALSE))
  /\ UNCHANGED <<fs, tree, sums, lock, bounds>>
--------------------------------------------------------------------------------
(* Between the sessions, and the kernel session *)

\* The media checks and target_architecture_command.
Observe(r) ==
  /\ at[r] = "observe"
  /\ Authorized(r, ObserveProgram(r))
  /\ Go(r, "purge") /\ UNCHANGED <<world, mine, outcome, bounds>>

PurgeButSquashfs(r) ==   \* faulty: the SquashFS is not on the list
  /\ at[r] = "purge"
  /\ \E kept \in SUBSET Undeletable :
       tree' = [p \in Parts |-> IF p \in kept \cup {"squashfs"} THEN tree[p] ELSE {}]
  /\ sums' = NoTree
  /\ mine' = [Excused(Runs \ {r}, {"media"}) EXCEPT ![r].missing = ~fs.boot]
  /\ Go(r, "kernelSession")
  /\ UNCHANGED <<fs, pub, final, session, lock, outcome, bounds>>
\* to_clean and missing_kernel; no lock is held.  A file that os.remove cannot
\* remove is a warning, and mksquashfs will append to a SquashFS so kept.
PurgeTree(r) ==
  /\ at[r] = "purge"
  /\ \E kept \in SUBSET Undeletable :
       /\ tree' = [p \in Parts |-> IF p \in kept THEN tree[p] ELSE {}]
       /\ mine' = [Excused(Runs \ {r}, {"media"}) EXCEPT
                    ![r].missing = ~fs.boot,
                    ![r].excuses = @ \cup IF tree'["squashfs"] = {} THEN {} ELSE {"kept"}]
  /\ sums' = NoTree
  /\ Go(r, "kernelSession")
  /\ UNCHANGED <<fs, pub, final, session, lock, outcome, bounds>>

\* mount_sys
EnterKernel(r) ==
  /\ at[r] = "kernelSession" /\ Enter(r, "chroot")
  /\ UNCHANGED <<fs, tree, sums, final, lock, mine, outcome, bounds>>

\* The executor is asked first, then the transaction takes its lock.
BeginChroot(r) ==
  /\ at[r] = "chroot" /\ TargetAuthorized(r) /\ lock = "free"
  /\ lock' = "held" /\ Go(r, "locale")
  /\ UNCHANGED <<fs, tree, sums, pub, final, session, mine, outcome, bounds>>
ChrootRefused(r) ==
  /\ at[r] = "chroot" /\ ~(TargetAuthorized(r) /\ lock = "free")
  /\ Refused(r)

Locale(r) ==
  /\ at[r] = "locale" /\ Authorized(r, ChrootProgram(r))
  /\ Go(r, "target")
  /\ UNCHANGED <<world, mine, outcome, bounds>>
LocaleRefused(r) ==
  /\ at[r] = "locale" /\ ~Authorized(r, ChrootProgram(r))
  /\ Refused(r)

NoUpdate(command) ==     \* faulty: an existing kernel is taken as it is
  IF command = Update THEN fs ELSE
  [fs EXCEPT !.boot = (command = Install), !.initrd = IF command = Install THEN fs.packages ELSE @]
After(command) ==
  CASE command = Purge   -> [fs EXCEPT !.boot = FALSE]
    [] command = Install -> [fs EXCEPT !.boot = TRUE, !.initrd = fs.packages]
    [] command = Update  -> [fs EXCEPT !.initrd = IF fs.boot THEN fs.packages ELSE @]
Target(r) ==
  /\ at[r] = "target"
  /\ fs' = After(NextCommand(r))
  /\ Go(r, "cleanup")
  /\ UNCHANGED <<tree, sums, pub, final, session, lock, mine, outcome, bounds>>
\* A target that returns an error is a warning to a direct run.
TargetFails(r) ==
  /\ at[r] = "target" /\ r \notin Granted
  /\ faults < MaxFaults /\ faults' = faults + 1
  /\ mine' = Excused({r}, {"command"})
  /\ Go(r, "cleanup")
  /\ UNCHANGED <<world, outcome, edits, deaths>>

\* unblock_services, the cleanup commands, __exit__, end_chroot_transaction.
EndChroot(r) ==
  /\ at[r] = "cleanup"
  /\ lock' = "free"
  /\ IF mine[r].raising
       THEN Go(r, "leave") /\ UNCHANGED mine
       ELSE /\ Set(r, "done", mine[r].done + 1)
            /\ Go(r, IF mine'[r].done = Len(Commands(mine[r].missing)) THEN "leave" ELSE "chroot")
  /\ UNCHANGED <<fs, tree, sums, pub, final, session, outcome, bounds>>

LeaveKernelHolding(r) ==   \* faulty: the image is made inside the kernel session
  /\ at[r] = "leave"
  /\ pub' = Kept
  /\ IF mine[r].raising THEN Ends(r, "failed") ELSE Go(r, "copy") /\ UNCHANGED <<mine, outcome>>
  /\ UNCHANGED <<fs, tree, sums, final, session, lock, bounds>>
LeaveKernel(r) ==
  /\ at[r] = "leave"
  /\ session' = None /\ pub' = Kept
  /\ IF mine[r].raising THEN Ends(r, "failed") ELSE Go(r, "copy") /\ UNCHANGED <<mine, outcome>>
  /\ UNCHANGED <<fs, tree, sums, final, lock, bounds>>

\* copyfile of initrd and vmlinuz; no lock is held.
CopyKernel(r) ==
  /\ at[r] = "copy" /\ fs.boot
  /\ tree' = [tree EXCEPT !["kernel"] = {[by |-> r, packages |-> fs.initrd]}]
  /\ fs' = IF BootFiles THEN [fs EXCEPT !.boot = FALSE] ELSE fs
  /\ Meddle(r) /\ Go(r, "finalSession")
  /\ UNCHANGED <<sums, pub, final, session, lock, outcome, bounds>>
NoKernel(r) == at[r] = "copy" /\ ~fs.boot /\ Refused(r)
--------------------------------------------------------------------------------
(* The final session *)

\* _validate_prior_pair, begin_external_publication.
EnterFinal(r) ==
  /\ at[r] = "finalSession" /\ Unlocked
  /\ session' = r /\ Go(r, "squashfs")
  /\ pub' = IF pub.stage = "sealed" THEN pub ELSE [stage |-> "candidate", image |-> NoImage]
  /\ UNCHANGED <<fs, tree, sums, final, lock, mine, outcome, bounds>>

Here(r) == [by |-> r, packages |-> fs.packages]
WriteTree(r, place, part, content, next) ==
  /\ at[r] = place
  /\ tree' = [tree EXCEPT ![part] = content]
  /\ Meddle(r) /\ Go(r, next)
  /\ UNCHANGED <<fs, sums, pub, final, session, lock, outcome, bounds>>

\* mksquashfs appends to an image that is there.
Squashfs(r) == WriteTree(r, "squashfs", "squashfs", tree["squashfs"] \cup {Here(r)}, "manifest")
Manifest(r) == WriteTree(r, "manifest", "manifest", {Here(r)}, "sums")

\* _write_md5sums
Md5(r) ==
  /\ at[r] = "sums"
  /\ sums' = tree /\ Meddle(r) /\ Go(r, "image")
  /\ UNCHANGED <<fs, tree, pub, final, session, lock, outcome, bounds>>

\* begin_external_primary_write refuses a publication that was taken up.
WriteImage(r) ==
  /\ at[r] = "image" /\ pub.stage = "candidate"
  /\ pub' = [stage |-> "candidate",
             image |-> [by |-> r, tree |-> tree, sums |-> sums, excuses |-> mine[r].excuses]]
  /\ Go(r, "seal")
  /\ UNCHANGED <<fs, tree, sums, final, session, lock, mine, outcome, bounds>>
ImageRefused(r) == at[r] = "image" /\ pub.stage # "candidate" /\ Refused(r)

\* _apply_legacy_hybrid_mutation
Seal(r) ==
  /\ at[r] = "seal"
  /\ pub' = [pub EXCEPT !.stage = "sealed"] /\ Go(r, "publish")
  /\ UNCHANGED <<fs, tree, sums, final, session, lock, mine, outcome, bounds>>

\* record_external_digest to publish_external_pair, and the end of the session.
Publish(r) ==
  /\ at[r] = "publish"
  /\ final' = pub.image /\ pub' = NoPublication /\ session' = None
  /\ Ends(r, Result(r, TRUE))
  /\ UNCHANGED <<fs, tree, sums, lock, bounds>>
--------------------------------------------------------------------------------
(* Other commands, each in a mount session of its own *)

OtherEdits ==       \* chroot shell, package managers, hooks
  /\ Unlocked /\ lock = "free" /\ edits < MaxEdits
  /\ edits' = edits + 1 /\ pub' = Kept /\ session' = None
  /\ \E boot \in BOOLEAN, built \in {fs.initrd, fs.packages + 1} :
       fs' = [packages |-> fs.packages + 1, boot |-> boot, initrd |-> built]
  /\ mine' = Excused(Runs, {"filesystem"})
  /\ UNCHANGED <<tree, sums, final, lock, at, outcome, deaths, faults>>
OtherExtracts ==    \* run_extract: both trees are made anew
  /\ Unlocked /\ lock = "free" /\ edits < MaxEdits
  /\ edits' = edits + 1 /\ pub' = Kept /\ session' = None
  /\ tree' = NoTree /\ sums' = NoTree
  /\ fs' = [packages |-> fs.packages + 1, boot |-> TRUE, initrd |-> fs.packages + 1]
  /\ mine' = Excused(Runs, {"filesystem", "media"})
  /\ UNCHANGED <<final, lock, at, outcome, deaths, faults>>

\* recover_rebuild: the transaction, then the publication.
RecoverRebuild ==
  /\ Unlocked /\ lock # "held"
  /\ lock # "free" \/ pub.stage # "none"
  /\ lock' = "free" /\ session' = None
  /\ final' = IF pub.stage = "sealed" THEN pub.image ELSE final
  /\ pub' = NoPublication
  /\ UNCHANGED <<fs, tree, sums, at, mine, outcome, bounds>>

Step(r) ==
  \/ Start(r) \/ Busy(r) \/ Recover(r) \/ Finish(r) \/ Observe(r) \/ PurgeTree(r)
  \/ EnterKernel(r) \/ BeginChroot(r) \/ ChrootRefused(r) \/ Locale(r) \/ LocaleRefused(r)
  \/ Target(r) \/ TargetFails(r) \/ EndChroot(r) \/ LeaveKernel(r) \/ CopyKernel(r) \/ NoKernel(r)
  \/ EnterFinal(r) \/ Squashfs(r) \/ Manifest(r) \/ Md5(r) \/ WriteImage(r) \/ ImageRefused(r)
  \/ Seal(r) \/ Publish(r)

Next ==
  \/ \E r \in Runs : Step(r) \/ Fault(r) \/ Die(r)
  \/ OtherEdits \/ OtherExtracts \/ RecoverRebuild

Spec == Init /\ [][Next]_vars
--------------------------------------------------------------------------------
(* Properties *)

TypeOK ==
  /\ fs \in [packages : 0..MaxEdits, boot : BOOLEAN, initrd : 0..MaxEdits]
  /\ tree \in Tree /\ sums \in Tree
  /\ pub.stage \in {"none", "candidate", "sealed"}
  /\ pub.image \in Image \cup {NoImage} /\ final \in Image \cup {NoImage}
  /\ session \in Runs \cup {None, "left"} /\ lock \in {"free", "held", "stale", "orphan"}
  /\ at \in [Runs -> Places] /\ outcome \in [Runs -> Outcomes]
  /\ mine \in [Runs -> [executor : Executors, missing : BOOLEAN, done : 0..2, raising : BOOLEAN,
                        granted : {<<>>, <<Update>>, <<Purge, Install>>},
                        excuses : SUBSET Excuses]]

Images == {pub.image, final} \ {NoImage}

\* An image a reader can get holds the work of one run only: every file in it
\* was written by the run that made it, the manifest and the SquashFS are of the
\* same packages (one session spans both), and md5sum.txt describes the files.
\* The only ways out are another run that purges or copies, which it does without
\* any lock, or that writes the manifest, the SquashFS or md5sum.txt in a session
\* of its own; an extraction between the sessions; and an old SquashFS
\* the purge could not remove.
ImageWhole ==
  \A i \in Images : i.excuses \cap {"media", "kept"} = {} =>
    /\ i.sums = i.tree
    /\ \E n \in 0..MaxEdits : /\ i.tree["squashfs"] = {[by |-> i.by, packages |-> n]}
                              /\ i.tree["manifest"] = i.tree["squashfs"]
    /\ i.tree["kernel"] # {}
    /\ \A c \in i.tree["kernel"] : c.by = i.by

\* The initrd the image boots was built from the packages its SquashFS holds,
\* unless another command changed FileSystem between the sessions or the
\* target failed with a warning only.
KernelCurrent ==
  \A i \in Images : i.excuses = {} =>
    {c.packages : c \in i.tree["kernel"]} = {c.packages : c \in i.tree["squashfs"]}

Alone(r) == /\ edits = 0 /\ deaths = 0 /\ faults = 0
            /\ \A q \in Runs \ {r} : at[q] = "idle"

\* A run nobody disturbs, whose commands all succeed, does not fail: no check
\* of its own refuses what another part of it did.
DirectSucceeds  == \A r \in Runs \ Granted : Alone(r) => outcome[r] # "failed"

\* The same of a run under a grant: the executor permits every command of the
\* sequence it was made for.
GrantedSucceeds == \A r \in Granted : Alone(r) => outcome[r] # "failed"
================================================================================
