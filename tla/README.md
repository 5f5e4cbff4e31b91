# Verification of the live image creator

This directory models the parts of the program whose correctness rests on the
order of system calls, on what survives a death between two of them, and on who
holds which lock: TLA+ modules, the TLC runs that check them on small
instances, and TLAPS proofs for every value of the constants.  Source paths are
relative to the repository.

## 1. The system

| Component | Source | State it keeps | Operations | Hard part |
|---|---|---|---|---|
| Chroot transaction | `liveusb/backend/transaction.py`, `chroot.py` | lock file `tmp/lock_chroot` with a flock, journal and pending journal in the work directory, backups beside the files, stubs | enter, block services, run commands, unblock, clean up, recover a stale lock | death between any two calls, races on the lock path, packages that replace a stub, I/O errors in the middle of cleanup |
| Factory grant records | `factory_execution.py` (`FactoryRecordStore`, `issue_`, `execute_`, `recover_`), `factory_plan.write_receipt` | per grant `grant.json`, `state.json`, a pending state, `outcome.json`; one record lock whose descriptor the commands inherit | issue, execute, revoke, consume, finalize, reconcile, recover | one use under any sequence of calls and deaths, two files that must agree, commands that outlive their parent |
| Command authority | `factory_execution.RebuildCommandExecutor` | which stages of the authorised command list have been used | one check per command, `assert_complete` | order and completeness of the stages |
| Mount session | `mount_session.py`, `mounts.py` | runtime flock, mount journal, the kernel's mount table | acquire, prepare, settle, cleanup in reverse order, recover, reconcile a pending journal | the mount table changes between observation and command; mount made but not recorded |
| External publication | `mount_session.py` | staged ISO and checksum, backups of the previous pair, publication journal | begin, stage, publish, roll back, recover | a pair of files that must change together |
| Rebuild pipeline | `rebuild.py`, `extract.py`, `clean.py`, `cdimage.py` | the media tree `casper/`, `md5sum.txt` | purge, kernel session, copy, final session, recovery | work between the sessions, where no lock is held; two lists of commands that must agree |
| Preflight and plan | `preflight.py`, `preflight_runtime.py`, `factory_plan.py` | none; evidence and digests | collect, plan, bounded execution of probes | many observations without a lock, made twice and compared; two reader threads, a child and a deadline in every probe |
| Other callers | `pkgm.py`, `deb.py`, `hook.py`, `gui_install.py`, `chroot_shell.py`, `xnest.py`, `qemu.py` | a child process | run a command or one chroot transaction | – |
| Configuration, command line, GUI, legacy shell | `liveusb/*.py`, `liveusb/gui`, `legacy` | – | parsing, dispatch, widgets | – |

**How they interact.**  `factory_execution.execute_issued_rebuild` takes the
record lock, consumes the grant and calls `rebuild.run_rebuild` with an
executor.  That opens a mount session and, inside it, one chroot transaction
per kernel target (`chroot.chroot_run`), builds the image and publishes the
pair.  `recover_consumed_rebuild` calls `rebuild.recover_rebuild`: chroot
transaction first, then mounts and publication.  Before that,
`plan_complete_rebuild` observes host and workspace, once for the grant and once
more for its execution, each time with two preflight inspections and a series of
probes.  All communication between an operation and its successor goes through
files.  Concurrency means several processes (two users, an operator's retry, a
command whose parent died); threads exist only inside a probe.

**What makes each part correct.**

* Chroot transaction: one process at a time; a file moved aside is always
  named by the durable journal; a record disappears only when its node is
  back; what a package installed over a stub is never lost; without a lock
  there is no residue; a stale lock can be taken over and finally goes away.
* Grant records: one open grant; one execution per grant; the outcome is
  written before the terminal phase, agrees with it, tells the truth about the
  commands and never changes; an interrupted write is finished by the next
  operation.
* Mount session: only mounts the session made are unmounted, in reverse order;
  every mount the session made is in the journal or will be recognised from a
  pending entry; recovery after any death leaves none of them.
* Publication: after recovery the pair is the old one or the new one.
* Rebuild: an image holds the work of one run; its kernel belongs to its
  packages; a run is refused by nothing it has done itself.
* Evidence: what a grant states was true at one instant, nothing that a check
  refuses was there all the while, and what is executed is what was granted.
* Probes: a status says what happened to the command, and a call returns.

## 2. Modules

| Module | Contents |
|---|---|
| `ChrootTransaction` | the transaction, its processes and its environment; properties at the end |
| `ChrootTransactionMC` | process symmetry for TLC |
| `ChrootTransactionProofs` | the theorems about it: the lock first, then what a transaction leaves on the disk |
| `GrantLifecycle` | abstract: what a grant promises |
| `FactoryRecords` | the record store and the three operations on it; implements `GrantLifecycle` |
| `PairPublication` | the publication of image and checksum, the journal it is recorded in, and the sessions that build, finish or do something else |
| `MountSession` | the mount session: mounts, directories, a staged file, X access, their journal, cleanup and recovery |
| `RebuildRun` | `run_rebuild`, `recover_rebuild` and the command executor over the interfaces of the three modules above |
| `FactoryEvidence` | the observations of `plan_complete_rebuild` at issue and at execution, with other sessions and the host in between |
| `BoundedExecution` | one runtime probe: caller, two readers, child, offspring, signals, deadline |
| `FactoryRecordsProofs`, `PairPublicationProofs`, `MountSessionProofs`, `MountHandOverProofs`, `RebuildRunProofs`, `FactoryEvidenceProofs`, `BoundedExecutionProofs` | the theorems about these modules |

A definition marked `faulty` in a comment is a wrong version of the one that
follows it.  No action uses it: each names a mistake the property list has to
catch (a dropped guard, a forgotten stage, a swapped order), and putting it in
the place of the right definition makes TLC report the property.

### 2.1 ChrootTransaction

*Disk.*  `node` and `backup` give the contents of every managed or service path
and of its backup path: a file identity (the code compares device, inode, mode
and digest), `Absent`, `Injected` (host copy, marker or mtab link), `Stub`, or
one of the node kinds a command may leave that are no regular file.  `lock` is
the number of the lock *file*, not of the path: an unlinked and recreated path
gets a new number, and `fd[p]` keeps the old one, as an open descriptor does.
`written` holds the lock files whose pid and token were written.  `journal` and
`pending` carry the owner's token, the sequence number and the active records;
`torn` is an incomplete pending file.

*Process.*  `pc` is the next system call, `fd` and `held` the descriptor and the
flock, `mem` the two record lists, `seq` the journal sequence in memory, `cur`
the loop position, `mode` tells a takeover from a new transaction and whether
the cleanup commands are enabled.

*Steps.*  One step is one system call that changes the disk, or one decision
the code reads from it.  Creation of the lock is three steps (`Create`,
`FlockNew`, `WriteLock`), because another process may open the file in between.
A journal write is `Prepare` and `Commit`.  `AfterPersist` is the code that
follows it.  `Decide` is one iteration of a restoration loop: it chooses among
put back, remove, keep the replacement, already restored, or ambiguous (the
code raises and the record stays active).  `Bind` is all of
`_recover_stale_transaction` up to its first write; its acceptance test is the
operator `RecoveryAccepts`.  `Raise` is an `OSError` before or after the effect
of a call, followed by what the code does in its handlers; `Crash` may come
anywhere.  `CommandWrites` is a package command; with `OrphanCommands` it may
outlive its parent.

*Abstractions.*  The lock directory always exists (its creation and removal
only make the creator fail early).  The clean-up of temporary files in
`_cleanup_work_artifacts` touches no path of a transaction.  An I/O error while
another one is being handled is left out.  Every write of the code is followed
by an fsync, so a power loss leaves a disk that a process death also leaves.
`Populate` may both overwrite a file a command put back (hosts and
`resolv.conf` are copied) and fail on it (`O_EXCL` for `debian_chroot`, symlink
for mtab), without telling the four apart.

### 2.2 FactoryRecords and GrantLifecycle

`state`, `pending` and `outcome` are the three files of a bundle.  A state file
is its phase: the sequence number, the previous digest and the attempt are
functions of the phase and the grant, written and checked under the lock.
`outcome.links` is 2 between `os.link` and `os.unlink` in `write_receipt`;
`_read_exact_file` refuses a file with two links.  `orphan` is a command whose
parent died: it holds the inherited descriptor, so `LockFree` counts it.
`Compare` chooses among "the fresh plan equals the grant", "it differs" and "it
cannot be made".  Factory commands are counted; the mount and unmount commands
of a recovery are one block.  The value `state_value` read before the
reconciliation is not kept: when the reconciliation returns `None` it has
changed nothing, and otherwise the operation ends.

`Undo` is the `except` clause of `issue`; a pending state written by a call that
raises stays, as in the code (`_write_new` has no clean-up).

`GrantLifecycle` has one variable for the phase the next reader will see, and
for each grant the authority to start commands, which is given once by
`Consume` and never returns, and the running command.  `ImplementsLifecycle` is
the refinement (`INSTANCE GrantLifecycle WITH`): `phase` is the pending phase
when there is one, `authority` the process between its state replacement and the
end of the rebuild.  That at most one grant is open, and that a terminal phase
is final, are part of `GrantLifecycle` and not stated again.

### 2.3 PairPublication

One process, because the flock on `operation.lock` leaves one session at a
time; a session is `pc` from `enter.pending` to `idle`, and its `kind` says what
it is for: `build` is the build session of `run_rebuild`, `finish` is
`recover_rebuild` and the recovery session of `run_rebuild`, `other` is any
session with resources of its own.

*Disk.*  `files[role][place]` are the six paths of the namespace.  A file is its
inode, content and mode; the code compares exactly these.  The node number of a
checksum file is the number of the image it states, so `FinalsMatch` reads as
"the digest in the checksum file is that of the image".  `journal` and
`pending` are `mount-session.json` and its pending successor.  The sequence
number and the previous digest are left out: a whole pending journal is always
the successor of the journal it was computed from, and a session compares the
journal on disk with `persisted` before it writes.

*Record.*  `pend` stands for `pending_action`, which the code keeps either
empty or equal to the index (`_validate_external_record`).  `res` is the one
abstract entry for mounts, directories and staged files: none, active, or
settled but still listed.

*Steps.*  One step is one system call on the disk, or one change of the record
up to the next journal write; every journal write is `WritePending`, then
`ReplaceJournal`.  A pair (`pc`, `io`) is thus a place where the process may
die.  `RaiseFrom` says where an exception leads: out of `__enter__` it ends the
session, in the body it leads to the cleanup of `__exit__`, in one resource's
cleanup it is recorded.  The five transition checks, the validator and the
preflight are operators with the structure of the code's methods.

*Left out.*  Another program writing in the work directory; checks whose failure
would need it have no disjunct.  Acquisition and cleanup of mounts, directories
and staged files, which `MountSession` models.  A torn pending journal is refused by every
later session, on purpose.

### 2.4 MountSession

The same class and the same journal as `PairPublication`, seen from the other
side: the lists of mounts, directories and artifacts and the X record are
modelled, the publication record is absent (`external` is `null`).

*Disk.*  `table` is the part of the kernel's mount table at and below the
destinations of the session's requests.  A mount is a record of its number, its
request, its place (`root` at the destination, `sub` below it), its depth in the
stack of mounts at that path (the parent link of mountinfo), who made it,
and whether `prove_preexisting_mount` would find it equivalent to the request;
the record plays the part of `MountIdentity.key`.  `dirs[k]` says where the one
directory of place `k` is that may be missing: nowhere, under its staging name
with the mode of `mkdir` (`private`) or the desired one (`staging`), or at its
final name.  Place 0 is `FileSystem/tmp`, the others are the destinations.
`file` is the staged file, `xs` the X access list (`granted` is `LOCAL:` put
there by a session; the code cannot tell it from `present`).

*Record.*  `mounts[i]` is the plan of request `i` with its stage, the mounts
seen before and after the command, and the owned identities with their stages;
`dirs`, `art` and `x` are the other records, `none` when not in the journal.

*Steps.*  As in `PairPublication`: one step is one call that changes the disk,
or one change of the record up to the next journal write.  `EnsureDirectory`,
`StageFile`, `GrantX` and `AcquireMount` are the methods of those names,
`Cleanup` is `cleanup` with its preflight, and `RaiseFrom` again says where an
exception leads.  The session kinds are `hook` (stage a file, grant X, mount,
run `chroot_run`: `run_hook` and `run_deb`), `shell` (mount only) and
`clean` (enter, recover, leave).  `Work` is `chroot_run` as far as the session
sees it: it empties `FileSystem/tmp`.  `Command` is a program the session runs:
it succeeds, or it reports a failure after doing nothing or everything.

*The host.*  `Host` is anybody else: a mount on a destination or below it, an
unmount of the top mount of a path (the deepest of the stack; kernel numbers are reused and
do not tell), a change of the X list.  Two restrictions,
both of windows in which the code could not tell (its documents name a single
writer as an assumption): nobody mounts at a still empty destination between
the record of `command-started` and the one after `mount(8)`, and the check of
an unmount target and `umount(8)` are one step.

*Left out.*  ISO mounts of `extract.py`; several missing directories on the way
to one destination; other actors on directories and files; mount propagation;
a `mount(8)` that outlives its session; creation and custody of the runtime
directory and its lock.

### 2.5 RebuildRun

`tree` is the media tree as far as an image is made of it: kernel, SquashFS and
manifest, each with the run that wrote it and the packages it was made from (a
SquashFS that mksquashfs appended to holds several).  `sums` is the tree
`md5sum.txt` was computed from.  `fs` is FileSystem: a package version, whether
boot files are present, and the version its initrd was built from.  `session` is
the holder of the mount session's lock, or `"left"` for a journal without one;
`lock` is `lock_chroot`, `"stale"` with the transaction's journal and `"orphan"`
without.  `pub` and `final` are the publication and the published pair.

Each of `run_rebuild`'s parts is a step: the recovery session, the observation of
the architecture, the purge, the kernel session with one transaction per target,
the copy, the final session.  Between sessions no lock is held, and purge and copy
happen there.  `Fault` is a command or call that fails, followed by the exits of
transaction and session; `Die` may come anywhere.  `Authorized` and
`TargetAuthorized` are the executor's tests of the program path and of the next
target.  `OtherEdits` and `OtherExtracts` are commands in sessions of their own.

`excuses` is history: it records for an image what happened to its run from
outside (another run or an extraction in the media tree, a change of FileSystem, a
target that failed with a warning only, an old SquashFS that could not be
removed).  `ImageWhole` and `KernelCurrent` say that nothing else spoils an image.

*Left out.*  `force_chroot`; the media's metadata files; the insides of sessions,
transactions and publication.  The command line refuses a rebuild without a
grant, so direct runs are those of the library's callers and tests.

### 2.6 FactoryEvidence

`at` and `step` say where a plan is: the first inspection, check by check, the
source inspection, the tool versions, target metadata, kernel state, compression
probe, the second inspection, the verification of source and tools, the
decision.  A finding is whether it is in order and a value that stands for the
recorded identity; comparison is equality of both.  A plan that meets a reason is
followed no further, since a reason is never taken back.  `first` and `second` are the
two inspections, `seen` what is read only once, `grant` the payload on disk.
The same steps run for the execution, which compares its own payload with that.

`host` has versions of what the host may replace, the free space, and the number
of subdirectories of the work root (the compression probe makes one, and the
link count is in the root's finding).  `residue` is what sessions have put in the
workspace, and what they have left wrong with the two extracted trees
(`TreeDefects`: files, then nodes of the media profile, then roots missing).  A
session that ends or dies may leave any part that the order of its
own journal, or of an extraction, allows.  Preflight looks for both roots
(`WorkspaceFinding`) and for nine nodes in them (`ProfileFinding`, after the
journals); no check knows whether an extraction has come to its end.  `mark`,
`issued`, `settled` and `calm` are history for the properties.

*Left out.*  The extract and QEMU operations of the plan; parsing; the bundle
(`FactoryRecords`); the inside of a probe.

Five behaviours of the code that no property forbids, as no document does:
a copy that fails or is killed after the nine nodes are there leaves a tree that
plan and execution accept (`NothingOutstanding` excepts it; an execution over such
a tree is reachable in `factory_evidence`);
free space is part of the payload, although the plan excepts it from its own
comparison, so a change of free space revokes a grant (with the bundle on the
work filesystem, `RecordsOnWork`, the grant itself is such a change); the
findings name the caller's uid as the expected owner, so that a grant planned
without root is revoked by an execution, which needs root; target metadata, kernel
and compression are read once and may be stale at the decision; a death inside
the compression probe leaves its directory, which changes the work root's finding.
The change of free space and the caller's uid were reproduced with the code.

### 2.7 BoundedExecution

One action per step of `_bounded_execute` and of the reader function `drain`.
Output is counted in units; `read(n)` of a buffered stream returns with n units or
at the end of the stream, which comes when nobody has the write end any more, and
`close` waits for a read in progress.  The child writes, closes, exits with any code,
handles or ignores SIGTERM, and may leave a process that keeps the pipes; a
signal may fail to be delivered.  The join has a time limit, so it is
one step without a condition.  `VersionStatus` and `InspectionStatus` are what
`query_version` and `inspect_source_media` make of the classified outcome and of
the files they look at again.

*Left out.*  What the output says (any of accepted, rejected, not parsable); the
tools and their arguments.

## 3. Runs

| Run | Instance | Shows |
|---|---|---|
| `chroot_crash` | 2 processes, 1 managed node, 1 service, 2 lock files, 2 deaths, torn writes, commands that leave links or directories | exclusion, nothing left without a lock, replacements kept, and that a complete stale lock is always accepted by recovery |
| `chroot_faults` | 1 process, 1 managed node, 2 services, 1 death, 2 I/O errors | no fault loses a record or a backup, and a record goes only with its node restored |
| `chroot_live` | 2 processes, 1 death, commands that survive their parent, fairness | naming of backups, such commands included (exclusion is proved, such commands included); the lock is released unless there was such a command |
| `factory_records` | 2 processes, 2 grants, 2 commands, 2 deaths, 1 I/O error, torn writes, fairness | outcomes tell the truth, refinement of `GrantLifecycle`, that every whole state or outcome left behind is taken over, and that a consumed grant ends or a named file is in the way |
| `pair_sessions` | 2 images, 2 deaths, 2 failed calls, torn writes, all kinds of session, fairness | readers see a matching pair, the old pair goes only for a newer one, nothing is left behind; from "both candidates ready" on every interruption is accepted by the next session and the pair is published |
| `mount_sessions` | 2 requests, one recursive and on a missing directory, all kinds of session, any two (`MaxTrouble`) of: deaths (2), failed calls (1), changes by the host (1); torn writes, fairness | whatever a session made is named by the journal until it is gone, only its own mounts are unmounted, a death anywhere leaves what a later session settles |
| `mount_staged` | the same, no failure at all | **violation**, see below |
| `rebuild_run` | 2 runs, granted or direct, 1 operation of another command, 2 deaths, 1 failed command, a manifest and a SquashFS that may resist removal | an image is the work of one run and its kernel belongs to its packages, or an excuse says why not; a run that nobody disturbs is refused by no check |
| `rebuild_granted` | 1 granted run, nothing else | **violation**, see below |
| `factory_evidence` | 1 grant, 2 sessions of other commands, all residues but `mount`, 1 change of the host, 1 plan that stops | evidence of one instant, nothing outstanding, what is executed is what was granted, planning does not revoke itself |
| `factory_stale_lock` | the same with fewer bounds | **violation**, see below |
| `bounded_execution` | limit 3, chunks of 2, at most 2 units per stream, 1 process left behind, signals that fail, fairness | the status is true, the limit exact, nothing left running unreported, the call returns once the pipes are free |

*Why the bounds are enough.*  Two processes and two lock files are the smallest
instance with a late opener of an unlinked lock and a creator that finds it
taken; two deaths let the second one hit the recovery of the first.  One
managed node has every role (absent or present, displaced, injected,
restored); two services distinguish the first from the last in the loop and let
one fail and the other go on.  One package identity besides the original is
enough, since the code compares identities only for equality.  A grant goes
through at most two state writes and one receipt, so two deaths and one error
hit every pair of them; two grants are needed for "one open grant".  Symmetry is
used in the safety runs of the chroot transaction only.  In the publication one image besides the first
pair shows every stage; the second one replaces a pair that was itself
published, or follows a discard.  Two deaths hit a recovery as well as what it
recovers, and each of the two faults can hit the cleanup of the other.
In the mount session two requests show an order of cleanup between requests and
within a recursive one, a directory that has to be made and one that is there,
and a mount found already present; two deaths hit a recovery, and every pair of
different troubles occurs.
Two rebuilds are enough for one to overtake another; one change by another
command can fall before, between and after its sessions.  A session that leaves
something and one that comes after it are enough around a plan; one host change
can hit any gap, and one stopped plan makes the execution run twice.  A mount
comes and goes in a session as a candidate does, so the run has the candidate
only; the proofs have both.  A limit of 3
with chunks of 2 is reached exactly, passed by a chunk of one stream, and passed
by the second of two chunks of different streams.

`PendingResumable` speaks of sessions in which no call failed.  With one fault
and one death it fails: when the pending write of an action without effect (no
previous pair) fails, the preflight of the cleanup takes the action for done,
and the record it then writes is two steps ahead of the journal.  That pending
journal, a torn one, and resources another session left in the journal are the
`Obstructed` states of `ReadyPublishes`; a torn one or an outcome with two links
are the `Stuck` states of the grant properties.
`PendingAccepted` of the mount session is restricted in the same way for the
same reason, and excepts the step back from `complete`.  `JournalRecoverable`
and `UndisturbedClean` there except `Unproved`: a staged file made and not recorded
or taken away, and X access granted and not recorded, which the code refuses for
want of proof.  `JournalSettles` lets a session stop before whatever its
preflight refuses (`Refused`), as the host may have put anything there.

*Deadlock.*  The chroot runs switch the check off: lock files are numbered and
bounded by `MaxLocks`, so processes may stop with none left to create.  So do the
runs of `RebuildRun`, `FactoryEvidence` and `BoundedExecution`, where runs, a
grant and a probe come to their end.  `factory_records`, `pair_sessions` and
`mount_sessions` check it.

*Fairness.*  Processes that are not killed run (`WF` on a process's steps, which
include that commands return, as every call waits for its command without
limit), orphans end, and an operator enters again: in the chroot runs because
`Start` stays enabled, in the factory run with strong fairness, since the lock
is only free now and then.  The publication needs strong fairness of a recovery session, since
other sessions come in between; the mount session needs only that some session
starts again, as each one recovers first.  In a probe the three threads run, time
passes, and SIGKILL ends what it reaches; nothing is assumed of what it does not
reach.  No fairness is assumed of deaths, faults, new
grants or new builds.

*Violations.*

* `mount_staged`: `run_hook` and `run_deb` run `chroot_run` inside the session
  that staged their file, and `chroot_run` empties `FileSystem/tmp`.  The
  cleanup then raises `Active artifact disappeared before removal` before it
  unmounts anything; the mounts, the X grant and the journal stay, and every
  later session refuses.  Reproduced with the code: the tests of these callers
  replace `chroot_run` by a mock.
* `rebuild_granted`: `chroot_run` names its program `chroot`, the executor asks for
  the resolved path.  Its first command, the locale, raises, and the grant has
  failed.  Reproduced with the code; the tests of the executor give it the path.
* `factory_stale_lock`: `lock.chroot` is a finding nobody requires.  A lock without
  its journal passes plan and execution, and the first check of the consumed run
  refuses it.  Reproduced with the code up to the grant.

The models contain more windows that stop every later operation, or contradict
what a document says, which the passing properties name as exceptions or do not
speak of:

* After an error in `unblock_services`, which `chroot_run` only records,
  `apt-get autoremove --purge` runs while a service record is still active.  It may
  rewrite or remove the file; the record's identity then matches nothing and
  every later recovery raises.  (`StaleRecoverable` under the instance of
  `chroot_faults` with no death.)
* A death between the two directory entries of a receipt leaves an outcome with
  two links, which the reader refuses (`Stuck` in `FactoryRecords`).
* A discard marks two roles removed in one journal write; the check of a pending
  journal accepts one.  A death in that write stops every later session
  (`PendingExternalAccepted` in `PairPublication` is false for that reason).
* Settled resources of an intervening session stay in the journal's lists and
  keep a sealed publication from being resumed (`RefusedOnlyForActive` is false).
* A process a tool leaves behind may keep its pipes for as long as it likes;
  `stream.close()` then waits for the reader, and the reader for the pipe: a call
  with a timeout of one second was seen to take six.  `_bounded_execute` says
  "with bounded time"; what holds is `ReturnsWhenReleased`.
* A state write that fails half way (full disk, death) leaves a pending state
  that cannot be parsed; `read_state` raises on it, and so does
  `incomplete_bundles`, so that neither this grant nor a new one can be used
  (`Stuck` in `FactoryRecords`).
* A death between the creation of the checksum candidate and its record
  (`CreateEvidence`) leaves a sealed image that is never published.
* The candidate of a failed build is unlinked (`DiscardPrimary`) before a record
  says so; after a death in between, every later session stops at the missing
  file.
* Recovery takes a completed journal back to `cleaning` (`CleanMark`), which no
  pending check accepts; a death in that write stops every later session, even
  one that never published.

The five windows of the publication were reproduced with the code itself, by
raising in the named call.

The documents ask for a refusal when the chroot lock file is empty or its
pending journal is torn; `StaleRecoverable` therefore speaks of complete files.

## 4. Proofs

Every theorem holds for all values of the constants that satisfy the named
assumption of the module; a hypothesis beyond it is part of the theorem's
statement.  In each module an inductive invariant is proved first: it holds
initially, every action keeps it (one lemma per action or group of actions), and
it implies the properties.  Each invariant was model-checked on the instances of
section 3 before it was proved.

| Module | Theorem | States | Beyond the assumption |
|---|---|---|---|
| `ChrootTransactionProofs` | `TypeCorrect`, `MutualExclusionHolds`, `OwnersHoldTheLockPath` | `TypeOK`, `MutualExclusion`, an owner's file is complete, at the lock path and flocked by the owner | – |
| | `OwnerIsUndisturbed`, `BackupsAreNamed`, `LockGoesLast` | `OwnerUndisturbed`, `BackupNamed`, `NoResidueWithoutLock` | – |
| | `RecordsComeFirst`, `RestorationPrecedesRetirement`, `ReplacementsAreKept` | `WriteAhead`, `RetiredRestored`, `ReplacementKept` | `~OrphanCommands` |
| | `DeathsAreRecoverable` | `StaleRecoverable` | `~OrphanCommands`, `MaxFaults = 0` |
| `FactoryRecordsProofs` | `TypeCorrect`, `OutcomesTellTheTruth`, `RecordsAreTakenUp`, `RecordsImplementLifecycle` | `TypeOK`, `OutcomeTruthful`, `RecordsReconcilable`, `ImplementsLifecycle` (the safety part of the refinement) | – |
| `PairPublicationProofs` | `PairTypeCorrect`, `ReadersFindAPair`, `PreviousPairIsKept`, `SessionsAlwaysHandOver` | `TypeOK`, `FinalsMatch`, `PairSurvives`, `SessionsHandOver` | – |
| `MountSessionProofs` | `MountTypeCorrect`, `ResourcesAreNamed`, `UnmountsItsOwn` | `TypeOK`, `ResourcesNamed`, `OnlyOwnUnmounted` | – |
| `MountHandOverProofs` | `SessionsHandTheirJournalsOver`, `UndisturbedLeavesNothing` | `SessionsHandOver`, `UndisturbedClean` | – |
| `RebuildRunProofs` | `RebuildTypeCorrect`, `ImageIsOfOneRun`, `KernelIsOfTheImage`, `UndisturbedRunSucceeds` | `TypeOK`, `ImageWhole`, `KernelCurrent`, `DirectSucceeds` | – |
| `FactoryEvidenceProofs` | `EvidenceTypeCorrect`, `EvidenceIsOfOneInstant`, `ConsumedIsUnchanged`, `NothingIsOutstanding` | `TypeOK`, `EvidenceCoincides`, `UnchangedWhenConsumed`, `NothingOutstanding` | – |
| | `PlanningIsQuiet` | `UndisturbedNotRevoked` | `~RecordsOnWork` |
| `BoundedExecutionProofs` | `ProbeTypeCorrect`, `LimitIsExact`, `StatusIsTruthful`, `RunningIsReported` | `TypeOK`, `LimitExact`, `StatusTruthful`, `NothingLeftUnreported` | – |

The assumptions (`ConstantsAssumption`, `RecordsAssumption`, `RebuildAssumption`
and the like) give the constants their types, say that the kinds of node, of
value and of run are different, and bound nothing.  The three hypotheses are
conditions of the code's own: a command that outlives its parent may write to a
node that the recovery is working on; with the bundle on the work filesystem
the grant itself changes the free space it names; and an I/O error
(`MaxFaults = 0` excludes them) lets the restoration go on with a record that
was not finished, which a later recovery may refuse (the first window of
section 3).  The theorems
about the chroot transaction keep deaths and torn writes in all cases.  The theorems
without a hypothesis hold with orphans, torn writes, deaths and I/O errors.

### 4.1 The lock (`LockInv`)

Mutual exclusion alone is not inductive: a step of one process could unlink the
lock under another.  The argument is that a lock file's number is used once
(`FreshInv`), that a flock has one holder per file (`FlockInv`), that an owner's
file is the one at the path (`OwnerInv`) and that a file not yet written belongs
to its creator, of which there is at most one (`CreatorInv`, `OneCreatorInv`):
the only processes that unlink the path are its owner and the creator of an
unwritten file, and recovery does not accept an unwritten file.  Two owners thus
hold the flock of the same file.  `HandleInv` says that a process without a lock
file holds no flock.

### 4.2 What a transaction leaves (`RecordsInv`, `CalmInv`, `SteadyInv`)

`RecordsInv` adds to `LockInv` what holds of the disk (`JournalInv`, `NamedInv`,
`CleanInv`) and, for the one process that works, what it knows of the disk at
the place it has reached (`OwnerOK`): that the journal is the one it wrote last
(`MetaOK`), which nodes are untouched or recorded while it enters (`EnterOK`,
`BlockOK`), and what is left of a node when it is undone (`RestoreOK`).
`BackupNamed` alone is not inductive: that a rename finds its node on record
depends on every journal write since the capture.  `OrigInv` says that what is
recorded as original is never a substitute, without which `AlreadyRestored` could
hold of a stub.  Commands may do what they like to the nodes here, so the
invariant speaks of `Touched` nodes, and not of what is in them.

`CalmInv` is about the contents.  As long as no command outlives its process,
commands run only at places where every blocked service has its stub on record
(`CommandOK`).  Hence a node stays as it was captured until it is renamed
(`PlanOK`), the backup is what the journal and the owner's memory say
(`AsideInv`, `AsideOK`), owner and journal agree on what is preserved
(`KnownOK`), and each step of the restoration finds what `Decide` saw
(`UndoneOK`).  The three theorems `RecordsComeFirst`,
`RestorationPrecedesRetirement` and `ReplacementsAreKept` follow at the single
step they speak of: the rename, the retirement, a write to a node.

`SteadyInv` is about recovery.  `StaleRecoverable` has to hold after a death at any
place, so the invariant must hold of the disk at every place: every record is of
one of the four kinds that recovery restores (`RecordOK`), in the journal and
in the owner's memory.  Memory and journal are equal except at the six places between a
change of the one and its write to the other (`SameOK`).  That the owner does not
leave this set takes the history of the substitution (`SubstOK`: the nodes before the
cursor are aside, and a service's stage names the step it has reached), the reason of
each step of the restoration (`TargetOK`), and one fact about commands:
while they run, or will run again before the restoration ends, no record depends on the content of
its node (`ExposedOK`: managed nodes are aside or were absent, services blocked with
their stub on record), for otherwise a package could make a record ambiguous.
Without I/O errors a call raises only for what it finds, before it has changed anything
(`RaiseSteady`), and the restoration starts from the same disk.

### 4.3 Grant records

`IInv` is the conjunction of `TypeOK`, that at most one process or orphan is
under the lock (`AloneInv`), what a process works on and where it has a command
(`TaskInv`), that the files of a grant fit together and with what its commands did,
wherever a death has left them (`RecordInv`), that what a process has seen or written
of its grant still holds (`SiteInv`), and the two links of a receipt (`LinkInv`).
`OutcomeTruthful` needs it because the outcome is written from what one process
remembers and read by another after a death.  The refinement is proved in two
parts: the initial states map to the initial state of `GrantLifecycle`, and
under `IInv` every step maps to one of its steps or changes neither phase nor
authority nor running command.

### 4.4 The pair (`PairInv`) and the handover (`HandInv`)

`FinalsMatch` speaks of the files only, but which file a rename moves is what the
record says.  `PairInv` therefore adds that every record, in memory, in the journal
or in the pending journal, is one the validator accepts, that its prior files are a pair
or absent, and that what it calls finished is finished and numbered higher than
the prior pair (`RecordsInv`), and, for the steps of a build and of the evidence, what the
session knows of the candidate it is writing (`BuildOK`, `PublishOK`).  `LayoutIn` spells out
the six paths at an index: a rename leads from one layout to the next (`ActedIs`), each
layout has a whole pair at the final paths or one of them empty (`LayoutMatches`), and
the prior pair is at its paths or its backups until both new files are final
(`PairSurvivesStep`).

`SessionsHandOver` speaks of whoever opens the journal next, at a time when journal,
pending journal, memory and files may each be one step apart: they change one at a time.
`HandInv`, a level above `PairInv`, says how far apart they can be.  The preflight of a
record is written as a relation of six files and a record (`AcceptedIn`, shown in
`AcceptedIs` to be what the preflight tests); it holds of every committed journal and, past
the first record of a publication, of what the session has in memory (`DiskOK`).  A journal is
whole, a pending one whole or torn, and one is being replaced only by what is in memory
(`JournalsOK`); in the body, and in a cleanup before any failure, memory and journal are
equal when no write is under way (`SyncOK`); what is written over a committed journal
is a transition the next session accepts (`FollowOK`); neither journal is committed before the
session is (`AheadOK`); and where a record names no publication there is nothing to
name (`EmptyOK`).  A rename is safe because the journal written before it accepts both the layout
before and the layout after (`e.pend` in `AcceptedIn`), and the journal
written after it is the successor of the one before.  `PendingResumable` is stated for
runs without a failed call, as in the property; the rest holds with failures as well.

### 4.5 Mounts, directories, file and X access (`NamedInv`, `OwnInv`)

`ResourcesNamed` speaks of the disk and of the journal, which never change in one
step: a session changes its record in memory, writes the pending journal, renames it,
and only then acts.  A death in between leaves any of three records to be read next.
`NamedInv` therefore says of all of them that they name what is there (`StoreInv` for the
journal, and for the pending journal when it is whole; `MemInv` for the record in
memory).  In the body, memory and journal are equal when no write is under way
(`SyncInv`), so that naming in memory is naming on disk at the step that makes
something, and `SiteInv` gives the stage on record at each such step.

In the body a mount may be named by its request alone (`command-started`, and what
follows a failed or ambiguous command).  The cleanup, however, writes such a plan off as
`failed` and goes on to remove the journal.  Past the preflight every mount of a
session is therefore named by its identity (`Claims`).  The preflight reaches this
(`NewPlanClaims`) because it accepts a plan that names no identity only where exactly the
mounts seen before the command are there, and those were the host's (`BeforeInv`): the
session that made the plan found no mount of an earlier session at a destination it
had no plan for.  From there the cleanup only gives up a name after the thing is gone (`removed` is written
for a mount that is not in the table, a file or directory that is not there, an X list
without the grant), and at `clean.remove` an empty journal names everything.

Type correctness is proved with sets of mounts that are finite, which `NewId` needs.

`OnlyOwnUnmounted` is about one step, whose guard compares identities; the question is
how an identity came to be recorded as owned.  `OwnInv` says of all three records that
what they own and is still there is the session's own or hangs below a mount that is
(`Sound`).  A record comes to own something in three ways: what is found after `mount(8)`,
what a preflight finds where a command was started and not recorded, and nested mounts
that the preflight finds below a live owned root.  The first two are right because mounts
at one path lie on one another (`Stacked`): a command is started where nothing is
mounted (`RunInv`), so as long as its record says `command-started` the lowest mount at
the destination is the session's or there is none (`Founded`), and both
`attributable_mounts` and `prove_preexisting_mount` demand that there be exactly one.
An identity that has gone never comes to mean another mount, because new identities
differ from recorded ones (`NewIds`; the code compares the whole mountinfo line).  That the target of
`umount(8)` is among the owned identities needs a first element of the cleanup order
(`FirstIn`, by well-foundedness).  The restriction on the host named in 2.4 is
what `Founded` rests on: without it the property is false, as the code cannot tell.

The handover (`MountHandOverProofs`) rests on all of this, and on a level above it,
`HandInv`, whose parts assume more from one to the next, as the properties do:

* always: every record, journal or pending journal is one `_validate_state` accepts, and at
  each place of the body and of the cleanup it has the stage that place is there for
  (`ShapedInv`);
* while no call has failed: memory, journal and pending journal are at most one accepted
  transition apart (`InStep`, `Follows`), and each directory is where its record allows it to be
  (`DirsInv`), which for `planned` and `rename-planned` is more than one place (`SavedInv`);
* while the host leaves the resources alone as well: the mounts in the table fit every plan
  (`PlanFits`) and the X list its record (`XFits`), in memory and on disk, and the cleanup
  has settled the kinds of resource it has passed (`AloneInv`, `AloneSites`);
* while no session has died either: a journal nobody works on is none, or one of those its own
  cleanup could not prove (`LeftInv`).

That the preflight accepts such a record with such a disk (`Recoverable`) is then a lemma without
any step in it.  It leaves three windows, which the property names (`Unproved`): a candidate
made and not recorded, a staged file removed and not recorded, and an X access granted and
not recorded.

### 4.6 Rebuild, evidence, probes

* `RebuildRun`: a run is inside a session exactly while it holds the lock
  (`SessionInv`).  For the place a run has reached, `RunInv` says how far it is in
  its command list, and, unless somebody meddled, which part of the media tree is its own
  work and that the kernel is that of the packages; the places between its sessions, where no
  lock is held, are the ones at which others may make that false and leave an excuse.
  `DirectSucceeds` has an invariant of its own (`AloneInv`): lock, publication and
  outcome of a run that is alone, step by step.
* `FactoryEvidence`: versions only grow, and `mark` lies between the first and
  the second observation of everything the payload states (`MarkInv`); two equal
  observations thus had no change between them, and all were so at `mark`.  A
  residue that was there since the second inspection began cannot have been passed by the
  check that looks for it, if there is one (`GrantInv`, `SettledInv`).  While nothing is disturbed every
  finding equals the present one (`CalmInv`, `PassInv`), so the execution computes the same
  payload.
* `BoundedExecution`: chunks read and not yet stored are accounted for, so that the
  limit is exact under every order of the two readers (`FlowInv`, `LimitInv`); a signal
  has a cause, and a cause outranks the return code (`StopInv`, with what main knows of
  the child, `ChildInv`); a reader that ended without an exception has come to the end
  of its stream (`EndInv`); an answer that is no error was given after the child was
  gone and no reader had failed (`AnswerInv`).

### 4.7 Model-checked only

Every safety invariant and every action property of the passing runs is a theorem,
five of them (the four of `CalmInv` and `SteadyInv`, and `UndisturbedNotRevoked`)
under a hypothesis of the table above.
`StaleRecoverable` with I/O errors and no death is not claimed: it is the first
window of section 3.  Left to TLC are liveness and the fairness part of the
refinements, which this prover does not handle: `LockReleased`, the grant,
publication and mount session properties with `~>`, and `ReturnsWhenReleased`
rest on the runs.

## 5. Plan

1. `AtomicSubstitution`: the abstract specification of the chroot transaction
   (originals in place, or substituted under the lock) and its refinement.
2. ISO mounts and several missing directories in `MountSession`.

## 6. Not modelled

What a preflight check finds in what it reads (parsers, digests, reports), the
QEMU and extract operations of the plan, argument grammar of commands, custody checks of directories against another user
(ownership, modes, link targets are taken as valid), configuration, messages,
the GUI and the legacy scripts.
