--------------------------- MODULE ChrootTransaction ---------------------------
(***************************************************************************)
(* liveusb/backend/transaction.py, driven as liveusb/backend/chroot.py     *)
(* drives it.  A transaction substitutes host files for the managed nodes  *)
(* of an extracted FileSystem, blocks service binaries with stubs, runs    *)
(* package commands inside, and puts everything back.  Any process may die *)
(* between two system calls; the next one to enter with FORCE_CHROOT=1     *)
(* finds the lock file and the journal and finishes the restoration.       *)
(*                                                                         *)
(* One step is one system call that changes the disk, or one decision read *)
(* from it.  Every mutation in the code is fsynced before the next one, so *)
(* a power loss leaves a disk that some process death also leaves.         *)
(***************************************************************************)
EXTENDS Naturals

CONSTANTS
  Procs,          \* processes that may open a transaction on this FileSystem
  NumManaged,     \* nodes 1..NumManaged: hosts, resolv.conf, debian_chroot, mtab
  NumServices,    \* the following nodes: initctl, update-grub, init.d scripts
  Files,          \* identities (device, inode, mode, digest) a file can have
  Original,       \* the identity every node that exists starts with
  Aliens,         \* node kinds a command may leave that are no package file
  OrphanCommands, \* a command may outlive the process that started it
  TornWrites,     \* a process may die while writing a metadata file
  MaxLocks,       \* bound: lock files ever created
  MaxCrashes,     \* bound: process deaths
  MaxFaults       \* bound: system calls that raise OSError

Absent   == "absent"
Injected == "injected"   \* host copy, marker file or mtab link
Stub     == "stub"       \* the recorded symlink to /bin/true
AlienKinds == {"link", "dir"}

Managed  == 1..NumManaged
Services == (NumManaged + 1)..(NumManaged + NumServices)
Nodes    == 1..(NumManaged + NumServices)
Values   == Files \cup {Absent, Injected, Stub} \cup AlienKinds

ASSUME ConstantsAssumption ==
  /\ NumManaged \in Nat \ {0}
  /\ NumServices \in Nat \ {0}
  /\ Original \in Files
  /\ Files \cap ({Absent, Injected, Stub} \cup AlienKinds) = {}
  /\ Aliens \subseteq AlienKinds
  /\ OrphanCommands \in BOOLEAN
  /\ TornWrites \in BOOLEAN
  /\ MaxLocks \in Nat
  /\ MaxCrashes \in Nat
  /\ MaxFaults \in Nat

Stages  == {"none", "managed", "planned", "renamed", "stubbed", "preserve"}
Records == [stage : Stages, orig : Values]
NoRecord == [stage |-> "none", orig |-> Absent]

\* A journal file: its owner's token, its sequence number, its active records.
\* Lock file number k carries token k, so token 0 stands for "no such file".
Journals  == [tok : Nat, seq : Nat, recs : [Nodes -> Records]]
NoRecords == [n \in Nodes |-> NoRecord]
NoJournal == [tok |-> 0, seq |-> 0, recs |-> NoRecords]

VARIABLES
  node,     \* what each managed or service path holds
  backup,   \* what its backup path holds
  lock,     \* the lock file at tmp/lock_chroot, 0 when there is none
  written,  \* the lock files whose pid and token were written
  locks,    \* number of lock files created so far
  journal,  \* the journal file
  pending,  \* a complete pending journal file
  torn,     \* an incomplete pending journal file exists
  pc,       \* where each process stands
  fd,       \* the lock file each process has open, 0 for none
  held,     \* whether it holds the flock on that file
  mem,      \* its _managed_nodes and _blocked_files
  seq,      \* its _journal_sequence; 0 when the journal is not active
  cur,      \* the node its current loop has reached
  mode,     \* "recover", "enter", or "commands": cleanup_commands_enabled
  orphan,   \* a command is running whose parent died
  crashes, faults

disk  == <<node, backup>>
meta  == <<journal, pending, torn>>
locking == <<lock, written, locks>>
budget  == <<crashes, faults>>
vars == <<disk, meta, locking, pc, fd, held, mem, seq, cur, mode, orphan, budget>>

PersistSites == {"journalInit", "planManaged", "planServices", "markRenamed",
                 "markStubbed", "keep", "retire"}
EnterSites   == {"journalInit", "captureManaged", "planManaged", "displace",
                 "populate", "locale", "captureServices", "planServices", "block",
                 "markRenamed", "stub", "markStubbed"}
RestoreSites == {"restore", "remove", "putBack", "keep", "drop", "retire"}
CreatorSites == {"flockNew", "writeLock", "abandonLock"}
CommandSites == {"locale", "command", "autoremove"}
OwnerSites   == EnterSites \cup RestoreSites \cup CommandSites
                  \cup {"dropPending", "finish", "unlock"}
Sites == {"idle", "flock", "bind", "create", "close"} \cup CreatorSites
           \cup OwnerSites

Init ==
  /\ node \in [Nodes -> {Absent, Original}]
  /\ backup = [n \in Nodes |-> Absent]
  /\ lock = 0
  /\ written = {}
  /\ locks = 0
  /\ journal = NoJournal
  /\ pending = NoJournal
  /\ torn = FALSE
  /\ pc = [p \in Procs |-> "idle"]
  /\ fd = [p \in Procs |-> 0]
  /\ held = [p \in Procs |-> FALSE]
  /\ mem = [p \in Procs |-> NoRecords]
  /\ seq = [p \in Procs |-> 0]
  /\ cur = [p \in Procs |-> 0]
  /\ mode = [p \in Procs |-> "enter"]
  /\ orphan = FALSE
  /\ crashes = 0
  /\ faults = 0
--------------------------------------------------------------------------------
(* Control of one process *)

Goto(p, site) == pc' = [pc EXCEPT ![p] = site]
GotoAt(p, site, n) == Goto(p, site) /\ cur' = [cur EXCEPT ![p] = n]

\* The object is dropped: __del__ or process exit closes the descriptor.
Leave(p, site) ==
  /\ Goto(p, site)
  /\ fd' = [fd EXCEPT ![p] = 0]
  /\ held' = [held EXCEPT ![p] = FALSE]
  /\ mem' = [mem EXCEPT ![p] = NoRecords]
  /\ seq' = [seq EXCEPT ![p] = 0]
  /\ cur' = [cur EXCEPT ![p] = 0]
  /\ mode' = [mode EXCEPT ![p] = "enter"]
Exit(p) == Leave(p, "idle")

Keep == UNCHANGED <<orphan, budget>>
KeepHandle == UNCHANGED <<fd, held, mode>>

FirstToRestore == NumManaged + 1
IsLastService(n) == n = NumManaged + NumServices
NextOffByOne(n) == IF n < FirstToRestore THEN n - 1 ELSE n + 1   \* faulty
\* Services in list order, then the managed nodes in reverse order.
NextToRestore(n) == IF n < FirstToRestore THEN n - 1
                    ELSE IF IsLastService(n) THEN NumManaged ELSE n + 1

\* The restoration loops move on; the cleanup commands run between them.
Advance(p) ==
  GotoAt(p, IF IsLastService(cur[p]) /\ mode[p] = "commands"
            THEN "autoremove" ELSE "restore",
         NextToRestore(cur[p]))

\* An exception in __enter__ or block_files reaches cleanup().
StartCleanup(p) == GotoAt(p, "restore", FirstToRestore)
--------------------------------------------------------------------------------
(* What the code reads before it touches anything *)

Regular(n) == node[n] \in Files
Blocked(n) == backup[n] # Absent
ServicesInactive(recs) == \A n \in Services : recs[n].stage = "none"   \* faulty
NoActiveRecord(recs) == \A n \in Nodes : recs[n].stage = "none"

\* The four ways a record is restored; with none of them it is ambiguous, the
\* code raises and the record stays active.
PutBackIfRenamed(n, rec) ==      \* faulty: forgets the crash before the mark
  /\ Blocked(n) /\ backup[n] = rec.orig
  /\ n \in Services => \/ rec.stage = "renamed"
                       \/ rec.stage = "stubbed" /\ node[n] \in {Absent, Stub}
PutBackBlindly(n, rec) ==        \* faulty: takes whatever is there for the stub
  /\ Blocked(n) /\ backup[n] = rec.orig
  /\ n \in Services => rec.stage # "preserve"
MustPutBack(n, rec) ==
  /\ Blocked(n) /\ backup[n] = rec.orig
  /\ n \in Services => \/ rec.stage \in {"planned", "renamed"}
                       \/ rec.stage = "stubbed" /\ node[n] \in {Absent, Stub}
MustRemove(n, rec) == n \in Managed /\ rec.orig = Absent /\ ~Blocked(n)
Replaced(n, rec) ==
  /\ n \in Services /\ Blocked(n) /\ backup[n] = rec.orig
  /\ rec.stage \in {"stubbed", "preserve"} /\ Regular(n)
NodeLooksRestored(n, rec) ==     \* faulty: ignores a remaining backup
  \/ rec.orig # Absent /\ node[n] = rec.orig
  \/ n \in Services /\ rec.stage = "preserve" /\ Regular(n)
AlreadyRestored(n, rec) ==
  /\ ~Blocked(n)
  /\ \/ rec.orig # Absent /\ node[n] = rec.orig
     \/ n \in Services /\ rec.stage = "preserve" /\ Regular(n)
Ambiguous(n, rec) == ~( \/ MustPutBack(n, rec) \/ MustRemove(n, rec)
                        \/ Replaced(n, rec) \/ AlreadyRestored(n, rec) )
Restorable(n, rec) ==
  /\ ~Ambiguous(n, rec)
  /\ MustPutBack(n, rec) \/ MustRemove(n, rec) => node[n] # "dir"

\* A pending file is the first journal, or the successor of the journal.
NoPendingFits == pending = NoJournal   \* faulty: refuses every interrupted write
PendingFits ==
  \/ pending = NoJournal
  \/ journal = NoJournal /\ pending.seq = 1 /\ NoActiveRecord(pending.recs)
  \/ journal # NoJournal /\ pending.seq = journal.seq + 1

\* All metadata belongs to lock file k, every record can be restored and no
\* other backup lies about.
AcceptsUnlinkedLock(k) ==        \* faulty: no _validate_owned_lock_path
  /\ k \in written
  /\ journal.tok \in {0, k} /\ pending.tok \in {0, k}
  /\ ~torn /\ PendingFits
  /\ \A n \in Nodes : IF journal.recs[n].stage = "none" THEN ~Blocked(n)
                      ELSE Restorable(n, journal.recs[n])
RecoveryAccepts(k) ==
  /\ lock = k /\ k \in written
  /\ journal.tok \in {0, k} /\ pending.tok \in {0, k}
  /\ ~torn /\ PendingFits
  /\ \A n \in Nodes : IF journal.recs[n].stage = "none" THEN ~Blocked(n)
                      ELSE Restorable(n, journal.recs[n])

NoMetadata == /\ journal = NoJournal /\ pending = NoJournal /\ ~torn
              /\ \A n \in Nodes : ~Blocked(n)

\* A journal write starts from the journal this process wrote last.
PersistAllowed(p) ==
  /\ pending = NoJournal /\ ~torn
  /\ IF seq[p] = 0 THEN journal = NoJournal
     ELSE journal.tok = fd[p] /\ journal.seq = seq[p]
RecordsLeft(p) == IF pc[p] = "retire" THEN [mem[p] EXCEPT ![cur[p]] = NoRecord] ELSE mem[p]
JournalOfManaged(p) ==           \* faulty: services are not recorded
  [tok |-> fd[p], seq |-> seq[p] + 1,
   recs |-> [n \in Nodes |-> IF n \in Managed THEN RecordsLeft(p)[n] ELSE NoRecord]]
JournalData(p) == [tok |-> fd[p], seq |-> seq[p] + 1, recs |-> RecordsLeft(p)]
\* The pending file is the one this process is about to rename.
Prepared(p) == pending.tok = fd[p] /\ pending.seq = seq[p] + 1

JournalRemovable(p) ==
  /\ pending = NoJournal /\ ~torn
  /\ journal.tok = fd[p] /\ journal.seq = seq[p] /\ NoActiveRecord(journal.recs)

\* _validate_owned_lock_path
OwnsLockPath(p) == lock = fd[p] /\ fd[p] \in written

\* The call at p's site raises because of what it finds.  Copying hosts or
\* resolv.conf overwrites a file that a command put back; creating
\* debian_chroot or mtab does not: Populate may do either.
Obstructed(p) ==
  LET n == cur[p] IN
  \/ pc[p] \in PersistSites /\ ~PersistAllowed(p) /\ ~Prepared(p)
  \/ pc[p] \in {"displace", "block"} /\ node[n] = Absent /\ mem[p][n].orig # Absent
  \/ pc[p] \in {"populate", "stub"} /\ node[n] # Absent
  \/ pc[p] \in {"remove", "putBack"} /\ node[n] = "dir"
--------------------------------------------------------------------------------
(* The disk's part of a step, which may also happen and raise afterwards *)

Store(place, n, value) == [place EXCEPT ![n] = value]

Rename(p) == /\ pc[p] \in {"displace", "block"} /\ mem[p][cur[p]].orig # Absent
             /\ backup' = Store(backup, cur[p], node[cur[p]])
             /\ node' = Store(node, cur[p], Absent)
Inject(p) == /\ pc[p] = "populate"
             /\ node' = Store(node, cur[p], Injected) /\ UNCHANGED backup
Link(p)   == /\ pc[p] = "stub"
             /\ node' = Store(node, cur[p], Stub) /\ UNCHANGED backup
Unlink(p) == /\ pc[p] = "remove"
             /\ node' = Store(node, cur[p], Absent) /\ UNCHANGED backup
RenameBack(p) == /\ pc[p] = "putBack"
                 /\ node' = Store(node, cur[p], backup[cur[p]])
                 /\ backup' = Store(backup, cur[p], Absent)
UnlinkBackup(p) == /\ pc[p] = "drop"
                   /\ backup' = Store(backup, cur[p], Absent) /\ UNCHANGED node
NodeWrite(p) ==
  /\ Rename(p) \/ Inject(p) \/ Link(p) \/ Unlink(p) \/ RenameBack(p) \/ UnlinkBackup(p)
  /\ UNCHANGED <<meta, locking>>

ReplaceJournal(p) == /\ pc[p] \in PersistSites /\ Prepared(p)
                     /\ journal' = pending /\ pending' = NoJournal
UnlinkPending(p)  == /\ pc[p] = "dropPending"
                     /\ pending' = NoJournal /\ UNCHANGED journal
UnlinkJournal(p)  == /\ pc[p] = "finish" /\ JournalRemovable(p)
                     /\ journal' = NoJournal /\ UNCHANGED pending
MetaWrite(p) == /\ ReplaceJournal(p) \/ UnlinkPending(p) \/ UnlinkJournal(p)
                /\ UNCHANGED <<disk, torn, locking>>

WriteOwner(p) == /\ pc[p] = "writeLock"
                 /\ written' = written \cup {fd[p]} /\ UNCHANGED lock
UnlinkLock(p) == /\ pc[p] = "abandonLock" \/ (pc[p] = "unlock" /\ OwnsLockPath(p))
                 /\ lock' = 0 /\ UNCHANGED written
LockWrite(p) == /\ WriteOwner(p) \/ UnlinkLock(p)
                /\ UNCHANGED <<disk, meta, locks>>

NoWrite == UNCHANGED <<disk, meta, locking>>
--------------------------------------------------------------------------------
(* Taking the lock, and taking over the lock of a process that died *)

FlockIgnored(p) == FALSE         \* faulty: BlockingIOError is swallowed
HeldByOther(p) == \E q \in Procs \ {p} : held[q] /\ fd[q] = fd[p]

\* _acquire_lock with FORCE_CHROOT, or recover_chroot_transaction.
Start(p) ==
  /\ pc[p] = "idle"
  /\ \/ /\ lock # 0
        /\ fd' = [fd EXCEPT ![p] = lock]
        /\ mode' = [mode EXCEPT ![p] = "recover"]
        /\ Goto(p, "flock")
     \/ /\ lock = 0 /\ NoMetadata /\ locks < MaxLocks
        /\ Goto(p, "create")
        /\ UNCHANGED <<fd, mode>>
  /\ UNCHANGED <<held, mem, seq, cur>> /\ NoWrite /\ Keep

FlockStale(p) ==
  /\ pc[p] = "flock"
  /\ \/ HeldByOther(p) /\ Exit(p)
     \/ /\ ~HeldByOther(p)
        /\ held' = [held EXCEPT ![p] = TRUE]
        /\ Goto(p, "bind")
        /\ UNCHANGED <<fd, mode, mem, seq, cur>>
  /\ NoWrite /\ Keep

\* Everything _recover_stale_transaction checks before its first write.
Bind(p) ==
  /\ pc[p] = "bind"
  /\ \/ ~RecoveryAccepts(fd[p]) /\ Exit(p)
     \/ /\ RecoveryAccepts(fd[p])
        /\ mem' = [mem EXCEPT ![p] = journal.recs]
        /\ seq' = [seq EXCEPT ![p] = journal.seq]
        /\ Goto(p, "dropPending")
        /\ UNCHANGED <<fd, held, mode, cur>>
  /\ NoWrite /\ Keep


DropPending(p) ==
  /\ MetaWrite(p) /\ pc[p] = "dropPending"
  /\ IF seq[p] = 0 THEN GotoAt(p, "unlock", 0) ELSE StartCleanup(p)
  /\ UNCHANGED <<mem, seq>> /\ KeepHandle /\ Keep

\* The O_EXCL open of _create_new_lock.
Create(p) ==
  /\ pc[p] = "create"
  /\ \/ lock # 0 /\ Exit(p) /\ NoWrite
     \/ /\ lock = 0 /\ locks < MaxLocks
        /\ locks' = locks + 1 /\ lock' = locks + 1
        /\ fd' = [fd EXCEPT ![p] = locks + 1]
        /\ mode' = [mode EXCEPT ![p] = "enter"]
        /\ Goto(p, "flockNew")
        /\ UNCHANGED <<disk, meta, written, held, mem, seq, cur>>
  /\ Keep

FlockNew(p) ==
  /\ pc[p] = "flockNew"
  /\ held' = [held EXCEPT ![p] = ~HeldByOther(p)]
  /\ Goto(p, IF HeldByOther(p) THEN "abandonLock" ELSE "writeLock")
  /\ UNCHANGED <<fd, mode, mem, seq, cur>> /\ NoWrite /\ Keep

WriteLock(p) ==
  /\ LockWrite(p) /\ pc[p] = "writeLock"
  /\ Goto(p, "journalInit")
  /\ UNCHANGED <<mem, seq, cur>> /\ KeepHandle /\ Keep

AbandonLock(p) == LockWrite(p) /\ pc[p] = "abandonLock" /\ Exit(p) /\ Keep

--------------------------------------------------------------------------------
(* _persist_journal: write a pending file, rename it over the journal *)

Prepare(p) ==
  /\ pc[p] \in PersistSites /\ PersistAllowed(p)
  /\ pending' = JournalData(p)
  /\ UNCHANGED <<disk, journal, torn, locking, pc, mem, seq, cur>>
  /\ KeepHandle /\ Keep

FirstRecorded(n, recs) ==
  /\ n \in Services /\ recs[n].stage = "planned"
  /\ \A m \in Services : recs[m].stage = "planned" => n <= m

\* What follows a journal write.
AfterPersist(p) ==
  \/ pc[p] = "journalInit"  /\ GotoAt(p, "captureManaged", 0)
  \/ pc[p] = "planManaged"  /\ GotoAt(p, "displace", 1)
  \/ pc[p] \in {"planServices", "markStubbed"}
       /\ \/ \E n \in Services : FirstRecorded(n, mem[p]) /\ GotoAt(p, "block", n)
          \/ (\A n \in Services : mem[p][n].stage # "planned") /\ GotoAt(p, "command", 0)
  \/ pc[p] = "markRenamed"  /\ GotoAt(p, "stub", cur[p])
  \/ pc[p] = "keep"         /\ GotoAt(p, "drop", cur[p])
  \/ pc[p] = "retire"       /\ Advance(p)

Commit(p) ==
  /\ MetaWrite(p) /\ pc[p] \in PersistSites
  /\ mem' = [mem EXCEPT ![p] = RecordsLeft(p)]
  /\ seq' = [seq EXCEPT ![p] = @ + 1]
  /\ AfterPersist(p)
  /\ KeepHandle /\ Keep
--------------------------------------------------------------------------------
(* __enter__ and block_files *)

\* Every node is captured before any is touched; a directory or an existing
\* backup ends the attempt.
Capture(p, nodes, stage, next) ==
  /\ NoWrite /\ KeepHandle /\ UNCHANGED seq /\ Keep
  /\ IF \E n \in nodes : node[n] = "dir" \/ (node[n] # Absent /\ Blocked(n))
     THEN StartCleanup(p) /\ UNCHANGED mem
     ELSE /\ mem' = [mem EXCEPT ![p] =
               [n \in Nodes |-> IF n \in nodes THEN [stage |-> stage, orig |-> node[n]]
                                ELSE mem[p][n]]]
          /\ GotoAt(p, next, 0)

CaptureManaged(p) ==
  pc[p] = "captureManaged" /\ Capture(p, Managed, "managed", "planManaged")

\* Services that do not exist are skipped; with none left nothing is written.
CaptureServices(p) ==
  LET present == {n \in Services : node[n] # Absent} IN
  /\ pc[p] = "captureServices"
  /\ Capture(p, present, "planned", IF present = {} THEN "command" ELSE "planServices")

\* One managed node per step, in order: first all renames, then all copies.
NextManaged(p, site, after) ==
  IF cur[p] = NumManaged THEN after ELSE GotoAt(p, site, cur[p] + 1)

Displace(p) ==
  /\ pc[p] = "displace"
  /\ IF mem[p][cur[p]].orig = Absent THEN NoWrite
     ELSE ~Obstructed(p) /\ NodeWrite(p)
  /\ NextManaged(p, "displace", GotoAt(p, "populate", 1))
  /\ UNCHANGED <<mem, seq>> /\ KeepHandle /\ Keep

Populate(p) ==
  /\ pc[p] = "populate" /\ node[cur[p]] # "dir" /\ NodeWrite(p)
  /\ NextManaged(p, "populate", GotoAt(p, "locale", 0))
  /\ UNCHANGED <<mem, seq>> /\ KeepHandle /\ Keep

\* The rename of a service, and the stage its record has in memory from then on.
Block(p) ==
  /\ pc[p] = "block" /\ ~Obstructed(p) /\ NodeWrite(p)
  /\ mem' = [mem EXCEPT ![p][cur[p]].stage = "renamed"]
  /\ GotoAt(p, "markRenamed", cur[p])
  /\ UNCHANGED seq /\ KeepHandle /\ Keep

MakeStub(p) ==
  /\ pc[p] = "stub" /\ ~Obstructed(p) /\ NodeWrite(p)
  /\ mem' = [mem EXCEPT ![p][cur[p]].stage = "stubbed"]
  /\ GotoAt(p, "markStubbed", cur[p])
  /\ UNCHANGED seq /\ KeepHandle /\ Keep

\* A command in the FileSystem rewrites, replaces or deletes a node.
CommandRunning == orphan \/ \E p \in Procs : pc[p] \in CommandSites
CommandWrites ==
  /\ CommandRunning
  /\ \E n \in Nodes :
       \E v \in (Files \ {node[n], backup[n]}) \cup {Absent} \cup Aliens :
         node' = Store(node, n, v)
  /\ UNCHANGED <<backup, meta, locking, pc, mem, seq, cur>> /\ KeepHandle /\ Keep

\* chroot_run: locale-gen, the target command, autoremove and its companions.
\* Whether the target command failed or raised makes no difference from here on.
CommandDone(p) ==
  /\ pc[p] \in CommandSites
  /\ \/ pc[p] = "locale" /\ GotoAt(p, "captureServices", 0) /\ UNCHANGED mode
     \/ /\ pc[p] = "command" /\ StartCleanup(p)
        /\ mode' = [mode EXCEPT ![p] = "commands"]
     \/ pc[p] = "autoremove" /\ GotoAt(p, "restore", cur[p]) /\ UNCHANGED mode
  /\ UNCHANGED <<fd, held, mem, seq>> /\ NoWrite /\ Keep
--------------------------------------------------------------------------------
(* unblock_services and cleanup *)

Decide(p) ==
  LET n == cur[p]
      rec == mem[p][n] IN
  /\ pc[p] = "restore" /\ cur[p] # 0
  /\ \/ /\ rec.stage = "none" \/ Ambiguous(n, rec)
        /\ Advance(p) /\ UNCHANGED mem
     \/ /\ rec.stage # "none" /\ (MustPutBack(n, rec) \/ MustRemove(n, rec))
        /\ GotoAt(p, "remove", n) /\ UNCHANGED mem
     \/ /\ rec.stage = "stubbed" /\ Replaced(n, rec)
        /\ mem' = [mem EXCEPT ![p][n].stage = "preserve"]
        /\ GotoAt(p, "keep", n)
     \/ /\ rec.stage = "preserve" /\ Replaced(n, rec)
        /\ GotoAt(p, "drop", n) /\ UNCHANGED mem
     \/ /\ rec.stage # "none" /\ AlreadyRestored(n, rec)
        /\ GotoAt(p, "retire", n) /\ UNCHANGED mem
  /\ UNCHANGED seq /\ NoWrite /\ KeepHandle /\ Keep

Remove(p) ==
  /\ pc[p] = "remove" /\ ~Obstructed(p) /\ NodeWrite(p)
  /\ GotoAt(p, IF mem[p][cur[p]].orig = Absent THEN "retire" ELSE "putBack", cur[p])
  /\ UNCHANGED <<mem, seq>> /\ KeepHandle /\ Keep

PutBackOrDrop(p) ==
  /\ pc[p] \in {"putBack", "drop"} /\ ~Obstructed(p) /\ NodeWrite(p)
  /\ GotoAt(p, "retire", cur[p])
  /\ UNCHANGED <<mem, seq>> /\ KeepHandle /\ Keep

\* The journal goes only when no record is active, the lock only after the
\* journal; otherwise both stay for the next recovery.
MayFinish(p) == NoActiveRecord(mem[p])
Finish(p) ==
  /\ pc[p] = "restore" /\ cur[p] = 0
  /\ IF MayFinish(p)
     THEN GotoAt(p, IF seq[p] = 0 THEN "unlock" ELSE "finish", 0)
          /\ UNCHANGED <<mem, seq>> /\ KeepHandle
     ELSE Exit(p)
  /\ NoWrite /\ Keep

RemoveJournal(p) ==
  /\ pc[p] = "finish"
  /\ IF JournalRemovable(p)
     THEN /\ MetaWrite(p)
          /\ seq' = [seq EXCEPT ![p] = 0]
          /\ GotoAt(p, "unlock", 0)
          /\ UNCHANGED mem /\ KeepHandle
     ELSE Exit(p) /\ NoWrite
  /\ Keep

\* _release_lock; the flock itself is dropped in the next step.
Unlock(p) ==
  /\ pc[p] = "unlock"
  /\ IF OwnsLockPath(p)
     THEN LockWrite(p) /\ GotoAt(p, "close", 0) /\ UNCHANGED <<mem, seq>> /\ KeepHandle
     ELSE Exit(p) /\ NoWrite
  /\ Keep

\* After a takeover the same process may go on to a transaction of its own.
Close(p) ==
  /\ pc[p] = "close"
  /\ Exit(p) \/ (mode[p] = "recover" /\ locks < MaxLocks /\ Leave(p, "create"))
  /\ NoWrite /\ Keep
--------------------------------------------------------------------------------
(* Failures *)

\* A call raises before its effect (a pending journal is removed again) ...
RaiseBefore(p) ==
  /\ pending' = IF pc[p] \in PersistSites /\ Prepared(p) THEN NoJournal ELSE pending
  /\ UNCHANGED <<disk, journal, torn, locking>>
  /\ mem' = IF pc[p] = "keep" THEN [mem EXCEPT ![p][cur[p]].stage = "stubbed"] ELSE mem
  /\ UNCHANGED seq
\* ... or after it, in the fsync that follows; the code then knows the new
\* sequence number, but a record it was retiring is active again.
RaiseAfter(p) ==
  /\ ~Obstructed(p) /\ (NodeWrite(p) \/ MetaWrite(p))
  /\ seq' = IF pc[p] \in PersistSites THEN [seq EXCEPT ![p] = @ + 1] ELSE seq
  /\ UNCHANGED mem

FaultSites == (EnterSites \cup RestoreSites) \ {"restore"}
\* An exception leaves the step to cleanup(), or one restoration to the next.
Raise(p) ==
  /\ pc[p] \in FaultSites
  /\ RaiseBefore(p) \/ RaiseAfter(p)
  /\ IF pc[p] \in EnterSites THEN StartCleanup(p) ELSE Advance(p)
  /\ faults' = IF Obstructed(p) THEN faults ELSE faults + 1
  /\ faults' <= MaxFaults
  /\ KeepHandle /\ UNCHANGED <<orphan, crashes>>

\* An exception ends the process's part in the transaction.
RaiseOut(p) ==
  /\ faults < MaxFaults /\ faults' = faults + 1
  /\ \/ /\ pc[p] \in {"flockNew", "writeLock"}
        /\ Goto(p, "abandonLock")
        /\ NoWrite \/ LockWrite(p)
        /\ UNCHANGED <<mem, seq, cur>> /\ KeepHandle
     \/ /\ pc[p] \in {"dropPending", "finish", "unlock", "abandonLock"}
        /\ NoWrite \/ MetaWrite(p) \/ LockWrite(p)
        /\ Exit(p)
  /\ UNCHANGED <<orphan, crashes>>

\* The process dies: the kernel drops its flock, a command it started may go
\* on, and a journal write may leave an incomplete pending file.
Crash(p) ==
  /\ pc[p] # "idle" /\ crashes < MaxCrashes
  /\ crashes' = crashes + 1
  /\ Exit(p)
  /\ orphan' \in {orphan, orphan \/ (OrphanCommands /\ pc[p] \in CommandSites)}
  /\ torn' \in {torn, torn \/ (TornWrites /\ pc[p] \in PersistSites /\ PersistAllowed(p))}
  /\ UNCHANGED <<disk, journal, pending, locking, faults>>

OrphanEnds ==
  /\ orphan /\ orphan' = FALSE
  /\ UNCHANGED <<disk, meta, locking, pc, fd, held, mem, seq, cur, mode, budget>>
--------------------------------------------------------------------------------
\* The transaction's own steps, and those of its environment.
Acquire(p) ==
  FlockStale(p) \/ Bind(p) \/ DropPending(p) \/ Create(p) \/ FlockNew(p)
    \/ WriteLock(p) \/ AbandonLock(p)
Enter(p) ==
  CaptureManaged(p) \/ Displace(p) \/ Populate(p) \/ CaptureServices(p)
    \/ Block(p) \/ MakeStub(p)
Cleanup(p) ==
  Decide(p) \/ Remove(p) \/ PutBackOrDrop(p) \/ Finish(p) \/ RemoveJournal(p)
    \/ Unlock(p) \/ Close(p)
Step(p) ==
  Acquire(p) \/ Prepare(p) \/ Commit(p) \/ Enter(p) \/ CommandDone(p)
    \/ Cleanup(p) \/ Raise(p)

Next ==
  \/ \E p \in Procs : Start(p) \/ Step(p) \/ RaiseOut(p) \/ Crash(p)
  \/ CommandWrites \/ OrphanEnds

Spec == Init /\ [][Next]_vars

\* Commands end, processes run, and somebody retries a locked FileSystem.
FairSpec == /\ Spec
            /\ \A p \in Procs : WF_vars(Step(p)) /\ WF_vars(Start(p))
            /\ WF_vars(OrphanEnds)
--------------------------------------------------------------------------------
(* Properties *)

\* Every variable keeps its type.
TypeOK ==
  /\ node \in [Nodes -> Values] /\ backup \in [Nodes -> Values]
  /\ lock \in Nat /\ locks \in Nat /\ written \subseteq Nat
  /\ journal \in Journals /\ pending \in Journals /\ torn \in BOOLEAN
  /\ pc \in [Procs -> Sites]
  /\ fd \in [Procs -> Nat]
  /\ held \in [Procs -> BOOLEAN]
  /\ mem \in [Procs -> [Nodes -> Records]]
  /\ seq \in [Procs -> Nat]
  /\ cur \in [Procs -> 0..(NumManaged + NumServices)]
  /\ mode \in [Procs -> {"enter", "recover", "commands"}]
  /\ orphan \in BOOLEAN
  /\ crashes \in Nat /\ faults \in Nat

\* Two processes never work on the FileSystem at once, however lock files are
\* created, opened late, abandoned, unlinked and taken over.
MutualExclusion ==
  \A p, q \in Procs : pc[p] \in OwnerSites /\ pc[q] \in OwnerSites => p = q

\* The file an owner has locked is the one the lock path names, and the
\* journal on disk is the one it wrote last: _persist_journal and
\* _release_lock find no surprise.
OwnerUndisturbed ==
  \A p \in Procs :
    /\ pc[p] \in OwnerSites => OwnsLockPath(p)
    /\ pc[p] \in OwnerSites \ {"dropPending"} =>
         /\ ~torn
         /\ IF seq[p] = 0 THEN journal = NoJournal
            ELSE journal.tok = fd[p] /\ journal.seq = seq[p]

\* Whatever dies or fails when, and even with a dead process's command still
\* writing, a file moved aside is named by the durable journal.
BackupNamed == \A n \in Nodes : Blocked(n) => journal.recs[n].stage # "none"

\* Without such a command the journal also holds its identity: the record,
\* taken when the node was captured, precedes the rename.
WriteAhead == BackupNamed /\ \A n \in Nodes : Blocked(n) => backup[n] = journal.recs[n].orig

\* Without a lock file the FileSystem holds nothing of a transaction: the next
\* one is not refused as an orphan, and no injected file or stub stays behind.
NoResidueWithoutLock ==
  lock = 0 => /\ NoMetadata
              /\ \A n \in Nodes : node[n] \notin {Injected, Stub}

\* A process that died holding a complete lock file, between any two writes,
\* left a disk that the next recovery accepts.
Abandoned == /\ lock # 0 /\ lock \in written /\ ~torn /\ ~orphan
             /\ \A p \in Procs : pc[p] \notin OwnerSites
             /\ \A n \in Nodes : node[n] \notin AlienKinds
StaleRecoverable == Abandoned => RecoveryAccepts(lock)

\* A record leaves the journal only with its node as it was before the
\* transaction, or, for a service, a package's regular file in its place, and
\* no backup left.
RetiredRestored ==
  [][\A n \in Nodes :
       journal.recs[n].stage # "none" /\ journal'.recs[n].stage = "none" =>
         /\ ~Blocked(n)
         /\ \/ node[n] = journal.recs[n].orig
            \/ journal.recs[n].stage = "preserve" /\ Regular(n)]_vars

\* What a package installed over a stub is overwritten or deleted by commands
\* only, never by the transaction that had blocked the service.
ReplacementKept ==
  [][\A n \in Services :
       Blocked(n) /\ Regular(n) /\ node'[n] # node[n] => CommandRunning]_vars

\* A stale lock, and with it every substitution, goes away in the end, unless a
\* command outlived its process: what that wrote recovery may have to refuse.
LockReleased ==
  \/ \A k \in 1..MaxLocks : (lock = k /\ k \in written) ~> (lock # k)
  \/ <>orphan
================================================================================
