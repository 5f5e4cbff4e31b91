----------------------- MODULE ChrootTransactionProofs ------------------------
(***************************************************************************)
(* Proofs about ChrootTransaction for any processes, nodes and bounds.     *)
(***************************************************************************)
EXTENDS ChrootTransaction, TLAPS

\* Where the current node is one that exists, and a managed one.
CursorInv ==
  \A p \in Procs :
    /\ pc[p] \in (RestoreSites \ {"restore"})
                   \cup {"block", "markRenamed", "stub", "markStubbed"} => cur[p] \in Nodes
    /\ pc[p] \in {"displace", "populate"} => cur[p] \in Managed

TypeInv == TypeOK /\ CursorInv

\* TypeOK by the groups of variables that steps change together.
DiskType == node \in [Nodes -> Values] /\ backup \in [Nodes -> Values]
MetaType == journal \in Journals /\ pending \in Journals /\ torn \in BOOLEAN
LockType == lock \in Nat /\ locks \in Nat /\ written \subseteq Nat
PlaceType == /\ pc \in [Procs -> Sites]
             /\ cur \in [Procs -> 0..(NumManaged + NumServices)]
HandleType == /\ fd \in [Procs -> Nat]
              /\ held \in [Procs -> BOOLEAN]
              /\ mode \in [Procs -> {"enter", "recover", "commands"}]
RecordType == /\ mem \in [Procs -> [Nodes -> Records]]
              /\ seq \in [Procs -> Nat]
BudgetType == orphan \in BOOLEAN /\ crashes \in Nat /\ faults \in Nat

LEMMA TypeGroups ==
  /\ DiskType' /\ MetaType' /\ LockType' /\ PlaceType'
  /\ HandleType' /\ RecordType' /\ BudgetType' /\ CursorInv'
  => TypeInv'
BY DEF TypeInv, TypeOK, DiskType, MetaType, LockType, PlaceType, HandleType,
       RecordType, BudgetType

LEMMA NodesAreNumbers ==
  /\ Managed \subseteq Nodes /\ Services \subseteq Nodes
  /\ Nodes \subseteq 0..(NumManaged + NumServices)
  /\ FirstToRestore \in Nodes
  /\ 0 \in 0..(NumManaged + NumServices)
  /\ 1 \in Managed
  /\ \A n \in Nodes : NextToRestore(n) \in 0..(NumManaged + NumServices)
  /\ \A n \in Managed : n # NumManaged => n + 1 \in Managed
BY ConstantsAssumption
   DEF Managed, Services, Nodes, FirstToRestore, NextToRestore, IsLastService

LEMMA InitType == Init => TypeInv
<1> SUFFICES ASSUME Init PROVE TypeInv
  OBVIOUS
<1>1. TypeOK
  BY NodesAreNumbers, ConstantsAssumption
     DEF Init, TypeOK, Values, NoJournal, NoRecords, NoRecord, Journals, Records, Stages, Sites
<1>2. CursorInv
  BY DEF Init, CursorInv, RestoreSites
<1> QED
  BY <1>1, <1>2 DEF TypeInv

--------------------------------------------------------------------------------
(* What each kind of step does to the types *)

CursorSites == (RestoreSites \ {"restore"})
                 \cup {"block", "markRenamed", "stub", "markStubbed"}

LEMMA NoRecordType == NoRecord \in Records /\ NoRecords \in [Nodes -> Records]
BY ConstantsAssumption DEF NoRecord, NoRecords, Records, Stages, Values

LEMMA GotoAtType ==
  ASSUME TypeInv, NEW p \in Procs, NEW site \in Sites,
         NEW n \in 0..(NumManaged + NumServices), GotoAt(p, site, n),
         site \in CursorSites => n \in Nodes,
         site \in {"displace", "populate"} => n \in Managed
  PROVE  PlaceType' /\ CursorInv'
<1>1. PlaceType'
  BY DEF GotoAt, Goto, PlaceType, TypeInv, TypeOK
<1>2. CursorInv'
  BY DEF GotoAt, Goto, CursorInv, CursorSites, TypeInv, TypeOK
<1> QED
  BY <1>1, <1>2

LEMMA GotoType ==
  ASSUME TypeInv, NEW p \in Procs, NEW site \in Sites, Goto(p, site), UNCHANGED cur,
         site \notin CursorSites \cup {"displace", "populate"}
  PROVE  PlaceType' /\ CursorInv'
BY DEF Goto, PlaceType, CursorInv, CursorSites, TypeInv, TypeOK

LEMMA LeaveType ==
  ASSUME TypeInv, NEW p \in Procs, NEW site \in {"idle", "create"}, Leave(p, site)
  PROVE  PlaceType' /\ CursorInv' /\ HandleType' /\ RecordType'
<1>1. PlaceType'
  BY NodesAreNumbers DEF Leave, Goto, PlaceType, TypeInv, TypeOK, Sites
<1>2. CursorInv'
  BY DEF Leave, Goto, CursorInv, TypeInv, TypeOK, RestoreSites
<1>3. HandleType' /\ RecordType'
  BY NoRecordType DEF Leave, HandleType, RecordType, TypeInv, TypeOK
<1> QED
  BY <1>1, <1>2, <1>3

LEMMA AdvanceType ==
  ASSUME TypeInv, NEW p \in Procs, cur[p] \in Nodes, Advance(p)
  PROVE  PlaceType' /\ CursorInv'
<1> DEFINE site == IF IsLastService(cur[p]) /\ mode[p] = "commands"
                   THEN "autoremove" ELSE "restore"
<1>1. site \in Sites /\ site \notin CursorSites \cup {"displace", "populate"}
  BY DEF Sites, OwnerSites, CommandSites, RestoreSites, CursorSites
<1>2. NextToRestore(cur[p]) \in 0..(NumManaged + NumServices)
  BY NodesAreNumbers
<1> QED
  BY <1>1, <1>2, GotoAtType DEF Advance

LEMMA StartCleanupType ==
  ASSUME TypeInv, NEW p \in Procs, StartCleanup(p)
  PROVE  PlaceType' /\ CursorInv'
BY GotoAtType, NodesAreNumbers
   DEF StartCleanup, Sites, OwnerSites, RestoreSites, CursorSites

LEMMA NodeWriteType ==
  ASSUME TypeInv, NEW p \in Procs, NodeWrite(p)
  PROVE  DiskType' /\ MetaType' /\ LockType'
<1>1. MetaType' /\ LockType'
  BY DEF NodeWrite, meta, locking, MetaType, LockType, TypeInv, TypeOK
<1>2. cur[p] \in Nodes
  BY NodesAreNumbers
     DEF NodeWrite, Rename, Inject, Link, Unlink, RenameBack, UnlinkBackup,
         TypeInv, CursorInv, RestoreSites
<1>3. node[cur[p]] \in Values /\ backup[cur[p]] \in Values
      /\ Absent \in Values /\ Injected \in Values /\ Stub \in Values
  BY <1>2 DEF TypeInv, TypeOK, Values
<1>4. ASSUME NEW v \in Values
      PROVE  Store(node, cur[p], v) \in [Nodes -> Values]
             /\ Store(backup, cur[p], v) \in [Nodes -> Values]
  BY <1>2 DEF Store, TypeInv, TypeOK
<1>5. DiskType'
  BY <1>3, <1>4
     DEF NodeWrite, Rename, Inject, Link, Unlink, RenameBack, UnlinkBackup,
         DiskType, TypeInv, TypeOK
<1> QED
  BY <1>1, <1>5

LEMMA MetaWriteType ==
  ASSUME TypeInv, NEW p \in Procs, MetaWrite(p)
  PROVE  DiskType' /\ MetaType' /\ LockType'
<1>1. DiskType' /\ LockType' /\ torn' \in BOOLEAN
  BY DEF MetaWrite, disk, locking, DiskType, LockType, TypeInv, TypeOK
<1>2. NoJournal \in Journals
  BY NoRecordType DEF NoJournal, Journals
<1>3. MetaType'
  BY <1>1, <1>2
     DEF MetaWrite, ReplaceJournal, UnlinkPending, UnlinkJournal, MetaType, TypeInv, TypeOK
<1> QED
  BY <1>1, <1>3

LEMMA LockWriteType ==
  ASSUME TypeInv, NEW p \in Procs, LockWrite(p)
  PROVE  DiskType' /\ MetaType' /\ LockType'
<1>1. DiskType' /\ MetaType' /\ locks' \in Nat
  BY DEF LockWrite, disk, meta, DiskType, MetaType, TypeInv, TypeOK
<1>2. fd[p] \in Nat /\ lock \in Nat /\ written \subseteq Nat
  BY DEF TypeInv, TypeOK
<1>3. CASE WriteOwner(p)
  <2>1. lock' = lock /\ written' = written \cup {fd[p]}
    BY <1>3 DEF WriteOwner
  <2> QED
    BY <1>1, <1>2, <2>1 DEF LockType
<1>4. CASE UnlinkLock(p)
  <2>1. lock' = 0 /\ written' = written
    BY <1>4 DEF UnlinkLock
  <2> QED
    BY <1>1, <1>2, <2>1 DEF LockType
<1> QED
  BY <1>3, <1>4 DEF LockWrite

LEMMA NoWriteType ==
  ASSUME TypeInv, NoWrite
  PROVE  DiskType' /\ MetaType' /\ LockType'
BY DEF NoWrite, disk, meta, locking, DiskType, MetaType, LockType, TypeInv, TypeOK

LEMMA KeepType ==
  ASSUME TypeInv
  PROVE  /\ Keep => BudgetType'
         /\ KeepHandle => HandleType'
         /\ UNCHANGED <<mem, seq>> => RecordType'
BY DEF Keep, KeepHandle, budget, BudgetType, HandleType, RecordType, TypeInv, TypeOK
--------------------------------------------------------------------------------
(* Every step keeps the types *)

LEMMA AcquireType ==
  ASSUME TypeInv, NEW p \in Procs, Start(p) \/ Acquire(p)
  PROVE  TypeInv'
<1>1. CASE Start(p)
  <2>1. DiskType' /\ MetaType' /\ LockType' /\ BudgetType' /\ RecordType'
    BY <1>1, NoWriteType, KeepType DEF Start, RecordType, TypeInv, TypeOK
  <2>2. PlaceType' /\ CursorInv'
    BY <1>1, GotoType DEF Start, Sites, CursorSites, RestoreSites
  <2>3. HandleType'
    BY <1>1 DEF Start, HandleType, TypeInv, TypeOK
  <2> QED
    BY <2>1, <2>2, <2>3, TypeGroups
<1>2. CASE FlockStale(p)
  <2>1. DiskType' /\ MetaType' /\ LockType' /\ BudgetType'
    BY <1>2, NoWriteType, KeepType DEF FlockStale
  <2>2. PlaceType' /\ CursorInv' /\ HandleType' /\ RecordType'
    <3>1. CASE Exit(p)
      BY <3>1, LeaveType DEF Exit
    <3>2. CASE ~Exit(p)
      <4>1. PlaceType' /\ CursorInv'
        BY <1>2, <3>2, GotoType DEF FlockStale, Sites, CursorSites, RestoreSites
      <4>2. HandleType' /\ RecordType'
        BY <1>2, <3>2 DEF FlockStale, HandleType, RecordType, TypeInv, TypeOK
      <4> QED
        BY <4>1, <4>2
    <3> QED
      BY <3>1, <3>2
  <2> QED
    BY <2>1, <2>2, TypeGroups
<1>3. CASE Bind(p)
  <2>1. DiskType' /\ MetaType' /\ LockType' /\ BudgetType'
    BY <1>3, NoWriteType, KeepType DEF Bind
  <2>2. PlaceType' /\ CursorInv' /\ HandleType' /\ RecordType'
    <3>1. CASE Exit(p)
      BY <3>1, LeaveType DEF Exit
    <3>2. CASE ~Exit(p)
      <4>1. /\ mem' = [mem EXCEPT ![p] = journal.recs]
            /\ seq' = [seq EXCEPT ![p] = journal.seq]
            /\ Goto(p, "dropPending")
            /\ UNCHANGED <<fd, held, mode, cur>>
        BY <1>3, <3>2 DEF Bind
      <4>2. "dropPending" \in Sites
            /\ "dropPending" \notin CursorSites \cup {"displace", "populate"}
        BY DEF Sites, OwnerSites, CursorSites, RestoreSites
      <4>3. PlaceType' /\ CursorInv'
        BY <4>1, <4>2, GotoType
      <4>4. HandleType' /\ RecordType'
        BY <4>1 DEF HandleType, RecordType, Journals, TypeInv, TypeOK
      <4> QED
        BY <4>3, <4>4
    <3> QED
      BY <3>1, <3>2
  <2> QED
    BY <2>1, <2>2, TypeGroups
<1>4. CASE DropPending(p)
  <2>1. DiskType' /\ MetaType' /\ LockType' /\ BudgetType' /\ HandleType' /\ RecordType'
    BY <1>4, MetaWriteType, KeepType DEF DropPending
  <2>2. PlaceType' /\ CursorInv'
    BY <1>4, GotoAtType, StartCleanupType, NodesAreNumbers
       DEF DropPending, Sites, OwnerSites, CursorSites, RestoreSites
  <2> QED
    BY <2>1, <2>2, TypeGroups
<1>5. CASE Create(p)
  <2>1. CASE Exit(p) /\ NoWrite
    BY <1>5, <2>1, NoWriteType, KeepType, LeaveType, TypeGroups DEF Create, Exit
  <2>2. CASE ~(Exit(p) /\ NoWrite)
    <3>1. /\ locks' = locks + 1 /\ lock' = locks + 1
          /\ fd' = [fd EXCEPT ![p] = locks + 1]
          /\ mode' = [mode EXCEPT ![p] = "enter"]
          /\ Goto(p, "flockNew")
          /\ UNCHANGED <<disk, meta, written, held, mem, seq, cur>>
      BY <1>5, <2>2 DEF Create
    <3>2. locks + 1 \in Nat
      BY DEF TypeInv, TypeOK
    <3>3. HandleType' /\ RecordType'
      BY <3>1, <3>2 DEF HandleType, RecordType, TypeInv, TypeOK
    <3>4. DiskType' /\ MetaType' /\ LockType' /\ BudgetType'
      BY <1>5, <3>1, <3>2, KeepType
         DEF Create, disk, meta, DiskType, MetaType, LockType, TypeInv, TypeOK
    <3>5. PlaceType' /\ CursorInv'
      BY <3>1, GotoType DEF Sites, CreatorSites, CursorSites, RestoreSites
    <3> QED
      BY <3>3, <3>4, <3>5, TypeGroups
  <2> QED
    BY <2>1, <2>2
<1>6. CASE FlockNew(p)
  <2>1. DiskType' /\ MetaType' /\ LockType' /\ BudgetType' /\ RecordType'
    BY <1>6, NoWriteType, KeepType DEF FlockNew, RecordType, TypeInv, TypeOK
  <2>2. HandleType'
    BY <1>6 DEF FlockNew, HeldByOther, HandleType, TypeInv, TypeOK
  <2>3. PlaceType' /\ CursorInv'
    BY <1>6, GotoType DEF FlockNew, Sites, CreatorSites, CursorSites, RestoreSites
  <2> QED
    BY <2>1, <2>2, <2>3, TypeGroups
<1>7. CASE WriteLock(p)
  <2>1. DiskType' /\ MetaType' /\ LockType' /\ BudgetType' /\ HandleType' /\ RecordType'
    BY <1>7, LockWriteType, KeepType DEF WriteLock, RecordType, TypeInv, TypeOK
  <2>2. PlaceType' /\ CursorInv'
    BY <1>7, GotoType DEF WriteLock, Sites, OwnerSites, EnterSites, CursorSites, RestoreSites
  <2> QED
    BY <2>1, <2>2, TypeGroups
<1>8. CASE AbandonLock(p)
  BY <1>8, LockWriteType, KeepType, LeaveType, TypeGroups DEF AbandonLock, Exit
<1> QED
  BY <1>1, <1>2, <1>3, <1>4, <1>5, <1>6, <1>7, <1>8 DEF Acquire

LEMMA RecordsLeftType ==
  ASSUME TypeInv, NEW p \in Procs
  PROVE  RecordsLeft(p) \in [Nodes -> Records] /\ JournalData(p) \in Journals
<1>1. RecordsLeft(p) \in [Nodes -> Records]
  BY NoRecordType DEF RecordsLeft, TypeInv, TypeOK
<1>2. fd[p] \in Nat /\ seq[p] + 1 \in Nat
  BY DEF TypeInv, TypeOK
<1> QED
  BY <1>1, <1>2 DEF JournalData, Journals

LEMMA StageType ==
  ASSUME TypeInv, NEW p \in Procs, NEW stage \in Stages,
         mem' = [mem EXCEPT ![p][cur[p]].stage = stage], UNCHANGED seq
  PROVE  RecordType'
<1>1. \A rec \in Records : [rec EXCEPT !.stage = stage] \in Records
  BY DEF Records
<1>2. \A recs \in [Nodes -> Records] :
        [recs EXCEPT ![cur[p]] = [recs[cur[p]] EXCEPT !.stage = stage]]
          \in [Nodes -> Records]
  BY <1>1
<1> QED
  BY <1>2 DEF RecordType, TypeInv, TypeOK

LEMMA PersistType ==
  ASSUME TypeInv, NEW p \in Procs, Prepare(p) \/ Commit(p)
  PROVE  TypeInv'
<1>1. CASE Prepare(p)
  <2>1. pending' \in Journals /\ UNCHANGED <<disk, journal, torn, locking, pc, mem, seq, cur>>
        /\ KeepHandle /\ Keep
    BY <1>1, RecordsLeftType DEF Prepare
  <2>2. DiskType' /\ MetaType' /\ LockType'
    BY <2>1 DEF disk, locking, DiskType, MetaType, LockType, TypeInv, TypeOK
  <2>3. PlaceType' /\ CursorInv' /\ RecordType'
    BY <2>1 DEF PlaceType, CursorInv, RecordType, TypeInv, TypeOK
  <2> QED
    BY <2>1, <2>2, <2>3, KeepType, TypeGroups
<1>2. CASE Commit(p)
  <2>1. /\ MetaWrite(p) /\ pc[p] \in PersistSites
        /\ mem' = [mem EXCEPT ![p] = RecordsLeft(p)]
        /\ seq' = [seq EXCEPT ![p] = seq[p] + 1]
        /\ AfterPersist(p) /\ KeepHandle /\ Keep
    BY <1>2 DEF Commit
  <2>2. RecordType'
    BY <2>1, RecordsLeftType DEF RecordType, TypeInv, TypeOK
  <2>3. PlaceType' /\ CursorInv'
    <3> USE <2>1 DEF Sites, OwnerSites, EnterSites, RestoreSites, CommandSites, CursorSites
    <3>1. CASE GotoAt(p, "captureManaged", 0)
      BY <3>1, GotoAtType, NodesAreNumbers
    <3>2. CASE GotoAt(p, "displace", 1)
      BY <3>2, GotoAtType, NodesAreNumbers
    <3>3. CASE \E n \in Services : FirstRecorded(n, mem[p]) /\ GotoAt(p, "block", n)
      BY <3>3, GotoAtType, NodesAreNumbers
    <3>4. CASE GotoAt(p, "command", 0)
      BY <3>4, GotoAtType, NodesAreNumbers
    <3>5. CASE pc[p] = "markRenamed" /\ GotoAt(p, "stub", cur[p])
      <4>1. cur[p] \in Nodes
        BY <3>5 DEF TypeInv, CursorInv
      <4> QED
        BY <3>5, <4>1, GotoAtType, NodesAreNumbers
    <3>6. CASE pc[p] = "keep" /\ GotoAt(p, "drop", cur[p])
      <4>1. cur[p] \in Nodes
        BY <3>6 DEF TypeInv, CursorInv
      <4> QED
        BY <3>6, <4>1, GotoAtType, NodesAreNumbers
    <3>7. CASE pc[p] = "retire" /\ Advance(p)
      <4>1. cur[p] \in Nodes
        BY <3>7 DEF TypeInv, CursorInv
      <4> QED
        BY <3>7, <4>1, AdvanceType
    <3> QED
      BY <3>1, <3>2, <3>3, <3>4, <3>5, <3>6, <3>7 DEF AfterPersist
  <2> QED
    BY <2>1, <2>2, <2>3, MetaWriteType, KeepType, TypeGroups
<1> QED
  BY <1>1, <1>2

LEMMA CaptureType ==
  ASSUME TypeInv, NEW p \in Procs, NEW nodes \in SUBSET Nodes, NEW stage \in Stages,
         NEW next \in Sites, next \notin CursorSites \cup {"displace", "populate"},
         Capture(p, nodes, stage, next)
  PROVE  TypeInv'
<1>1. NoWrite /\ KeepHandle /\ UNCHANGED seq /\ Keep
  BY DEF Capture
<1>2. CASE StartCleanup(p) /\ UNCHANGED mem
  BY <1>1, <1>2, StartCleanupType, NoWriteType, KeepType, TypeGroups
<1>3. CASE ~(StartCleanup(p) /\ UNCHANGED mem)
  <2>1. /\ mem' = [mem EXCEPT ![p] =
             [n \in Nodes |-> IF n \in nodes THEN [stage |-> stage, orig |-> node[n]]
                              ELSE mem[p][n]]]
        /\ GotoAt(p, next, 0)
    BY <1>3 DEF Capture
  <2>2. \A n \in nodes : [stage |-> stage, orig |-> node[n]] \in Records
    BY DEF Records, TypeInv, TypeOK
  <2>3. RecordType'
    BY <1>1, <2>1, <2>2 DEF RecordType, TypeInv, TypeOK
  <2>4. PlaceType' /\ CursorInv'
    BY <2>1, GotoAtType, NodesAreNumbers
  <2> QED
    BY <1>1, <2>3, <2>4, NoWriteType, KeepType, TypeGroups
<1> QED
  BY <1>2, <1>3

LEMMA NextManagedType ==
  ASSUME TypeInv, NEW p \in Procs, cur[p] \in Managed,
         NEW site \in {"displace", "populate"},
         NEW next \in {"populate", "locale"}, NEW n \in {0, 1},
         next = "populate" => n = 1,
         NextManaged(p, site, GotoAt(p, next, n))
  PROVE  PlaceType' /\ CursorInv'
<1> USE DEF Sites, OwnerSites, EnterSites, CommandSites, CursorSites, RestoreSites
<1>1. CASE cur[p] = NumManaged /\ GotoAt(p, next, n)
  <2>1. n \in 0..(NumManaged + NumServices)
    BY NodesAreNumbers
  <2> QED
    BY <1>1, <2>1, GotoAtType, NodesAreNumbers
<1>2. CASE cur[p] # NumManaged /\ GotoAt(p, site, cur[p] + 1)
  <2>1. cur[p] + 1 \in Managed
    BY <1>2, NodesAreNumbers
  <2> QED
    BY <1>2, <2>1, GotoAtType, NodesAreNumbers
<1> QED
  BY <1>1, <1>2 DEF NextManaged

LEMMA EnterType ==
  ASSUME TypeInv, NEW p \in Procs, Enter(p)
  PROVE  TypeInv'
<1> USE DEF Sites, OwnerSites, EnterSites, CommandSites, CursorSites, RestoreSites
<1>1. CASE CaptureManaged(p)
  BY <1>1, CaptureType, NodesAreNumbers DEF CaptureManaged, Stages
<1>2. CASE CaptureServices(p)
  BY <1>2, CaptureType, NodesAreNumbers DEF CaptureServices, Stages
<1>3. CASE Displace(p)
  <2>1. /\ NoWrite \/ NodeWrite(p)
        /\ NextManaged(p, "displace", GotoAt(p, "populate", 1))
        /\ UNCHANGED <<mem, seq>> /\ KeepHandle /\ Keep /\ pc[p] = "displace"
    BY <1>3 DEF Displace
  <2>2. cur[p] \in Managed
    BY <2>1 DEF TypeInv, CursorInv
  <2>3. PlaceType' /\ CursorInv'
    BY <2>1, <2>2, NextManagedType
  <2> QED
    BY <2>1, <2>3, NoWriteType, NodeWriteType, KeepType, TypeGroups
<1>4. CASE Populate(p)
  <2>1. /\ NodeWrite(p)
        /\ NextManaged(p, "populate", GotoAt(p, "locale", 0))
        /\ UNCHANGED <<mem, seq>> /\ KeepHandle /\ Keep /\ pc[p] = "populate"
    BY <1>4 DEF Populate
  <2>2. cur[p] \in Managed
    BY <2>1 DEF TypeInv, CursorInv
  <2>3. PlaceType' /\ CursorInv'
    BY <2>1, <2>2, NextManagedType
  <2> QED
    BY <2>1, <2>3, NodeWriteType, KeepType, TypeGroups
<1>5. CASE Block(p) \/ MakeStub(p)
  <2>1. PICK stage \in {"renamed", "stubbed"}, site \in {"markRenamed", "markStubbed"} :
          /\ NodeWrite(p)
          /\ mem' = [mem EXCEPT ![p][cur[p]].stage = stage]
          /\ GotoAt(p, site, cur[p])
          /\ UNCHANGED seq /\ KeepHandle /\ Keep /\ pc[p] \in {"block", "stub"}
    BY <1>5 DEF Block, MakeStub
  <2>2. cur[p] \in Nodes
    BY <2>1 DEF TypeInv, CursorInv
  <2>3. PlaceType' /\ CursorInv'
    BY <2>1, <2>2, GotoAtType, NodesAreNumbers
  <2>4. RecordType'
    BY <2>1, StageType DEF Stages
  <2> QED
    BY <2>1, <2>3, <2>4, NodeWriteType, KeepType, TypeGroups
<1> QED
  BY <1>1, <1>2, <1>3, <1>4, <1>5 DEF Enter

LEMMA CommandType ==
  ASSUME TypeInv, CommandWrites \/ OrphanEnds \/ \E p \in Procs : CommandDone(p)
  PROVE  TypeInv'
<1>1. CASE CommandWrites
  <2>1. PICK n \in Nodes, v \in Values :
          /\ node' = Store(node, n, v)
          /\ UNCHANGED <<backup, meta, locking, pc, mem, seq, cur>>
          /\ KeepHandle /\ Keep
    BY <1>1, ConstantsAssumption DEF CommandWrites, Values
  <2>2. DiskType'
    BY <2>1 DEF Store, DiskType, TypeInv, TypeOK
  <2>3. MetaType' /\ LockType' /\ PlaceType' /\ RecordType' /\ CursorInv'
    BY <2>1 DEF meta, locking, MetaType, LockType, PlaceType, RecordType, CursorInv,
                TypeInv, TypeOK
  <2> QED
    BY <2>1, <2>2, <2>3, KeepType, TypeGroups
<1>2. CASE OrphanEnds
  BY <1>2 DEF OrphanEnds, disk, meta, locking, budget, CursorInv, TypeInv, TypeOK
<1>3. CASE \E p \in Procs : CommandDone(p)
  <2>1. PICK p \in Procs : CommandDone(p)
    BY <1>3
  <2>2. UNCHANGED <<fd, held, mem, seq>> /\ NoWrite /\ Keep
        /\ (UNCHANGED mode \/ mode' = [mode EXCEPT ![p] = "commands"])
    BY <2>1 DEF CommandDone
  <2>3. HandleType' /\ RecordType'
    BY <2>2 DEF HandleType, RecordType, TypeInv, TypeOK
  <2>4. PlaceType' /\ CursorInv'
    <3>1. cur[p] \in 0..(NumManaged + NumServices)
      BY DEF TypeInv, TypeOK
    <3>2. \/ GotoAt(p, "captureServices", 0) \/ StartCleanup(p)
          \/ GotoAt(p, "restore", cur[p])
      BY <2>1 DEF CommandDone
    <3> QED
      BY <3>1, <3>2, GotoAtType, StartCleanupType, NodesAreNumbers
         DEF Sites, OwnerSites, EnterSites, RestoreSites, CursorSites
  <2> QED
    BY <2>2, <2>3, <2>4, NoWriteType, KeepType, TypeGroups
<1> QED
  BY <1>1, <1>2, <1>3

LEMMA CleanupType ==
  ASSUME TypeInv, NEW p \in Procs, Cleanup(p)
  PROVE  TypeInv'
<1> USE DEF Sites, OwnerSites, RestoreSites, CursorSites
<1>1. CASE Decide(p)
  <2>1. cur[p] # 0 /\ UNCHANGED seq /\ NoWrite /\ KeepHandle /\ Keep
    BY <1>1 DEF Decide
  <2>2. cur[p] \in Nodes
    BY <2>1, ConstantsAssumption DEF Nodes, TypeInv, TypeOK
  <2>3. \/ Advance(p)
        \/ \E site \in {"remove", "keep", "drop", "retire"} : GotoAt(p, site, cur[p])
    BY <1>1 DEF Decide
  <2>4. PlaceType' /\ CursorInv'
    BY <2>2, <2>3, AdvanceType, GotoAtType, NodesAreNumbers
  <2>5. UNCHANGED mem \/ mem' = [mem EXCEPT ![p][cur[p]].stage = "preserve"]
    BY <1>1 DEF Decide
  <2>6. RecordType'
    <3>1. CASE UNCHANGED mem
      BY <2>1, <3>1 DEF RecordType, TypeInv, TypeOK
    <3>2. CASE mem' = [mem EXCEPT ![p][cur[p]].stage = "preserve"]
      BY <2>1, <3>2, StageType DEF Stages
    <3> QED
      BY <2>5, <3>1, <3>2
  <2> QED
    BY <2>1, <2>4, <2>6, NoWriteType, KeepType, TypeGroups
<1>2. CASE Remove(p) \/ PutBackOrDrop(p)
  <2>1. /\ pc[p] \in {"remove", "putBack", "drop"} /\ NodeWrite(p)
        /\ \E site \in {"retire", "putBack"} : GotoAt(p, site, cur[p])
        /\ UNCHANGED <<mem, seq>> /\ KeepHandle /\ Keep
    BY <1>2 DEF Remove, PutBackOrDrop
  <2>2. cur[p] \in Nodes
    BY <2>1 DEF TypeInv, CursorInv
  <2>3. PlaceType' /\ CursorInv'
    BY <2>1, <2>2, GotoAtType, NodesAreNumbers
  <2> QED
    BY <2>1, <2>3, NodeWriteType, KeepType, TypeGroups
<1>3. CASE Finish(p)
  <2>1. \/ Exit(p)
        \/ /\ \E site \in {"unlock", "finish"} : GotoAt(p, site, 0)
           /\ UNCHANGED <<mem, seq>> /\ KeepHandle
    BY <1>3 DEF Finish
  <2>2. NoWrite /\ Keep
    BY <1>3 DEF Finish
  <2> QED
    BY <2>1, <2>2, LeaveType, GotoAtType, NodesAreNumbers, NoWriteType, KeepType, TypeGroups
       DEF Exit
<1>4. CASE RemoveJournal(p)
  <2>1. \/ Exit(p) /\ NoWrite
        \/ /\ MetaWrite(p) /\ seq' = [seq EXCEPT ![p] = 0]
           /\ GotoAt(p, "unlock", 0) /\ UNCHANGED mem /\ KeepHandle
    BY <1>4 DEF RemoveJournal
  <2>2. Keep
    BY <1>4 DEF RemoveJournal
  <2>3. CASE Exit(p) /\ NoWrite
    BY <2>2, <2>3, LeaveType, NoWriteType, KeepType, TypeGroups DEF Exit
  <2>4. CASE /\ MetaWrite(p) /\ seq' = [seq EXCEPT ![p] = 0]
             /\ GotoAt(p, "unlock", 0) /\ UNCHANGED mem /\ KeepHandle
    <3>1. RecordType'
      BY <2>4 DEF RecordType, TypeInv, TypeOK
    <3> QED
      BY <2>2, <2>4, <3>1, MetaWriteType, GotoAtType, NodesAreNumbers, KeepType, TypeGroups
  <2> QED
    BY <2>1, <2>3, <2>4
<1>5. CASE Unlock(p)
  <2>1. \/ Exit(p) /\ NoWrite
        \/ LockWrite(p) /\ GotoAt(p, "close", 0) /\ UNCHANGED <<mem, seq>> /\ KeepHandle
    BY <1>5 DEF Unlock
  <2>2. Keep
    BY <1>5 DEF Unlock
  <2>3. CASE Exit(p) /\ NoWrite
    BY <2>2, <2>3, LeaveType, NoWriteType, KeepType, TypeGroups DEF Exit
  <2>4. CASE LockWrite(p) /\ GotoAt(p, "close", 0) /\ UNCHANGED <<mem, seq>> /\ KeepHandle
    BY <2>2, <2>4, LockWriteType, GotoAtType, NodesAreNumbers, KeepType, TypeGroups
  <2> QED
    BY <2>1, <2>3, <2>4
<1>6. CASE Close(p)
  BY <1>6, LeaveType, NoWriteType, KeepType, TypeGroups DEF Close, Exit
<1> QED
  BY <1>1, <1>2, <1>3, <1>4, <1>5, <1>6 DEF Cleanup

LEMMA FailureType ==
  ASSUME TypeInv, NEW p \in Procs, Raise(p) \/ RaiseOut(p) \/ Crash(p)
  PROVE  TypeInv'
<1>1. CASE Raise(p)
  <2>1. /\ pc[p] \in FaultSites
        /\ RaiseBefore(p) \/ RaiseAfter(p)
        /\ (pc[p] \in EnterSites /\ StartCleanup(p)) \/ (pc[p] \notin EnterSites /\ Advance(p))
        /\ faults' \in {faults, faults + 1}
        /\ KeepHandle /\ UNCHANGED <<orphan, crashes>>
    BY <1>1 DEF Raise
  <2>2. BudgetType'
    BY <2>1 DEF BudgetType, TypeInv, TypeOK
  <2>3. PlaceType' /\ CursorInv'
    <3>1. ASSUME pc[p] \notin EnterSites PROVE cur[p] \in Nodes
      BY <2>1, <3>1 DEF FaultSites, TypeInv, CursorInv
    <3> QED
      BY <2>1, <3>1, StartCleanupType, AdvanceType
  <2>4. DiskType' /\ MetaType' /\ LockType' /\ RecordType'
    <3>1. CASE RaiseBefore(p)
      <4>1. /\ pending' \in {NoJournal, pending}
            /\ UNCHANGED <<disk, journal, torn, locking>>
            /\ UNCHANGED mem \/ mem' = [mem EXCEPT ![p][cur[p]].stage = "stubbed"]
            /\ UNCHANGED seq
        BY <3>1 DEF RaiseBefore
      <4>2. NoJournal \in Journals
        BY NoRecordType DEF NoJournal, Journals
      <4>3. DiskType' /\ MetaType' /\ LockType'
        BY <4>1, <4>2 DEF disk, locking, DiskType, MetaType, LockType, TypeInv, TypeOK
      <4>4. RecordType'
        <5>1. CASE UNCHANGED mem
          BY <4>1, <5>1 DEF RecordType, TypeInv, TypeOK
        <5>2. CASE mem' = [mem EXCEPT ![p][cur[p]].stage = "stubbed"]
          BY <4>1, <5>2, StageType DEF Stages
        <5> QED
          BY <4>1, <5>1, <5>2
      <4> QED
        BY <4>3, <4>4
    <3>2. CASE RaiseAfter(p)
      <4>1. /\ NodeWrite(p) \/ MetaWrite(p)
            /\ UNCHANGED seq \/ seq' = [seq EXCEPT ![p] = seq[p] + 1]
            /\ UNCHANGED mem
        BY <3>2 DEF RaiseAfter
      <4>2. RecordType'
        BY <4>1 DEF RecordType, TypeInv, TypeOK
      <4> QED
        BY <4>1, <4>2, NodeWriteType, MetaWriteType
    <3> QED
      BY <2>1, <3>1, <3>2
  <2>5. HandleType'
    BY <2>1, KeepType
  <2> QED
    BY <2>2, <2>3, <2>4, <2>5, TypeGroups
<1>2. CASE RaiseOut(p)
  <2>1. BudgetType'
    <3>1. faults' = faults + 1 /\ UNCHANGED <<orphan, crashes>>
      BY <1>2 DEF RaiseOut
    <3> QED
      BY <3>1 DEF BudgetType, TypeInv, TypeOK
  <2>2. NoWrite \/ MetaWrite(p) \/ LockWrite(p)
    BY <1>2 DEF RaiseOut
  <2>3. DiskType' /\ MetaType' /\ LockType'
    BY <2>2, NoWriteType, MetaWriteType, LockWriteType
  <2>4. \/ Goto(p, "abandonLock") /\ UNCHANGED <<mem, seq, cur>> /\ KeepHandle
        \/ Exit(p)
    BY <1>2 DEF RaiseOut
  <2>5. PlaceType' /\ CursorInv' /\ HandleType' /\ RecordType'
    <3>1. CASE Goto(p, "abandonLock") /\ UNCHANGED <<mem, seq, cur>> /\ KeepHandle
      BY <3>1, GotoType, KeepType DEF Sites, CreatorSites, CursorSites, RestoreSites
    <3>2. CASE Exit(p)
      BY <3>2, LeaveType DEF Exit
    <3> QED
      BY <2>4, <3>1, <3>2
  <2> QED
    BY <2>1, <2>3, <2>5, TypeGroups
<1>3. CASE Crash(p)
  <2>1. crashes' = crashes + 1 /\ Exit(p) /\ orphan' \in BOOLEAN /\ torn' \in BOOLEAN
        /\ UNCHANGED <<disk, journal, pending, locking, faults>>
    <3>1. /\ orphan' \in {orphan, orphan \/ (OrphanCommands /\ pc[p] \in CommandSites)}
          /\ torn' \in {torn, torn \/ (TornWrites /\ pc[p] \in PersistSites
                                                   /\ PersistAllowed(p))}
          /\ orphan \in BOOLEAN /\ torn \in BOOLEAN
      BY <1>3 DEF Crash, TypeInv, TypeOK
    <3>2. orphan' \in BOOLEAN
      BY <3>1
    <3>3. torn' \in BOOLEAN
      BY <3>1
    <3> QED
      BY <1>3, <3>2, <3>3 DEF Crash
  <2>2. DiskType' /\ MetaType' /\ LockType' /\ BudgetType'
    BY <2>1 DEF disk, locking, DiskType, MetaType, LockType, BudgetType, TypeInv, TypeOK
  <2> QED
    BY <2>1, <2>2, LeaveType, TypeGroups DEF Exit
<1> QED
  BY <1>1, <1>2, <1>3

LEMMA StepType == TypeInv /\ [Next]_vars => TypeInv'
<1> SUFFICES ASSUME TypeInv, [Next]_vars PROVE TypeInv'
  OBVIOUS
<1>1. CASE UNCHANGED vars
  BY <1>1 DEF vars, disk, meta, locking, budget, CursorInv, TypeInv, TypeOK
<1>2. ASSUME NEW p \in Procs, Start(p) \/ Step(p) \/ RaiseOut(p) \/ Crash(p)
      PROVE  TypeInv'
  BY <1>2, AcquireType, PersistType, EnterType, CommandType, CleanupType, FailureType
     DEF Step
<1> QED
  BY <1>1, <1>2, CommandType DEF Next

\* In every state each variable has its type; restoration and substitution
\* only ever work on a node that exists.
THEOREM TypeCorrect == Spec => []TypeOK
<1>1. Spec => []TypeInv
  BY InitType, StepType, PTL DEF Spec
<1>2. TypeInv => TypeOK
  BY DEF TypeInv
<1> QED
  BY <1>1, <1>2, PTL
--------------------------------------------------------------------------------
(* One owner.  The flock is per open lock file; the lock file is found by its *)
(* path.  That the two agree for whoever works on the FileSystem rests on lock *)
(* numbers never being used twice.                                            *)

\* Numbers beyond locks are fresh.
FreshInv == /\ lock <= locks /\ \A k \in written : 1 <= k /\ k <= locks
            /\ \A p \in Procs : fd[p] <= locks

\* The kernel grants the flock of a file once.
FlockInv == \A p, q \in Procs : held[p] /\ held[q] /\ fd[p] = fd[q] => p = q

\* An owner holds the flock of the file at the lock path, and wrote it or
\* found it written.
OwnerInv == \A p \in Procs : pc[p] \in OwnerSites => held[p] /\ OwnsLockPath(p)

\* The lock path still names the file its creator has just made; nobody can
\* take it over before it is written, and then its creator holds the flock.
CreatorInv ==
  \A p \in Procs : pc[p] \in CreatorSites =>
    /\ fd[p] = lock /\ lock # 0
    /\ pc[p] \in {"flockNew", "writeLock"} => fd[p] \notin written
    /\ pc[p] = "flockNew" => ~held[p]
    /\ pc[p] = "writeLock" => held[p]
    /\ pc[p] = "abandonLock" => held[p] \/ fd[p] \notin written
OneCreatorInv ==
  \A p, q \in Procs : pc[p] \in CreatorSites /\ pc[q] \in CreatorSites => p = q

HandleInv == \A p \in Procs :
  /\ pc[p] \in {"idle", "create", "flock"} => ~held[p]
  /\ pc[p] = "bind" => held[p]

LockInv == /\ TypeInv /\ FreshInv /\ FlockInv /\ OwnerInv /\ CreatorInv
           /\ OneCreatorInv /\ HandleInv

LEMMA InitLock == Init => LockInv
<1> SUFFICES ASSUME Init PROVE LockInv
  OBVIOUS
<1>1. FreshInv
  BY DEF Init, FreshInv
<1>2. FlockInv /\ OwnerInv /\ CreatorInv /\ OneCreatorInv /\ HandleInv
  BY DEF Init, FlockInv, OwnerInv, CreatorInv, OneCreatorInv, HandleInv, OwnerSites,
         EnterSites, RestoreSites, CommandSites, CreatorSites
<1> QED
  BY <1>1, <1>2, InitType DEF LockInv

\* While one process owns the lock path, or unlinks a lock it failed to take,
\* no other one owns it or is creating it.
LEMMA Alone ==
  ASSUME LockInv, NEW p \in Procs, pc[p] \in OwnerSites \cup {"abandonLock"},
         NEW q \in Procs, q # p
  PROVE  pc[q] \notin OwnerSites \cup CreatorSites
<1> USE DEF LockInv, OwnsLockPath, CreatorSites
<1>1. CASE pc[p] \in OwnerSites
  <2>1. held[p] /\ fd[p] = lock /\ lock \in written
    BY <1>1 DEF OwnerInv
  <2>2. ~(held[q] /\ fd[q] = lock)
    BY <2>1 DEF FlockInv
  <2> QED
    BY <2>1, <2>2 DEF OwnerInv, CreatorInv
<1>2. CASE pc[p] = "abandonLock"
  <2>1. fd[p] = lock /\ (held[p] \/ lock \notin written)
    BY <1>2 DEF CreatorInv
  <2>2. pc[q] \notin OwnerSites
    BY <2>1 DEF FlockInv, OwnerInv
  <2> QED
    BY <1>2, <2>2 DEF OneCreatorInv
<1> QED
  BY <1>1, <1>2

\* A process that stays an owner disturbs nobody.
LEMMA OwnerStays ==
  ASSUME LockInv, TypeInv', NEW p \in Procs, pc[p] \in OwnerSites,
         NEW site \in OwnerSites, Goto(p, site),
         UNCHANGED <<lock, written, locks, fd, held>>
  PROVE  LockInv'
<1>1. pc \in [Procs -> Sites]
  BY DEF LockInv, TypeInv, TypeOK
<1>2. site \notin CreatorSites \cup {"idle", "create", "flock", "bind"}
  BY DEF OwnerSites, EnterSites, RestoreSites, CommandSites, CreatorSites
<1>3. \A q \in Procs : pc'[q] = IF q = p THEN site ELSE pc[q]
  BY <1>1 DEF Goto
<1>4. FreshInv' /\ FlockInv'
  BY DEF LockInv, FreshInv, FlockInv
<1>5. OwnerInv'
  BY <1>3 DEF LockInv, OwnerInv, OwnsLockPath
<1>6. CreatorInv' /\ OneCreatorInv' /\ HandleInv'
  BY <1>2, <1>3 DEF LockInv, CreatorInv, OneCreatorInv, HandleInv, CreatorSites
<1> QED
  BY <1>4, <1>5, <1>6 DEF LockInv

\* A process that lets go of its descriptor disturbs nobody, whether it dies,
\* returns or goes on to create a lock of its own.
LEMMA LeaveLock ==
  ASSUME LockInv, TypeInv', NEW p \in Procs, NEW site \in {"idle", "create"},
         Leave(p, site), UNCHANGED <<written, locks>>,
         UNCHANGED lock \/ (lock' = 0 /\ \A q \in Procs \ {p} :
                                            pc[q] \notin OwnerSites \cup CreatorSites)
  PROVE  LockInv'
<1>1. pc \in [Procs -> Sites] /\ fd \in [Procs -> Nat] /\ held \in [Procs -> BOOLEAN]
      /\ lock \in Nat /\ locks \in Nat
  BY DEF LockInv, TypeInv, TypeOK
<1>2. site \notin OwnerSites \cup CreatorSites
  BY DEF OwnerSites, EnterSites, RestoreSites, CommandSites, CreatorSites
<1>3. \A q \in Procs : /\ pc'[q] = IF q = p THEN site ELSE pc[q]
                       /\ fd'[q] = IF q = p THEN 0 ELSE fd[q]
                       /\ held'[q] = IF q = p THEN FALSE ELSE held[q]
  BY <1>1 DEF Leave, Goto
<1>4. FreshInv'
  <2>1. lock' <= locks /\ 0 <= locks /\ \A q \in Procs : fd[q] <= locks
    BY <1>1 DEF LockInv, FreshInv
  <2>2. \A k \in written : 1 <= k /\ k <= locks
    BY DEF LockInv, FreshInv
  <2>3. \A q \in Procs : fd'[q] <= locks
    BY <1>3, <2>1
  <2> QED
    BY <2>1, <2>2, <2>3 DEF FreshInv
<1>5. FlockInv'
  BY <1>3 DEF LockInv, FlockInv
<1>6. OwnerInv'
  BY <1>2, <1>3 DEF LockInv, OwnerInv, OwnsLockPath
<1>7. CreatorInv' /\ OneCreatorInv' /\ HandleInv'
  BY <1>2, <1>3 DEF LockInv, CreatorInv, OneCreatorInv, HandleInv
<1> QED
  BY <1>4, <1>5, <1>6, <1>7 DEF LockInv

\* The creator's write makes it an owner, or lets it abandon a written lock.
LEMMA WrittenLock ==
  ASSUME LockInv, TypeInv', NEW p \in Procs, pc[p] = "writeLock",
         NEW site \in OwnerSites \cup {"abandonLock"}, Goto(p, site),
         written' = written \cup {fd[p]}, UNCHANGED <<lock, locks, fd, held>>
  PROVE  LockInv'
<1>1. /\ pc \in [Procs -> Sites] /\ fd \in [Procs -> Nat]
      /\ lock \in Nat /\ locks \in Nat /\ written \subseteq Nat
  BY DEF LockInv, TypeInv, TypeOK
<1>2. \A q \in Procs : pc'[q] = IF q = p THEN site ELSE pc[q]
  BY <1>1 DEF Goto
<1>3. fd[p] = lock /\ lock # 0 /\ held[p]
  BY DEF LockInv, CreatorInv, CreatorSites
<1>4. \A q \in Procs : q # p => pc[q] \notin CreatorSites
  BY DEF LockInv, OneCreatorInv, CreatorSites
<1>5. site \notin {"flockNew", "writeLock", "idle", "create", "flock", "bind"}
  BY DEF OwnerSites, EnterSites, RestoreSites, CommandSites
<1>6. FreshInv'
  <2>1. 1 <= lock /\ lock <= locks
    BY <1>1, <1>3 DEF LockInv, FreshInv
  <2> QED
    BY <1>3, <2>1 DEF LockInv, FreshInv
<1>7. OwnerInv'
  BY <1>2, <1>3 DEF LockInv, OwnerInv, OwnsLockPath
<1>8. CreatorInv'
  BY <1>2, <1>3, <1>4, <1>5 DEF CreatorInv
<1>9. FlockInv' /\ OneCreatorInv' /\ HandleInv'
  BY <1>2, <1>4, <1>5 DEF LockInv, FlockInv, OneCreatorInv, HandleInv
<1> QED
  BY <1>6, <1>7, <1>8, <1>9 DEF LockInv

LEMMA AbandoningLock ==
  ASSUME LockInv, TypeInv', NEW p \in Procs, pc[p] \in {"flockNew", "writeLock"},
         Goto(p, "abandonLock"), UNCHANGED <<lock, written, locks, fd, held>>
  PROVE  LockInv'
<1>1. pc \in [Procs -> Sites]
  BY DEF LockInv, TypeInv, TypeOK
<1>2. \A q \in Procs : pc'[q] = IF q = p THEN "abandonLock" ELSE pc[q]
  BY <1>1 DEF Goto
<1>3. "abandonLock" \notin OwnerSites
  BY DEF OwnerSites, EnterSites, RestoreSites, CommandSites
<1>4. FreshInv' /\ FlockInv'
  BY DEF LockInv, FreshInv, FlockInv
<1>5. OwnerInv'
  BY <1>2, <1>3 DEF LockInv, OwnerInv, OwnsLockPath
<1>6. CreatorInv' /\ OneCreatorInv' /\ HandleInv'
  BY <1>2 DEF LockInv, CreatorInv, OneCreatorInv, HandleInv, CreatorSites
<1> QED
  BY <1>4, <1>5, <1>6 DEF LockInv

\* Unlinking the lock with nobody else about.
LEMMA ClosingLock ==
  ASSUME LockInv, TypeInv', NEW p \in Procs, Goto(p, "close"), lock' = 0,
         UNCHANGED <<written, locks, fd, held>>,
         \A q \in Procs \ {p} : pc[q] \notin OwnerSites \cup CreatorSites
  PROVE  LockInv'
<1>1. pc \in [Procs -> Sites] /\ lock \in Nat /\ locks \in Nat
  BY DEF LockInv, TypeInv, TypeOK
<1>2. \A q \in Procs : pc'[q] = IF q = p THEN "close" ELSE pc[q]
  BY <1>1 DEF Goto
<1>3. "close" \notin OwnerSites \cup CreatorSites
  BY DEF OwnerSites, EnterSites, RestoreSites, CommandSites, CreatorSites
<1>4. FreshInv' /\ FlockInv'
  BY <1>1 DEF LockInv, FreshInv, FlockInv
<1>5. OwnerInv' /\ CreatorInv' /\ OneCreatorInv'
  BY <1>2, <1>3 DEF OwnerInv, CreatorInv, OneCreatorInv
<1>6. HandleInv'
  BY <1>2 DEF LockInv, HandleInv
<1> QED
  BY <1>4, <1>5, <1>6 DEF LockInv

LEMMA AcquireLock ==
  ASSUME LockInv, TypeInv', NEW p \in Procs, Start(p) \/ Acquire(p)
  PROVE  LockInv'
<1> DEFINE Shared == UNCHANGED <<lock, written, locks>>
<1>0. /\ pc \in [Procs -> Sites] /\ fd \in [Procs -> Nat] /\ held \in [Procs -> BOOLEAN]
      /\ lock \in Nat /\ locks \in Nat /\ written \subseteq Nat
  BY DEF LockInv, TypeInv, TypeOK
<1>1. CASE Start(p)
  <2>1. /\ pc[p] = "idle" /\ Shared /\ UNCHANGED held
        /\ \/ lock # 0 /\ fd' = [fd EXCEPT ![p] = lock] /\ Goto(p, "flock")
           \/ UNCHANGED fd /\ Goto(p, "create")
    BY <1>1 DEF Start, NoWrite, locking
  <2>2. ~held[p]
    BY <2>1 DEF LockInv, HandleInv
  <2>3. PICK site \in {"flock", "create"} : Goto(p, site)
    BY <2>1
  <2>4. /\ \A q \in Procs : pc'[q] = IF q = p THEN site ELSE pc[q]
        /\ \A q \in Procs : q # p => fd'[q] = fd[q]
        /\ fd'[p] \in {lock, fd[p]}
    BY <1>0, <2>1, <2>3 DEF Goto
  <2>5. site \notin OwnerSites \cup CreatorSites
    BY DEF OwnerSites, EnterSites, RestoreSites, CommandSites, CreatorSites
  <2>6. FreshInv'
    BY <2>1, <2>4 DEF LockInv, FreshInv
  <2>7. FlockInv' /\ OwnerInv' /\ CreatorInv' /\ OneCreatorInv' /\ HandleInv'
    BY <2>1, <2>2, <2>4, <2>5
       DEF LockInv, FlockInv, OwnerInv, OwnsLockPath, CreatorInv, OneCreatorInv, HandleInv
  <2> QED
    BY <2>6, <2>7 DEF LockInv
<1>2. CASE FlockStale(p)
  <2>1. Shared /\ pc[p] = "flock"
    BY <1>2 DEF FlockStale, NoWrite, locking
  <2>2. CASE Exit(p)
    BY <2>1, <2>2, LeaveLock DEF Exit
  <2>3. CASE ~Exit(p)
    <3>1. /\ ~HeldByOther(p) /\ held' = [held EXCEPT ![p] = TRUE]
          /\ Goto(p, "bind") /\ UNCHANGED fd
      BY <1>2, <2>3 DEF FlockStale
    <3>2. \A q \in Procs : /\ pc'[q] = IF q = p THEN "bind" ELSE pc[q]
                           /\ held'[q] = IF q = p THEN TRUE ELSE held[q]
      BY <1>0, <3>1 DEF Goto
    <3>3. FlockInv'
      BY <3>1, <3>2 DEF LockInv, FlockInv, HeldByOther
    <3>4. "bind" \notin OwnerSites \cup CreatorSites
      BY DEF OwnerSites, EnterSites, RestoreSites, CommandSites, CreatorSites
    <3>5. FreshInv'
      BY <2>1, <3>1 DEF LockInv, FreshInv
    <3>6. OwnerInv' /\ CreatorInv' /\ OneCreatorInv' /\ HandleInv'
      BY ZenonT(60), <2>1, <3>1, <3>2, <3>4
         DEF LockInv, OwnerInv, OwnsLockPath, CreatorInv, OneCreatorInv, HandleInv
    <3> QED
      BY <3>3, <3>5, <3>6 DEF LockInv
  <2> QED
    BY <2>2, <2>3
<1>3. CASE Bind(p)
  <2>1. Shared /\ pc[p] = "bind"
    BY <1>3 DEF Bind, NoWrite, locking
  <2>2. CASE Exit(p)
    BY <2>1, <2>2, LeaveLock DEF Exit
  <2>3. CASE ~Exit(p)
    <3>1. RecoveryAccepts(fd[p]) /\ Goto(p, "dropPending") /\ UNCHANGED <<fd, held>>
      BY <1>3, <2>3 DEF Bind
    <3>2. OwnsLockPath(p) /\ held[p]
      BY <2>1, <3>1 DEF RecoveryAccepts, OwnsLockPath, LockInv, HandleInv
    <3>3. \A q \in Procs : pc'[q] = IF q = p THEN "dropPending" ELSE pc[q]
      BY <1>0, <3>1 DEF Goto
    <3>4. "dropPending" \notin CreatorSites
      BY DEF CreatorSites
    <3>5. FreshInv' /\ FlockInv'
      BY <2>1, <3>1 DEF LockInv, FreshInv, FlockInv
    <3>6. OwnerInv' /\ CreatorInv' /\ OneCreatorInv' /\ HandleInv'
      BY <2>1, <3>1, <3>2, <3>3, <3>4
         DEF LockInv, OwnerInv, OwnsLockPath, CreatorInv, OneCreatorInv, HandleInv
    <3> QED
      BY <3>5, <3>6 DEF LockInv
  <2> QED
    BY <2>2, <2>3
<1>4. CASE DropPending(p)
  <2>1. /\ pc[p] = "dropPending" /\ Shared /\ UNCHANGED <<fd, held>>
        /\ \E site \in {"unlock", "restore"} : Goto(p, site)
    BY <1>4 DEF DropPending, MetaWrite, locking, KeepHandle, StartCleanup, GotoAt
  <2> QED
    BY <2>1, OwnerStays DEF OwnerSites, RestoreSites
<1>5. CASE Create(p)
  <2>1. CASE Exit(p) /\ NoWrite
    BY <2>1, LeaveLock DEF Exit, NoWrite, locking
  <2>2. CASE ~(Exit(p) /\ NoWrite)
    <3>1. /\ lock = 0 /\ locks' = locks + 1 /\ lock' = locks + 1
          /\ fd' = [fd EXCEPT ![p] = locks + 1]
          /\ Goto(p, "flockNew") /\ UNCHANGED <<written, held>> /\ pc[p] = "create"
      BY <1>5, <2>2 DEF Create
    <3>2. /\ \A q \in Procs : /\ pc'[q] = IF q = p THEN "flockNew" ELSE pc[q]
                              /\ fd'[q] = IF q = p THEN locks + 1 ELSE fd[q]
          /\ ~held[p]
      BY <1>0, <3>1 DEF Goto, LockInv, HandleInv
    <3>3. 0 \notin written /\ locks + 1 \notin written
      BY <1>0 DEF LockInv, FreshInv
    <3>4. \A q \in Procs : pc[q] \notin OwnerSites \cup CreatorSites
      BY <3>1, <3>3 DEF LockInv, OwnerInv, OwnsLockPath, CreatorInv
    <3>5. FreshInv'
      <4>1. \A q \in Procs : fd[q] \in Nat /\ fd[q] <= locks
        BY <1>0 DEF LockInv, FreshInv
      <4>2. \A q \in Procs : fd'[q] <= locks + 1
        BY <1>0, <3>2, <4>1
      <4>3. \A k \in written : 1 <= k /\ k <= locks + 1
        BY <1>0 DEF LockInv, FreshInv
      <4>4. lock' <= locks'
        BY <1>0, <3>1
      <4> QED
        BY <3>1, <4>2, <4>3, <4>4 DEF FreshInv
    <3>6. "flockNew" \notin OwnerSites /\ locks + 1 # 0
      BY <1>0 DEF OwnerSites, EnterSites, RestoreSites, CommandSites
    <3>7. FlockInv' /\ OwnerInv' /\ OneCreatorInv' /\ HandleInv'
      BY <3>1, <3>2, <3>4, <3>6
         DEF LockInv, FlockInv, OwnerInv, OneCreatorInv, HandleInv
    <3>8. CreatorInv'
      BY <3>1, <3>2, <3>3, <3>4, <3>6 DEF CreatorInv
    <3> QED
      BY <3>5, <3>7, <3>8 DEF LockInv
  <2> QED
    BY <2>1, <2>2
<1>6. CASE FlockNew(p)
  <2>1. /\ pc[p] = "flockNew" /\ Shared /\ UNCHANGED fd
        /\ held' = [held EXCEPT ![p] = ~HeldByOther(p)]
        /\ Goto(p, IF HeldByOther(p) THEN "abandonLock" ELSE "writeLock")
    BY <1>6 DEF FlockNew, NoWrite, locking
  <2> DEFINE site == IF HeldByOther(p) THEN "abandonLock" ELSE "writeLock"
  <2>2. \A q \in Procs : /\ pc'[q] = IF q = p THEN site ELSE pc[q]
                         /\ held'[q] = IF q = p THEN ~HeldByOther(p) ELSE held[q]
    BY <1>0, <2>1 DEF Goto
  <2>3. site \notin OwnerSites
    BY DEF OwnerSites, EnterSites, RestoreSites, CommandSites
  <2>4. FreshInv'
    BY <2>1 DEF LockInv, FreshInv
  <2>5. FlockInv'
    BY <2>1, <2>2 DEF LockInv, FlockInv, HeldByOther
  <2>6. OwnerInv'
    BY <2>1, <2>2, <2>3 DEF LockInv, OwnerInv, OwnsLockPath
  <2>7. fd[p] = lock /\ lock # 0 /\ fd[p] \notin written
    BY <2>1 DEF LockInv, CreatorInv, CreatorSites
  <2>8. CreatorInv'
    <3> SUFFICES ASSUME NEW q \in Procs, pc'[q] \in CreatorSites
                 PROVE  /\ fd[q] = lock /\ lock # 0
                        /\ pc'[q] \in {"flockNew", "writeLock"} => fd[q] \notin written
                        /\ pc'[q] = "flockNew" => ~held'[q]
                        /\ pc'[q] = "writeLock" => held'[q]
                        /\ pc'[q] = "abandonLock" => held'[q] \/ fd[q] \notin written
      BY <2>1 DEF CreatorInv
    <3>1. CASE q = p
      BY <2>2, <2>7, <3>1
    <3>2. CASE q # p
      BY <2>2, <3>2 DEF LockInv, CreatorInv
    <3> QED
      BY <3>1, <3>2
  <2>9. OneCreatorInv' /\ HandleInv'
    BY <2>1, <2>2 DEF LockInv, OneCreatorInv, HandleInv, CreatorSites
  <2> QED
    BY <2>4, <2>5, <2>6, <2>8, <2>9 DEF LockInv
<1>7. CASE WriteLock(p)
  <2>1. /\ pc[p] = "writeLock" /\ written' = written \cup {fd[p]}
        /\ Goto(p, "journalInit") /\ UNCHANGED <<lock, locks, fd, held>>
    BY <1>7 DEF WriteLock, LockWrite, WriteOwner, UnlinkLock, KeepHandle
  <2> QED
    BY <2>1, WrittenLock DEF OwnerSites, EnterSites
<1>8. CASE AbandonLock(p)
  <2>1. pc[p] = "abandonLock" /\ lock' = 0 /\ UNCHANGED <<written, locks>> /\ Leave(p, "idle")
    BY <1>8 DEF AbandonLock, LockWrite, WriteOwner, UnlinkLock, Exit
  <2>2. \A q \in Procs \ {p} : pc[q] \notin OwnerSites \cup CreatorSites
    BY <2>1, Alone
  <2> QED
    BY <2>1, <2>2, LeaveLock
<1> QED
  BY <1>1, <1>2, <1>3, <1>4, <1>5, <1>6, <1>7, <1>8 DEF Acquire

LEMMA StepLock ==
  ASSUME LockInv, [Next]_vars
  PROVE  LockInv'
<1> DEFINE Shared == UNCHANGED <<lock, written, locks>>
<1>0. TypeInv'
  BY StepType DEF LockInv
<1>1. CASE UNCHANGED vars \/ CommandWrites \/ OrphanEnds
  <2>1. UNCHANGED <<lock, written, locks, pc, fd, held>>
    BY <1>1 DEF vars, locking, CommandWrites, OrphanEnds, KeepHandle
  <2> QED
    BY <1>0, <2>1 DEF LockInv, FreshInv, FlockInv, OwnerInv, OwnsLockPath, CreatorInv,
                      OneCreatorInv, HandleInv
<1>2. ASSUME NEW p \in Procs, Start(p) \/ Acquire(p) PROVE LockInv'
  BY <1>0, <1>2, AcquireLock
<1>3. ASSUME NEW p \in Procs, Prepare(p) PROVE LockInv'
  <2>1. UNCHANGED <<lock, written, locks, pc, fd, held>>
    BY <1>3 DEF Prepare, locking, KeepHandle
  <2> QED
    BY <1>0, <2>1 DEF LockInv, FreshInv, FlockInv, OwnerInv, OwnsLockPath, CreatorInv,
                      OneCreatorInv, HandleInv
<1>4. ASSUME NEW p \in Procs,
             Commit(p) \/ Enter(p) \/ CommandDone(p) \/ Raise(p)
      PROVE  LockInv'
  <2>1. pc[p] \in OwnerSites
    BY <1>4 DEF Commit, Enter, CommandDone, Raise, FaultSites, CaptureManaged, Displace,
       Populate, CaptureServices, Block, MakeStub, PersistSites, OwnerSites, EnterSites,
       RestoreSites, CommandSites
  <2>2. Shared /\ UNCHANGED <<fd, held>>
    <3>1. \/ NoWrite \/ MetaWrite(p) \/ NodeWrite(p) \/ RaiseBefore(p)
      BY <1>4 DEF Commit, Enter, CommandDone, Raise, RaiseAfter, CaptureManaged, Displace,
         Populate, CaptureServices, Block, MakeStub, Capture
    <3>2. UNCHANGED <<fd, held>>
      BY <1>4 DEF Commit, Enter, CommandDone, Raise, CaptureManaged, Displace,
         Populate, CaptureServices, Block, MakeStub, Capture, KeepHandle
    <3> QED
      BY <3>1, <3>2 DEF NoWrite, MetaWrite, NodeWrite, RaiseBefore, locking
  <2>3. \E site \in OwnerSites : Goto(p, site)
    <3> USE DEF OwnerSites, EnterSites, RestoreSites, CommandSites
    <3>1. CASE Commit(p)
      BY <3>1 DEF Commit, AfterPersist, Advance, GotoAt
    <3>2. CASE Enter(p)
      BY <3>2 DEF Enter, CaptureManaged, Displace, Populate, CaptureServices, Block,
         MakeStub, Capture, NextManaged, StartCleanup, GotoAt
    <3>3. CASE CommandDone(p)
      BY <3>3 DEF CommandDone, StartCleanup, GotoAt
    <3>4. CASE Raise(p)
      BY <3>4 DEF Raise, StartCleanup, Advance, GotoAt
    <3> QED
      BY <1>4, <3>1, <3>2, <3>3, <3>4
  <2> QED
    BY <1>0, <2>1, <2>2, <2>3, OwnerStays
<1>5. ASSUME NEW p \in Procs, Cleanup(p) PROVE LockInv'
  <2>1. CASE Decide(p) \/ Remove(p) \/ PutBackOrDrop(p)
    <3>1. /\ pc[p] \in OwnerSites /\ Shared /\ UNCHANGED <<fd, held>>
      BY <2>1 DEF Decide, Remove, PutBackOrDrop, OwnerSites, RestoreSites, NoWrite,
         NodeWrite, locking, KeepHandle
    <3>2. \E site \in OwnerSites : Goto(p, site)
      BY <2>1 DEF Decide, Remove, PutBackOrDrop, OwnerSites, RestoreSites, CommandSites,
         Advance, GotoAt
    <3> QED
      BY <1>0, <3>1, <3>2, OwnerStays
  <2>2. CASE Finish(p) \/ RemoveJournal(p)
    <3>1. pc[p] \in OwnerSites /\ Shared
      BY <2>2 DEF Finish, RemoveJournal, OwnerSites, RestoreSites, NoWrite, MetaWrite, locking
    <3>2. \/ Leave(p, "idle")
          \/ UNCHANGED <<fd, held>> /\ \E site \in OwnerSites : Goto(p, site)
      BY <2>2 DEF Finish, RemoveJournal, OwnerSites, Exit, KeepHandle, GotoAt
    <3> QED
      BY <1>0, <3>1, <3>2, OwnerStays, LeaveLock
  <2>3. CASE Unlock(p)
    <3>1. pc[p] = "unlock" /\ pc[p] \in OwnerSites
      BY <2>3 DEF Unlock, OwnerSites
    <3>2. CASE Exit(p) /\ NoWrite
      BY <1>0, <3>2, LeaveLock DEF Exit, NoWrite, locking
    <3>3. CASE ~(Exit(p) /\ NoWrite)
      <4>1. /\ lock' = 0 /\ UNCHANGED <<written, locks, fd, held>> /\ Goto(p, "close")
        BY <2>3, <3>1, <3>3 DEF Unlock, LockWrite, WriteOwner, UnlinkLock, KeepHandle, GotoAt
      <4>2. \A q \in Procs \ {p} : pc[q] \notin OwnerSites \cup CreatorSites
        BY <3>1, Alone
      <4> QED
        BY <1>0, <4>1, <4>2, ClosingLock
    <3> QED
      BY <3>2, <3>3
  <2>4. CASE Close(p)
    BY <1>0, <2>4, LeaveLock DEF Close, Exit, NoWrite, locking
  <2> QED
    BY <1>5, <2>1, <2>2, <2>3, <2>4 DEF Cleanup
<1>6. ASSUME NEW p \in Procs, RaiseOut(p) PROVE LockInv'
  <2>1. CASE pc[p] \in {"flockNew", "writeLock"}
    <3>1. /\ Goto(p, "abandonLock") /\ UNCHANGED <<lock, locks, fd, held>>
          /\ \/ UNCHANGED written
             \/ pc[p] = "writeLock" /\ written' = written \cup {fd[p]}
      BY <1>6, <2>1 DEF RaiseOut, NoWrite, LockWrite, WriteOwner, UnlinkLock, locking, KeepHandle
    <3> QED
      BY <1>0, <2>1, <3>1, WrittenLock, AbandoningLock
  <2>2. CASE pc[p] \notin {"flockNew", "writeLock"}
    <3>1. /\ pc[p] \in {"dropPending", "finish", "unlock", "abandonLock"}
          /\ Leave(p, "idle") /\ UNCHANGED <<written, locks>> /\ (UNCHANGED lock \/ lock' = 0)
      BY <1>6, <2>2 DEF RaiseOut, NoWrite, MetaWrite, LockWrite, WriteOwner, UnlinkLock,
                        locking, Exit
    <3>2. pc[p] \in OwnerSites \cup {"abandonLock"}
      BY <3>1 DEF OwnerSites
    <3>3. \A q \in Procs \ {p} : pc[q] \notin OwnerSites \cup CreatorSites
      BY <3>2, Alone
    <3> QED
      BY <1>0, <3>1, <3>3, LeaveLock
  <2> QED
    BY <2>1, <2>2
<1>7. ASSUME NEW p \in Procs, Crash(p) PROVE LockInv'
  BY <1>0, <1>7, LeaveLock DEF Crash, Exit, locking
<1> QED
  BY <1>1, <1>2, <1>3, <1>4, <1>5, <1>6, <1>7 DEF Next, Step

\* Two processes never substitute, run commands or restore at the same time,
\* whatever the interleaving of creating, taking over, abandoning and unlinking
\* lock files, for any number of processes.
THEOREM MutualExclusionHolds == Spec => []MutualExclusion
<1>1. Spec => []LockInv
  BY InitLock, StepLock, PTL DEF Spec
<1>2. LockInv => MutualExclusion
  BY Alone DEF MutualExclusion
<1> QED
  BY <1>1, <1>2, PTL

\* Whoever works on the FileSystem has open, and has locked, the very file the
\* lock path names, so releasing the lock removes its own and no other.
THEOREM OwnersHoldTheLockPath == Spec => [](OwnerInv)
<1>1. Spec => []LockInv
  BY InitLock, StepLock, PTL DEF Spec
<1>2. LockInv => OwnerInv
  BY DEF LockInv
<1> QED
  BY <1>1, <1>2, PTL

-----------------------------------------------------------------------------
(***************************************************************************)
(* What ChrootTransaction leaves on the disk: the journal, the backups and *)
(* the substitutes.                                                        *)
(***************************************************************************)

\* A substitute, or a file moved aside: what a transaction adds to a node.
Residue    == {Injected, Stub}
Touched(n) == Blocked(n) \/ node[n] \in Residue
Untouched  == \A n \in Nodes : ~Touched(n)
Recorded(recs, n) == recs[n].stage # "none"
Clean == journal = NoJournal /\ pending = NoJournal /\ ~torn /\ Untouched

Working == OwnerSites \ {"dropPending"}

\* A journal was written under a lock file; the one there, and the pending one,
\* are of the lock file that is there.
JournalInv ==
  /\ \A j \in {journal, pending} : j = NoJournal \/ (j.tok # 0 /\ j.seq # 0)
  /\ lock \in written => {journal.tok, pending.tok} \subseteq {0, lock} /\ PendingFits

\* What a transaction did to a node is recorded first.
NamedInv == \A n \in Nodes : /\ backup[n] \notin Residue
                             /\ Touched(n) => Recorded(journal.recs, n)

\* Until a lock file is complete, and when it is given up, there is nothing.
CleanInv == lock = 0 \/ lock \notin written \/ (\E p \in Procs : pc[p] \in CreatorSites) => Clean

IdleInv == \A p \in Procs : pc[p] \notin OwnerSites \cup {"close"} => seq[p] = 0 /\ mem[p] = NoRecords

\* The files of metadata as their owner knows them.
MetaOK(p) ==
  /\ ~torn
  /\ IF seq[p] = 0 THEN journal = NoJournal ELSE journal.tok = fd[p] /\ journal.seq = seq[p]
  /\ pending = NoJournal \/ (pc[p] \in PersistSites /\ pending = JournalData(p))
  /\ seq[p] = 0 => NoActiveRecord(mem[p]) /\ pc[p] \notin EnterSites \ {"journalInit"}
TakenOver(p) ==
  ~torn /\ mem[p] = journal.recs /\ seq[p] = journal.seq /\ journal.tok \in {0, fd[p]}

\* The nodes and the records, step by step, as the transaction is entered ...
EnterOK(p) ==
  /\ pc[p] \in {"journalInit", "captureManaged", "planManaged"} => Untouched
  /\ pc[p] \in {"journalInit", "captureManaged", "planManaged", "displace", "populate", "locale",
                "captureServices"} =>
       \A n \in Services : mem[p][n].stage = "none"
  /\ pc[p] \in {"planManaged", "displace", "populate", "locale", "captureServices", "planServices"} =>
       \A n \in Managed : Recorded(mem[p], n)
  /\ pc[p] \in {"displace", "populate", "locale", "captureServices"} => journal.recs = mem[p]
  /\ pc[p] = "displace" => \A n \in Nodes : node[n] \notin Residue
  /\ pc[p] = "planServices" => \A n \in Services : ~Touched(n)
BlockOK(p) ==
  pc[p] \in {"block", "markRenamed", "stub", "markStubbed"} =>
    /\ cur[p] \in Services /\ Recorded(mem[p], cur[p])
    /\ \A n \in Nodes : Recorded(mem[p], n) <=> Recorded(journal.recs, n)
    /\ \A n \in Services : mem[p][n].stage = "planned" => ~Touched(n)
    /\ pc[p] = "block" => mem[p][cur[p]].stage = "planned"
\* ... and as it is undone.
RestoreOK(p) ==
  /\ pc[p] = "remove" => (mem[p][cur[p]].orig = Absent <=> ~Blocked(cur[p]))
  /\ pc[p] \in {"keep", "drop"} => node[cur[p]] \notin Residue
  /\ pc[p] = "retire" => ~Touched(cur[p])
  /\ pc[p] = "keep" => seq[p] # 0
  /\ pc[p] \in {"finish", "unlock"} => NoActiveRecord(mem[p])
  /\ pc[p] = "unlock" => seq[p] = 0
WorkOK(p) == /\ MetaOK(p) /\ EnterOK(p) /\ BlockOK(p) /\ RestoreOK(p)
             /\ \A n \in Nodes : Touched(n) => Recorded(mem[p], n)

OwnerOK(p) == /\ pc[p] \in Working => WorkOK(p)
              /\ pc[p] = "dropPending" => TakenOver(p)

\* What is recorded is what was there before.
OrigInv == \A n \in Nodes : /\ journal.recs[n].orig \notin Residue
                             /\ \A p \in Procs : mem[p][n].orig \notin Residue

RecordsInv == /\ LockInv /\ JournalInv /\ NamedInv /\ CleanInv /\ IdleInv
              /\ \A p \in Procs : OwnerOK(p)
--------------------------------------------------------------------------------
(* What each step of an owner does, in terms of its own variables *)

To(p, site) == pc'[p] = site /\ \A q \in Procs \ {p} : pc'[q] = pc[q]
OthersKeep(p) == \A q \in Procs \ {p} : /\ mem'[q] = mem[q] /\ seq'[q] = seq[q] /\ mode'[q] = mode[q]
                                       /\ fd'[q] = fd[q]

LEMMA TypedProc ==
  ASSUME TypeInv, NEW p \in Procs
  PROVE  /\ pc \in [Procs -> Sites] /\ fd \in [Procs -> Nat] /\ seq \in [Procs -> Nat]
         /\ mem \in [Procs -> [Nodes -> Records]] /\ mode \in [Procs -> {"enter", "recover", "commands"}]
         /\ cur \in [Procs -> 0..(NumManaged + NumServices)] /\ fd[p] \in Nat /\ seq[p] \in Nat
         /\ mem[p] \in [Nodes -> Records] /\ cur[p] \in 0..(NumManaged + NumServices)
         /\ node \in [Nodes -> Values] /\ backup \in [Nodes -> Values]
         /\ journal \in Journals /\ pending \in Journals /\ torn \in BOOLEAN
BY DEF TypeInv, TypeOK

\* The owner has a written lock file open, and is alone.
LEMMA OwnerFacts ==
  ASSUME RecordsInv, NEW p \in Procs, pc[p] \in OwnerSites
  PROVE  /\ TypeInv /\ LockInv /\ fd[p] = lock /\ lock \in written /\ lock # 0
         /\ \A q \in Procs \ {p} : pc[q] \notin OwnerSites \cup CreatorSites
<1>1. LockInv /\ TypeInv
  BY DEF RecordsInv, LockInv
<1>2. fd[p] = lock /\ lock \in written
  BY <1>1 DEF LockInv, OwnerInv, OwnsLockPath
<1>3. lock # 0
  BY <1>1, <1>2 DEF LockInv, FreshInv
<1> QED
  BY <1>1, <1>2, <1>3, Alone

LEMMA GoesTo ==
  ASSUME TypeInv, NEW p \in Procs, NEW site, Goto(p, site)
  PROVE  To(p, site)
BY TypedProc DEF Goto, To

LEMMA GoesAt ==
  ASSUME TypeInv, NEW p \in Procs, NEW site, NEW n, GotoAt(p, site, n)
  PROVE  To(p, site) /\ cur'[p] = n
BY TypedProc, GoesTo DEF GotoAt

LEMMA CleansUp ==
  ASSUME TypeInv, NEW p \in Procs, StartCleanup(p)
  PROVE  To(p, "restore") /\ cur'[p] = FirstToRestore
BY GoesAt DEF StartCleanup

LEMMA Advances ==
  ASSUME TypeInv, NEW p \in Procs, Advance(p)
  PROVE  /\ \E site \in {"restore", "autoremove"} : To(p, site)
         /\ pc'[p] = "autoremove" <=> IsLastService(cur[p]) /\ mode[p] = "commands"
         /\ cur'[p] = NextToRestore(cur[p])
<1> DEFINE site == IF IsLastService(cur[p]) /\ mode[p] = "commands" THEN "autoremove" ELSE "restore"
<1>1. To(p, site) /\ cur'[p] = NextToRestore(cur[p])
  BY GoesAt DEF Advance
<1> QED
  BY <1>1 DEF To

LEMMA Keeps ==
  ASSUME TypeInv, NEW p \in Procs, KeepHandle
  PROVE  /\ fd' = fd /\ mode' = mode
         /\ UNCHANGED <<mem, seq>> => OthersKeep(p)
BY DEF KeepHandle, OthersKeep
--------------------------------------------------------------------------------
(* RecordsInv after a step of p, from what holds of p *)

LEMMA WorkingIs ==
  /\ Working \subseteq OwnerSites /\ Working \cap CreatorSites = {} /\ Working \subseteq Sites
  /\ OwnerSites \cap CreatorSites = {} /\ PersistSites \subseteq Working
  /\ "idle" \notin OwnerSites \cup CreatorSites /\ "close" \notin OwnerSites \cup CreatorSites
  /\ "dropPending" \in OwnerSites /\ "dropPending" \notin PersistSites
BY DEF Working, OwnerSites, EnterSites, RestoreSites, CommandSites, CreatorSites, PersistSites, Sites

\* The files of an owner are of its lock file.
LEMMA OwnersJournal ==
  ASSUME LockInv', NEW p \in Procs, pc'[p] \in Working, MetaOK(p)'
  PROVE  JournalInv'
<1>1. fd'[p] = lock' /\ lock' \in written' /\ lock' # 0
  BY WorkingIs DEF LockInv, OwnerInv, OwnsLockPath, FreshInv
<1>2. /\ journal' \in Journals /\ pending' \in Journals /\ seq'[p] \in Nat
      /\ mem'[p] \in [Nodes -> Records]
  BY DEF LockInv, TypeInv, TypeOK
<1>3. NoJournal.tok = 0 /\ NoJournal.seq = 0
  BY DEF NoJournal
<1>4. /\ JournalData(p)'.tok = fd'[p] /\ JournalData(p)'.seq = seq'[p] + 1
      /\ JournalData(p)'.recs = RecordsLeft(p)'
  BY DEF JournalData
<1>5. journal' = NoJournal \/ (journal'.tok = lock' /\ journal'.seq # 0 /\ journal'.seq = seq'[p])
  BY <1>1 DEF MetaOK
<1>6. pending' = NoJournal \/ (pending'.tok = lock' /\ pending'.seq = seq'[p] + 1 /\ pending'.seq # 0)
  BY <1>1, <1>2, <1>4 DEF MetaOK
<1>7. seq'[p] = 0 => NoActiveRecord(RecordsLeft(p)')
  BY <1>2 DEF MetaOK, NoActiveRecord, RecordsLeft, NoRecord
<1>8. PendingFits'
  BY <1>1, <1>2, <1>3, <1>4, <1>5, <1>7 DEF MetaOK, PendingFits
<1> QED
  BY <1>1, <1>3, <1>5, <1>6, <1>8 DEF JournalInv

LEMMA OwnerStep ==
  ASSUME RecordsInv, LockInv', NEW p \in Procs, pc'[p] \in Working, OthersKeep(p),
         \A q \in Procs \ {p} : pc'[q] = pc[q] /\ pc[q] \notin OwnerSites \cup CreatorSites,
         NamedInv', WorkOK(p)'
  PROVE  RecordsInv'
<1>1. JournalInv'
  BY OwnersJournal DEF WorkOK
<1>2. lock' # 0 /\ lock' \in written' /\ pc'[p] \in OwnerSites /\ pc'[p] \notin CreatorSites
  BY WorkingIs DEF LockInv, OwnerInv, OwnsLockPath, FreshInv
<1>3. CleanInv'
  BY <1>2 DEF CleanInv
<1>4. IdleInv'
  BY <1>2 DEF RecordsInv, IdleInv, OthersKeep
<1>5. \A q \in Procs : OwnerOK(q)'
  <2> SUFFICES ASSUME NEW q \in Procs PROVE OwnerOK(q)'
    OBVIOUS
  <2>1. CASE q = p
    BY <2>1 DEF OwnerOK, Working
  <2>2. CASE q # p
    BY <2>2 DEF OwnerOK, Working, OwnerSites
  <2> QED
    BY <2>1, <2>2
<1> QED
  BY <1>1, <1>3, <1>4, <1>5 DEF RecordsInv

\* The owner leaves, or dies.
LEMMA OwnerLeaves ==
  ASSUME RecordsInv, LockInv', NEW p \in Procs, pc[p] \in OwnerSites, Leave(p, "idle"),
         UNCHANGED <<lock, written>>, NamedInv',
         UNCHANGED <<journal, pending>> \/ (pending' = NoJournal /\ journal' \in {journal, NoJournal})
  PROVE  RecordsInv'
<1>1. /\ lock # 0 /\ lock \in written /\ TypeInv
      /\ \A q \in Procs \ {p} : pc[q] \notin OwnerSites \cup CreatorSites
  BY OwnerFacts
<1>2. To(p, "idle") /\ mem'[p] = NoRecords /\ seq'[p] = 0 /\ OthersKeep(p)
  BY <1>1, GoesTo, TypedProc DEF Leave, OthersKeep
<1>3. JournalInv'
  BY <1>1 DEF RecordsInv, JournalInv, PendingFits, NoJournal
<1>4. CleanInv'
  BY <1>1, <1>2, WorkingIs DEF CleanInv, To
<1>5. IdleInv'
  BY <1>2 DEF RecordsInv, IdleInv, OthersKeep, To
<1>6. \A q \in Procs : OwnerOK(q)'
  BY <1>1, <1>2, WorkingIs DEF OwnerOK, To
<1> QED
  BY <1>3, <1>4, <1>5, <1>6 DEF RecordsInv

\* One who owns nothing does something that concerns nobody.
LEMMA QuietStep ==
  ASSUME RecordsInv, LockInv', NEW p \in Procs, pc[p] \notin OwnerSites, NEW site, To(p, site),
         site \notin OwnerSites, site \in CreatorSites => pc[p] \in CreatorSites, OthersKeep(p),
         site # "close" => seq'[p] = 0 /\ mem'[p] = NoRecords, \A q \in Procs \ {p} : cur'[q] = cur[q],
         UNCHANGED <<node, backup, journal, pending, torn, lock, written>>
  PROVE  RecordsInv'
<1>1. JournalInv' /\ NamedInv'
  BY DEF RecordsInv, JournalInv, PendingFits, NamedInv, Touched, Blocked
<1>2. CleanInv'
  BY DEF RecordsInv, CleanInv, Clean, Untouched, Touched, Blocked, To
<1>3. IdleInv'
  BY DEF RecordsInv, IdleInv, OthersKeep, To
<1>4. ASSUME NEW q \in Procs, q # p PROVE OwnerOK(q)'
  <2>1. /\ pc'[q] = pc[q] /\ mem'[q] = mem[q] /\ seq'[q] = seq[q] /\ fd'[q] = fd[q] /\ cur'[q] = cur[q]
    BY <1>4 DEF To, OthersKeep
  <2> QED
    BY <2>1 DEF RecordsInv, OwnerOK, TakenOver, WorkOK, MetaOK, EnterOK, BlockOK, RestoreOK, Untouched,
       Touched, Blocked, JournalData, RecordsLeft
<1>5. OwnerOK(p)'
  BY WorkingIs DEF OwnerOK, To
<1> QED
  BY <1>1, <1>2, <1>3, <1>4, <1>5 DEF RecordsInv
--------------------------------------------------------------------------------
(* The disk's part of a step *)

\* A journal write that happens is the one its owner prepared.
LEMMA ReplaceIs ==
  ASSUME RecordsInv, NEW p \in Procs, pc[p] \in PersistSites, MetaWrite(p)
  PROVE  /\ journal' = JournalData(p) /\ pending' = NoJournal
         /\ UNCHANGED <<node, backup, torn, lock, written, locks>>
<1>1. fd[p] # 0 /\ MetaOK(p)
  BY OwnerFacts, WorkingIs DEF RecordsInv, OwnerOK, WorkOK
<1>2. /\ Prepared(p) /\ journal' = pending /\ pending' = NoJournal
      /\ UNCHANGED <<node, backup, torn, lock, written, locks>>
  BY DEF MetaWrite, ReplaceJournal, UnlinkPending, UnlinkJournal, PersistSites, disk, locking
<1>3. pending # NoJournal
  BY <1>1, <1>2 DEF Prepared, NoJournal
<1> QED
  BY <1>1, <1>2, <1>3 DEF MetaOK

\* A write to the nodes, by the site it is made at.
NodeSites == {"displace", "block", "populate", "stub", "remove", "putBack", "drop"}
LEMMA NodeWriteIs ==
  ASSUME TypeInv, NEW p \in Procs, NodeWrite(p)
  PROVE  /\ UNCHANGED <<journal, pending, torn, lock, written, locks>>
         /\ pc[p] \in NodeSites /\ cur[p] \in Nodes
         /\ \A m \in Nodes \ {cur[p]} : node'[m] = node[m] /\ backup'[m] = backup[m]
         /\ pc[p] \in {"displace", "block"} =>
              mem[p][cur[p]].orig # Absent /\ backup'[cur[p]] = node[cur[p]] /\ node'[cur[p]] = Absent
         /\ pc[p] = "populate" => node'[cur[p]] = Injected /\ backup' = backup
         /\ pc[p] = "stub" => node'[cur[p]] = Stub /\ backup' = backup
         /\ pc[p] = "remove" => node'[cur[p]] = Absent /\ backup' = backup
         /\ pc[p] = "putBack" => node'[cur[p]] = backup[cur[p]] /\ backup'[cur[p]] = Absent
         /\ pc[p] = "drop" => node' = node /\ backup'[cur[p]] = Absent
<1>1. /\ UNCHANGED <<journal, pending, torn, lock, written, locks>>
      /\ Rename(p) \/ Inject(p) \/ Link(p) \/ Unlink(p) \/ RenameBack(p) \/ UnlinkBackup(p)
  BY DEF NodeWrite, meta, locking
<1>2. pc[p] \in NodeSites
  BY <1>1 DEF NodeSites, Rename, Inject, Link, Unlink, RenameBack, UnlinkBackup
<1>3. cur[p] \in Nodes
  BY <1>2, NodesAreNumbers DEF NodeSites, TypeInv, CursorInv, RestoreSites
<1>4. node \in [Nodes -> Values] /\ backup \in [Nodes -> Values]
  BY TypedProc
<1>5. CASE pc[p] \in {"displace", "block"}
  <2>1. /\ mem[p][cur[p]].orig # Absent /\ backup' = [backup EXCEPT ![cur[p]] = node[cur[p]]]
        /\ node' = [node EXCEPT ![cur[p]] = Absent]
    BY <1>1, <1>5 DEF Rename, Inject, Link, Unlink, RenameBack, UnlinkBackup, Store
  <2> QED
    BY <1>1, <1>2, <1>3, <1>4, <1>5, <2>1
<1>6. CASE pc[p] \in {"populate", "stub", "remove"}
  <2>1. /\ backup' = backup
        /\ node' = [node EXCEPT ![cur[p]] = IF pc[p] = "populate" THEN Injected
                                            ELSE IF pc[p] = "stub" THEN Stub ELSE Absent]
    BY <1>1, <1>6 DEF Rename, Inject, Link, Unlink, RenameBack, UnlinkBackup, Store
  <2> QED
    BY <1>1, <1>2, <1>3, <1>4, <1>6, <2>1
<1>7. CASE pc[p] \in {"putBack", "drop"}
  <2>1. /\ backup' = [backup EXCEPT ![cur[p]] = Absent]
        /\ node' = IF pc[p] = "putBack" THEN [node EXCEPT ![cur[p]] = backup[cur[p]]] ELSE node
    BY <1>1, <1>7 DEF Rename, Inject, Link, Unlink, RenameBack, UnlinkBackup, Store
  <2> QED
    BY <1>1, <1>2, <1>3, <1>4, <1>7, <2>1
<1> QED
  BY <1>2, <1>5, <1>6, <1>7 DEF NodeSites

\* What an owner knows before it goes on.
LEMMA Owns ==
  ASSUME RecordsInv, NEW p \in Procs, pc[p] \in Working
  PROVE  /\ TypeInv /\ LockInv /\ NamedInv /\ WorkOK(p) /\ fd[p] # 0
         /\ \A q \in Procs \ {p} : pc[q] \notin OwnerSites \cup CreatorSites
         /\ pc[p] \notin PersistSites => pending = NoJournal
BY OwnerFacts, WorkingIs DEF RecordsInv, OwnerOK, WorkOK, MetaOK

LEMMA MetaStays ==
  ASSUME NEW p \in Procs, MetaOK(p), pending = NoJournal, UNCHANGED <<journal, pending, torn>>,
         fd'[p] = fd[p], seq'[p] = seq[p],
         seq[p] = 0 => NoActiveRecord(mem'[p]) /\ pc'[p] \notin EnterSites \ {"journalInit"}
  PROVE  MetaOK(p)'
BY DEF MetaOK

\* It reaches a point of which nothing more is known.
LEMMA PlainStep ==
  ASSUME RecordsInv, LockInv', NEW p \in Procs, pc[p] \in OwnerSites,
         NEW site \in {"restore", "autoremove", "command"}, To(p, site), OthersKeep(p),
         NamedInv', MetaOK(p)', \A n \in Nodes : Touched(n)' => Recorded(mem'[p], n)
  PROVE  RecordsInv'
<1>1. WorkOK(p)'
  BY DEF WorkOK, EnterOK, BlockOK, RestoreOK, To
<1>2. pc'[p] \in Working
  BY DEF To, Working, OwnerSites, RestoreSites, CommandSites
<1> QED
  BY <1>1, <1>2, OwnerFacts, OwnerStep DEF To

LEMMA EnvironmentRecords ==
  ASSUME RecordsInv, LockInv', CommandWrites \/ OrphanEnds \/ UNCHANGED vars
  PROVE  RecordsInv'
<1>1. /\ UNCHANGED <<backup, journal, pending, torn, lock, written, pc, mem, seq, cur, fd>>
      /\ \A n \in Nodes : node'[n] \in Residue => node[n] \in Residue
  <2>1. CASE CommandWrites
    <3>1. PICK n \in Nodes : \E v \in Files \cup {Absent} \cup Aliens : node' = [node EXCEPT ![n] = v]
      BY <2>1 DEF CommandWrites, Store
    <3>2. \A v \in Files \cup {Absent} \cup Aliens : v \notin Residue
      BY ConstantsAssumption DEF Residue, AlienKinds, Absent, Injected, Stub
    <3>3. node \in [Nodes -> Values]
      BY DEF RecordsInv, LockInv, TypeInv, TypeOK
    <3>4. \A m \in Nodes : node'[m] \in Residue => node[m] \in Residue
      BY <3>1, <3>2, <3>3
    <3> QED
      BY <2>1, <3>4 DEF CommandWrites, meta, locking, KeepHandle
  <2>2. CASE OrphanEnds \/ UNCHANGED vars
    BY <2>2 DEF OrphanEnds, vars, disk, meta, locking
  <2> QED
    BY <2>1, <2>2
<1>2. \A n \in Nodes : Blocked(n)' = Blocked(n) /\ (Touched(n)' => Touched(n))
  BY <1>1 DEF Touched, Blocked
<1>3. JournalInv' /\ NamedInv' /\ CleanInv' /\ IdleInv'
  BY <1>1, <1>2 DEF RecordsInv, JournalInv, PendingFits, NamedInv, CleanInv, Clean, Untouched, IdleInv
<1>4. ASSUME NEW p \in Procs PROVE OwnerOK(p)'
  <2>1. pc[p] = "dropPending" => TakenOver(p)'
    BY <1>1 DEF RecordsInv, OwnerOK, TakenOver
  <2>2. ASSUME pc[p] \in Working PROVE WorkOK(p)'
    <3>1. WorkOK(p) /\ TypeInv
      BY <2>2, Owns
    <3>2. MetaOK(p)'
      BY <1>1, <3>1 DEF WorkOK, MetaOK, JournalData, RecordsLeft
    <3>3. EnterOK(p)'
      BY <1>1, <1>2, <3>1, NodesAreNumbers DEF WorkOK, EnterOK, Untouched
    <3>4. BlockOK(p)'
      BY <1>1, <1>2, <3>1, NodesAreNumbers DEF WorkOK, BlockOK
    <3>5. RestoreOK(p)'
      BY <1>1, <1>2, <3>1, NodesAreNumbers DEF WorkOK, RestoreOK, Untouched, TypeInv, CursorInv, RestoreSites
    <3> QED
      BY <1>1, <1>2, <3>1, <3>2, <3>3, <3>4, <3>5 DEF WorkOK
  <2> QED
    BY <1>1, <2>1, <2>2 DEF OwnerOK
<1> QED
  BY <1>3, <1>4 DEF RecordsInv
--------------------------------------------------------------------------------
(* RecordsInv: the journal *)

LEMMA DropPendingRecords ==
  ASSUME RecordsInv, LockInv', NEW p \in Procs, DropPending(p)
  PROVE  RecordsInv'
<1>1. /\ pc[p] = "dropPending" /\ pending' = NoJournal /\ fd' = fd
      /\ UNCHANGED <<node, backup, journal, torn, lock, written, mem, seq>>
      /\ IF seq[p] = 0 THEN GotoAt(p, "unlock", 0) ELSE StartCleanup(p)
  BY DEF DropPending, MetaWrite, ReplaceJournal, UnlinkPending, UnlinkJournal, PersistSites, disk, locking,
     KeepHandle
<1>2. /\ TypeInv /\ fd[p] # 0 /\ TakenOver(p) /\ JournalInv /\ NamedInv
      /\ \A q \in Procs \ {p} : pc[q] \notin OwnerSites \cup CreatorSites
  BY <1>1, OwnerFacts, WorkingIs DEF RecordsInv, OwnerOK
<1>3. OthersKeep(p)
  BY <1>1, <1>2, Keeps DEF DropPending
<1>4. NamedInv'
  BY <1>1, <1>2 DEF NamedInv, Touched, Blocked
<1>5. /\ seq[p] = 0 => journal = NoJournal
      /\ seq[p] # 0 => journal.tok = fd[p] /\ journal.seq = seq[p]
      /\ seq[p] = 0 => NoActiveRecord(mem[p])
  BY <1>2 DEF TakenOver, JournalInv, NoJournal, NoActiveRecord, NoRecords, NoRecord
<1>6. \A n \in Nodes : Touched(n) => Recorded(mem[p], n)
  BY <1>2 DEF NamedInv, TakenOver
<1>7. CASE seq[p] = 0
  <2>1. To(p, "unlock")
    BY <1>1, <1>2, <1>7, GoesAt
  <2>3. WorkOK(p)'
    BY <1>1, <1>2, <1>5, <1>6, <1>7, <2>1 DEF WorkOK, MetaOK, TakenOver, EnterOK, BlockOK, RestoreOK, To,
       NoActiveRecord, Touched, Blocked, EnterSites
  <2>4. "unlock" \in Working
    BY DEF Working, OwnerSites
  <2> QED
    BY <1>2, <1>3, <1>4, <2>1, <2>3, <2>4, OwnerStep DEF To
<1>8. CASE seq[p] # 0
  <2>1. To(p, "restore")
    BY <1>1, <1>2, <1>8, CleansUp
  <2>2. MetaOK(p)'
    BY <1>1, <1>2, <1>5, <1>8 DEF MetaOK, TakenOver
  <2>3. \A n \in Nodes : Touched(n)' => Recorded(mem'[p], n)
    BY <1>1, <1>6 DEF Touched, Blocked
  <2> QED
    BY <1>1, <1>3, <1>4, <2>1, <2>2, <2>3, PlainStep, WorkingIs
<1> QED
  BY <1>7, <1>8

LEMMA PrepareRecords ==
  ASSUME RecordsInv, LockInv', NEW p \in Procs, Prepare(p)
  PROVE  RecordsInv'
<1>1. /\ pc[p] \in PersistSites /\ pending' = JournalData(p)
      /\ UNCHANGED <<node, backup, journal, torn, lock, written, pc, mem, seq, cur, fd, mode>>
  BY DEF Prepare, disk, locking, KeepHandle
<1>2. pc[p] \in Working
  BY <1>1, WorkingIs
<1>3. MetaOK(p)'
  BY <1>1, <1>2, Owns DEF WorkOK, MetaOK, JournalData, RecordsLeft
<1>4. NamedInv'
  BY <1>1, <1>2, Owns DEF NamedInv, Touched, Blocked
<1>5. WorkOK(p)'
  BY <1>1, <1>2, <1>3, Owns DEF WorkOK, EnterOK, BlockOK, RestoreOK, Untouched, Touched, Blocked
<1>6. OthersKeep(p)
  BY <1>1 DEF OthersKeep
<1> QED
  BY <1>1, <1>2, <1>4, <1>5, <1>6, Owns, OwnerStep

\* The records that are written name everything that was touched.
LEMMA RecordsLeftNames ==
  ASSUME RecordsInv, NEW p \in Procs, pc[p] \in PersistSites
  PROVE  /\ \A n \in Nodes : Touched(n) => Recorded(RecordsLeft(p), n)
         /\ pc[p] # "retire" => RecordsLeft(p) = mem[p]
         /\ \A n \in Nodes : n # cur[p] => RecordsLeft(p)[n] = mem[p][n]
         /\ pc[p] = "retire" => RecordsLeft(p)[cur[p]] = NoRecord
         /\ RecordsLeft(p) \in [Nodes -> Records]
         /\ JournalData(p).tok = fd[p] /\ JournalData(p).seq = seq[p] + 1
         /\ JournalData(p).recs = RecordsLeft(p)
<1>1. pc[p] \in Working
  BY WorkingIs
<1>2. mem[p] \in [Nodes -> Records] /\ (pc[p] = "retire" => cur[p] \in Nodes)
  BY <1>1, Owns, TypedProc DEF TypeInv, CursorInv, RestoreSites
<1>3. /\ pc[p] # "retire" => RecordsLeft(p) = mem[p]
      /\ \A n \in Nodes : n # cur[p] => RecordsLeft(p)[n] = mem[p][n]
      /\ pc[p] = "retire" => RecordsLeft(p)[cur[p]] = NoRecord
  BY <1>2 DEF RecordsLeft
<1>4. \A n \in Nodes : Touched(n) => Recorded(RecordsLeft(p), n)
  BY <1>1, <1>3, Owns DEF WorkOK, RestoreOK, Recorded
<1> QED
  BY <1>1, <1>3, <1>4, Owns, RecordsLeftType DEF JournalData

\* After a journal write that its owner knows of.
LEMMA Written ==
  ASSUME RecordsInv, LockInv', NEW p \in Procs, pc[p] \in PersistSites, MetaWrite(p), fd'[p] = fd[p],
         seq'[p] = seq[p] + 1
  PROVE  /\ NamedInv' /\ MetaOK(p)' /\ journal'.recs = RecordsLeft(p)
         /\ \A n \in Nodes : Touched(n)' = Touched(n) /\ Blocked(n)' = Blocked(n)
<1>1. /\ journal' = JournalData(p) /\ pending' = NoJournal
      /\ UNCHANGED <<node, backup, torn, lock, written, locks>>
  BY ReplaceIs
<1>2. /\ journal'.recs = RecordsLeft(p) /\ journal'.tok = fd[p] /\ journal'.seq = seq[p] + 1
  BY <1>1, RecordsLeftNames
<1>3. \A n \in Nodes : Touched(n)' = Touched(n) /\ Blocked(n)' = Blocked(n)
  BY <1>1 DEF Touched, Blocked
<1>4. NamedInv'
  BY <1>1, <1>2, <1>3, RecordsLeftNames, Owns, WorkingIs DEF NamedInv
<1>5. seq[p] + 1 # 0 /\ MetaOK(p)
  BY Owns, TypedProc, WorkingIs DEF WorkOK
<1>6. MetaOK(p)'
  BY <1>1, <1>2, <1>5 DEF MetaOK
<1> QED
  BY <1>2, <1>3, <1>4, <1>6

LEMMA CommitRecords ==
  ASSUME RecordsInv, LockInv', NEW p \in Procs, Commit(p)
  PROVE  RecordsInv'
<1>1. /\ pc[p] \in PersistSites /\ MetaWrite(p) /\ AfterPersist(p) /\ KeepHandle
      /\ mem' = [mem EXCEPT ![p] = RecordsLeft(p)] /\ seq' = [seq EXCEPT ![p] = seq[p] + 1]
  BY DEF Commit
<1>2. /\ TypeInv /\ WorkOK(p) /\ pc[p] \in Working
      /\ \A q \in Procs \ {p} : pc[q] \notin OwnerSites \cup CreatorSites
  BY <1>1, Owns, WorkingIs
<1>3. /\ mem'[p] = RecordsLeft(p) /\ seq'[p] = seq[p] + 1 /\ fd'[p] = fd[p] /\ OthersKeep(p)
  BY <1>1, <1>2, TypedProc DEF KeepHandle, OthersKeep
<1>4. /\ NamedInv' /\ MetaOK(p)' /\ journal'.recs = mem'[p]
      /\ \A n \in Nodes : Touched(n)' = Touched(n) /\ Blocked(n)' = Blocked(n)
  BY <1>1, <1>3, Written
<1>5. \A n \in Nodes : Touched(n)' => Recorded(mem'[p], n)
  BY <1>1, <1>3, <1>4, RecordsLeftNames
<1>6. node' = node /\ backup' = backup
  BY <1>1, ReplaceIs
<1>7. pc[p] # "retire" => mem'[p] = mem[p]
  BY <1>1, <1>3, RecordsLeftNames
<1>8. ASSUME NEW site \in Working, To(p, site), EnterOK(p)', BlockOK(p)', RestoreOK(p)'
      PROVE  RecordsInv'
  BY <1>2, <1>3, <1>4, <1>5, <1>8, OwnerStep DEF WorkOK, To
<1>9. CASE pc[p] = "journalInit" /\ GotoAt(p, "captureManaged", 0)
  <2>1. To(p, "captureManaged") /\ "captureManaged" \in Working
    BY <1>2, <1>9, GoesAt DEF Working, OwnerSites, EnterSites
  <2>3. \A n \in Services : mem[p][n].stage = "none"
    BY <1>2, <1>9 DEF WorkOK, EnterOK
  <2>4. Untouched'
    BY <1>2, <1>4, <1>9 DEF WorkOK, EnterOK, Untouched
  <2>5. EnterOK(p)' /\ BlockOK(p)' /\ RestoreOK(p)'
    BY <1>7, <1>9, <2>1, <2>3, <2>4 DEF EnterOK, BlockOK, RestoreOK, To
  <2> QED
    BY <1>8, <2>1, <2>5
<1>10. CASE pc[p] = "planManaged" /\ GotoAt(p, "displace", 1)
  <2>1. To(p, "displace") /\ "displace" \in Working
    BY <1>2, <1>10, GoesAt DEF Working, OwnerSites, EnterSites
  <2>2. \A n \in Nodes : node'[n] \notin Residue
    BY <1>2, <1>6, <1>10 DEF WorkOK, EnterOK, Untouched, Touched
  <2>3. EnterOK(p)' /\ BlockOK(p)' /\ RestoreOK(p)'
    BY <1>2, <1>4, <1>7, <1>10, <2>1, <2>2 DEF WorkOK, EnterOK, BlockOK, RestoreOK, To
  <2> QED
    BY <1>8, <2>1, <2>3
<1>11. CASE /\ pc[p] \in {"planServices", "markStubbed"}
            /\ \E n \in Services : FirstRecorded(n, mem[p]) /\ GotoAt(p, "block", n)
  <2>1. PICK n \in Services : FirstRecorded(n, mem[p]) /\ GotoAt(p, "block", n)
    BY <1>11
  <2>2. To(p, "block") /\ cur'[p] = n /\ "block" \in Working /\ mem'[p] = mem[p]
    BY <1>2, <1>7, <1>11, <2>1, GoesAt DEF Working, OwnerSites, EnterSites
  <2>3. mem[p][n].stage = "planned" /\ Recorded(mem[p], n)
    BY <2>1 DEF FirstRecorded, Recorded
  <2>4. \A m \in Services : mem[p][m].stage = "planned" => ~Touched(m)
    BY <1>2, <1>11 DEF WorkOK, EnterOK, BlockOK
  <2>5. \A m \in Services : ~Touched(m) => ~Touched(m)'
    BY <1>4, NodesAreNumbers
  <2>6. EnterOK(p)' /\ BlockOK(p)' /\ RestoreOK(p)'
    BY <1>4, <2>2, <2>3, <2>4, <2>5 DEF EnterOK, BlockOK, RestoreOK, To
  <2> QED
    BY <1>8, <2>2, <2>6
<1>12. CASE GotoAt(p, "command", 0)
  <2>1. To(p, "command")
    BY <1>2, <1>12, GoesAt
  <2> QED
    BY <1>2, <1>3, <1>4, <1>5, <2>1, PlainStep, WorkingIs
<1>13. CASE pc[p] = "markRenamed" /\ GotoAt(p, "stub", cur[p])
  <2>1. To(p, "stub") /\ cur'[p] = cur[p] /\ "stub" \in Working /\ mem'[p] = mem[p]
    BY <1>2, <1>7, <1>13, GoesAt DEF Working, OwnerSites, EnterSites
  <2>2. \A m \in Services : ~Touched(m) => ~Touched(m)'
    BY <1>4, NodesAreNumbers
  <2>3. EnterOK(p)' /\ BlockOK(p)' /\ RestoreOK(p)'
    BY <1>2, <1>4, <1>13, <2>1, <2>2 DEF WorkOK, EnterOK, BlockOK, RestoreOK, To
  <2> QED
    BY <1>8, <2>1, <2>3
<1>14. CASE pc[p] = "keep" /\ GotoAt(p, "drop", cur[p])
  <2>1. To(p, "drop") /\ cur'[p] = cur[p] /\ "drop" \in Working
    BY <1>2, <1>14, GoesAt DEF Working, OwnerSites, RestoreSites
  <2>2. EnterOK(p)' /\ BlockOK(p)' /\ RestoreOK(p)'
    BY <1>2, <1>6, <1>14, <2>1 DEF WorkOK, EnterOK, BlockOK, RestoreOK, To
  <2> QED
    BY <1>8, <2>1, <2>2
<1>15. CASE pc[p] = "retire" /\ Advance(p)
  BY <1>2, <1>3, <1>4, <1>5, <1>15, Advances, PlainStep, WorkingIs
<1> QED
  BY <1>1, <1>9, <1>10, <1>11, <1>12, <1>13, <1>14, <1>15 DEF AfterPersist
--------------------------------------------------------------------------------
(* RecordsInv: the transaction is entered *)

LEMMA WorkStep ==
  ASSUME RecordsInv, LockInv', NEW p \in Procs, pc[p] \in OwnerSites,
         NEW site \in Working, To(p, site), OthersKeep(p), NamedInv', MetaOK(p)',
         \A n \in Nodes : Touched(n)' => Recorded(mem'[p], n), EnterOK(p)', BlockOK(p)', RestoreOK(p)'
  PROVE  RecordsInv'
<1>1. WorkOK(p)' /\ pc'[p] \in Working
  BY DEF WorkOK, To
<1> QED
  BY <1>1, OwnerFacts, OwnerStep DEF To

LEMMA ServicesAreNotManaged == \A n \in Services : n \notin Managed
BY ConstantsAssumption DEF Services, Managed

LEMMA MemIs ==
  ASSUME TypeInv, NEW p \in Procs, NEW recs, mem' = [mem EXCEPT ![p] = recs], seq' = seq, KeepHandle
  PROVE  /\ mem'[p] = recs /\ fd'[p] = fd[p] /\ seq'[p] = seq[p] /\ OthersKeep(p)
BY TypedProc DEF OthersKeep, KeepHandle

LEMMA StageIs ==
  ASSUME TypeInv, NEW p \in Procs, cur[p] \in Nodes, NEW stage,
         mem' = [mem EXCEPT ![p][cur[p]].stage = stage], seq' = seq, KeepHandle
  PROVE  /\ mem'[p][cur[p]].stage = stage /\ mem'[p][cur[p]].orig = mem[p][cur[p]].orig
         /\ \A m \in Nodes \ {cur[p]} : mem'[p][m] = mem[p][m]
         /\ fd'[p] = fd[p] /\ seq'[p] = seq[p] /\ OthersKeep(p)
<1> DEFINE recs == [mem[p] EXCEPT ![cur[p]].stage = stage]
<1>1. mem' = [mem EXCEPT ![p] = recs]
  OBVIOUS
<1>2. mem'[p] = recs /\ fd'[p] = fd[p] /\ seq'[p] = seq[p] /\ OthersKeep(p)
  BY <1>1, MemIs
<1>3. mem[p] \in [Nodes -> Records]
  BY TypedProc
<1>4. mem[p][cur[p]] \in Records
  BY <1>3
<1>5. recs[cur[p]] = [mem[p][cur[p]] EXCEPT !.stage = stage] /\ \A m \in Nodes \ {cur[p]} : recs[m] = mem[p][m]
  BY <1>3
<1>6. recs[cur[p]].stage = stage /\ recs[cur[p]].orig = mem[p][cur[p]].orig
  BY <1>4, <1>5 DEF Records
<1> QED
  BY <1>2, <1>5, <1>6

\* While the transaction is entered its journal is there.
LEMMA Entering ==
  ASSUME RecordsInv, NEW p \in Procs, pc[p] \in EnterSites \ {"journalInit"}
  PROVE  /\ pc[p] \in Working /\ TypeInv /\ NamedInv /\ WorkOK(p) /\ seq[p] # 0
         /\ pc[p] \notin PersistSites => pending = NoJournal
<1>1. pc[p] \in Working
  BY DEF Working, OwnerSites, EnterSites
<1> QED
  BY <1>1, Owns DEF WorkOK, MetaOK

LEMMA CaptureManagedRecords ==
  ASSUME RecordsInv, LockInv', NEW p \in Procs, CaptureManaged(p)
  PROVE  RecordsInv'
<1>1. /\ pc[p] = "captureManaged" /\ Capture(p, Managed, "managed", "planManaged")
      /\ KeepHandle /\ seq' = seq /\ UNCHANGED <<node, backup, journal, pending, torn, lock, written>>
  BY DEF CaptureManaged, Capture, NoWrite, disk, meta, locking
<1>2. /\ pc[p] \in Working /\ TypeInv /\ NamedInv /\ WorkOK(p) /\ seq[p] # 0 /\ pending = NoJournal
      /\ pc[p] \in OwnerSites
  BY <1>1, Entering, WorkingIs DEF EnterSites, PersistSites
<1>3. \A n \in Nodes : Touched(n)' = Touched(n) /\ Blocked(n)' = Blocked(n)
  BY <1>1 DEF Touched, Blocked
<1>4. NamedInv'
  BY <1>1, <1>2, <1>3 DEF NamedInv
<1>5. Untouched /\ MetaOK(p)
  BY <1>1, <1>2 DEF WorkOK, EnterOK
<1>6. Untouched'
  BY <1>3, <1>5 DEF Untouched
<1>7. CASE StartCleanup(p) /\ mem' = mem
  <2>1. To(p, "restore") /\ OthersKeep(p) /\ fd' = fd
    BY <1>1, <1>2, <1>7, CleansUp, Keeps
  <2>2. MetaOK(p)'
    BY <1>1, <1>2, <1>5, <2>1, MetaStays
  <2> QED
    BY <1>2, <1>4, <1>6, <2>1, <2>2, PlainStep DEF Untouched
<1>8. CASE /\ mem' = [mem EXCEPT ![p] =
                 [n \in Nodes |-> IF n \in Managed THEN [stage |-> "managed", orig |-> node[n]]
                                  ELSE mem[p][n]]]
           /\ GotoAt(p, "planManaged", 0)
  <2>1. /\ mem'[p] = [n \in Nodes |-> IF n \in Managed THEN [stage |-> "managed", orig |-> node[n]]
                                      ELSE mem[p][n]]
        /\ fd'[p] = fd[p] /\ seq'[p] = seq[p] /\ OthersKeep(p)
    BY <1>1, <1>2, <1>8, MemIs
  <2>2. To(p, "planManaged") /\ "planManaged" \in Working
    BY <1>2, <1>8, GoesAt DEF Working, OwnerSites, EnterSites
  <2>3. MetaOK(p)'
    BY <1>1, <1>2, <1>5, <2>1, MetaStays
  <2>4. \A n \in Managed : Recorded(mem'[p], n)
    BY <2>1, NodesAreNumbers DEF Recorded
  <2>5. \A n \in Services : mem'[p][n].stage = "none"
    BY <1>1, <1>2, <2>1, NodesAreNumbers, ServicesAreNotManaged DEF WorkOK, EnterOK
  <2>6. EnterOK(p)' /\ BlockOK(p)' /\ RestoreOK(p)'
    BY <1>6, <2>2, <2>4, <2>5 DEF EnterOK, BlockOK, RestoreOK, To
  <2> QED
    BY <1>2, <1>4, <1>6, <2>1, <2>2, <2>3, <2>6, WorkStep DEF Untouched
<1> QED
  BY <1>1, <1>7, <1>8 DEF Capture

LEMMA CaptureServicesRecords ==
  ASSUME RecordsInv, LockInv', NEW p \in Procs, CaptureServices(p)
  PROVE  RecordsInv'
<1> DEFINE present == {n \in Services : node[n] # Absent}
           next == IF present = {} THEN "command" ELSE "planServices"
<1>1. /\ pc[p] = "captureServices" /\ Capture(p, present, "planned", next)
      /\ KeepHandle /\ seq' = seq /\ UNCHANGED <<node, backup, journal, pending, torn, lock, written>>
  BY DEF CaptureServices, Capture, NoWrite, disk, meta, locking
<1>2. /\ pc[p] \in Working /\ TypeInv /\ NamedInv /\ WorkOK(p) /\ seq[p] # 0 /\ pending = NoJournal
      /\ pc[p] \in OwnerSites /\ MetaOK(p)
  BY <1>1, Entering, WorkingIs DEF EnterSites, PersistSites, WorkOK
<1>3. \A n \in Nodes : Touched(n)' = Touched(n) /\ Blocked(n)' = Blocked(n)
  BY <1>1 DEF Touched, Blocked
<1>4. NamedInv'
  BY <1>1, <1>2, <1>3 DEF NamedInv
<1>5. /\ \A n \in Services : mem[p][n].stage = "none"
      /\ \A n \in Managed : Recorded(mem[p], n)
      /\ \A n \in Nodes : Touched(n) => Recorded(mem[p], n)
  BY <1>1, <1>2 DEF WorkOK, EnterOK
<1>6. CASE StartCleanup(p) /\ mem' = mem
  <2>1. To(p, "restore") /\ OthersKeep(p) /\ fd' = fd
    BY <1>1, <1>2, <1>6, CleansUp, Keeps
  <2>2. MetaOK(p)'
    BY <1>1, <1>2, <2>1, MetaStays
  <2> QED
    BY <1>2, <1>3, <1>4, <1>5, <1>6, <2>1, <2>2, PlainStep
<1>7. CASE /\ mem' = [mem EXCEPT ![p] =
                 [n \in Nodes |-> IF n \in present THEN [stage |-> "planned", orig |-> node[n]]
                                  ELSE mem[p][n]]]
           /\ GotoAt(p, next, 0)
  <2>1. /\ mem'[p] = [n \in Nodes |-> IF n \in present THEN [stage |-> "planned", orig |-> node[n]]
                                      ELSE mem[p][n]]
        /\ fd'[p] = fd[p] /\ seq'[p] = seq[p] /\ OthersKeep(p)
    BY <1>1, <1>2, <1>7, MemIs
  <2>2. To(p, next)
    BY <1>2, <1>7, GoesAt
  <2>3. MetaOK(p)'
    BY <1>1, <1>2, <2>1, MetaStays
  <2>4. \A n \in Nodes : Recorded(mem[p], n) => Recorded(mem'[p], n)
    BY <2>1 DEF Recorded
  <2>5. \A n \in Nodes : Touched(n)' => Recorded(mem'[p], n)
    BY <1>3, <1>5, <2>4
  <2>6. \A n \in Services : ~Touched(n)'
    BY <1>3, <1>5, NodesAreNumbers DEF Recorded
  <2>7. \A n \in Managed : Recorded(mem'[p], n)
    BY <1>5, <2>4, NodesAreNumbers
  <2>8. CASE next = "command"
    BY <1>2, <1>4, <2>1, <2>2, <2>3, <2>5, <2>8, PlainStep
  <2>9. CASE next = "planServices"
    <3>1. EnterOK(p)' /\ BlockOK(p)' /\ RestoreOK(p)'
      BY <2>2, <2>6, <2>7, <2>9 DEF EnterOK, BlockOK, RestoreOK, To
    <3>2. next \in Working
      BY <2>9 DEF Working, OwnerSites, EnterSites
    <3> HIDE DEF next
    <3> QED
      BY <1>2, <1>4, <2>1, <2>2, <2>3, <2>5, <3>1, <3>2, WorkStep
  <2> QED
    BY <2>8, <2>9
<1> HIDE DEF present, next
<1> QED
  BY <1>1, <1>6, <1>7 DEF Capture

LEMMA DisplaceRecords ==
  ASSUME RecordsInv, LockInv', NEW p \in Procs, Displace(p)
  PROVE  RecordsInv'
<1>1. /\ pc[p] = "displace" /\ mem' = mem /\ seq' = seq /\ KeepHandle
      /\ NoWrite \/ NodeWrite(p)
      /\ NextManaged(p, "displace", GotoAt(p, "populate", 1))
  BY DEF Displace
<1>2. /\ pc[p] \in Working /\ TypeInv /\ NamedInv /\ WorkOK(p) /\ seq[p] # 0 /\ pending = NoJournal
      /\ pc[p] \in OwnerSites /\ MetaOK(p)
  BY <1>1, Entering, WorkingIs DEF EnterSites, PersistSites, WorkOK
<1>3. OthersKeep(p) /\ fd' = fd
  BY <1>1, <1>2, Keeps
<1>4. /\ \A n \in Services : mem[p][n].stage = "none"
      /\ \A n \in Managed : Recorded(mem[p], n)
      /\ \A n \in Nodes : Touched(n) => Recorded(mem[p], n)
      /\ \A n \in Nodes : node[n] \notin Residue
      /\ journal.recs = mem[p]
  BY <1>1, <1>2 DEF WorkOK, EnterOK
<1>5. cur[p] \in Managed /\ cur[p] \in Nodes
  BY <1>1, <1>2, NodesAreNumbers DEF TypeInv, CursorInv
<1>6. Absent \notin Residue
  BY DEF Absent, Residue, Injected, Stub
<1>7. /\ UNCHANGED <<journal, pending, torn>>
      /\ \A n \in Nodes : /\ node'[n] \notin Residue
                          /\ n # cur[p] => backup'[n] = backup[n]
                          /\ backup'[n] \notin Residue
  <2>1. CASE NoWrite
    BY <1>2, <1>4, <2>1 DEF NoWrite, disk, meta, NamedInv
  <2>2. CASE NodeWrite(p)
    BY <1>1, <1>2, <1>4, <1>5, <1>6, <2>2, NodeWriteIs DEF NamedInv
  <2> QED
    BY <1>1, <2>1, <2>2
<1>8. \A n \in Nodes : Touched(n)' => Recorded(mem'[p], n)
  BY <1>1, <1>4, <1>5, <1>7 DEF Touched, Blocked
<1>9. NamedInv'
  BY <1>1, <1>4, <1>7, <1>8 DEF NamedInv
<1>10. PICK site \in {"displace", "populate"} : To(p, site)
  BY <1>1, <1>2, GoesAt DEF NextManaged
<1>11. MetaOK(p)'
  BY <1>1, <1>2, <1>3, <1>7, MetaStays
<1>12. EnterOK(p)' /\ BlockOK(p)' /\ RestoreOK(p)'
  BY <1>1, <1>4, <1>7, <1>10 DEF EnterOK, BlockOK, RestoreOK, To
<1>13. site \in Working
  BY <1>10 DEF Working, OwnerSites, EnterSites
<1> QED
  BY <1>2, <1>3, <1>8, <1>9, <1>10, <1>11, <1>12, <1>13, WorkStep

LEMMA PopulateRecords ==
  ASSUME RecordsInv, LockInv', NEW p \in Procs, Populate(p)
  PROVE  RecordsInv'
<1>1. /\ pc[p] = "populate" /\ mem' = mem /\ seq' = seq /\ KeepHandle /\ NodeWrite(p)
      /\ NextManaged(p, "populate", GotoAt(p, "locale", 0))
  BY DEF Populate
<1>2. /\ pc[p] \in Working /\ TypeInv /\ NamedInv /\ WorkOK(p) /\ seq[p] # 0 /\ pending = NoJournal
      /\ pc[p] \in OwnerSites /\ MetaOK(p)
  BY <1>1, Entering, WorkingIs DEF EnterSites, PersistSites, WorkOK
<1>3. OthersKeep(p) /\ fd' = fd
  BY <1>1, <1>2, Keeps
<1>4. /\ \A n \in Services : mem[p][n].stage = "none"
      /\ \A n \in Managed : Recorded(mem[p], n)
      /\ \A n \in Nodes : Touched(n) => Recorded(mem[p], n)
      /\ journal.recs = mem[p]
  BY <1>1, <1>2 DEF WorkOK, EnterOK
<1>5. /\ cur[p] \in Managed /\ UNCHANGED <<backup, journal, pending, torn>>
      /\ \A n \in Nodes \ {cur[p]} : node'[n] = node[n]
  BY <1>1, <1>2, NodeWriteIs DEF TypeInv, CursorInv
<1>6. \A n \in Nodes : Touched(n)' => Recorded(mem'[p], n)
  BY <1>1, <1>4, <1>5 DEF Touched, Blocked
<1>7. NamedInv'
  BY <1>1, <1>2, <1>4, <1>5, <1>6 DEF NamedInv
<1>8. PICK site \in {"populate", "locale"} : To(p, site)
  BY <1>1, <1>2, GoesAt DEF NextManaged
<1>9. MetaOK(p)'
  BY <1>1, <1>2, <1>3, <1>5, MetaStays
<1>10. EnterOK(p)' /\ BlockOK(p)' /\ RestoreOK(p)'
  BY <1>1, <1>4, <1>5, <1>8 DEF EnterOK, BlockOK, RestoreOK, To
<1>11. site \in Working
  BY <1>8 DEF Working, OwnerSites, EnterSites
<1> QED
  BY <1>2, <1>3, <1>6, <1>7, <1>8, <1>9, <1>10, <1>11, WorkStep

\* The rename of a service and the link to its stub, and their new stages.
LEMMA BlockingRecords ==
  ASSUME RecordsInv, LockInv', NEW p \in Procs, Block(p) \/ MakeStub(p)
  PROVE  RecordsInv'
<1> DEFINE stage == IF pc[p] = "block" THEN "renamed" ELSE "stubbed"
           next  == IF pc[p] = "block" THEN "markRenamed" ELSE "markStubbed"
<1>1. /\ pc[p] \in {"block", "stub"} /\ mem' = [mem EXCEPT ![p][cur[p]].stage = stage]
      /\ seq' = seq /\ KeepHandle /\ NodeWrite(p) /\ GotoAt(p, next, cur[p])
  BY DEF Block, MakeStub
<1>2. stage \notin {"none", "planned"} /\ next \in {"markRenamed", "markStubbed"}
  OBVIOUS
<1> HIDE DEF stage, next
<1>3. /\ pc[p] \in Working /\ TypeInv /\ NamedInv /\ WorkOK(p) /\ seq[p] # 0 /\ pending = NoJournal
      /\ pc[p] \in OwnerSites /\ MetaOK(p)
  BY <1>1, Entering, WorkingIs DEF EnterSites, PersistSites, WorkOK
<1>4. /\ cur[p] \in Services /\ Recorded(mem[p], cur[p])
      /\ \A n \in Nodes : Recorded(mem[p], n) <=> Recorded(journal.recs, n)
      /\ \A n \in Services : mem[p][n].stage = "planned" => ~Touched(n)
      /\ pc[p] = "block" => mem[p][cur[p]].stage = "planned"
      /\ \A n \in Nodes : Touched(n) => Recorded(mem[p], n)
  BY <1>1, <1>3 DEF WorkOK, BlockOK
<1>5. cur[p] \in Nodes
  BY <1>4, NodesAreNumbers
<1>6. /\ mem'[p][cur[p]].stage = stage /\ \A m \in Nodes \ {cur[p]} : mem'[p][m] = mem[p][m]
      /\ fd'[p] = fd[p] /\ seq'[p] = seq[p] /\ OthersKeep(p)
  BY <1>1, <1>3, <1>5, StageIs
<1>7. /\ UNCHANGED <<journal, pending, torn>>
      /\ \A n \in Nodes \ {cur[p]} : node'[n] = node[n] /\ backup'[n] = backup[n]
      /\ pc[p] = "block" => backup'[cur[p]] = node[cur[p]]
      /\ pc[p] = "stub" => backup' = backup
  BY <1>1, <1>3, NodeWriteIs
<1>8. \A n \in Nodes : Recorded(mem'[p], n) <=> Recorded(mem[p], n)
  BY <1>2, <1>4, <1>6 DEF Recorded
<1>9. \A n \in Nodes : backup'[n] \notin Residue
  BY <1>1, <1>3, <1>4, <1>7 DEF NamedInv, Touched
<1>10. \A n \in Nodes \ {cur[p]} : Touched(n)' = Touched(n)
  BY <1>7 DEF Touched, Blocked
<1>11. \A n \in Nodes : Touched(n)' => Recorded(mem'[p], n)
  BY <1>4, <1>8, <1>10
<1>12. NamedInv'
  BY <1>4, <1>7, <1>8, <1>9, <1>11 DEF NamedInv
<1>13. To(p, next) /\ cur'[p] = cur[p]
  BY <1>1, <1>3, GoesAt
<1>14. MetaOK(p)'
  BY <1>3, <1>6, <1>7, MetaStays
<1>15. \A n \in Services : mem'[p][n].stage = "planned" => ~Touched(n)'
  BY <1>2, <1>4, <1>6, <1>10, NodesAreNumbers
<1>16. EnterOK(p)' /\ BlockOK(p)' /\ RestoreOK(p)'
  BY <1>2, <1>4, <1>5, <1>7, <1>8, <1>13, <1>15 DEF EnterOK, BlockOK, RestoreOK, To
<1>17. next \in Working
  BY <1>2 DEF Working, OwnerSites, EnterSites
<1> QED
  BY <1>3, <1>6, <1>11, <1>12, <1>13, <1>14, <1>16, <1>17, WorkStep

LEMMA CommandDoneRecords ==
  ASSUME RecordsInv, LockInv', NEW p \in Procs, CommandDone(p)
  PROVE  RecordsInv'
<1>1. /\ pc[p] \in CommandSites /\ fd' = fd /\ mem' = mem /\ seq' = seq
      /\ mode'[p] = mode[p] \/ mode' = [mode EXCEPT ![p] = "commands"]
      /\ UNCHANGED <<node, backup, journal, pending, torn, lock, written>>
      /\ \/ pc[p] = "locale" /\ GotoAt(p, "captureServices", 0)
         \/ pc[p] # "locale" /\ StartCleanup(p)
         \/ pc[p] # "locale" /\ GotoAt(p, "restore", cur[p])
  BY DEF CommandDone, NoWrite, disk, meta, locking
<1>2. pc[p] \in Working /\ pc[p] \notin PersistSites /\ pc[p] \in OwnerSites
  BY <1>1 DEF CommandSites, Working, OwnerSites, PersistSites
<1>3. /\ TypeInv /\ NamedInv /\ WorkOK(p) /\ pending = NoJournal /\ MetaOK(p)
  BY <1>2, Owns DEF WorkOK
<1>4. OthersKeep(p)
  BY <1>1, <1>3, TypedProc DEF CommandDone, OthersKeep
<1>5. /\ NamedInv' /\ \A n \in Nodes : Touched(n)' => Recorded(mem'[p], n)
  BY <1>1, <1>3 DEF NamedInv, Touched, Blocked, WorkOK
<1>6. CASE pc[p] = "locale" /\ GotoAt(p, "captureServices", 0)
  <2>1. To(p, "captureServices") /\ "captureServices" \in Working
    BY <1>3, <1>6, GoesAt DEF Working, OwnerSites, EnterSites
  <2>2. MetaOK(p)'
    BY <1>1, <1>3, <1>6, <2>1, MetaStays DEF MetaOK, EnterSites
  <2>3. EnterOK(p)' /\ BlockOK(p)' /\ RestoreOK(p)'
    BY <1>1, <1>3, <1>6, <2>1 DEF WorkOK, EnterOK, BlockOK, RestoreOK, To
  <2> QED
    BY <1>2, <1>4, <1>5, <2>1, <2>2, <2>3, WorkStep
<1>7. CASE StartCleanup(p) \/ GotoAt(p, "restore", cur[p])
  <2>1. To(p, "restore")
    BY <1>3, <1>7, GoesAt, CleansUp
  <2>2. MetaOK(p)'
    BY <1>1, <1>3, <2>1, MetaStays DEF MetaOK, EnterSites, To
  <2> QED
    BY <1>2, <1>4, <1>5, <2>1, <2>2, PlainStep
<1> QED
  BY <1>1, <1>6, <1>7
--------------------------------------------------------------------------------
(* RecordsInv: the transaction is undone *)

\* Whatever an owner does to the nodes stays recorded, in its memory and on disk.
LEMMA NodeWriteNames ==
  ASSUME RecordsInv, NEW p \in Procs, pc[p] \in Working, NodeWrite(p)
  PROVE  NamedInv' /\ \A n \in Nodes : Touched(n)' => Recorded(mem[p], n) /\ Recorded(journal'.recs, n)
<1>1. TypeInv /\ NamedInv /\ WorkOK(p)
  BY Owns
<1>2. /\ journal' = journal /\ pc[p] \in NodeSites /\ cur[p] \in Nodes
      /\ \A m \in Nodes \ {cur[p]} : node'[m] = node[m] /\ backup'[m] = backup[m]
  BY <1>1, NodeWriteIs
<1>3. Absent \notin Residue
  BY DEF Absent, Residue, Injected, Stub
<1>4. \A n \in Nodes \ {cur[p]} : Touched(n)' = Touched(n)
  BY <1>2 DEF Touched, Blocked
<1>5. \A n \in Nodes : Touched(n) => Recorded(mem[p], n) /\ Recorded(journal.recs, n)
  BY <1>1 DEF WorkOK, NamedInv
<1>6. \A n \in {cur[p]} : /\ Touched(n)' => Recorded(mem[p], n) /\ Recorded(journal.recs, n)
                          /\ backup'[n] \notin Residue
  <2>1. CASE pc[p] \in {"displace", "populate"}
    <3>1. cur[p] \in Managed /\ journal.recs = mem[p] /\ \A n \in Managed : Recorded(mem[p], n)
      BY <1>1, <2>1 DEF WorkOK, EnterOK, TypeInv, CursorInv
    <3>2. pc[p] = "displace" => node[cur[p]] \notin Residue
      BY <1>1, <1>2, <2>1 DEF WorkOK, EnterOK
    <3> QED
      BY <1>1, <1>2, <2>1, <3>1, <3>2, NodeWriteIs DEF NamedInv
  <2>2. CASE pc[p] \in {"block", "stub"}
    <3>1. /\ cur[p] \in Services /\ Recorded(mem[p], cur[p])
          /\ \A n \in Nodes : Recorded(mem[p], n) <=> Recorded(journal.recs, n)
          /\ \A n \in Services : mem[p][n].stage = "planned" => ~Touched(n)
          /\ pc[p] = "block" => mem[p][cur[p]].stage = "planned"
      BY <1>1, <2>2 DEF WorkOK, BlockOK
    <3>2. pc[p] = "block" => node[cur[p]] \notin Residue
      BY <3>1 DEF Touched
    <3> QED
      BY <1>1, <1>2, <2>2, <3>1, <3>2, NodeWriteIs DEF NamedInv
  <2>3. CASE pc[p] = "remove"
    <3>1. backup' = backup /\ node'[cur[p]] = Absent
      BY <1>1, <2>3, NodeWriteIs
    <3> QED
      BY <1>1, <1>2, <1>3, <1>5, <3>1 DEF NamedInv, Touched, Blocked
  <2>4. CASE pc[p] \in {"putBack", "drop"}
    <3>1. backup'[cur[p]] = Absent /\ node'[cur[p]] \in {node[cur[p]], backup[cur[p]]}
      BY <1>1, <2>4, NodeWriteIs
    <3>2. \A n \in {cur[p]} : Touched(n)' => Touched(n)
      BY <1>1, <1>2, <3>1 DEF NamedInv, Touched, Blocked
    <3> QED
      BY <1>2, <1>3, <1>5, <3>1, <3>2
  <2> QED
    BY <1>2, <2>1, <2>2, <2>3, <2>4 DEF NodeSites
<1>7. \A n \in Nodes : Touched(n)' => Recorded(mem[p], n) /\ Recorded(journal'.recs, n)
  BY <1>2, <1>4, <1>5, <1>6
<1> QED
  BY <1>1, <1>2, <1>6, <1>7 DEF NamedInv

\* While it is undone as while it is entered.
LEMMA Undoing ==
  ASSUME RecordsInv, NEW p \in Procs, pc[p] \in (RestoreSites \cup {"finish", "unlock"}) \ PersistSites
  PROVE  /\ pc[p] \in Working /\ pc[p] \in OwnerSites /\ TypeInv /\ NamedInv /\ WorkOK(p) /\ MetaOK(p)
         /\ pending = NoJournal
         /\ \A q \in Procs \ {p} : pc[q] \notin OwnerSites \cup CreatorSites
<1>1. pc[p] \in Working /\ pc[p] \notin PersistSites /\ pc[p] \in OwnerSites
  BY DEF Working, OwnerSites, RestoreSites
<1> QED
  BY <1>1, Owns DEF WorkOK

LEMMA DecideRecords ==
  ASSUME RecordsInv, OrigInv, LockInv', NEW p \in Procs, Decide(p)
  PROVE  RecordsInv'
<1> DEFINE n == cur[p]
           rec == mem[p][n]
<1>1. /\ pc[p] = "restore" /\ n # 0 /\ seq' = seq /\ KeepHandle
      /\ UNCHANGED <<node, backup, journal, pending, torn, lock, written>>
  BY DEF Decide, NoWrite, disk, meta, locking
<1>2. /\ pc[p] \in Working /\ pc[p] \in OwnerSites /\ TypeInv /\ NamedInv /\ WorkOK(p) /\ MetaOK(p)
      /\ pending = NoJournal
  BY <1>1, Undoing DEF RestoreSites, PersistSites
<1>3. n \in Nodes
  BY <1>1, <1>2, TypedProc, ConstantsAssumption DEF Nodes
<1>4. \A m \in Nodes : Touched(m)' = Touched(m) /\ Blocked(m)' = Blocked(m)
  BY <1>1 DEF Touched, Blocked
<1>5. NamedInv' /\ \A m \in Nodes : Touched(m) => Recorded(mem[p], m)
  BY <1>1, <1>2, <1>4 DEF NamedInv, WorkOK
<1>6. \A v \in Files : v \notin Residue
  BY ConstantsAssumption DEF Residue
<1>7. rec.stage # "none" => seq[p] # 0
  BY <1>2, <1>3 DEF MetaOK, NoActiveRecord
<1>8. CASE Advance(p) /\ mem' = mem
  <2>1. PICK site \in {"restore", "autoremove"} : To(p, site)
    BY <1>2, <1>8, Advances
  <2>2. OthersKeep(p) /\ fd' = fd
    BY <1>1, <1>2, <1>8, Keeps
  <2>3. MetaOK(p)'
    BY <1>1, <1>2, <1>8, <2>1, <2>2, MetaStays DEF MetaOK, EnterSites, To
  <2> QED
    BY <1>2, <1>4, <1>5, <1>8, <2>1, <2>2, <2>3, PlainStep
<1>9. CASE /\ mem' = mem /\ rec.stage # "none"
           /\ \/ GotoAt(p, "remove", n) /\ (MustPutBack(n, rec) \/ MustRemove(n, rec))
              \/ GotoAt(p, "drop", n) /\ Replaced(n, rec)
              \/ GotoAt(p, "retire", n) /\ AlreadyRestored(n, rec)
  <2>1. PICK site \in {"remove", "drop", "retire"} : GotoAt(p, site, n)
    BY <1>9
  <2>2. To(p, site) /\ cur'[p] = n /\ site \in Working
    BY <1>2, <2>1, GoesAt DEF Working, OwnerSites, RestoreSites
  <2>3. OthersKeep(p) /\ fd' = fd
    BY <1>1, <1>2, <1>9, Keeps
  <2>4. MetaOK(p)'
    BY <1>1, <1>2, <1>7, <1>9, <2>2, <2>3, MetaStays
  <2>5. EnterOK(p)' /\ BlockOK(p)'
    BY <2>1, <2>2 DEF EnterOK, BlockOK, To
  <2>6. pc'[p] = site
    BY <2>2 DEF To
  <2>7. /\ site = "remove" => (rec.orig = Absent <=> ~Blocked(n))
        /\ site = "drop" => node[n] \notin Residue
        /\ site = "retire" => ~Touched(n)
    <3>1. pc' = [pc EXCEPT ![p] = site] /\ pc \in [Procs -> Sites]
      BY <1>2, <2>1, TypedProc DEF GotoAt, Goto
    <3>2. /\ site = "remove" => MustPutBack(n, rec) \/ MustRemove(n, rec)
          /\ site = "drop" => Replaced(n, rec)
          /\ site = "retire" => AlreadyRestored(n, rec)
      BY <1>9, <3>1 DEF GotoAt, Goto
    <3>3. rec.orig \notin Residue
      BY <1>3 DEF OrigInv
    <3> QED
      BY <1>6, <3>2, <3>3 DEF MustPutBack, MustRemove, Replaced, AlreadyRestored, Blocked, Regular, Touched
  <2>8. RestoreOK(p)'
    BY <1>1, <1>3, <1>4, <1>9, <2>2, <2>6, <2>7 DEF RestoreOK
  <2> QED
    BY <1>2, <1>4, <1>5, <1>9, <2>2, <2>3, <2>4, <2>5, <2>8, WorkStep
<1>10. CASE /\ rec.stage = "stubbed" /\ Replaced(n, rec) /\ GotoAt(p, "keep", n)
            /\ mem' = [mem EXCEPT ![p][cur[p]].stage = "preserve"]
  <2>1. /\ mem'[p][n].stage = "preserve" /\ \A m \in Nodes \ {n} : mem'[p][m] = mem[p][m]
        /\ fd'[p] = fd[p] /\ seq'[p] = seq[p] /\ OthersKeep(p)
    BY <1>1, <1>2, <1>3, <1>10, StageIs
  <2>2. To(p, "keep") /\ cur'[p] = n /\ "keep" \in Working
    BY <1>2, <1>10, GoesAt DEF Working, OwnerSites, RestoreSites
  <2>3. node[n] \notin Residue
    BY <1>6, <1>10 DEF Replaced, Regular
  <2>4. MetaOK(p)'
    BY <1>1, <1>2, <1>7, <1>10, <2>1, MetaStays
  <2>5. \A m \in Nodes : Touched(m)' => Recorded(mem'[p], m)
    BY <1>3, <1>4, <1>5, <2>1 DEF Recorded
  <2>6. EnterOK(p)' /\ BlockOK(p)' /\ RestoreOK(p)'
    BY <1>1, <1>7, <1>10, <2>1, <2>2, <2>3 DEF EnterOK, BlockOK, RestoreOK, To
  <2> QED
    BY <1>2, <1>5, <2>1, <2>2, <2>4, <2>5, <2>6, WorkStep
<1> QED
  BY <1>8, <1>9, <1>10 DEF Decide

LEMMA UndoRecords ==
  ASSUME RecordsInv, LockInv', NEW p \in Procs, Remove(p) \/ PutBackOrDrop(p)
  PROVE  RecordsInv'
<1> DEFINE next == IF pc[p] = "remove" /\ mem[p][cur[p]].orig # Absent THEN "putBack" ELSE "retire"
<1>1. /\ pc[p] \in {"remove", "putBack", "drop"} /\ mem' = mem /\ seq' = seq /\ KeepHandle
      /\ NodeWrite(p) /\ GotoAt(p, next, cur[p])
  BY DEF Remove, PutBackOrDrop
<1>2. next \in {"putBack", "retire"} /\ (next = "putBack" <=> pc[p] = "remove" /\ mem[p][cur[p]].orig # Absent)
  OBVIOUS
<1> HIDE DEF next
<1>3. /\ pc[p] \in Working /\ pc[p] \in OwnerSites /\ TypeInv /\ NamedInv /\ WorkOK(p) /\ MetaOK(p)
      /\ pending = NoJournal
  BY <1>1, Undoing DEF RestoreSites, PersistSites
<1>4. OthersKeep(p) /\ fd' = fd /\ UNCHANGED <<journal, pending, torn>>
  BY <1>1, <1>3, Keeps, NodeWriteIs
<1>5. NamedInv' /\ \A n \in Nodes : Touched(n)' => Recorded(mem'[p], n)
  BY <1>1, <1>3, NodeWriteNames
<1>6. To(p, next) /\ cur'[p] = cur[p] /\ next \in Working
  BY <1>1, <1>2, <1>3, GoesAt DEF Working, OwnerSites, RestoreSites
<1>7. seq[p] = 0 => NoActiveRecord(mem'[p]) /\ pc'[p] \notin EnterSites
  BY <1>1, <1>2, <1>3, <1>6 DEF MetaOK, To, EnterSites
<1>8. MetaOK(p)'
  BY <1>3, <1>4, <1>1, <1>7, MetaStays
<1>9. ASSUME next = "retire" PROVE Touched(cur[p])' = FALSE
  <2>1. Absent \notin Residue
    BY DEF Absent, Residue, Injected, Stub
  <2>2. cur[p] \in Nodes /\ \A n \in Nodes : backup[n] \notin Residue
    BY <1>3, <1>1, NodeWriteIs DEF NamedInv
  <2>3. CASE pc[p] = "remove"
    <3>1. backup[cur[p]] = Absent
      BY <1>2, <1>3, <1>9, <2>3 DEF WorkOK, RestoreOK, Blocked
    <3>2. backup' = backup /\ node'[cur[p]] = Absent
      BY <1>1, <1>3, <2>3, NodeWriteIs
    <3> QED
      BY <1>6, <2>1, <3>1, <3>2 DEF Touched, Blocked
  <2>4. CASE pc[p] \in {"putBack", "drop"}
    <3>1. /\ backup'[cur[p]] = Absent
          /\ pc[p] = "putBack" => node'[cur[p]] = backup[cur[p]]
          /\ pc[p] = "drop" => node'[cur[p]] = node[cur[p]] /\ node[cur[p]] \notin Residue
      BY <1>1, <1>3, <2>4, NodeWriteIs DEF WorkOK, RestoreOK
    <3>2. node'[cur[p]] \notin Residue
      BY <2>2, <2>4, <3>1
    <3> QED
      BY <1>6, <3>1, <3>2 DEF Touched, Blocked
  <2> QED
    BY <1>1, <2>3, <2>4
<1>10. EnterOK(p)' /\ BlockOK(p)' /\ RestoreOK(p)'
  BY <1>2, <1>6, <1>9 DEF EnterOK, BlockOK, RestoreOK, To
<1> QED
  BY <1>3, <1>4, <1>5, <1>6, <1>8, <1>10, WorkStep

LEMMA FinishRecords ==
  ASSUME RecordsInv, LockInv', NEW p \in Procs, Finish(p)
  PROVE  RecordsInv'
<1>1. pc[p] = "restore" /\ UNCHANGED <<node, backup, journal, pending, torn, lock, written>>
  BY DEF Finish, NoWrite, disk, meta, locking
<1>2. /\ pc[p] \in Working /\ pc[p] \in OwnerSites /\ TypeInv /\ NamedInv /\ WorkOK(p) /\ MetaOK(p)
      /\ pending = NoJournal
  BY <1>1, Undoing DEF RestoreSites, PersistSites
<1>3. NamedInv' /\ \A n \in Nodes : Touched(n)' => Recorded(mem[p], n)
  BY <1>1, <1>2 DEF NamedInv, Touched, Blocked, WorkOK
<1>4. CASE MayFinish(p)
  <2> DEFINE next == IF seq[p] = 0 THEN "unlock" ELSE "finish"
  <2>1. GotoAt(p, next, 0) /\ mem' = mem /\ seq' = seq /\ KeepHandle
    BY <1>4 DEF Finish
  <2>2. next \in {"unlock", "finish"} /\ (next = "unlock" <=> seq[p] = 0)
    OBVIOUS
  <2> HIDE DEF next
  <2>3. To(p, next) /\ next \in Working
    BY <1>2, <2>1, <2>2, GoesAt DEF Working, OwnerSites
  <2>4. OthersKeep(p) /\ fd' = fd
    BY <1>2, <2>1, Keeps
  <2>5. MetaOK(p)'
    BY <1>1, <1>2, <2>1, <2>2, <2>3, <2>4, MetaStays DEF MetaOK, To, EnterSites
  <2>6. EnterOK(p)' /\ BlockOK(p)' /\ RestoreOK(p)'
    BY <1>4, <2>1, <2>2, <2>3 DEF EnterOK, BlockOK, RestoreOK, To, MayFinish
  <2> QED
    BY <1>2, <1>3, <2>1, <2>3, <2>4, <2>5, <2>6, WorkStep
<1>5. CASE Exit(p)
  BY <1>1, <1>2, <1>3, <1>5, OwnerLeaves DEF Exit
<1> QED
  BY <1>4, <1>5 DEF Finish

\* The lock file is gone, or new: there is nothing on the disk.
LEMMA CleanStep ==
  ASSUME RecordsInv, LockInv', NEW p \in Procs, Clean', OthersKeep(p),
         \A q \in Procs \ {p} : pc'[q] = pc[q] /\ pc[q] \notin OwnerSites,
         pc'[p] \notin OwnerSites, pc'[p] # "close" => seq'[p] = 0 /\ mem'[p] = NoRecords
  PROVE  RecordsInv'
<1>1. JournalInv'
  BY DEF Clean, JournalInv, NoJournal, PendingFits
<1>2. NamedInv'
  <2>1. \A n \in Nodes : ~Touched(n)'
    BY DEF Clean, Untouched
  <2>2. Absent \notin Residue
    BY DEF Absent, Residue, Injected, Stub
  <2> QED
    BY <2>1, <2>2 DEF NamedInv, Touched, Blocked
<1>3. CleanInv'
  BY DEF CleanInv
<1>4. IdleInv'
  BY DEF RecordsInv, IdleInv, OthersKeep
<1>5. \A q \in Procs : OwnerOK(q)'
  BY WorkingIs DEF OwnerOK
<1> QED
  BY <1>1, <1>2, <1>3, <1>4, <1>5 DEF RecordsInv

LEMMA RemoveJournalRecords ==
  ASSUME RecordsInv, LockInv', NEW p \in Procs, RemoveJournal(p)
  PROVE  RecordsInv'
<1>1. pc[p] = "finish"
  BY DEF RemoveJournal
<1>2. /\ pc[p] \in Working /\ pc[p] \in OwnerSites /\ TypeInv /\ NamedInv /\ WorkOK(p) /\ MetaOK(p)
      /\ pending = NoJournal
  BY <1>1, Undoing DEF RestoreSites, PersistSites
<1>3. CASE Exit(p) /\ NoWrite
  <2>1. UNCHANGED <<node, backup, journal, pending, torn, lock, written>>
    BY <1>3 DEF NoWrite, disk, meta, locking
  <2>2. NamedInv'
    BY <1>2, <2>1 DEF NamedInv, Touched, Blocked
  <2> QED
    BY <1>2, <1>3, <2>1, <2>2, OwnerLeaves DEF Exit
<1>4. CASE /\ MetaWrite(p) /\ seq' = [seq EXCEPT ![p] = 0] /\ GotoAt(p, "unlock", 0)
           /\ mem' = mem /\ KeepHandle
  <2>1. journal' = NoJournal /\ pending' = pending /\ UNCHANGED <<node, backup, torn>>
    BY <1>1, <1>4 DEF MetaWrite, ReplaceJournal, UnlinkPending, UnlinkJournal, PersistSites, disk
  <2>2. NoActiveRecord(mem[p]) /\ \A n \in Nodes : Touched(n) => Recorded(mem[p], n)
    BY <1>1, <1>2 DEF WorkOK, RestoreOK
  <2>3. \A n \in Nodes : ~Touched(n)'
    BY <2>1, <2>2 DEF NoActiveRecord, Recorded, Touched, Blocked
  <2>4. NamedInv'
    BY <1>2, <2>1, <2>3 DEF NamedInv
  <2>5. To(p, "unlock") /\ "unlock" \in Working
    BY <1>2, <1>4, GoesAt DEF Working, OwnerSites
  <2>6. OthersKeep(p) /\ fd' = fd /\ seq'[p] = 0
    BY <1>2, <1>4, TypedProc DEF KeepHandle, OthersKeep
  <2>7. MetaOK(p)'
    BY <1>2, <1>4, <2>1, <2>2, <2>5, <2>6 DEF MetaOK, To, EnterSites
  <2>8. EnterOK(p)' /\ BlockOK(p)' /\ RestoreOK(p)'
    BY <1>4, <2>2, <2>5, <2>6 DEF EnterOK, BlockOK, RestoreOK, To
  <2> QED
    BY <1>2, <2>3, <2>4, <2>5, <2>6, <2>7, <2>8, WorkStep
<1> QED
  BY <1>3, <1>4 DEF RemoveJournal

LEMMA UnlockClean ==
  ASSUME RecordsInv, NEW p \in Procs, pc[p] = "unlock"
  PROVE  Clean
<1>1. WorkOK(p) /\ MetaOK(p) /\ pending = NoJournal
  BY Undoing DEF RestoreSites, PersistSites
<1>2. NoActiveRecord(mem[p]) /\ seq[p] = 0
  BY <1>1 DEF WorkOK, RestoreOK
<1> QED
  BY <1>1, <1>2 DEF Clean, Untouched, WorkOK, MetaOK, NoActiveRecord, Recorded

LEMMA UnlockRecords ==
  ASSUME RecordsInv, LockInv', NEW p \in Procs, Unlock(p)
  PROVE  RecordsInv'
<1>1. pc[p] = "unlock" /\ UNCHANGED <<node, backup, journal, pending, torn>>
  BY DEF Unlock, LockWrite, NoWrite, disk, meta
<1>2. /\ pc[p] \in OwnerSites /\ TypeInv /\ NamedInv
      /\ \A q \in Procs \ {p} : pc[q] \notin OwnerSites \cup CreatorSites
  BY <1>1, Undoing DEF RestoreSites, PersistSites
<1>3. CASE Exit(p) /\ NoWrite
  <2>1. UNCHANGED <<lock, written>> /\ NamedInv'
    BY <1>1, <1>2, <1>3 DEF NoWrite, locking, NamedInv, Touched, Blocked
  <2> QED
    BY <1>1, <1>2, <1>3, <2>1, OwnerLeaves DEF Exit
<1>4. CASE GotoAt(p, "close", 0) /\ mem' = mem /\ seq' = seq /\ KeepHandle
  <2>1. To(p, "close") /\ OthersKeep(p)
    BY <1>2, <1>4, GoesAt, Keeps
  <2>2. Clean'
    BY <1>1, UnlockClean DEF Clean, Untouched, Touched, Blocked
  <2> QED
    BY <1>2, <2>1, <2>2, CleanStep, WorkingIs DEF To
<1> QED
  BY <1>3, <1>4 DEF Unlock
--------------------------------------------------------------------------------
(* RecordsInv: failures *)

LEMMA RaiseRecords ==
  ASSUME RecordsInv, LockInv', NEW p \in Procs, Raise(p)
  PROVE  RecordsInv'
<1>1. /\ pc[p] \in FaultSites /\ KeepHandle
      /\ RaiseBefore(p) \/ RaiseAfter(p)
      /\ StartCleanup(p) \/ Advance(p)
  BY DEF Raise
<1>2. pc[p] \in Working /\ pc[p] \in OwnerSites
  BY <1>1 DEF FaultSites, Working, OwnerSites, EnterSites, RestoreSites
<1>3. TypeInv /\ NamedInv /\ WorkOK(p) /\ MetaOK(p)
  BY <1>2, Owns DEF WorkOK
<1>4. PICK site \in {"restore", "autoremove"} : To(p, site)
  BY <1>1, <1>3, CleansUp, Advances
<1>5. pc'[p] \notin EnterSites
  BY <1>4 DEF To, EnterSites
<1>6. fd' = fd /\ mode' = mode
  BY <1>1 DEF KeepHandle
<1>7. CASE RaiseBefore(p)
  <2>1. UNCHANGED <<node, backup, journal, torn, lock, written, seq>>
    BY <1>7 DEF RaiseBefore, disk, locking
  <2>2. pending' = NoJournal
    BY <1>3, <1>7, RecordsLeftType DEF RaiseBefore, MetaOK, JournalData, Prepared
  <2>3. /\ \A n \in Nodes : Recorded(mem[p], n) => Recorded(mem'[p], n)
        /\ OthersKeep(p) /\ fd'[p] = fd[p] /\ seq'[p] = seq[p]
        /\ seq[p] = 0 => mem'[p] = mem[p]
    <3>1. CASE pc[p] = "keep"
      <4>1. cur[p] \in Nodes /\ seq[p] # 0
        BY <1>3, <3>1 DEF TypeInv, CursorInv, RestoreSites, WorkOK, RestoreOK
      <4>2. mem' = [mem EXCEPT ![p][cur[p]].stage = "stubbed"] /\ seq' = seq
        BY <1>7, <3>1 DEF RaiseBefore
      <4>3. /\ mem'[p][cur[p]].stage = "stubbed" /\ \A m \in Nodes \ {cur[p]} : mem'[p][m] = mem[p][m]
            /\ fd'[p] = fd[p] /\ seq'[p] = seq[p] /\ OthersKeep(p)
        BY <1>1, <1>3, <4>1, <4>2, StageIs
      <4> QED
        BY <4>1, <4>3 DEF Recorded
    <3>2. CASE pc[p] # "keep"
      <4>1. mem' = mem /\ seq' = seq
        BY <1>7, <3>2 DEF RaiseBefore
      <4> QED
        BY <1>6, <4>1 DEF OthersKeep
    <3> QED
      BY <3>1, <3>2
  <2>4. NamedInv' /\ \A n \in Nodes : Touched(n)' => Recorded(mem'[p], n)
    BY <1>3, <2>1, <2>3 DEF NamedInv, Touched, Blocked, WorkOK
  <2>5. MetaOK(p)'
    BY <1>3, <1>5, <2>1, <2>2, <2>3 DEF MetaOK
  <2> QED
    BY <1>2, <1>4, <2>3, <2>4, <2>5, PlainStep
<1>8. CASE RaiseAfter(p) /\ pc[p] \in PersistSites
  <2>1. MetaWrite(p) /\ mem' = mem /\ seq' = [seq EXCEPT ![p] = seq[p] + 1]
    BY <1>3, <1>8, NodeWriteIs DEF RaiseAfter, NodeSites, PersistSites
  <2>2. OthersKeep(p) /\ seq'[p] = seq[p] + 1
    BY <1>3, <1>6, <2>1, TypedProc DEF OthersKeep
  <2>3. /\ NamedInv' /\ MetaOK(p)'
        /\ \A n \in Nodes : Touched(n)' = Touched(n) /\ Blocked(n)' = Blocked(n)
    BY <1>6, <1>8, <2>1, <2>2, Written
  <2>4. \A n \in Nodes : Touched(n)' => Recorded(mem'[p], n)
    BY <1>3, <2>1, <2>3 DEF WorkOK
  <2> QED
    BY <1>2, <1>4, <2>2, <2>3, <2>4, PlainStep
<1>9. CASE RaiseAfter(p) /\ pc[p] \notin PersistSites
  <2>1. NodeWrite(p) /\ mem' = mem /\ seq' = seq
    BY <1>1, <1>9 DEF RaiseAfter, MetaWrite, ReplaceJournal, UnlinkPending, UnlinkJournal, FaultSites,
       EnterSites, RestoreSites
  <2>2. OthersKeep(p) /\ UNCHANGED <<journal, pending, torn>>
    BY <1>3, <1>6, <2>1, NodeWriteIs DEF OthersKeep
  <2>3. NamedInv' /\ \A n \in Nodes : Touched(n)' => Recorded(mem'[p], n)
    BY <1>2, <2>1, NodeWriteNames
  <2>4. MetaOK(p)'
    BY <1>3, <1>5, <1>6, <1>9, <2>1, <2>2, MetaStays DEF MetaOK
  <2> QED
    BY <1>2, <1>4, <2>2, <2>3, <2>4, PlainStep
<1> QED
  BY <1>1, <1>7, <1>8, <1>9

LEMMA CrashRecords ==
  ASSUME RecordsInv, LockInv', NEW p \in Procs, Crash(p)
  PROVE  RecordsInv'
<1>1. /\ Leave(p, "idle") /\ UNCHANGED <<node, backup, journal, pending, lock, written>>
      /\ torn' \in {torn, torn \/ (TornWrites /\ pc[p] \in PersistSites /\ PersistAllowed(p))}
      /\ TypeInv
  BY DEF Crash, Exit, disk, locking, RecordsInv, LockInv
<1>2. NamedInv'
  BY <1>1 DEF RecordsInv, NamedInv, Touched, Blocked
<1>3. CASE pc[p] \in OwnerSites
  BY <1>1, <1>2, <1>3, OwnerLeaves
<1>4. CASE pc[p] \notin OwnerSites
  <2>1. To(p, "idle") /\ OthersKeep(p) /\ seq'[p] = 0 /\ mem'[p] = NoRecords
    BY <1>1, GoesTo, TypedProc DEF Leave, OthersKeep
  <2>2. \A q \in Procs \ {p} : cur'[q] = cur[q]
    BY <1>1, <1>4, TypedProc DEF Leave
  <2>3. pc[p] \notin PersistSites /\ torn \in BOOLEAN
    BY <1>1, <1>4, WorkingIs, TypedProc
  <2>4. torn' = torn
    BY <1>1, <2>3
  <2> QED
    BY <1>1, <1>4, <2>1, <2>2, <2>4, QuietStep, WorkingIs
<1> QED
  BY <1>3, <1>4
--------------------------------------------------------------------------------
(* RecordsInv: the lock *)

\* There is no owner but the one that has just written its lock file.
LEMMA Creating ==
  ASSUME RecordsInv, NEW p \in Procs, pc[p] \in CreatorSites \cup {"create"}, pc[p] = "create" => lock = 0
  PROVE  /\ TypeInv /\ LockInv /\ Clean /\ seq[p] = 0 /\ mem[p] = NoRecords
         /\ pc[p] # "abandonLock" => \A q \in Procs \ {p} : pc[q] \notin OwnerSites
         /\ pc[p] # "create" => \A q \in Procs \ {p} : pc[q] \notin CreatorSites
<1>1. LockInv /\ TypeInv /\ Clean
  BY DEF RecordsInv, LockInv, CleanInv
<1>2. seq[p] = 0 /\ mem[p] = NoRecords
  <2>1. pc[p] \notin OwnerSites \cup {"close"}
    BY WorkingIs DEF CreatorSites, OwnerSites, EnterSites, RestoreSites, CommandSites
  <2> QED
    BY <2>1 DEF RecordsInv, IdleInv
<1>3. \A q \in Procs : pc[q] \in OwnerSites => lock # 0 /\ lock \in written
  BY <1>1 DEF LockInv, OwnerInv, OwnsLockPath, FreshInv
<1>4. pc[p] \in {"flockNew", "writeLock"} => lock \notin written
  BY <1>1 DEF LockInv, CreatorInv, CreatorSites
<1> QED
  BY <1>1, <1>2, <1>3, <1>4 DEF LockInv, OneCreatorInv, CreatorSites

LEMMA AcquireRecords ==
  ASSUME RecordsInv, LockInv', NEW p \in Procs, Start(p) \/ Acquire(p) \/ Close(p)
  PROVE  RecordsInv'
<1>1. TypeInv /\ NoJournal.tok = 0
  BY DEF RecordsInv, LockInv, NoJournal
<1>2. NoWrite => UNCHANGED <<node, backup, journal, pending, torn, lock, written>>
  BY DEF NoWrite, disk, meta, locking
<1>3. pc[p] \in {"idle", "flock", "bind", "create", "flockNew"} => seq[p] = 0 /\ mem[p] = NoRecords
  BY DEF RecordsInv, IdleInv, OwnerSites, EnterSites, RestoreSites, CommandSites
<1>4. pc[p] \in {"idle", "flock", "bind", "create", "flockNew", "close"} => pc[p] \notin OwnerSites
  BY DEF OwnerSites, EnterSites, RestoreSites, CommandSites
<1>5. ASSUME NoWrite, pc[p] \notin OwnerSites, NEW site \in {"idle", "create"}, Leave(p, site)
      PROVE  RecordsInv'
  <2>1. To(p, site) /\ OthersKeep(p) /\ seq'[p] = 0 /\ mem'[p] = NoRecords
    BY <1>1, <1>5, GoesTo, TypedProc DEF Leave, OthersKeep
  <2>2. \A q \in Procs \ {p} : cur'[q] = cur[q]
    BY <1>1, <1>5, TypedProc DEF Leave
  <2>3. site \notin OwnerSites \cup CreatorSites
    BY DEF OwnerSites, EnterSites, RestoreSites, CommandSites, CreatorSites
  <2> QED
    BY <1>2, <1>5, <2>1, <2>2, <2>3, QuietStep
<1>6. ASSUME NoWrite, pc[p] \in {"idle", "flock", "bind", "create", "flockNew"}, UNCHANGED <<mem, seq, cur>>,
             \A q \in Procs \ {p} : fd'[q] = fd[q] /\ mode'[q] = mode[q],
             NEW site \in {"flock", "create", "bind", "abandonLock", "writeLock"}, Goto(p, site),
             site \in CreatorSites => pc[p] = "flockNew"
      PROVE  RecordsInv'
  <2>1. To(p, site) /\ OthersKeep(p) /\ seq'[p] = 0 /\ mem'[p] = NoRecords
    BY <1>1, <1>3, <1>6, GoesTo DEF OthersKeep
  <2>2. site \notin OwnerSites /\ site # "close" /\ "flockNew" \in CreatorSites
    BY DEF OwnerSites, EnterSites, RestoreSites, CommandSites, CreatorSites
  <2> QED
    BY <1>2, <1>4, <1>6, <2>1, <2>2, QuietStep
<1>7. CASE Start(p)
  <2>1. pc[p] = "idle" /\ UNCHANGED <<mem, seq, cur>> /\ NoWrite
    BY <1>7 DEF Start
  <2>2. PICK site \in {"flock", "create"} : Goto(p, site)
    BY <1>7 DEF Start
  <2>3. \A q \in Procs \ {p} : fd'[q] = fd[q] /\ mode'[q] = mode[q]
    BY <1>1, <1>7, TypedProc DEF Start
  <2> QED
    BY <1>6, <2>1, <2>2, <2>3 DEF CreatorSites
<1>8. CASE FlockStale(p)
  <2>1. CASE Exit(p)
    BY <1>4, <1>5, <1>8, <2>1 DEF FlockStale, Exit
  <2>2. CASE Goto(p, "bind") /\ UNCHANGED <<fd, mode, mem, seq, cur>>
    BY <1>6, <1>8, <2>2 DEF FlockStale, CreatorSites
  <2> QED
    BY <1>8, <2>1, <2>2 DEF FlockStale
<1>9. CASE Bind(p)
  <2>1. CASE Exit(p)
    BY <1>4, <1>5, <1>9, <2>1 DEF Bind, Exit
  <2>2. CASE RecoveryAccepts(fd[p]) /\ ~Exit(p)
    <3>1. /\ pc[p] = "bind" /\ To(p, "dropPending") /\ mem'[p] = journal.recs /\ seq'[p] = journal.seq
          /\ OthersKeep(p) /\ fd' = fd /\ cur' = cur
          /\ UNCHANGED <<node, backup, journal, pending, torn, lock, written>>
      BY <1>1, <1>2, <1>9, <2>2, GoesTo, TypedProc DEF Bind, OthersKeep
    <3>2. ~torn /\ journal.tok \in {0, fd[p]} /\ lock = fd[p] /\ lock \in written /\ lock # 0
      BY <2>2 DEF RecoveryAccepts, RecordsInv, LockInv, FreshInv
    <3>3. JournalInv' /\ NamedInv'
      BY <3>1 DEF RecordsInv, JournalInv, PendingFits, NamedInv, Touched, Blocked
    <3>4. CleanInv'
      BY <3>1, <3>2 DEF RecordsInv, CleanInv, To, CreatorSites, Clean, Untouched, Touched, Blocked
    <3>5. IdleInv'
      BY <3>1, WorkingIs DEF RecordsInv, IdleInv, To, OthersKeep
    <3>6. OwnerOK(p)'
      BY <3>1, <3>2 DEF OwnerOK, TakenOver, To, Working
    <3>7. ASSUME NEW q \in Procs, q # p PROVE OwnerOK(q)'
      <4>1. /\ pc'[q] = pc[q] /\ mem'[q] = mem[q] /\ seq'[q] = seq[q] /\ fd'[q] = fd[q] /\ cur'[q] = cur[q]
        BY <3>1, <3>7 DEF To, OthersKeep
      <4> QED
        BY <3>1, <4>1 DEF RecordsInv, OwnerOK, TakenOver, WorkOK, MetaOK, EnterOK, BlockOK, RestoreOK,
           Untouched, Touched, Blocked, JournalData, RecordsLeft
    <3> QED
      BY <3>3, <3>4, <3>5, <3>6, <3>7 DEF RecordsInv
  <2> QED
    BY <1>9, <2>1, <2>2 DEF Bind
<1>10. CASE Create(p)
  <2>1. CASE Exit(p) /\ NoWrite
    BY <1>4, <1>5, <1>10, <2>1 DEF Create, Exit
  <2>2. CASE ~(Exit(p) /\ NoWrite)
    <3>1. /\ pc[p] = "create" /\ lock = 0 /\ fd' = [fd EXCEPT ![p] = locks + 1]
          /\ mode' = [mode EXCEPT ![p] = "enter"] /\ Goto(p, "flockNew")
          /\ UNCHANGED <<node, backup, journal, pending, torn, mem, seq, cur>>
      BY <1>10, <2>2 DEF Create, disk, meta
    <3>2. Clean /\ seq[p] = 0 /\ mem[p] = NoRecords /\ \A q \in Procs \ {p} : pc[q] \notin OwnerSites
      BY <3>1, Creating
    <3>3. To(p, "flockNew") /\ OthersKeep(p) /\ "flockNew" \notin OwnerSites
      BY <1>1, <3>1, GoesTo, TypedProc, WorkingIs DEF OthersKeep, CreatorSites
    <3>4. Clean'
      BY <3>1, <3>2 DEF Clean, Untouched, Touched, Blocked
    <3> QED
      BY <3>1, <3>2, <3>3, <3>4, CleanStep DEF To
  <2> QED
    BY <2>1, <2>2
<1>11. CASE FlockNew(p)
  <2>1. PICK site \in {"abandonLock", "writeLock"} : Goto(p, site)
    BY <1>11 DEF FlockNew
  <2> QED
    BY <1>6, <1>11, <2>1 DEF FlockNew
<1>12. CASE WriteLock(p)
  <2>1. /\ pc[p] = "writeLock" /\ To(p, "journalInit") /\ mem' = mem /\ seq' = seq /\ fd' = fd /\ OthersKeep(p)
        /\ UNCHANGED <<node, backup, journal, pending, torn>>
    BY <1>1, <1>12, GoesTo, Keeps DEF WriteLock, LockWrite, disk, meta, KeepHandle
  <2>2. /\ Clean /\ seq[p] = 0 /\ mem[p] = NoRecords
        /\ \A q \in Procs \ {p} : pc[q] \notin OwnerSites \cup CreatorSites
    BY <2>1, Creating DEF CreatorSites
  <2>3. \A n \in Nodes : ~Touched(n)' /\ backup[n] = Absent
    BY <2>1, <2>2 DEF Clean, Untouched, Touched, Blocked
  <2>4. NamedInv'
    BY <2>1, <2>3 DEF NamedInv, RecordsInv
  <2>5. NoActiveRecord(mem'[p]) /\ \A n \in Services : mem'[p][n].stage = "none"
    BY <2>1, <2>2, NodesAreNumbers DEF NoActiveRecord, NoRecords, NoRecord
  <2>6. MetaOK(p)'
    BY <2>1, <2>2, <2>5 DEF MetaOK, Clean, To
  <2>7. EnterOK(p)' /\ BlockOK(p)' /\ RestoreOK(p)'
    BY <2>1, <2>3, <2>5 DEF EnterOK, BlockOK, RestoreOK, To, Untouched
  <2>8. WorkOK(p)' /\ "journalInit" \in Working
    BY <2>3, <2>6, <2>7 DEF WorkOK, Working, OwnerSites, EnterSites
  <2> QED
    BY <2>1, <2>2, <2>4, <2>8, OwnerStep DEF To
<1>13. CASE AbandonLock(p)
  <2>1. /\ pc[p] = "abandonLock" /\ Leave(p, "idle")
        /\ UNCHANGED <<node, backup, journal, pending, torn>>
    BY <1>13 DEF AbandonLock, LockWrite, disk, meta, Exit
  <2>2. /\ Clean /\ \A q \in Procs \ {p} : pc[q] \notin OwnerSites
    BY <2>1, Creating, Alone DEF CreatorSites, RecordsInv
  <2>3. Clean'
    BY <2>1, <2>2 DEF Clean, Untouched, Touched, Blocked
  <2>4. To(p, "idle") /\ OthersKeep(p) /\ seq'[p] = 0 /\ mem'[p] = NoRecords
    BY <1>1, <2>1, GoesTo, TypedProc DEF Leave, OthersKeep
  <2> QED
    BY <2>2, <2>3, <2>4, CleanStep, WorkingIs DEF To
<1>14. CASE DropPending(p)
  BY <1>14, DropPendingRecords
<1>15. CASE Close(p)
  <2>1. pc[p] = "close" /\ NoWrite /\ \E site \in {"idle", "create"} : Leave(p, site)
    BY <1>15 DEF Close, Exit
  <2> QED
    BY <1>4, <1>5, <2>1
<1> QED
  BY <1>7, <1>8, <1>9, <1>10, <1>11, <1>12, <1>13, <1>14, <1>15 DEF Acquire

LEMMA RaiseOutRecords ==
  ASSUME RecordsInv, LockInv', NEW p \in Procs, RaiseOut(p)
  PROVE  RecordsInv'
<1>1. TypeInv
  BY DEF RecordsInv, LockInv
<1>2. ASSUME Clean, UNCHANGED <<node, backup, journal, pending, torn>>,
             \A q \in Procs \ {p} : pc[q] \notin OwnerSites,
             NEW site \in {"idle", "abandonLock"}, To(p, site), OthersKeep(p), seq'[p] = 0, mem'[p] = NoRecords
      PROVE  RecordsInv'
  <2>1. Clean'
    BY <1>2 DEF Clean, Untouched, Touched, Blocked
  <2>2. site \notin OwnerSites
    BY WorkingIs DEF CreatorSites
  <2> QED
    BY <1>2, <2>1, <2>2, CleanStep DEF To
<1>3. Exit(p) => /\ To(p, "idle") /\ OthersKeep(p) /\ seq'[p] = 0 /\ mem'[p] = NoRecords
  BY <1>1, GoesTo, TypedProc DEF Exit, Leave, OthersKeep
<1>4. CASE pc[p] \in {"flockNew", "writeLock"}
  <2>2. UNCHANGED <<node, backup, journal, pending, torn>>
    BY <1>4 DEF RaiseOut, NoWrite, LockWrite, disk, meta
  <2>3. /\ Clean /\ seq[p] = 0 /\ mem[p] = NoRecords
        /\ \A q \in Procs \ {p} : pc[q] \notin OwnerSites
    BY <1>4, Creating DEF CreatorSites
  <2>4. To(p, "abandonLock") /\ OthersKeep(p)
    BY <1>1, <1>4, GoesTo, Keeps DEF RaiseOut
  <2>5. seq'[p] = 0 /\ mem'[p] = NoRecords
    BY <1>4, <2>3 DEF RaiseOut
  <2> QED
    BY <1>2, <2>2, <2>3, <2>4, <2>5
<1>5. CASE pc[p] \in {"unlock", "abandonLock"}
  <2>1. Exit(p) /\ UNCHANGED <<node, backup, journal, pending, torn>>
    BY <1>5 DEF RaiseOut, NoWrite, LockWrite, MetaWrite, ReplaceJournal, UnlinkPending, UnlinkJournal,
       PersistSites, disk, meta
  <2>2. Clean /\ \A q \in Procs \ {p} : pc[q] \notin OwnerSites
    <3>1. CASE pc[p] = "unlock"
      BY <3>1, UnlockClean, OwnerFacts DEF OwnerSites
    <3>2. CASE pc[p] = "abandonLock"
      BY <3>2, Creating, Alone DEF CreatorSites, RecordsInv
    <3> QED
      BY <1>5, <3>1, <3>2
  <2> QED
    BY <1>2, <1>3, <2>1, <2>2
<1>6. CASE pc[p] \in {"dropPending", "finish"}
  <2>1. /\ Exit(p) /\ UNCHANGED <<node, backup, lock, written>> /\ pc[p] \in OwnerSites
        /\ \/ UNCHANGED <<journal, pending>>
           \/ pc[p] = "dropPending" /\ pending' = NoJournal /\ journal' = journal
           \/ pc[p] = "finish" /\ pending' = pending /\ journal' = NoJournal
    BY <1>6 DEF RaiseOut, NoWrite, LockWrite, WriteOwner, UnlinkLock, MetaWrite, ReplaceJournal, UnlinkPending,
       UnlinkJournal, PersistSites, OwnerSites, disk, meta, locking
  <2>2. NamedInv /\ \A n \in Nodes : Touched(n)' = Touched(n)
    BY <2>1 DEF RecordsInv, Touched, Blocked
  <2>3. pc[p] = "finish" => pending = NoJournal /\ \A n \in Nodes : ~Touched(n)
    BY Undoing DEF RestoreSites, PersistSites, WorkOK, RestoreOK, NoActiveRecord, Recorded
  <2>4. NamedInv'
    BY <2>1, <2>2, <2>3 DEF NamedInv
  <2> QED
    BY <2>1, <2>3, <2>4, OwnerLeaves DEF Exit
<1> QED
  BY <1>4, <1>5, <1>6 DEF RaiseOut
--------------------------------------------------------------------------------
(* OrigInv and RecordsInv are kept *)

LEMMA InitRecords == Init => RecordsInv /\ OrigInv
<1> SUFFICES ASSUME Init PROVE RecordsInv /\ OrigInv
  OBVIOUS
<1>1. LockInv
  BY InitLock
<1>2. Original \notin Residue /\ Absent \notin Residue
  BY ConstantsAssumption DEF Residue, Absent, Injected, Stub
<1>3. \A n \in Nodes : /\ NoJournal.recs[n] = NoRecord /\ NoRecords[n] = NoRecord
  BY DEF NoJournal, NoRecords
<1>4. OrigInv
  BY <1>2, <1>3 DEF Init, OrigInv, NoRecord
<1>5. \A n \in Nodes : node[n] \notin Residue /\ backup[n] = Absent
  BY <1>2 DEF Init
<1>6. JournalInv /\ NamedInv /\ CleanInv /\ IdleInv
  BY <1>2, <1>5 DEF Init, JournalInv, PendingFits, NamedInv, Touched, Blocked, CleanInv, Clean, Untouched,
     IdleInv, NoJournal
<1>7. \A p \in Procs : OwnerOK(p)
  BY WorkingIs DEF Init, OwnerOK
<1> QED
  BY <1>1, <1>4, <1>6, <1>7 DEF RecordsInv

LEMMA JournalWriteIs ==
  ASSUME NEW p \in Procs, Start(p) \/ Step(p) \/ RaiseOut(p) \/ Crash(p), journal' # journal
  PROVE  MetaWrite(p)
BY DEF Start, Step, Acquire, Enter, Cleanup, RaiseOut, Crash, FlockStale, Bind, DropPending, Create,
   FlockNew, WriteLock, AbandonLock, Prepare, Commit, CaptureManaged, CaptureServices, Capture, Displace,
   Populate, Block, MakeStub, CommandDone, Decide, Remove, PutBackOrDrop, Finish, RemoveJournal, Unlock,
   Close, Raise, RaiseBefore, RaiseAfter, NodeWrite, LockWrite, NoWrite, meta

\* Records are copied, or taken of a node on which nothing was done yet.
LEMMA StepOrig ==
  ASSUME RecordsInv, OrigInv, NEW p \in Procs, Start(p) \/ Step(p) \/ RaiseOut(p) \/ Crash(p)
  PROVE  OrigInv'
<1> DEFINE Plain(recs) == \A n \in Nodes : recs[n].orig \notin Residue
<1>1. /\ mem \in [Procs -> [Nodes -> Records]] /\ TypeInv
      /\ Plain(journal.recs) /\ \A q \in Procs : Plain(mem[q])
  BY DEF RecordsInv, LockInv, TypeInv, TypeOK, OrigInv
<1>2. Absent \notin Residue
  BY DEF Residue, Absent, Injected, Stub
<1>3. Plain(NoRecords) /\ Plain(NoJournal.recs) /\ Plain(RecordsLeft(p))
  <2>1. Plain(NoRecords) /\ Plain(NoJournal.recs)
    BY <1>2 DEF NoRecords, NoJournal, NoRecord
  <2>2. Plain(RecordsLeft(p))
    BY <1>1, <1>2, TypedProc DEF RecordsLeft, NoRecord
  <2> QED
    BY <2>1, <2>2
<1>4. Plain(journal'.recs)
  <2>1. CASE journal' = journal
    BY <1>1, <2>1
  <2>2. CASE journal' # journal
    <3>1. MetaWrite(p)
      BY <2>2, JournalWriteIs
    <3>2. CASE pc[p] \in PersistSites
      <4>1. journal' = JournalData(p)
        BY <3>1, <3>2, ReplaceIs
      <4> QED
        BY <1>3, <4>1 DEF JournalData
    <3>3. CASE pc[p] \notin PersistSites
      BY <1>3, <2>2, <3>1, <3>3 DEF MetaWrite, ReplaceJournal, UnlinkPending, UnlinkJournal
    <3> QED
      BY <3>2, <3>3
  <2> QED
    BY <2>1, <2>2
<1>5. ASSUME NEW recs, Plain(recs), mem' = [mem EXCEPT ![p] = recs]
      PROVE  \A q \in Procs : Plain(mem'[q])
  <2>1. \A q \in Procs : mem'[q] = IF q = p THEN recs ELSE mem[q]
    BY <1>1, <1>5
  <2> QED
    BY <1>1, <1>5, <2>1
<1>6. ASSUME NEW stage, cur[p] \in Nodes, mem' = [mem EXCEPT ![p][cur[p]].stage = stage]
      PROVE  \A q \in Procs : Plain(mem'[q])
  <2> DEFINE recs == [mem[p] EXCEPT ![cur[p]].stage = stage]
  <2>1. mem[p] \in [Nodes -> Records]
    BY <1>1
  <2>2. \A n \in Nodes : recs[n].orig = mem[p][n].orig
    <3>1. \A n \in Nodes : recs[n] = IF n = cur[p] THEN [mem[p][n] EXCEPT !.stage = stage] ELSE mem[p][n]
      BY <2>1
    <3>2. \A n \in Nodes : mem[p][n] \in Records
      BY <2>1
    <3>3. \A r \in Records : [r EXCEPT !.stage = stage].orig = r.orig
      BY DEF Records
    <3> HIDE DEF recs
    <3> QED
      BY <3>1, <3>2, <3>3
  <2>3. mem' = [mem EXCEPT ![p] = recs]
    BY <1>6
  <2> HIDE DEF recs
  <2> QED
    BY <1>1, <1>5, <2>2, <2>3
<1>7. CASE mem' = mem
  BY <1>1, <1>4, <1>7 DEF OrigInv
<1>8. CASE mem' # mem
  <2>1. CASE Start(p) \/ RaiseOut(p) \/ Crash(p) \/ Acquire(p) \/ Prepare(p) \/ CommandDone(p)
    <3>1. mem' \in {[mem EXCEPT ![p] = NoRecords], [mem EXCEPT ![p] = journal.recs]}
      BY <1>8, <2>1 DEF Start, RaiseOut, Crash, Acquire, FlockStale, Bind, DropPending, Create, FlockNew,
         WriteLock, AbandonLock, Prepare, CommandDone, Exit, Leave
    <3>2. \A q \in Procs : Plain(mem'[q])
      BY <1>1, <1>3, <1>5, <3>1
    <3> QED
      BY <1>4, <3>2 DEF OrigInv
  <2>2. CASE Commit(p)
    <3>1. \A q \in Procs : Plain(mem'[q])
      BY <1>3, <1>5, <2>2 DEF Commit
    <3> QED
      BY <1>4, <3>1 DEF OrigInv
  <2>3. CASE CaptureManaged(p) \/ CaptureServices(p)
    <3> DEFINE present == {n \in Services : node[n] # Absent}
               nodes == IF pc[p] = "captureManaged" THEN Managed ELSE present
               stage == IF pc[p] = "captureManaged" THEN "managed" ELSE "planned"
               recs  == [n \in Nodes |-> IF n \in nodes THEN [stage |-> stage, orig |-> node[n]] ELSE mem[p][n]]
    <3>1. pc[p] \in {"captureManaged", "captureServices"} /\ mem' = [mem EXCEPT ![p] = recs]
      BY <1>8, <2>3 DEF CaptureManaged, CaptureServices, Capture
    <3>2. pc[p] \in EnterSites \ {"journalInit"}
      BY <3>1 DEF EnterSites
    <3>3. WorkOK(p)
      BY <3>2, Entering
    <3>4. /\ pc[p] = "captureManaged" => \A n \in Nodes : ~Touched(n)
          /\ pc[p] = "captureServices" => \A n \in Services : ~Touched(n)
      BY <3>3, NodesAreNumbers DEF WorkOK, EnterOK, Untouched, Recorded
    <3>5. \A n \in nodes : node[n] \notin Residue
      BY <3>1, <3>4, NodesAreNumbers DEF Touched
    <3>6. Plain(recs)
      BY <1>1, <3>5
    <3> HIDE DEF recs
    <3>7. \A q \in Procs : Plain(mem'[q])
      BY <1>5, <3>1, <3>6
    <3> QED
      BY <1>4, <3>7 DEF OrigInv
  <2>4. CASE Block(p) \/ MakeStub(p) \/ Decide(p) \/ (Raise(p) /\ pc[p] = "keep")
    <3>1. PICK stage \in {"renamed", "stubbed", "preserve"} : mem' = [mem EXCEPT ![p][cur[p]].stage = stage]
      BY <1>8, <2>4 DEF Block, MakeStub, Decide, Raise, RaiseBefore, RaiseAfter
    <3>2. cur[p] \in Nodes
      <4>1. CASE Decide(p)
        BY <1>1, <4>1, TypedProc, ConstantsAssumption DEF Decide, Nodes
      <4>2. CASE ~Decide(p)
        <5>1. pc[p] \in {"block", "stub", "keep"}
          BY <2>4, <4>2 DEF Block, MakeStub
        <5> QED
          BY <1>1, <5>1 DEF TypeInv, CursorInv, RestoreSites
      <4> QED
        BY <4>1, <4>2
    <3>3. \A q \in Procs : Plain(mem'[q])
      BY <1>6, <3>1, <3>2
    <3> QED
      BY <1>4, <3>3 DEF OrigInv
  <2>5. CASE Displace(p) \/ Populate(p) \/ Remove(p) \/ PutBackOrDrop(p) \/ (Raise(p) /\ pc[p] # "keep")
    BY <1>8, <2>5 DEF Displace, Populate, Remove, PutBackOrDrop, Raise, RaiseBefore, RaiseAfter
  <2>6. CASE Finish(p) \/ RemoveJournal(p) \/ Unlock(p) \/ Close(p)
    <3>1. mem' = [mem EXCEPT ![p] = NoRecords]
      BY <1>8, <2>6 DEF Finish, RemoveJournal, Unlock, Close, Exit, Leave
    <3>2. \A q \in Procs : Plain(mem'[q])
      BY <1>3, <1>5, <3>1
    <3> QED
      BY <1>4, <3>2 DEF OrigInv
  <2> QED
    BY <2>1, <2>2, <2>3, <2>4, <2>5, <2>6 DEF Step, Enter, Cleanup
<1> QED
  BY <1>7, <1>8

LEMMA StepRecords == RecordsInv /\ OrigInv /\ [Next]_vars => RecordsInv' /\ OrigInv'
<1> SUFFICES ASSUME RecordsInv, OrigInv, [Next]_vars PROVE RecordsInv' /\ OrigInv'
  OBVIOUS
<1>1. LockInv'
  BY StepLock DEF RecordsInv
<1>2. CASE CommandWrites \/ OrphanEnds \/ UNCHANGED vars
  <2>1. UNCHANGED <<journal, mem>>
    BY <1>2 DEF CommandWrites, OrphanEnds, vars, meta
  <2> QED
    BY <1>1, <1>2, <2>1, EnvironmentRecords DEF OrigInv
<1>3. ASSUME NEW p \in Procs, Start(p) \/ Step(p) \/ RaiseOut(p) \/ Crash(p)
      PROVE  RecordsInv' /\ OrigInv'
  <2>1. OrigInv'
    BY <1>3, StepOrig
  <2>2. CASE Step(p)
    <3>1. CASE Acquire(p) \/ Close(p)
      BY <1>1, <2>1, <3>1, AcquireRecords
    <3>2. CASE Prepare(p) \/ Commit(p)
      BY <1>1, <2>1, <3>2, PrepareRecords, CommitRecords
    <3>3. CASE CommandDone(p) \/ Raise(p)
      BY <1>1, <2>1, <3>3, CommandDoneRecords, RaiseRecords
    <3>4. CASE CaptureManaged(p) \/ CaptureServices(p)
      BY <1>1, <2>1, <3>4, CaptureManagedRecords, CaptureServicesRecords
    <3>5. CASE Displace(p) \/ Populate(p) \/ Block(p) \/ MakeStub(p)
      BY <1>1, <2>1, <3>5, DisplaceRecords, PopulateRecords, BlockingRecords
    <3>6. CASE Decide(p) \/ Remove(p) \/ PutBackOrDrop(p)
      BY <1>1, <2>1, <3>6, DecideRecords, UndoRecords
    <3>7. CASE Finish(p) \/ RemoveJournal(p) \/ Unlock(p)
      BY <1>1, <2>1, <3>7, FinishRecords, RemoveJournalRecords, UnlockRecords
    <3> QED
      BY <2>2, <3>1, <3>2, <3>3, <3>4, <3>5, <3>6, <3>7 DEF Step, Enter, Cleanup
  <2> QED
    BY <1>1, <1>3, <2>1, <2>2, AcquireRecords, RaiseOutRecords, CrashRecords
<1> QED
  BY <1>2, <1>3 DEF Next
--------------------------------------------------------------------------------
(* What follows for every lock file, owner and node *)

LEMMA RecordsKept == Spec => [](RecordsInv /\ OrigInv)
BY InitRecords, StepRecords, PTL DEF Spec

\* transaction.py: _persist_journal and _release_lock find the lock file and the
\* journal as their process left them, whoever else created, abandoned, unlinked
\* or took over a lock file.
THEOREM OwnerIsUndisturbed == Spec => []OwnerUndisturbed
<1>1. RecordsInv => OwnerUndisturbed
  <2> SUFFICES ASSUME RecordsInv, NEW p \in Procs, pc[p] \in OwnerSites
               PROVE  /\ OwnsLockPath(p)
                      /\ pc[p] # "dropPending" =>
                           /\ ~torn
                           /\ IF seq[p] = 0 THEN journal = NoJournal
                              ELSE journal.tok = fd[p] /\ journal.seq = seq[p]
    BY DEF OwnerUndisturbed
  <2>1. OwnsLockPath(p)
    BY DEF RecordsInv, LockInv, OwnerInv
  <2>2. CASE pc[p] # "dropPending"
    <3>1. MetaOK(p)
      BY <2>2, Owns DEF Working, WorkOK
    <3> QED
      BY <2>1, <3>1 DEF MetaOK
  <2> QED
    BY <2>1, <2>2
<1> QED
  BY <1>1, RecordsKept, PTL

\* transaction.py: the record of a node is durable before the node is renamed,
\* and goes only after its backup, in whatever order processes die, calls fail
\* and commands that outlived their process write.
THEOREM BackupsAreNamed == Spec => []BackupNamed
<1>1. RecordsInv => BackupNamed
  BY DEF RecordsInv, NamedInv, BackupNamed, Touched, Recorded
<1> QED
  BY <1>1, RecordsKept, PTL

\* transaction.py: the lock file is the last thing to go, so without one there
\* is neither metadata nor a backup, an injected file or a stub.
THEOREM LockGoesLast == Spec => []NoResidueWithoutLock
<1>1. RecordsInv => NoResidueWithoutLock
  BY DEF RecordsInv, CleanInv, NoResidueWithoutLock, NoMetadata, Clean, Untouched, Touched, Residue
<1> QED
  BY <1>1, RecordsKept, PTL
--------------------------------------------------------------------------------
(* Without commands that outlive their process: what is put back is what was *)
(* there, or what a package put in its place.                                *)

CommandsMode == RestoreSites \cup {"autoremove", "finish", "unlock", "close"}
Blocking     == {"block", "markRenamed", "stub", "markStubbed"}

ModeInv == ~orphan /\ \A p \in Procs : mode[p] = "commands" => pc[p] \in CommandsMode

\* A file moved aside is the one that was recorded, and nothing is installed
\* over a service before its stub is there: by the journal, and by an owner's memory.
Before(n, rec) == rec.stage \in {"planned", "renamed"} => ~Regular(n)
AsideInv == \A n \in Nodes : Blocked(n) => /\ backup[n] = journal.recs[n].orig
                                           /\ n \in Services => Before(n, journal.recs[n])
AsideOK(p) == \A n \in Nodes : Blocked(n) => /\ backup[n] = mem[p][n].orig
                                             /\ n \in Services => Before(n, mem[p][n])

\* What the journal says of a record is what its owner knows of it.
KnownOK(p) == \A n \in Nodes : Recorded(journal.recs, n) =>
  /\ Recorded(mem[p], n) /\ journal.recs[n].orig = mem[p][n].orig
  /\ mem[p][n].stage = "preserve" /\ ~(pc[p] = "keep" /\ n = cur[p]) => journal.recs[n].stage = "preserve"

\* From the capture of a node to its rename it stays as it was captured.
PlanOK(p) ==
  /\ pc[p] \in {"journalInit", "captureManaged"} => NoActiveRecord(mem[p])
  /\ pc[p] = "planManaged" => \A n \in Managed : node[n] = mem[p][n].orig
  /\ pc[p] = "displace" => \A n \in Managed : n >= cur[p] => node[n] = mem[p][n].orig
  /\ pc[p] = "planServices" => \A n \in Services : Recorded(mem[p], n) => node[n] = mem[p][n].orig
  /\ pc[p] \in Blocking => \A n \in Services :
       /\ mem[p][n].stage = "planned" => node[n] = mem[p][n].orig
       /\ Blocked(n) => mem[p][n].stage = "stubbed" \/ (n = cur[p] /\ pc[p] \in {"markRenamed", "stub"})

\* Commands run only when every service that is blocked has its stub on record.
CommandOK(p) ==
  pc[p] \in CommandSites \/ mode[p] = "commands" => \A n \in Services :
    Blocked(n) => {mem[p][n].stage, journal.recs[n].stage} \subseteq {"stubbed", "preserve"}

UndoneOK(p) ==
  /\ pc[p] \in {"remove", "putBack"} /\ cur[p] \in Services /\ Blocked(cur[p]) => ~Regular(cur[p])
  /\ pc[p] = "putBack" => Blocked(cur[p])
  /\ pc[p] \in {"keep", "drop"} => mem[p][cur[p]].stage = "preserve" /\ Regular(cur[p])
  /\ pc[p] = "retire" => \/ node[cur[p]] = mem[p][cur[p]].orig
                         \/ mem[p][cur[p]].stage = "preserve" /\ Regular(cur[p])

CalmOK(p) == AsideOK(p) /\ KnownOK(p) /\ PlanOK(p) /\ CommandOK(p) /\ UndoneOK(p)
CalmInv == ModeInv /\ AsideInv /\ \A p \in Procs : pc[p] \in Working => CalmOK(p)

LEMMA CalmOwner ==
  ASSUME RecordsInv, CalmInv, NEW p \in Procs, pc[p] \in Working
  PROVE  /\ TypeInv /\ WorkOK(p) /\ MetaOK(p) /\ EnterOK(p) /\ BlockOK(p) /\ RestoreOK(p)
         /\ AsideOK(p) /\ KnownOK(p) /\ PlanOK(p) /\ CommandOK(p) /\ UndoneOK(p)
         /\ ModeInv /\ AsideInv /\ pc[p] \in OwnerSites
         /\ \A q \in Procs \ {p} : pc[q] \notin OwnerSites \cup CreatorSites
BY Owns, WorkingIs DEF WorkOK, CalmInv, CalmOK

\* The owner goes on, or leaves; nobody else works.
LEMMA CalmStep ==
  ASSUME CalmInv, NEW p \in Procs, OthersKeep(p), orphan' = orphan,
         \A q \in Procs \ {p} : pc'[q] = pc[q] /\ pc[q] \notin OwnerSites,
         mode'[p] = "commands" => pc'[p] \in CommandsMode,
         AsideInv', pc'[p] \in Working => CalmOK(p)'
  PROVE  CalmInv'
<1>1. ModeInv'
  BY DEF CalmInv, ModeInv, OthersKeep
<1>2. ASSUME NEW q \in Procs, pc'[q] \in Working PROVE CalmOK(q)'
  BY <1>2, WorkingIs
<1> QED
  BY <1>1, <1>2 DEF CalmInv

\* One who does not work does something that concerns nobody.
LEMMA CalmQuiet ==
  ASSUME CalmInv, NEW p \in Procs, UNCHANGED <<node, backup, journal>>, orphan' = orphan, OthersKeep(p),
         \A q \in Procs \ {p} : pc'[q] = pc[q] /\ cur'[q] = cur[q],
         pc'[p] \notin Working, mode'[p] # "commands" \/ pc'[p] \in CommandsMode
  PROVE  CalmInv'
<1>1. ModeInv'
  BY DEF CalmInv, ModeInv, OthersKeep
<1>2. AsideInv'
  BY DEF CalmInv, AsideInv, Before, Regular, Blocked
<1>3. ASSUME NEW q \in Procs, pc'[q] \in Working PROVE CalmOK(q)'
  <2>1. /\ q # p /\ pc'[q] = pc[q] /\ cur'[q] = cur[q] /\ mem'[q] = mem[q] /\ mode'[q] = mode[q] /\ CalmOK(q)
    BY <1>3 DEF OthersKeep, CalmInv
  <2> QED
    BY <2>1 DEF CalmOK, AsideOK, KnownOK, PlanOK, CommandOK, UndoneOK, Before, Regular, Blocked
<1> QED
  BY <1>1, <1>2, <1>3 DEF CalmInv

\* The owner reaches a point of which nothing more is known.
PlainSites == {"restore", "autoremove", "command", "locale", "captureServices", "populate", "finish", "unlock"}
LEMMA CalmPlain ==
  ASSUME CalmInv, NEW p \in Procs, OthersKeep(p), orphan' = orphan,
         \A q \in Procs \ {p} : pc[q] \notin OwnerSites, NEW site \in PlainSites, To(p, site),
         mode'[p] = "commands" => site \in CommandsMode,
         AsideInv', AsideOK(p)', KnownOK(p)', CommandOK(p)'
  PROVE  CalmInv'
<1>1. PlanOK(p)' /\ UndoneOK(p)'
  BY DEF PlanOK, UndoneOK, To, PlainSites, Blocking
<1> QED
  BY <1>1, CalmStep DEF CalmOK, To

\* As long as neither the disk nor the records change, what is known stays known.
LEMMA CalmSame ==
  ASSUME NEW p \in Procs, AsideInv, AsideOK(p), KnownOK(p), UNCHANGED <<node, backup, journal>>,
         mem'[p] = mem[p], pc[p] # "keep"
  PROVE  AsideInv' /\ AsideOK(p)' /\ KnownOK(p)'
BY DEF AsideInv, AsideOK, KnownOK, Before, Regular, Blocked, Recorded

LEMMA CommandSame ==
  ASSUME NEW p \in Procs, CommandOK(p), UNCHANGED <<backup, journal>>, mem'[p] = mem[p],
         pc'[p] \in CommandSites \/ mode'[p] = "commands" => pc[p] \in CommandSites \/ mode[p] = "commands"
  PROVE  CommandOK(p)'
BY DEF CommandOK, Blocked
--------------------------------------------------------------------------------
(* CalmInv: what happens to the disk *)

\* Commands change nodes only while every service is back or has its stub.
LEMMA EnvironmentCalm ==
  ASSUME RecordsInv, CalmInv, CommandWrites \/ OrphanEnds \/ UNCHANGED vars
  PROVE  CalmInv'
<1>1. CASE CommandWrites
  <2>1. UNCHANGED <<backup, journal, pc, mem, seq, cur, mode, fd, orphan>>
    BY <1>1 DEF CommandWrites, meta, KeepHandle, Keep
  <2>2. PICK p \in Procs : pc[p] \in CommandSites
    BY <1>1 DEF CommandWrites, CommandRunning, CalmInv, ModeInv
  <2>3. pc[p] \in Working
    BY <2>2 DEF Working, OwnerSites, CommandSites
  <2>4. /\ AsideOK(p) /\ KnownOK(p) /\ PlanOK(p) /\ CommandOK(p) /\ UndoneOK(p) /\ ModeInv /\ AsideInv
        /\ \A q \in Procs \ {p} : pc[q] \notin OwnerSites
    BY <2>3, CalmOwner
  <2>5. \A n \in Services : Blocked(n) =>
          /\ mem[p][n].stage \notin {"planned", "renamed"}
          /\ journal.recs[n].stage \notin {"planned", "renamed"}
    BY <2>2, <2>4 DEF CommandOK
  <2>6. AsideInv' /\ AsideOK(p)'
    BY <2>1, <2>4, <2>5 DEF AsideInv, AsideOK, Before, Blocked
  <2>7. KnownOK(p)' /\ CommandOK(p)'
    BY <2>1, <2>4 DEF KnownOK, CommandOK, Blocked, Recorded
  <2>8. PlanOK(p)' /\ UndoneOK(p)'
    BY <2>1, <2>2 DEF PlanOK, UndoneOK, CommandSites, Blocking
  <2>9. OthersKeep(p) /\ (mode'[p] = "commands" => pc'[p] \in CommandsMode)
    BY <2>1, <2>4 DEF OthersKeep, ModeInv
  <2>10. CalmOK(p)'
    BY <2>6, <2>7, <2>8 DEF CalmOK
  <2> QED
    BY <2>1, <2>4, <2>6, <2>9, <2>10, CalmStep
<1>2. CASE OrphanEnds
  BY <1>2 DEF OrphanEnds, CalmInv, ModeInv
<1>3. CASE UNCHANGED vars
  <2>1. UNCHANGED <<node, backup, journal, pc, mem, cur, mode, orphan>>
    BY <1>3 DEF vars, disk, meta
  <2> QED
    BY <2>1 DEF CalmInv, ModeInv, AsideInv, CalmOK, AsideOK, KnownOK, PlanOK, CommandOK, UndoneOK,
       Before, Regular, Blocked, NoActiveRecord
<1> QED
  BY <1>1, <1>2, <1>3

\* An owner's journal write takes up what it knows, and drops what is restored.
LEMMA WrittenCalm ==
  ASSUME RecordsInv, CalmInv, NEW p \in Procs, pc[p] \in PersistSites, MetaWrite(p)
  PROVE  /\ AsideInv' /\ UNCHANGED <<node, backup>> /\ journal'.recs = RecordsLeft(p)
         /\ \A n \in Nodes : Blocked(n) \/ Recorded(RecordsLeft(p), n) => RecordsLeft(p)[n] = mem[p][n]
         /\ pc[p] # "retire" => RecordsLeft(p) = mem[p]
<1>1. pc[p] \in Working
  BY WorkingIs
<1>2. AsideOK(p) /\ (pc[p] = "retire" => ~Touched(cur[p]))
  BY <1>1, CalmOwner DEF RestoreOK
<1>3. UNCHANGED <<node, backup>> /\ journal'.recs = RecordsLeft(p)
  BY ReplaceIs, RecordsLeftNames
<1>4. /\ pc[p] # "retire" => RecordsLeft(p) = mem[p]
      /\ \A n \in Nodes : n # cur[p] => RecordsLeft(p)[n] = mem[p][n]
      /\ pc[p] = "retire" => RecordsLeft(p)[cur[p]] = NoRecord
  BY RecordsLeftNames
<1>5. \A n \in Nodes : Blocked(n) \/ Recorded(RecordsLeft(p), n) => RecordsLeft(p)[n] = mem[p][n]
  BY <1>2, <1>4 DEF Touched, Recorded, NoRecord
<1>6. AsideInv'
  BY <1>2, <1>3, <1>5 DEF AsideInv, AsideOK, Before, Regular, Blocked
<1> QED
  BY <1>3, <1>4, <1>5, <1>6

\* An owner's write to a node: what is moved aside is what was recorded, and no
\* file that a package installed over a stub is touched.
LEMMA NodeWriteCalm ==
  ASSUME RecordsInv, CalmInv, NEW p \in Procs, pc[p] \in Working, NodeWrite(p),
         pc[p] = "stub" => ~Obstructed(p)
  PROVE  /\ AsideInv'
         /\ \A n \in Nodes : Blocked(n)' => /\ backup'[n] = mem[p][n].orig
                                            /\ n \in Services /\ mem[p][n].stage \in {"planned", "renamed"} =>
                                                 node'[n] \notin Files
         /\ \A n \in Services : Blocked(n) /\ Regular(n) => node'[n] = node[n]
         /\ \A n \in Nodes : Blocked(n)' /\ n # cur[p] => Blocked(n)
         /\ pc[p] \notin {"displace", "block"} => \A n \in Nodes : Blocked(n)' => Blocked(n)
<1>1. /\ TypeInv /\ EnterOK(p) /\ BlockOK(p) /\ AsideOK(p) /\ KnownOK(p) /\ PlanOK(p) /\ UndoneOK(p) /\ AsideInv
  BY CalmOwner
<1>2. /\ journal' = journal /\ pc[p] \in NodeSites /\ cur[p] \in Nodes
      /\ \A m \in Nodes \ {cur[p]} : node'[m] = node[m] /\ backup'[m] = backup[m]
  BY <1>1, NodeWriteIs
<1>3. Absent \notin Files /\ Stub \notin Files
  BY ConstantsAssumption
<1>4. CASE pc[p] \in {"displace", "populate"}
  <2>1. cur[p] \in Managed /\ journal.recs = mem[p] /\ cur[p] \notin Services
    BY <1>1, <1>4, ServicesAreNotManaged DEF EnterOK, TypeInv, CursorInv
  <2>2. pc[p] = "displace" => node[cur[p]] = mem[p][cur[p]].orig
    BY <1>1, <2>1, TypedProc, NodesAreNumbers DEF PlanOK
  <2>3. /\ pc[p] = "displace" => backup'[cur[p]] = node[cur[p]]
        /\ pc[p] = "populate" => backup' = backup
    BY <1>1, NodeWriteIs
  <2>4. \A n \in Nodes : Blocked(n)' => backup'[n] = mem[p][n].orig
    BY <1>1, <1>2, <1>4, <2>2, <2>3 DEF AsideOK, Blocked
  <2>5. \A n \in Services : n # cur[p] /\ n \in Nodes
    BY <2>1, NodesAreNumbers
  <2>6. \A n \in Services : Blocked(n)' /\ mem[p][n].stage \in {"planned", "renamed"} => node'[n] \notin Files
    BY <1>1, <1>2, <2>5 DEF AsideOK, Blocked, Before, Regular
  <2>7. AsideInv'
    BY <1>2, <2>1, <2>4, <2>6 DEF AsideInv, Before, Regular
  <2> QED
    BY <1>2, <1>4, <2>3, <2>4, <2>5, <2>6, <2>7 DEF Blocked
<1>5. CASE pc[p] = "block"
  <2>1. /\ cur[p] \in Services /\ ~Touched(cur[p]) /\ mem[p][cur[p]].stage = "planned"
        /\ Recorded(journal.recs, cur[p])
    BY <1>1, <1>5, NodesAreNumbers DEF BlockOK
  <2>2. node[cur[p]] = mem[p][cur[p]].orig /\ journal.recs[cur[p]].orig = mem[p][cur[p]].orig
    BY <1>1, <1>2, <1>5, <2>1 DEF PlanOK, Blocking, KnownOK
  <2>3. backup'[cur[p]] = node[cur[p]] /\ node'[cur[p]] = Absent
    BY <1>1, <1>5, NodeWriteIs
  <2>4. \A n \in Nodes : n # cur[p] => Blocked(n)' = Blocked(n) /\ Regular(n)' = Regular(n)
    BY <1>2 DEF Blocked, Regular
  <2>5. \A n \in Nodes : Blocked(n)' => backup'[n] = mem[p][n].orig /\ backup'[n] = journal.recs[n].orig
    BY <1>1, <1>2, <2>2, <2>3, <2>4 DEF AsideOK, AsideInv
  <2>6. \A n \in Services : Blocked(n)' =>
          /\ mem[p][n].stage \in {"planned", "renamed"} => node'[n] \notin Files
          /\ journal.recs[n].stage \in {"planned", "renamed"} => node'[n] \notin Files
    BY <1>1, <1>2, <1>3, <2>3, <2>4, NodesAreNumbers DEF AsideOK, AsideInv, Before, Regular
  <2>7. AsideInv'
    BY <1>2, <2>5, <2>6, NodesAreNumbers DEF AsideInv, Before, Regular
  <2> QED
    BY <1>2, <1>5, <2>1, <2>4, <2>5, <2>6, <2>7, NodesAreNumbers DEF Touched
<1>6. CASE pc[p] \in {"stub", "remove"}
  <2>1. backup' = backup /\ node'[cur[p]] \notin Files
    BY <1>1, <1>3, <1>6, NodeWriteIs
  <2>2. \A n \in Nodes : /\ Blocked(n)' = Blocked(n)
                         /\ node'[n] = node[n] \/ node'[n] \notin Files
    BY <1>2, <2>1 DEF Blocked
  <2>3. pc[p] = "stub" => node[cur[p]] = Absent
    BY DEF Obstructed
  <2>4. \A n \in Services : Blocked(n) /\ Regular(n) => n # cur[p]
    BY <1>1, <1>3, <1>6, <2>3 DEF UndoneOK, Regular
  <2>5. AsideInv'
    BY <1>1, <1>2, <2>1, <2>2 DEF AsideInv, Before, Regular
  <2>6. \A n \in Nodes : Blocked(n)' => /\ backup'[n] = mem[p][n].orig
                                        /\ n \in Services /\ mem[p][n].stage \in {"planned", "renamed"} =>
                                             node'[n] \notin Files
    BY <1>1, <2>1, <2>2 DEF AsideOK, Before, Regular
  <2> QED
    BY <1>2, <2>2, <2>4, <2>5, <2>6, NodesAreNumbers
<1>7. CASE pc[p] \in {"putBack", "drop"}
  <2>1. backup'[cur[p]] = Absent /\ (pc[p] = "drop" => node' = node)
    BY <1>1, <1>7, NodeWriteIs
  <2>2. \A n \in Nodes : Blocked(n)' => n # cur[p] /\ Blocked(n) /\ node'[n] = node[n] /\ backup'[n] = backup[n]
    BY <1>2, <2>1 DEF Blocked
  <2>3. \A n \in Services : Blocked(n) /\ Regular(n) => node'[n] = node[n]
    BY <1>1, <1>2, <1>7, <2>1, NodesAreNumbers DEF UndoneOK
  <2>4. AsideInv'
    BY <1>1, <1>2, <2>2 DEF AsideInv, Before, Regular
  <2>5. \A n \in Nodes : Blocked(n)' => /\ backup'[n] = mem[p][n].orig
                                        /\ n \in Services /\ mem[p][n].stage \in {"planned", "renamed"} =>
                                             node'[n] \notin Files
    BY <1>1, <2>2 DEF AsideOK, Before, Regular
  <2> QED
    BY <2>2, <2>3, <2>4, <2>5
<1> QED
  BY <1>2, <1>4, <1>5, <1>6, <1>7 DEF NodeSites
--------------------------------------------------------------------------------
(* CalmInv: the transaction is entered *)

LEMMA CommitCalm ==
  ASSUME RecordsInv, CalmInv, NEW p \in Procs, Commit(p)
  PROVE  CalmInv'
<1>1. /\ pc[p] \in PersistSites /\ MetaWrite(p) /\ AfterPersist(p) /\ mode' = mode /\ fd' = fd
      /\ mem' = [mem EXCEPT ![p] = RecordsLeft(p)] /\ seq' = [seq EXCEPT ![p] = seq[p] + 1]
      /\ orphan' = orphan
  BY DEF Commit, KeepHandle, Keep
<1>2. pc[p] \in Working
  BY <1>1, WorkingIs
<1>3. /\ TypeInv /\ WorkOK(p) /\ MetaOK(p) /\ EnterOK(p) /\ BlockOK(p) /\ RestoreOK(p)
      /\ AsideOK(p) /\ KnownOK(p) /\ PlanOK(p) /\ CommandOK(p) /\ UndoneOK(p)
      /\ ModeInv /\ AsideInv /\ pc[p] \in OwnerSites
      /\ \A q \in Procs \ {p} : pc[q] \notin OwnerSites \cup CreatorSites
  BY <1>2, CalmOwner
<1>4. mem'[p] = RecordsLeft(p) /\ OthersKeep(p) /\ mode'[p] = mode[p]
  BY <1>1, <1>3, TypedProc DEF OthersKeep
<1>5. /\ AsideInv' /\ UNCHANGED <<node, backup>> /\ journal'.recs = mem'[p]
      /\ \A n \in Nodes : Blocked(n) \/ Recorded(mem'[p], n) => mem'[p][n] = mem[p][n]
      /\ pc[p] # "retire" => mem'[p] = mem[p]
  BY <1>1, <1>4, WrittenCalm
<1>6. \A n \in Nodes : Blocked(n)' = Blocked(n) /\ Regular(n)' = Regular(n)
  BY <1>5 DEF Blocked, Regular
<1>7. AsideOK(p)' /\ KnownOK(p)'
  BY <1>3, <1>5, <1>6 DEF AsideOK, KnownOK, Before
<1>8. (pc[p] \in CommandSites \/ mode[p] = "commands") /\ (pc'[p] \in CommandSites => mode'[p] = "commands")
        => CommandOK(p)'
  BY <1>3, <1>4, <1>5, <1>6, NodesAreNumbers DEF CommandOK
<1>9. ASSUME NEW site \in Working, To(p, site), site \notin CommandSites,
             pc[p] \in CommandsMode => site \in CommandsMode, PlanOK(p)', UndoneOK(p)'
      PROVE  CalmInv'
  <2>1. mode'[p] = "commands" => pc[p] \in CommandsMode /\ mode[p] = "commands"
    BY <1>3, <1>4 DEF ModeInv
  <2>2. CommandOK(p)'
    BY <1>8, <1>9, <2>1 DEF CommandOK, To
  <2> QED
    BY <1>3, <1>4, <1>1, <1>5, <1>7, <1>9, <2>1, <2>2, CalmStep DEF CalmOK, To
<1>10. mode[p] = "commands" => pc[p] \in {"keep", "retire"}
  BY <1>1, <1>3 DEF ModeInv, CommandsMode, PersistSites, RestoreSites
<1>11. CASE pc[p] = "journalInit" /\ GotoAt(p, "captureManaged", 0)
  <2>1. To(p, "captureManaged") /\ "captureManaged" \in Working /\ "captureManaged" \notin CommandSites
    BY <1>3, <1>11, GoesAt DEF Working, OwnerSites, EnterSites, CommandSites
  <2>2. PlanOK(p)' /\ UndoneOK(p)'
    BY <1>3, <1>5, <1>11, <2>1 DEF PlanOK, UndoneOK, To, Blocking
  <2> QED
    BY <1>9, <1>11, <2>1, <2>2 DEF CommandsMode, RestoreSites
<1>12. CASE pc[p] = "planManaged" /\ GotoAt(p, "displace", 1)
  <2>1. To(p, "displace") /\ "displace" \in Working /\ "displace" \notin CommandSites
    BY <1>3, <1>12, GoesAt DEF Working, OwnerSites, EnterSites, CommandSites
  <2>2. PlanOK(p)' /\ UndoneOK(p)'
    BY <1>3, <1>5, <1>12, <2>1 DEF PlanOK, UndoneOK, To, Blocking
  <2> QED
    BY <1>9, <1>12, <2>1, <2>2 DEF CommandsMode, RestoreSites
<1>13. CASE pc[p] \in {"planServices", "markStubbed"}
  <2>1. /\ \A n \in Services : mem[p][n].stage = "planned" => node[n] = mem[p][n].orig
        /\ \A n \in Services : Blocked(n) => mem[p][n].stage = "stubbed"
    <3>1. CASE pc[p] = "planServices"
      BY <1>3, <3>1 DEF PlanOK, EnterOK, Recorded, Touched
    <3>2. CASE pc[p] = "markStubbed"
      BY <1>3, <3>2 DEF PlanOK, Blocking
    <3> QED
      BY <1>13, <3>1, <3>2
  <2>2. mem'[p] = mem[p] /\ \A n \in Services : node'[n] = node[n] /\ Blocked(n)' = Blocked(n)
    BY <1>5, <1>6, <1>13, NodesAreNumbers
  <2>3. CASE \E n \in Services : GotoAt(p, "block", n)
    <3>1. To(p, "block") /\ "block" \in Working /\ "block" \notin CommandSites
      BY <1>3, <2>3, GoesAt DEF Working, OwnerSites, EnterSites, CommandSites
    <3>2. PlanOK(p)' /\ UndoneOK(p)'
      BY <2>1, <2>2, <3>1 DEF PlanOK, UndoneOK, To, Blocking
    <3> QED
      BY <1>9, <1>13, <3>1, <3>2 DEF CommandsMode, RestoreSites
  <2>4. CASE GotoAt(p, "command", 0)
    <3>1. To(p, "command") /\ "command" \in PlainSites
      BY <1>3, <2>4, GoesAt DEF PlainSites
    <3>2. CommandOK(p)'
      BY <1>5, <2>1, <2>2 DEF CommandOK
    <3>3. mode'[p] # "commands"
      BY <1>4, <1>10, <1>13
    <3> QED
      BY <1>1, <1>3, <1>4, <1>5, <1>7, <3>1, <3>2, <3>3, CalmPlain
  <2> QED
    BY <1>1, <1>13, <2>3, <2>4 DEF AfterPersist
<1>14. CASE pc[p] = "markRenamed" /\ GotoAt(p, "stub", cur[p])
  <2>1. To(p, "stub") /\ "stub" \in Working /\ "stub" \notin CommandSites /\ cur'[p] = cur[p]
    BY <1>3, <1>14, GoesAt DEF Working, OwnerSites, EnterSites, CommandSites
  <2>2. PlanOK(p)' /\ UndoneOK(p)'
    BY <1>3, <1>5, <1>6, <1>14, <2>1, NodesAreNumbers DEF PlanOK, UndoneOK, To, Blocking
  <2> QED
    BY <1>9, <1>14, <2>1, <2>2 DEF CommandsMode, RestoreSites
<1>15. CASE pc[p] = "keep" /\ GotoAt(p, "drop", cur[p])
  <2>1. To(p, "drop") /\ "drop" \in Working /\ "drop" \notin CommandSites /\ cur'[p] = cur[p]
    BY <1>3, <1>15, GoesAt DEF Working, OwnerSites, RestoreSites, CommandSites
  <2>2. PlanOK(p)' /\ UndoneOK(p)'
    BY <1>3, <1>5, <1>15, <2>1 DEF PlanOK, UndoneOK, To, Blocking, Regular
  <2>3. "drop" \in CommandsMode
    BY DEF CommandsMode, RestoreSites
  <2> QED
    BY <1>9, <1>15, <2>1, <2>2, <2>3
<1>16. CASE pc[p] = "retire" /\ Advance(p)
  <2>1. PICK site \in {"restore", "autoremove"} : To(p, site)
    BY <1>3, <1>16, Advances
  <2>2. pc'[p] \in CommandSites => mode'[p] = "commands"
    BY <1>3, <1>4, <1>16, <2>1, Advances DEF To, CommandSites
  <2>3. CommandOK(p)'
    BY <1>4, <1>8, <2>2 DEF CommandOK
  <2>4. site \in PlainSites /\ site \in CommandsMode
    BY DEF PlainSites, CommandsMode, RestoreSites
  <2> QED
    BY <1>1, <1>3, <1>4, <1>5, <1>7, <2>1, <2>3, <2>4, CalmPlain
<1> QED
  BY <1>1, <1>11, <1>12, <1>13, <1>14, <1>15, <1>16 DEF AfterPersist

LEMMA CaptureCalm ==
  ASSUME RecordsInv, CalmInv, NEW p \in Procs, CaptureManaged(p) \/ CaptureServices(p)
  PROVE  CalmInv'
<1> DEFINE present == {n \in Services : node[n] # Absent}
           nodes == IF pc[p] = "captureManaged" THEN Managed ELSE present
           stage == IF pc[p] = "captureManaged" THEN "managed" ELSE "planned"
           next  == IF pc[p] = "captureManaged" THEN "planManaged"
                    ELSE IF present = {} THEN "command" ELSE "planServices"
           recs  == [n \in Nodes |-> IF n \in nodes THEN [stage |-> stage, orig |-> node[n]] ELSE mem[p][n]]
<1>1. /\ pc[p] \in {"captureManaged", "captureServices"}
      /\ UNCHANGED <<node, backup, journal, mode, fd, seq, orphan>>
      /\ \/ StartCleanup(p) /\ mem' = mem
         \/ mem' = [mem EXCEPT ![p] = recs] /\ GotoAt(p, next, 0)
  BY DEF CaptureManaged, CaptureServices, Capture, NoWrite, KeepHandle, Keep, disk, meta
<1>2. pc[p] \in Working
  BY <1>1 DEF Working, OwnerSites, EnterSites
<1>3. /\ TypeInv /\ WorkOK(p) /\ EnterOK(p) /\ AsideOK(p) /\ KnownOK(p) /\ PlanOK(p) /\ ModeInv /\ AsideInv
      /\ pc[p] \in OwnerSites /\ \A q \in Procs \ {p} : pc[q] \notin OwnerSites
  BY <1>2, CalmOwner
<1>4. mode'[p] # "commands" /\ AsideInv'
  BY <1>1, <1>3 DEF ModeInv, CommandsMode, RestoreSites, AsideInv, Before, Regular, Blocked
<1>5. \A n \in Nodes : Blocked(n)' = Blocked(n) /\ node'[n] = node[n]
  BY <1>1 DEF Blocked
<1>6. CASE StartCleanup(p) /\ mem' = mem
  <2>1. To(p, "restore") /\ OthersKeep(p) /\ "restore" \in PlainSites
    BY <1>1, <1>3, <1>6, CleansUp DEF OthersKeep, PlainSites
  <2>2. AsideOK(p)' /\ KnownOK(p)'
    BY <1>1, <1>3, <1>6, CalmSame
  <2>3. CommandOK(p)'
    BY <1>4, <2>1 DEF CommandOK, To, CommandSites
  <2> QED
    BY <1>1, <1>3, <1>4, <2>1, <2>2, <2>3, CalmPlain
<1>7. CASE mem' = [mem EXCEPT ![p] = recs] /\ GotoAt(p, next, 0)
  <2>1. mem'[p] = recs /\ OthersKeep(p)
    BY <1>1, <1>3, <1>7, TypedProc DEF OthersKeep
  <2>2. To(p, next)
    BY <1>3, <1>7, GoesAt
  <2>3. \A n \in nodes : mem[p][n].stage = "none" /\ ~Blocked(n) /\ n \in Nodes
    BY <1>1, <1>3, NodesAreNumbers DEF PlanOK, EnterOK, WorkOK, NoActiveRecord, Untouched, Touched, Recorded
  <2>4. \A n \in Nodes \ nodes : mem'[p][n] = mem[p][n]
    BY <2>1
  <2>5. \A n \in nodes : mem'[p][n].stage = stage /\ mem'[p][n].orig = node[n]
    BY <2>1, <2>3
  <2>6. AsideOK(p)'
    BY <1>1, <1>3, <1>5, <2>3, <2>4 DEF AsideOK, Before, Regular
  <2>7. pc'[p] # "keep" /\ next \in {"planManaged", "planServices", "command"}
    BY <2>2 DEF To
  <2>8. KnownOK(p)'
    BY <1>1, <1>3, <2>3, <2>4, <2>7 DEF KnownOK, Recorded
  <2>9. \A n \in Services : ~Blocked(n)
    BY <1>1, <1>3, NodesAreNumbers DEF EnterOK, WorkOK, Untouched, Touched, Recorded
  <2>10. CommandOK(p)'
    BY <1>5, <2>9, NodesAreNumbers DEF CommandOK
  <2>11. PlanOK(p)' /\ UndoneOK(p)'
    <3>1. next = "planManaged" => \A n \in Managed : node'[n] = mem'[p][n].orig
      BY <1>1, <2>5
    <3>2. next = "planServices" => \A n \in Services : Recorded(mem'[p], n) => node'[n] = mem'[p][n].orig
      <4>1. next = "planServices" => pc[p] = "captureServices" /\ nodes = present
        BY <1>1
      <4>2. pc[p] = "captureServices" => \A n \in Services : mem[p][n].stage = "none"
        BY <1>3 DEF EnterOK
      <4>3. \A n \in Services : n \in Nodes
        BY NodesAreNumbers
      <4> HIDE DEF nodes, next
      <4> QED
        BY <1>5, <2>4, <2>5, <4>1, <4>2, <4>3 DEF Recorded
    <3> HIDE DEF next
    <3> QED
      BY <2>2, <2>7, <3>1, <3>2 DEF PlanOK, UndoneOK, To, Blocking
  <2> HIDE DEF next
  <2> QED
    BY <1>1, <1>3, <1>4, <2>1, <2>2, <2>6, <2>8, <2>10, <2>11, CalmStep DEF CalmOK, To
<1> QED
  BY <1>1, <1>6, <1>7

LEMMA SubstituteCalm ==
  ASSUME RecordsInv, CalmInv, NEW p \in Procs, Displace(p) \/ Populate(p)
  PROVE  CalmInv'
<1>1. /\ pc[p] \in {"displace", "populate"} /\ UNCHANGED <<mem, seq, mode, fd, orphan>>
      /\ NoWrite \/ NodeWrite(p)
      /\ \/ pc[p] = "displace" /\ NextManaged(p, "displace", GotoAt(p, "populate", 1))
         \/ pc[p] = "populate" /\ NextManaged(p, "populate", GotoAt(p, "locale", 0))
  BY DEF Displace, Populate, KeepHandle, Keep
<1>2. pc[p] \in Working
  BY <1>1 DEF Working, OwnerSites, EnterSites
<1>3. /\ TypeInv /\ WorkOK(p) /\ EnterOK(p) /\ AsideOK(p) /\ KnownOK(p) /\ PlanOK(p) /\ ModeInv /\ AsideInv
      /\ pc[p] \in OwnerSites /\ \A q \in Procs \ {p} : pc[q] \notin OwnerSites
  BY <1>2, CalmOwner
<1>4. mode'[p] # "commands" /\ OthersKeep(p) /\ cur[p] \in Managed
  BY <1>1, <1>3 DEF ModeInv, CommandsMode, RestoreSites, OthersKeep, TypeInv, CursorInv
<1>5. /\ AsideInv' /\ AsideOK(p)' /\ journal' = journal
      /\ \A n \in Nodes \ {cur[p]} : node'[n] = node[n] /\ backup'[n] = backup[n]
  <2>1. CASE NoWrite
    BY <1>1, <1>3, <2>1 DEF NoWrite, disk, meta, AsideInv, AsideOK, Before, Regular, Blocked
  <2>2. CASE NodeWrite(p)
    BY <1>1, <1>2, <1>3, <2>2, NodeWriteCalm, NodeWriteIs DEF AsideOK, Before, Regular
  <2> QED
    BY <1>1, <2>1, <2>2
<1>6. \A n \in Services : ~Blocked(n)'
  <2>1. \A n \in Services : n \in Nodes /\ n # cur[p] /\ ~Blocked(n)
    BY <1>1, <1>3, <1>4, NodesAreNumbers, ServicesAreNotManaged DEF EnterOK, WorkOK, Touched, Recorded
  <2> QED
    BY <1>5, <2>1 DEF Blocked
<1>7. CommandOK(p)'
  BY <1>6 DEF CommandOK
<1>8. ASSUME NEW site \in {"displace", "populate", "locale"}, To(p, site) PROVE KnownOK(p)'
  BY <1>1, <1>3, <1>5, <1>8 DEF KnownOK, To
<1>9. ASSUME NEW site \in {"populate", "locale"}, To(p, site) PROVE CalmInv'
  <2>1. site \in PlainSites
    BY DEF PlainSites
  <2> QED
    BY <1>1, <1>3, <1>4, <1>5, <1>7, <1>8, <1>9, <2>1, CalmPlain
<1>10. ASSUME pc[p] = "displace", GotoAt(p, "displace", cur[p] + 1) PROVE CalmInv'
  <2>1. To(p, "displace") /\ cur'[p] = cur[p] + 1 /\ "displace" \in Working
    BY <1>2, <1>3, <1>10, GoesAt
  <2>2. \A n \in Managed : n >= cur'[p] => n >= cur[p] /\ n # cur[p] /\ n \in Nodes
    BY <1>4, <2>1, NodesAreNumbers, ConstantsAssumption DEF Managed
  <2>3. PlanOK(p)' /\ UndoneOK(p)'
    BY <1>1, <1>3, <1>5, <1>10, <2>1, <2>2 DEF PlanOK, UndoneOK, To, Blocking
  <2>4. KnownOK(p)'
    BY <1>8, <2>1
  <2> QED
    BY <1>1, <1>3, <1>4, <1>5, <1>7, <2>1, <2>3, <2>4, CalmStep DEF CalmOK, To
<1> QED
  BY <1>1, <1>3, <1>9, <1>10, GoesAt DEF NextManaged

LEMMA BlockingCalm ==
  ASSUME RecordsInv, CalmInv, NEW p \in Procs, Block(p) \/ MakeStub(p)
  PROVE  CalmInv'
<1> DEFINE stage == IF pc[p] = "block" THEN "renamed" ELSE "stubbed"
           next  == IF pc[p] = "block" THEN "markRenamed" ELSE "markStubbed"
<1>1. /\ pc[p] \in {"block", "stub"} /\ mem' = [mem EXCEPT ![p][cur[p]].stage = stage]
      /\ UNCHANGED <<seq, orphan>> /\ KeepHandle /\ NodeWrite(p) /\ ~Obstructed(p) /\ GotoAt(p, next, cur[p])
  BY DEF Block, MakeStub, Keep
<1>2. /\ stage = IF pc[p] = "block" THEN "renamed" ELSE "stubbed"
      /\ next = IF pc[p] = "block" THEN "markRenamed" ELSE "markStubbed"
  OBVIOUS
<1> HIDE DEF stage, next
<1>3. pc[p] \in Working
  BY <1>1 DEF Working, OwnerSites, EnterSites
<1>4. /\ TypeInv /\ WorkOK(p) /\ BlockOK(p) /\ AsideOK(p) /\ KnownOK(p) /\ PlanOK(p) /\ ModeInv /\ AsideInv
      /\ pc[p] \in OwnerSites /\ \A q \in Procs \ {p} : pc[q] \notin OwnerSites
  BY <1>3, CalmOwner
<1>5. cur[p] \in Services /\ cur[p] \in Nodes /\ Recorded(mem[p], cur[p])
  BY <1>1, <1>4, NodesAreNumbers DEF BlockOK
<1>6. /\ mem'[p][cur[p]].stage = stage /\ mem'[p][cur[p]].orig = mem[p][cur[p]].orig
      /\ \A m \in Nodes \ {cur[p]} : mem'[p][m] = mem[p][m]
      /\ OthersKeep(p)
  BY <1>1, <1>4, <1>5, StageIs
<1>7. To(p, next) /\ cur'[p] = cur[p] /\ next \in Working /\ next \notin CommandSites
  BY <1>1, <1>4, <1>2, GoesAt DEF Working, OwnerSites, EnterSites, CommandSites
<1>8. /\ AsideInv' /\ journal' = journal
      /\ \A m \in Nodes \ {cur[p]} : node'[m] = node[m] /\ backup'[m] = backup[m]
      /\ \A n \in Nodes : Blocked(n)' => /\ backup'[n] = mem[p][n].orig
                                         /\ n \in Services /\ mem[p][n].stage \in {"planned", "renamed"} =>
                                              node'[n] \notin Files
      /\ pc[p] = "block" => node'[cur[p]] = Absent
  BY <1>1, <1>3, <1>4, NodeWriteCalm, NodeWriteIs
<1>9. pc[p] = "block" => mem[p][cur[p]].stage = "planned"
  BY <1>4 DEF BlockOK
<1>10. AsideOK(p)'
  BY <1>1, <1>6, <1>8, <1>9, <1>2 DEF AsideOK, Before, Regular
<1>11. KnownOK(p)'
  BY <1>1, <1>4, <1>5, <1>6, <1>7, <1>8, <1>2 DEF KnownOK, Recorded, To
<1>12. mode'[p] # "commands"
  BY <1>1, <1>4 DEF ModeInv, CommandsMode, RestoreSites, KeepHandle
<1>13. CommandOK(p)'
  BY <1>7, <1>12 DEF CommandOK, To
<1>14. PlanOK(p)'
  <2>1. \A n \in Services : /\ mem[p][n].stage = "planned" => node[n] = mem[p][n].orig
                            /\ Blocked(n) => mem[p][n].stage = "stubbed" \/ n = cur[p]
    BY <1>1, <1>4 DEF PlanOK, Blocking
  <2>2. \A n \in Services : n # cur[p] => Blocked(n)' = Blocked(n) /\ node'[n] = node[n] /\ mem'[p][n] = mem[p][n]
    BY <1>6, <1>8, NodesAreNumbers DEF Blocked
  <2>3. \A n \in Services : /\ mem'[p][n].stage = "planned" => node'[n] = mem'[p][n].orig
                            /\ Blocked(n)' => mem'[p][n].stage = "stubbed" \/ (n = cur[p] /\ next = "markRenamed")
    BY <1>1, <1>6, <1>2, <2>1, <2>2
  <2> QED
    BY <1>1, <1>7, <1>2, <2>3 DEF PlanOK, To, Blocking
<1>15. UndoneOK(p)'
  BY <1>1, <1>7, <1>2 DEF UndoneOK, To
<1> QED
  BY <1>1, <1>4, <1>6, <1>7, <1>8, <1>10, <1>11, <1>12, <1>13, <1>14, <1>15, CalmStep DEF CalmOK, To

LEMMA CommandDoneCalm ==
  ASSUME RecordsInv, CalmInv, NEW p \in Procs, CommandDone(p)
  PROVE  CalmInv'
<1>1. /\ pc[p] \in CommandSites /\ UNCHANGED <<node, backup, journal, fd, mem, seq, orphan>>
      /\ \/ pc[p] = "locale" /\ GotoAt(p, "captureServices", 0) /\ mode' = mode
         \/ pc[p] = "command" /\ StartCleanup(p) /\ mode' = [mode EXCEPT ![p] = "commands"]
         \/ pc[p] = "autoremove" /\ GotoAt(p, "restore", cur[p]) /\ mode' = mode
  BY DEF CommandDone, NoWrite, Keep, disk, meta
<1>2. pc[p] \in Working
  BY <1>1 DEF Working, OwnerSites, CommandSites
<1>3. /\ TypeInv /\ AsideOK(p) /\ KnownOK(p) /\ CommandOK(p) /\ ModeInv /\ AsideInv
      /\ pc[p] \in OwnerSites /\ \A q \in Procs \ {p} : pc[q] \notin OwnerSites
  BY <1>2, CalmOwner
<1>4. /\ OthersKeep(p) /\ AsideInv' /\ AsideOK(p)' /\ KnownOK(p)' /\ CommandOK(p)'
  <2>1. OthersKeep(p)
    BY <1>1, <1>3, TypedProc DEF OthersKeep
  <2>2. AsideInv' /\ AsideOK(p)' /\ KnownOK(p)'
    BY <1>1, <1>3, CalmSame DEF CommandSites
  <2>3. CommandOK(p)'
    BY <1>1, <1>3 DEF CommandOK, Blocked
  <2> QED
    BY <2>1, <2>2, <2>3
<1>5. PICK site \in {"captureServices", "restore"} : To(p, site) /\ (site # "restore" => pc[p] = "locale")
  BY <1>1, <1>3, GoesAt, CleansUp
<1>6. mode'[p] = "commands" => site = "restore"
  BY <1>1, <1>3, <1>5, TypedProc DEF ModeInv, CommandsMode, RestoreSites
<1>7. site \in PlainSites /\ "restore" \in CommandsMode
  BY <1>5 DEF PlainSites, CommandsMode, RestoreSites
<1> QED
  BY <1>1, <1>3, <1>4, <1>5, <1>6, <1>7, CalmPlain
--------------------------------------------------------------------------------
(* CalmInv: the transaction is undone *)

\* The loops of the restoration go on, or are reached.
LEMMA RestoringCalm ==
  ASSUME RecordsInv, CalmInv, NEW p \in Procs, pc[p] \in Working, StartCleanup(p) \/ Advance(p),
         OthersKeep(p), UNCHANGED <<mode, orphan>>, AsideInv', AsideOK(p)', KnownOK(p)',
         mode[p] = "commands" => CommandOK(p)'
  PROVE  CalmInv'
<1>1. /\ TypeInv /\ ModeInv /\ \A q \in Procs \ {p} : pc[q] \notin OwnerSites
  BY CalmOwner
<1>2. PICK site \in {"restore", "autoremove"} : To(p, site)
  BY <1>1, CleansUp, Advances
<1>3. site = "autoremove" => mode[p] = "commands"
  BY <1>1, <1>2, CleansUp, Advances DEF To
<1>4. CommandOK(p)'
  BY <1>2, <1>3 DEF CommandOK, To, CommandSites
<1>5. site \in PlainSites /\ site \in CommandsMode
  BY DEF PlainSites, CommandsMode, RestoreSites
<1> QED
  BY <1>1, <1>2, <1>4, <1>5, CalmPlain

LEMMA DecideCalm ==
  ASSUME RecordsInv, CalmInv, NEW p \in Procs, Decide(p)
  PROVE  CalmInv'
<1> DEFINE n == cur[p]
           rec == mem[p][n]
<1>1. /\ pc[p] = "restore" /\ n # 0 /\ seq' = seq /\ KeepHandle /\ UNCHANGED <<node, backup, journal, orphan>>
  BY DEF Decide, NoWrite, disk, meta, Keep
<1>2. pc[p] \in Working
  BY <1>1 DEF Working, OwnerSites, RestoreSites
<1>3. /\ TypeInv /\ AsideOK(p) /\ KnownOK(p) /\ CommandOK(p) /\ ModeInv /\ AsideInv
      /\ pc[p] \in OwnerSites /\ \A q \in Procs \ {p} : pc[q] \notin OwnerSites
  BY <1>2, CalmOwner
<1>4. n \in Nodes
  BY <1>1, <1>3, TypedProc, ConstantsAssumption DEF Nodes
<1>5. fd' = fd /\ mode' = mode
  BY <1>1 DEF KeepHandle
<1>6. \A m \in Nodes : Blocked(m)' = Blocked(m) /\ Regular(m)' = Regular(m)
  BY <1>1 DEF Blocked, Regular
<1>7. ASSUME mem' = mem
      PROVE  /\ OthersKeep(p) /\ AsideInv' /\ AsideOK(p)' /\ KnownOK(p)'
             /\ mode[p] = "commands" => CommandOK(p)'
  <2>1. OthersKeep(p)
    BY <1>1, <1>5, <1>7 DEF OthersKeep
  <2>2. AsideInv' /\ AsideOK(p)' /\ KnownOK(p)'
    BY <1>1, <1>3, <1>7, CalmSame
  <2>3. mode[p] = "commands" => CommandOK(p)'
    BY <1>1, <1>3, <1>7 DEF CommandOK, Blocked
  <2> QED
    BY <2>1, <2>2, <2>3
<1>8. CASE Advance(p) /\ mem' = mem
  BY <1>1, <1>2, <1>5, <1>7, <1>8, RestoringCalm
<1>9. ASSUME NEW site \in {"remove", "keep", "drop", "retire"}, GotoAt(p, site, n), OthersKeep(p),
             AsideInv', AsideOK(p)', KnownOK(p)', mode[p] = "commands" => CommandOK(p)', UndoneOK(p)'
      PROVE  CalmInv'
  <2>1. To(p, site) /\ site \in Working /\ site \in CommandsMode /\ site \notin CommandSites
    BY <1>3, <1>9, GoesAt DEF Working, OwnerSites, RestoreSites, CommandsMode, CommandSites
  <2>2. CommandOK(p)'
    BY <1>5, <1>9, <2>1 DEF CommandOK, To
  <2>3. PlanOK(p)'
    BY <1>9, <2>1 DEF PlanOK, To, Blocking
  <2> QED
    BY <1>1, <1>3, <1>9, <2>1, <2>2, <2>3, CalmStep DEF CalmOK, To
<1>10. CASE /\ mem' = mem /\ rec.stage # "none" /\ GotoAt(p, "remove", n)
            /\ MustPutBack(n, rec) \/ MustRemove(n, rec)
  <2>1. To(p, "remove") /\ cur'[p] = n
    BY <1>3, <1>10, GoesAt
  <2>2. n \in Services /\ Blocked(n) => ~Regular(n)
    <3>1. CASE MustPutBack(n, rec)
      BY <1>3, <1>4, <3>1, ConstantsAssumption DEF MustPutBack, AsideOK, Before, Regular
    <3>2. CASE MustRemove(n, rec)
      BY <3>2 DEF MustRemove
    <3> QED
      BY <1>10, <3>1, <3>2
  <2>3. UndoneOK(p)'
    BY <1>4, <1>6, <2>1, <2>2 DEF UndoneOK, To
  <2> QED
    BY <1>7, <1>9, <1>10, <2>3
<1>11. CASE mem' = mem /\ rec.stage = "preserve" /\ Replaced(n, rec) /\ GotoAt(p, "drop", n)
  <2>1. To(p, "drop") /\ cur'[p] = n
    BY <1>3, <1>11, GoesAt
  <2>2. UndoneOK(p)'
    BY <1>4, <1>6, <1>11, <2>1 DEF UndoneOK, To, Replaced
  <2> QED
    BY <1>7, <1>9, <1>11, <2>2
<1>12. CASE mem' = mem /\ AlreadyRestored(n, rec) /\ GotoAt(p, "retire", n)
  <2>1. To(p, "retire") /\ cur'[p] = n
    BY <1>3, <1>12, GoesAt
  <2>2. UndoneOK(p)'
    BY <1>1, <1>4, <1>6, <1>12, <2>1 DEF UndoneOK, To, AlreadyRestored
  <2> QED
    BY <1>7, <1>9, <1>12, <2>2
<1>13. CASE /\ rec.stage = "stubbed" /\ Replaced(n, rec) /\ GotoAt(p, "keep", n)
            /\ mem' = [mem EXCEPT ![p][cur[p]].stage = "preserve"]
  <2>1. /\ mem'[p][n].stage = "preserve" /\ mem'[p][n].orig = rec.orig
        /\ \A m \in Nodes \ {n} : mem'[p][m] = mem[p][m]
        /\ OthersKeep(p)
    BY <1>1, <1>3, <1>4, <1>13, StageIs
  <2>2. To(p, "keep") /\ cur'[p] = n
    BY <1>3, <1>13, GoesAt
  <2>3. AsideInv' /\ AsideOK(p)'
    BY <1>1, <1>3, <1>6, <2>1 DEF AsideInv, AsideOK, Before
  <2>4. KnownOK(p)'
    BY <1>1, <1>3, <1>13, <2>1, <2>2 DEF KnownOK, Recorded, To
  <2>5. mode[p] = "commands" => CommandOK(p)'
    BY <1>1, <1>3, <1>6, <2>1, NodesAreNumbers DEF CommandOK
  <2>6. UndoneOK(p)'
    BY <1>4, <1>6, <1>13, <2>1, <2>2 DEF UndoneOK, To, Replaced
  <2> QED
    BY <1>9, <1>13, <2>1, <2>3, <2>4, <2>5, <2>6
<1> QED
  BY <1>8, <1>10, <1>11, <1>12, <1>13 DEF Decide

LEMMA UndoCalm ==
  ASSUME RecordsInv, CalmInv, NEW p \in Procs, Remove(p) \/ PutBackOrDrop(p)
  PROVE  CalmInv'
<1> DEFINE next == IF pc[p] = "remove" /\ mem[p][cur[p]].orig # Absent THEN "putBack" ELSE "retire"
<1>1. /\ pc[p] \in {"remove", "putBack", "drop"} /\ mem' = mem /\ seq' = seq /\ KeepHandle /\ orphan' = orphan
      /\ NodeWrite(p) /\ GotoAt(p, next, cur[p])
  BY DEF Remove, PutBackOrDrop, Keep
<1>2. next \in {"putBack", "retire"} /\ (next = "putBack" <=> pc[p] = "remove" /\ mem[p][cur[p]].orig # Absent)
  OBVIOUS
<1> HIDE DEF next
<1>3. pc[p] \in Working
  BY <1>1 DEF Working, OwnerSites, RestoreSites
<1>4. /\ TypeInv /\ RestoreOK(p) /\ AsideOK(p) /\ KnownOK(p) /\ CommandOK(p) /\ UndoneOK(p) /\ ModeInv
      /\ pc[p] \in OwnerSites /\ \A q \in Procs \ {p} : pc[q] \notin OwnerSites
  BY <1>3, CalmOwner
<1>5. OthersKeep(p) /\ mode' = mode /\ journal' = journal /\ cur[p] \in Nodes
  BY <1>1, <1>4, Keeps, NodeWriteIs
<1>6. To(p, next) /\ cur'[p] = cur[p] /\ next \in Working /\ next \in CommandsMode /\ next \notin CommandSites
  BY <1>1, <1>2, <1>4, GoesAt DEF Working, OwnerSites, RestoreSites, CommandsMode, CommandSites
<1>7. /\ AsideInv' /\ \A m \in Nodes : Blocked(m)' => Blocked(m)
      /\ \A m \in Nodes : Blocked(m)' => /\ backup'[m] = mem[p][m].orig
                                         /\ m \in Services /\ mem[p][m].stage \in {"planned", "renamed"} =>
                                              node'[m] \notin Files
  BY <1>1, <1>3, NodeWriteCalm
<1>8. AsideOK(p)'
  BY <1>1, <1>7 DEF AsideOK, Before, Regular
<1>9. KnownOK(p)'
  BY <1>1, <1>4, <1>5 DEF KnownOK, Recorded
<1>10. CommandOK(p)'
  BY <1>1, <1>4, <1>5, <1>6, <1>7, NodesAreNumbers DEF CommandOK, To
<1>11. PlanOK(p)'
  BY <1>2, <1>6 DEF PlanOK, To, Blocking
<1>12. UndoneOK(p)'
  <2>1. CASE pc[p] = "remove"
    <3>1. /\ backup' = backup /\ node'[cur[p]] = Absent /\ Absent \notin Files
          /\ mem[p][cur[p]].orig = Absent <=> ~Blocked(cur[p])
      BY <1>1, <1>4, <2>1, NodeWriteIs, ConstantsAssumption DEF RestoreOK
    <3>2. \A m \in {cur[p]} : /\ Blocked(m)' = Blocked(m) /\ ~Regular(m)'
                              /\ next = "retire" => node'[m] = mem'[p][m].orig
                              /\ next = "putBack" => Blocked(m)
      BY <1>1, <1>2, <2>1, <3>1 DEF Blocked, Regular
    <3> QED
      BY <1>2, <1>6, <3>2 DEF UndoneOK, To
  <2>2. CASE pc[p] = "putBack"
    <3>1. node'[cur[p]] = backup[cur[p]] /\ backup[cur[p]] = mem[p][cur[p]].orig
      BY <1>1, <1>4, <1>5, <2>2, NodeWriteIs DEF UndoneOK, AsideOK
    <3> QED
      BY <1>1, <1>2, <1>6, <2>2, <3>1 DEF UndoneOK, To
  <2>3. CASE pc[p] = "drop"
    <3>1. node' = node /\ mem[p][cur[p]].stage = "preserve" /\ Regular(cur[p])
      BY <1>1, <1>4, <2>3, NodeWriteIs DEF UndoneOK
    <3> QED
      BY <1>1, <1>2, <1>6, <2>3, <3>1 DEF UndoneOK, To, Regular
  <2> QED
    BY <1>1, <2>1, <2>2, <2>3
<1>13. CalmOK(p)' /\ (mode'[p] = "commands" => pc'[p] \in CommandsMode)
  BY <1>6, <1>8, <1>9, <1>10, <1>11, <1>12 DEF CalmOK, To
<1> QED
  BY <1>1, <1>4, <1>5, <1>6, <1>7, <1>13, CalmStep DEF To

\* Whoever leaves takes what it knows along.
LEMMA LeavingCalm ==
  ASSUME RecordsInv, CalmInv, NEW p \in Procs, NEW site \in {"idle", "create"}, Leave(p, site),
         UNCHANGED <<node, backup, journal, orphan>>
  PROVE  CalmInv'
<1>1. TypeInv
  BY DEF RecordsInv, LockInv
<1>2. To(p, site) /\ OthersKeep(p) /\ mode'[p] = "enter" /\ \A q \in Procs \ {p} : cur'[q] = cur[q]
  BY <1>1, GoesTo, TypedProc DEF Leave, OthersKeep
<1>3. site \notin Working
  BY DEF Working, OwnerSites, EnterSites, RestoreSites, CommandSites
<1> QED
  BY <1>2, <1>3, CalmQuiet DEF To

\* With no file moved aside there is nothing to be known.
LEMMA NothingAside ==
  ASSUME NEW p \in Procs, \A n \in Nodes : ~Blocked(n)', NoActiveRecord(journal'.recs)
  PROVE  AsideInv' /\ AsideOK(p)' /\ KnownOK(p)' /\ CommandOK(p)'
BY NodesAreNumbers DEF AsideInv, AsideOK, KnownOK, CommandOK, NoActiveRecord, Recorded

LEMMA FinishingCalm ==
  ASSUME RecordsInv, CalmInv, NEW p \in Procs, Finish(p) \/ RemoveJournal(p) \/ Unlock(p) \/ Close(p)
  PROVE  CalmInv'
<1>1. orphan' = orphan /\ TypeInv
  BY DEF Finish, RemoveJournal, Unlock, Close, Keep, RecordsInv, LockInv
<1>2. NoWrite => UNCHANGED <<node, backup, journal>>
  BY DEF NoWrite, disk, meta
<1>3. CASE Close(p)
  <2>1. NoWrite /\ \E site \in {"idle", "create"} : Leave(p, site)
    BY <1>3 DEF Close, Exit
  <2> QED
    BY <1>1, <1>2, <2>1, LeavingCalm
<1>4. CASE Exit(p) /\ NoWrite
  BY <1>1, <1>2, <1>4, LeavingCalm DEF Exit
<1>5. CASE Unlock(p) /\ ~(Exit(p) /\ NoWrite)
  <2>1. /\ LockWrite(p) /\ GotoAt(p, "close", 0) /\ UNCHANGED <<mem, seq>> /\ KeepHandle
    BY <1>5 DEF Unlock
  <2>2. To(p, "close") /\ OthersKeep(p) /\ UNCHANGED <<node, backup, journal>>
    BY <1>1, <2>1, GoesAt, Keeps DEF LockWrite, disk, meta
  <2>3. \A q \in Procs \ {p} : cur'[q] = cur[q]
    BY <1>1, <2>1, TypedProc DEF GotoAt
  <2>4. "close" \notin Working /\ "close" \in CommandsMode
    BY DEF Working, OwnerSites, EnterSites, RestoreSites, CommandSites, CommandsMode
  <2> QED
    BY <1>1, <2>2, <2>3, <2>4, CalmQuiet DEF To
<1>6. CASE Finish(p) /\ ~(Exit(p) /\ NoWrite)
  <2> DEFINE next == IF seq[p] = 0 THEN "unlock" ELSE "finish"
  <2>1. /\ pc[p] = "restore" /\ GotoAt(p, next, 0) /\ UNCHANGED <<mem, seq>> /\ KeepHandle /\ NoWrite
    BY <1>6 DEF Finish
  <2>2. next \in {"unlock", "finish"}
    OBVIOUS
  <2> HIDE DEF next
  <2>3. pc[p] \in Working
    BY <2>1 DEF Working, OwnerSites, RestoreSites
  <2>4. /\ AsideOK(p) /\ KnownOK(p) /\ CommandOK(p) /\ AsideInv
        /\ \A q \in Procs \ {p} : pc[q] \notin OwnerSites
    BY <2>3, CalmOwner
  <2>5. To(p, next) /\ OthersKeep(p) /\ mode' = mode
    BY <1>1, <2>1, GoesAt, Keeps
  <2>6. AsideInv' /\ AsideOK(p)' /\ KnownOK(p)'
    BY <1>2, <2>1, <2>4, CalmSame
  <2>7. next \in PlainSites /\ next \in CommandsMode /\ next \notin CommandSites
    BY <2>2 DEF PlainSites, CommandsMode, CommandSites
  <2>8. CommandOK(p)'
    BY <1>2, <2>1, <2>4, <2>5, <2>7, CommandSame DEF To
  <2> QED
    BY <1>1, <2>4, <2>5, <2>6, <2>7, <2>8, CalmPlain
<1>7. CASE RemoveJournal(p) /\ ~(Exit(p) /\ NoWrite)
  <2>1. /\ pc[p] = "finish" /\ MetaWrite(p) /\ GotoAt(p, "unlock", 0) /\ mem' = mem /\ KeepHandle
        /\ seq' = [seq EXCEPT ![p] = 0]
    BY <1>7 DEF RemoveJournal
  <2>2. journal' = NoJournal /\ UNCHANGED <<node, backup>>
    BY <2>1 DEF MetaWrite, ReplaceJournal, UnlinkPending, UnlinkJournal, PersistSites, disk
  <2>3. /\ WorkOK(p) /\ \A q \in Procs \ {p} : pc[q] \notin OwnerSites
    BY <2>1, Undoing DEF RestoreSites, PersistSites
  <2>4. \A n \in Nodes : ~Blocked(n)'
    BY <2>1, <2>2, <2>3 DEF WorkOK, RestoreOK, NoActiveRecord, Touched, Recorded, Blocked
  <2>5. AsideInv' /\ AsideOK(p)' /\ KnownOK(p)' /\ CommandOK(p)'
    BY <2>2, <2>4, NothingAside DEF NoJournal, NoActiveRecord, NoRecords, NoRecord
  <2>6. To(p, "unlock") /\ OthersKeep(p) /\ "unlock" \in PlainSites /\ "unlock" \in CommandsMode
    BY <1>1, <2>1, GoesAt, TypedProc DEF OthersKeep, KeepHandle, PlainSites, CommandsMode
  <2> QED
    BY <1>1, <2>3, <2>5, <2>6, CalmPlain
<1> QED
  BY <1>3, <1>4, <1>5, <1>6, <1>7
--------------------------------------------------------------------------------
(* CalmInv: locks and failures *)

LEMMA AcquireCalm ==
  ASSUME RecordsInv, CalmInv, NEW p \in Procs, Start(p) \/ Acquire(p)
  PROVE  CalmInv'
<1>1. TypeInv /\ ModeInv /\ orphan' = orphan
  BY DEF RecordsInv, LockInv, CalmInv, Start, Acquire, FlockStale, Bind, DropPending, Create, FlockNew,
     WriteLock, AbandonLock, Keep
<1>2. NoWrite => UNCHANGED <<node, backup, journal>>
  BY DEF NoWrite, disk, meta
<1>3. pc[p] \notin CommandsMode => mode[p] # "commands"
  BY <1>1 DEF ModeInv
<1>4. "enter" # "commands" /\ "recover" # "commands" /\ "dropPending" \notin Working
  BY DEF Working
<1>5. ASSUME NEW site \in {"flock", "bind", "dropPending", "create", "flockNew", "abandonLock", "writeLock"},
             Goto(p, site), UNCHANGED <<node, backup, journal, cur>>, OthersKeep(p), mode'[p] # "commands"
      PROVE  CalmInv'
  <2>1. To(p, site) /\ site \notin Working
    BY <1>1, <1>5, GoesTo DEF Working, OwnerSites, EnterSites, RestoreSites, CommandSites
  <2> QED
    BY <1>1, <1>5, <2>1, CalmQuiet DEF To
<1>6. CASE Exit(p) /\ NoWrite
  BY <1>1, <1>2, <1>6, LeavingCalm DEF Exit
<1>7. CASE Start(p)
  <2>1. /\ pc[p] = "idle" /\ UNCHANGED <<held, mem, seq, cur>> /\ NoWrite
        /\ Goto(p, "flock") \/ Goto(p, "create")
        /\ fd' \in {fd, [fd EXCEPT ![p] = lock]} /\ mode' \in {mode, [mode EXCEPT ![p] = "recover"]}
    BY <1>7 DEF Start
  <2>2. OthersKeep(p) /\ mode'[p] # "commands"
    BY <1>1, <1>3, <1>4, <2>1, TypedProc DEF OthersKeep, CommandsMode, RestoreSites
  <2> QED
    BY <1>2, <1>5, <2>1, <2>2
<1>8. CASE (FlockStale(p) \/ FlockNew(p)) /\ ~Exit(p)
  <2>1. /\ pc[p] \in {"flock", "flockNew"} /\ UNCHANGED <<fd, mode, mem, seq, cur>> /\ NoWrite
        /\ Goto(p, "bind") \/ Goto(p, "abandonLock") \/ Goto(p, "writeLock")
    BY <1>8 DEF FlockStale, FlockNew
  <2>2. OthersKeep(p) /\ mode'[p] # "commands"
    BY <1>3, <2>1 DEF OthersKeep, CommandsMode, RestoreSites
  <2> QED
    BY <1>2, <1>5, <2>1, <2>2
<1>9. CASE Bind(p) /\ ~Exit(p)
  <2>1. /\ pc[p] = "bind" /\ mem' = [mem EXCEPT ![p] = journal.recs] /\ seq' = [seq EXCEPT ![p] = journal.seq]
        /\ Goto(p, "dropPending") /\ UNCHANGED <<fd, mode, cur>> /\ NoWrite
    BY <1>9 DEF Bind
  <2>2. OthersKeep(p) /\ mode'[p] # "commands"
    BY <1>1, <1>3, <2>1, TypedProc DEF OthersKeep, CommandsMode, RestoreSites
  <2> QED
    BY <1>2, <1>5, <2>1, <2>2
<1>10. CASE Create(p) /\ ~(Exit(p) /\ NoWrite)
  <2>1. /\ Goto(p, "flockNew") /\ fd' = [fd EXCEPT ![p] = locks + 1] /\ mode' = [mode EXCEPT ![p] = "enter"]
        /\ UNCHANGED <<node, backup, journal, mem, seq, cur>>
    BY <1>10 DEF Create, disk, meta
  <2>2. OthersKeep(p) /\ mode'[p] # "commands"
    BY <1>1, <1>4, <2>1, TypedProc DEF OthersKeep
  <2> QED
    BY <1>5, <2>1, <2>2
<1>11. CASE AbandonLock(p)
  BY <1>1, <1>11, LeavingCalm DEF AbandonLock, LockWrite, Exit, disk, meta
<1>12. CASE WriteLock(p)
  <2>1. /\ pc[p] = "writeLock" /\ To(p, "journalInit") /\ mem' = mem /\ mode' = mode /\ OthersKeep(p)
        /\ UNCHANGED <<node, backup, journal>>
    BY <1>1, <1>12, GoesTo, Keeps DEF WriteLock, LockWrite, disk, meta
  <2>2. /\ Clean /\ mem[p] = NoRecords /\ \A q \in Procs \ {p} : pc[q] \notin OwnerSites
    BY <2>1, Creating DEF CreatorSites
  <2>3. NoActiveRecord(mem'[p]) /\ NoActiveRecord(journal'.recs) /\ \A n \in Nodes : ~Blocked(n)'
    BY <2>1, <2>2 DEF Clean, NoJournal, NoActiveRecord, NoRecords, NoRecord, Untouched, Touched, Blocked
  <2>4. AsideInv' /\ AsideOK(p)' /\ KnownOK(p)' /\ CommandOK(p)'
    BY <2>3, NothingAside
  <2>5. PlanOK(p)' /\ UndoneOK(p)'
    BY <2>1, <2>3 DEF PlanOK, UndoneOK, To, Blocking
  <2>6. mode'[p] # "commands"
    BY <1>3, <2>1 DEF CommandsMode, RestoreSites
  <2> QED
    BY <1>1, <2>1, <2>2, <2>4, <2>5, <2>6, CalmStep DEF CalmOK, To
<1>13. CASE DropPending(p)
  <2>1. /\ pc[p] = "dropPending" /\ UNCHANGED <<node, backup, journal, mem, seq>> /\ KeepHandle
        /\ GotoAt(p, "unlock", 0) \/ StartCleanup(p)
    BY <1>13 DEF DropPending, MetaWrite, ReplaceJournal, UnlinkPending, UnlinkJournal, PersistSites, disk
  <2>2. /\ TakenOver(p) /\ AsideInv /\ \A q \in Procs \ {p} : pc[q] \notin OwnerSites
    BY <2>1, OwnerFacts, WorkingIs DEF RecordsInv, OwnerOK, CalmInv
  <2>3. PICK site \in {"unlock", "restore"} : To(p, site)
    BY <1>1, <2>1, GoesAt, CleansUp
  <2>4. OthersKeep(p) /\ mode'[p] # "commands"
    BY <1>1, <1>3, <2>1, Keeps DEF CommandsMode, RestoreSites
  <2>5. AsideInv' /\ AsideOK(p)' /\ KnownOK(p)'
    BY <2>1, <2>2 DEF TakenOver, AsideInv, AsideOK, KnownOK, Before, Regular, Blocked, Recorded
  <2>6. CommandOK(p)' /\ site \in PlainSites
    BY <2>3, <2>4 DEF CommandOK, To, CommandSites, PlainSites
  <2> QED
    BY <1>1, <2>2, <2>3, <2>4, <2>5, <2>6, CalmPlain
<1> QED
  BY <1>6, <1>7, <1>8, <1>9, <1>10, <1>11, <1>12, <1>13 DEF Acquire, FlockStale, Bind, FlockNew

LEMMA PrepareCalm ==
  ASSUME RecordsInv, CalmInv, NEW p \in Procs, Prepare(p)
  PROVE  CalmInv'
<1>1. pc[p] \in Working /\ UNCHANGED <<node, backup, journal, pc, mem, seq, cur, fd, mode, orphan>>
  BY WorkingIs DEF Prepare, disk, KeepHandle, Keep
<1>2. /\ AsideOK(p) /\ KnownOK(p) /\ PlanOK(p) /\ CommandOK(p) /\ UndoneOK(p) /\ AsideInv /\ ModeInv
      /\ \A q \in Procs \ {p} : pc[q] \notin OwnerSites
  BY <1>1, CalmOwner
<1>3. AsideInv' /\ AsideOK(p)' /\ KnownOK(p)' /\ CommandOK(p)'
  BY <1>1, <1>2 DEF AsideInv, AsideOK, KnownOK, CommandOK, Before, Regular, Blocked, Recorded
<1>4. PlanOK(p)' /\ UndoneOK(p)'
  BY <1>1, <1>2 DEF PlanOK, UndoneOK, Regular, Blocked, NoActiveRecord, Recorded
<1>5. OthersKeep(p) /\ (mode'[p] = "commands" => pc'[p] \in CommandsMode)
  BY <1>1, <1>2 DEF OthersKeep, ModeInv
<1> QED
  BY <1>1, <1>2, <1>3, <1>4, <1>5, CalmStep DEF CalmOK

LEMMA RaiseCalm ==
  ASSUME RecordsInv, CalmInv, NEW p \in Procs, Raise(p)
  PROVE  CalmInv'
<1>1. /\ pc[p] \in FaultSites /\ KeepHandle /\ orphan' = orphan
      /\ RaiseBefore(p) \/ RaiseAfter(p)
      /\ StartCleanup(p) \/ Advance(p)
  BY DEF Raise
<1>2. pc[p] \in Working
  BY <1>1 DEF FaultSites, Working, OwnerSites, EnterSites, RestoreSites
<1>3. /\ TypeInv /\ AsideOK(p) /\ KnownOK(p) /\ CommandOK(p) /\ ModeInv /\ AsideInv
  BY <1>2, CalmOwner
<1>4. fd' = fd /\ mode' = mode
  BY <1>1 DEF KeepHandle
<1>5. SUFFICES /\ OthersKeep(p) /\ AsideInv' /\ AsideOK(p)' /\ KnownOK(p)'
               /\ mode[p] = "commands" => CommandOK(p)'
  BY <1>1, <1>2, <1>4, RestoringCalm
<1>6. pc'[p] \in {"restore", "autoremove"}
  BY <1>1, <1>3, CleansUp, Advances DEF To
<1>7. CASE RaiseBefore(p)
  <2>1. UNCHANGED <<node, backup, journal, seq>>
    BY <1>7 DEF RaiseBefore, disk
  <2>2. CASE pc[p] # "keep"
    <3>1. mem' = mem
      BY <1>7, <2>2 DEF RaiseBefore
    <3>2. AsideInv' /\ AsideOK(p)' /\ KnownOK(p)'
      BY <1>3, <2>1, <2>2, <3>1, CalmSame
    <3> QED
      BY <1>3, <1>4, <2>1, <3>1, <3>2 DEF OthersKeep, CommandOK, Blocked
  <2>3. CASE pc[p] = "keep"
    <3>1. cur[p] \in Nodes /\ mem' = [mem EXCEPT ![p][cur[p]].stage = "stubbed"]
      BY <1>3, <1>7, <2>3 DEF TypeInv, CursorInv, RestoreSites, RaiseBefore
    <3>2. /\ mem'[p][cur[p]].stage = "stubbed" /\ mem'[p][cur[p]].orig = mem[p][cur[p]].orig
          /\ \A m \in Nodes \ {cur[p]} : mem'[p][m] = mem[p][m]
          /\ OthersKeep(p)
      BY <1>1, <1>3, <2>1, <3>1, StageIs
    <3>3. AsideInv' /\ AsideOK(p)'
      BY <1>3, <2>1, <3>2 DEF AsideInv, AsideOK, Before, Regular, Blocked
    <3>4. KnownOK(p)'
      BY <1>3, <1>6, <2>1, <2>3, <3>2 DEF KnownOK, Recorded
    <3>5. mode[p] = "commands" => CommandOK(p)'
      BY <1>3, <2>1, <3>2, NodesAreNumbers DEF CommandOK, Blocked
    <3> QED
      BY <3>2, <3>3, <3>4, <3>5
  <2> QED
    BY <2>2, <2>3
<1>8. CASE RaiseAfter(p) /\ pc[p] \in PersistSites
  <2>1. MetaWrite(p) /\ mem' = mem /\ seq' = [seq EXCEPT ![p] = seq[p] + 1]
    BY <1>3, <1>8, NodeWriteIs DEF RaiseAfter, NodeSites, PersistSites
  <2>2. OthersKeep(p)
    BY <1>3, <1>4, <2>1, TypedProc DEF OthersKeep
  <2>3. /\ AsideInv' /\ UNCHANGED <<node, backup>> /\ journal'.recs = RecordsLeft(p)
        /\ \A n \in Nodes : Blocked(n) \/ Recorded(RecordsLeft(p), n) => RecordsLeft(p)[n] = mem[p][n]
    BY <1>8, <2>1, WrittenCalm
  <2>4. \A n \in Nodes : /\ Blocked(n)' = Blocked(n) /\ Regular(n)' = Regular(n)
                         /\ Blocked(n) \/ Recorded(journal'.recs, n) => journal'.recs[n] = mem[p][n]
    BY <2>3 DEF Blocked, Regular
  <2>5. AsideOK(p)' /\ KnownOK(p)'
    BY <1>3, <2>1, <2>3, <2>4 DEF AsideOK, KnownOK, Before, Recorded
  <2>6. mode[p] = "commands" => CommandOK(p)'
    BY <1>3, <2>1, <2>4, NodesAreNumbers DEF CommandOK
  <2> QED
    BY <2>2, <2>3, <2>5, <2>6
<1>9. CASE RaiseAfter(p) /\ pc[p] \notin PersistSites
  <2>1. NodeWrite(p) /\ mem' = mem /\ seq' = seq /\ ~Obstructed(p)
    BY <1>1, <1>9 DEF RaiseAfter, MetaWrite, ReplaceJournal, UnlinkPending, UnlinkJournal, FaultSites,
       EnterSites, RestoreSites
  <2>2. OthersKeep(p) /\ journal' = journal /\ pc[p] \in NodeSites
    BY <1>3, <1>4, <2>1, NodeWriteIs DEF OthersKeep
  <2>3. /\ AsideInv'
        /\ \A n \in Nodes : Blocked(n)' => /\ backup'[n] = mem[p][n].orig
                                           /\ n \in Services /\ mem[p][n].stage \in {"planned", "renamed"} =>
                                                node'[n] \notin Files
        /\ pc[p] \notin {"displace", "block"} => \A n \in Nodes : Blocked(n)' => Blocked(n)
    BY <1>2, <2>1, NodeWriteCalm
  <2>4. AsideOK(p)'
    BY <2>1, <2>3 DEF AsideOK, Before, Regular
  <2>5. KnownOK(p)'
    BY <1>3, <2>1, <2>2 DEF KnownOK, Recorded, NodeSites
  <2>6. mode[p] = "commands" => CommandOK(p)'
    BY <1>3, <2>1, <2>2, <2>3, NodesAreNumbers DEF CommandOK, ModeInv, CommandsMode, RestoreSites
  <2> QED
    BY <2>2, <2>3, <2>4, <2>5, <2>6
<1> QED
  BY <1>1, <1>7, <1>8, <1>9

LEMMA DyingCalm ==
  ASSUME ~OrphanCommands, RecordsInv, CalmInv, NEW p \in Procs, RaiseOut(p) \/ Crash(p)
  PROVE  CalmInv'
<1>1. TypeInv /\ ModeInv
  BY DEF RecordsInv, LockInv, CalmInv
<1>2. CASE Crash(p)
  <2>1. orphan \in BOOLEAN /\ OrphanCommands \in BOOLEAN
    BY <1>1, ConstantsAssumption DEF ModeInv, TypeInv, TypeOK
  <2>2. orphan' = orphan
    BY <1>2, <2>1 DEF Crash
  <2> QED
    BY <1>2, <2>2, LeavingCalm DEF Crash, Exit, disk
<1>3. CASE RaiseOut(p) /\ pc[p] \in {"flockNew", "writeLock"}
  <2>1. /\ Goto(p, "abandonLock") /\ UNCHANGED <<mem, seq, cur, orphan, node, backup, journal>> /\ KeepHandle
    BY <1>3 DEF RaiseOut, NoWrite, LockWrite, disk, meta
  <2>2. To(p, "abandonLock") /\ OthersKeep(p) /\ mode' = mode
    BY <1>1, <2>1, GoesTo, Keeps
  <2>3. "abandonLock" \notin Working /\ mode[p] # "commands"
    BY <1>1, <1>3 DEF Working, OwnerSites, EnterSites, RestoreSites, CommandSites, ModeInv, CommandsMode
  <2> QED
    BY <2>1, <2>2, <2>3, CalmQuiet DEF To
<1>4. CASE RaiseOut(p) /\ pc[p] \notin {"flockNew", "writeLock"}
  <2>1. /\ pc[p] \in {"dropPending", "finish", "unlock", "abandonLock"} /\ orphan' = orphan
        /\ Leave(p, "idle") /\ UNCHANGED <<node, backup>>
        /\ journal' = journal \/ (pc[p] = "finish" /\ journal' = NoJournal)
    BY <1>4 DEF RaiseOut, NoWrite, LockWrite, MetaWrite, ReplaceJournal, UnlinkPending, UnlinkJournal,
       PersistSites, disk, meta, Exit
  <2>2. CASE journal' = journal
    BY <2>1, <2>2, LeavingCalm
  <2>3. CASE pc[p] = "finish" /\ journal' = NoJournal
    <3>1. WorkOK(p) /\ \A q \in Procs \ {p} : pc[q] \notin OwnerSites
      BY <2>3, Undoing DEF RestoreSites, PersistSites
    <3>2. \A n \in Nodes : ~Blocked(n)'
      BY <2>1, <2>3, <3>1 DEF WorkOK, RestoreOK, NoActiveRecord, Touched, Recorded, Blocked
    <3>3. AsideInv'
      BY <3>2 DEF AsideInv
    <3>4. To(p, "idle") /\ OthersKeep(p) /\ mode'[p] = "enter" /\ "idle" \notin Working
      BY <1>1, <2>1, GoesTo, TypedProc, WorkingIs DEF Leave, OthersKeep
    <3> QED
      BY <2>1, <3>1, <3>3, <3>4, CalmStep DEF To
  <2> QED
    BY <2>1, <2>2, <2>3
<1> QED
  BY <1>2, <1>3, <1>4
--------------------------------------------------------------------------------
(* CalmInv is kept *)

LEMMA InitCalm == Init => CalmInv
<1> SUFFICES ASSUME Init PROVE CalmInv
  OBVIOUS
<1>1. \A p \in Procs : pc[p] \notin Working /\ mode[p] = "enter"
  BY WorkingIs DEF Init
<1> QED
  BY <1>1 DEF Init, CalmInv, ModeInv, AsideInv, Blocked

LEMMA StepCalm ==
  ASSUME ~OrphanCommands, RecordsInv, CalmInv, [Next]_vars
  PROVE  CalmInv'
<1>1. CASE CommandWrites \/ OrphanEnds \/ UNCHANGED vars
  BY <1>1, EnvironmentCalm
<1>2. ASSUME NEW p \in Procs, Start(p) \/ Step(p) \/ RaiseOut(p) \/ Crash(p)
      PROVE  CalmInv'
  <2>1. CASE Step(p)
    <3>1. CASE Acquire(p) \/ Prepare(p) \/ Commit(p)
      BY <3>1, AcquireCalm, PrepareCalm, CommitCalm
    <3>2. CASE Enter(p) \/ CommandDone(p)
      BY <3>2, CaptureCalm, SubstituteCalm, BlockingCalm, CommandDoneCalm DEF Enter
    <3>3. CASE Cleanup(p) \/ Raise(p)
      BY <3>3, DecideCalm, UndoCalm, FinishingCalm, RaiseCalm DEF Cleanup
    <3> QED
      BY <2>1, <3>1, <3>2, <3>3 DEF Step
  <2> QED
    BY <1>2, <2>1, AcquireCalm, DyingCalm
<1> QED
  BY <1>1, <1>2 DEF Next

LEMMA CalmKept == ~OrphanCommands => (Spec => [](RecordsInv /\ OrigInv /\ CalmInv))
<1> SUFFICES ASSUME ~OrphanCommands PROVE Spec => [](RecordsInv /\ OrigInv /\ CalmInv)
  OBVIOUS
<1>1. RecordsInv /\ OrigInv /\ CalmInv /\ [Next]_vars => (RecordsInv /\ OrigInv /\ CalmInv)'
  BY StepRecords, StepCalm
<1> QED
  BY <1>1, InitRecords, InitCalm, PTL DEF Spec
--------------------------------------------------------------------------------
(* What follows when no command outlives its process *)

\* transaction.py: the journal names a file that was moved aside with the identity
\* it had when its node was captured, so recovery knows what to put back.
THEOREM RecordsComeFirst == ~OrphanCommands => (Spec => []WriteAhead)
<1> SUFFICES ASSUME ~OrphanCommands PROVE Spec => []WriteAhead
  OBVIOUS
<1>1. RecordsInv /\ CalmInv => WriteAhead
  BY DEF RecordsInv, NamedInv, CalmInv, AsideInv, WriteAhead, BackupNamed, Touched, Recorded
<1> QED
  BY <1>1, CalmKept, PTL

LEMMA NodeChangeIs ==
  ASSUME NEW p \in Procs, Start(p) \/ Step(p) \/ RaiseOut(p) \/ Crash(p), node' # node
  PROVE  NodeWrite(p) /\ (pc[p] = "stub" => ~Obstructed(p))
BY DEF Start, Step, Acquire, Enter, Cleanup, RaiseOut, Crash, FlockStale, Bind, DropPending, Create,
   FlockNew, WriteLock, AbandonLock, Prepare, Commit, CaptureManaged, CaptureServices, Capture, Displace,
   Populate, Block, MakeStub, CommandDone, Decide, Remove, PutBackOrDrop, Finish, RemoveJournal, Unlock,
   Close, Raise, RaiseBefore, RaiseAfter, MetaWrite, LockWrite, NoWrite, disk

\* transaction.py: _retire_record is reached only for a node that is as it was
\* recorded, or that a package replaced, and whose backup is gone; every other
\* journal write keeps the records it finds.
THEOREM RestorationPrecedesRetirement == ~OrphanCommands => (Spec => RetiredRestored)
<1> SUFFICES ASSUME ~OrphanCommands PROVE Spec => RetiredRestored
  OBVIOUS
<1>1. ASSUME RecordsInv, CalmInv, [Next]_vars, NEW n \in Nodes,
             journal.recs[n].stage # "none", journal'.recs[n].stage = "none"
      PROVE  /\ ~Blocked(n)
             /\ \/ node[n] = journal.recs[n].orig
                \/ journal.recs[n].stage = "preserve" /\ Regular(n)
  <2>1. ~(CommandWrites \/ OrphanEnds \/ UNCHANGED vars)
    BY <1>1 DEF CommandWrites, OrphanEnds, vars, meta
  <2>2. PICK p \in Procs : Start(p) \/ Step(p) \/ RaiseOut(p) \/ Crash(p)
    BY <1>1, <2>1 DEF Next
  <2>3. MetaWrite(p)
    BY <1>1, <2>2, JournalWriteIs
  <2>4. pc[p] \in PersistSites
    BY <1>1, <2>3 DEF MetaWrite, ReplaceJournal, UnlinkPending, UnlinkJournal, JournalRemovable, NoActiveRecord
  <2>5. pc[p] \in Working
    BY <2>4, WorkingIs
  <2>6. KnownOK(p) /\ UndoneOK(p) /\ RestoreOK(p)
    BY <1>1, <2>5, CalmOwner
  <2>7. journal'.recs = RecordsLeft(p)
    BY <1>1, <2>3, <2>4, WrittenCalm
  <2>8. Recorded(mem[p], n) /\ mem[p][n].orig = journal.recs[n].orig
    BY <1>1, <2>6 DEF KnownOK, Recorded
  <2>9. pc[p] = "retire" /\ n = cur[p]
    BY <1>1, <2>4, <2>7, <2>8, RecordsLeftNames DEF Recorded
  <2>10. ~Blocked(n)
    BY <2>6, <2>9 DEF RestoreOK, Touched
  <2>11. node[n] = mem[p][n].orig \/ (mem[p][n].stage = "preserve" /\ Regular(n))
    BY <2>6, <2>9 DEF UndoneOK
  <2>12. mem[p][n].stage = "preserve" => journal.recs[n].stage = "preserve"
    BY <1>1, <2>6, <2>9 DEF KnownOK, Recorded
  <2> QED
    BY <2>8, <2>10, <2>11, <2>12
<1>2. RecordsInv /\ CalmInv /\ [Next]_vars =>
        [\A n \in Nodes :
           journal.recs[n].stage # "none" /\ journal'.recs[n].stage = "none" =>
             /\ ~Blocked(n)
             /\ \/ node[n] = journal.recs[n].orig
                \/ journal.recs[n].stage = "preserve" /\ Regular(n)]_vars
  BY <1>1
<1> QED
  BY <1>2, CalmKept, PTL DEF Spec, RetiredRestored

\* transaction.py: what a package installs over a stub is kept; neither the
\* restoration nor a later transaction writes to it while its backup is there.
THEOREM ReplacementsAreKept == ~OrphanCommands => (Spec => ReplacementKept)
<1> SUFFICES ASSUME ~OrphanCommands PROVE Spec => ReplacementKept
  OBVIOUS
<1>1. ASSUME RecordsInv, CalmInv, [Next]_vars, NEW n \in Services, Blocked(n), Regular(n), node'[n] # node[n]
      PROVE  CommandRunning
  <2>1. CASE CommandWrites
    BY <2>1 DEF CommandWrites
  <2>2. CASE ~CommandWrites
    <3>1. ~(OrphanEnds \/ UNCHANGED vars)
      BY <1>1 DEF OrphanEnds, vars, disk
    <3>2. PICK p \in Procs : Start(p) \/ Step(p) \/ RaiseOut(p) \/ Crash(p)
      BY <1>1, <2>2, <3>1 DEF Next
    <3>3. NodeWrite(p) /\ (pc[p] = "stub" => ~Obstructed(p))
      BY <1>1, <3>2, NodeChangeIs
    <3>4. pc[p] \in Working
      BY <3>3 DEF NodeWrite, Rename, Inject, Link, Unlink, RenameBack, UnlinkBackup, Working, OwnerSites,
         EnterSites, RestoreSites
    <3> QED
      BY <1>1, <3>3, <3>4, NodeWriteCalm
  <2> QED
    BY <2>1, <2>2
<1>2. RecordsInv /\ CalmInv /\ [Next]_vars =>
        [\A n \in Services :
           Blocked(n) /\ Regular(n) /\ node'[n] # node[n] => CommandRunning]_vars
  BY <1>1
<1> QED
  BY <1>2, CalmKept, PTL DEF Spec, ReplacementKept

--------------------------------------------------------------------------------
(* Without calls that raise either: whatever a death leaves can be restored. *)

\* A record is one of the four kinds that a recovery restores, unless a command
\* left a node there that is neither a file nor absent.
RecordOK(n, rec) ==
  rec.stage # "none" =>
    /\ \/ Blocked(n)
       \/ n \in Managed /\ rec.orig = Absent
       \/ rec.orig # Absent /\ node[n] = rec.orig
       \/ n \in Services /\ rec.stage = "preserve" /\ Regular(n)
    /\ n \in Services => rec.stage # "managed" /\ (rec.stage = "preserve" => Regular(n))
DiskInv    == \A n \in Nodes : RecordOK(n, journal.recs[n])
ServiceInv == \A n \in Services : node[n] # Injected

\* Where an owner's memory is not what it wrote last.
Ahead == {"planManaged", "planServices", "markRenamed", "markStubbed", "keep", "unlock"}
SameOK(p) == pc[p] \notin Ahead => journal.recs = mem[p]
TrueOK(p) == \A n \in Nodes : RecordOK(n, mem[p][n])

\* How far the substitution has come.
Aside(p, n) == Blocked(n) \/ mem[p][n].orig = Absent
MovedSites  == {"populate", "locale", "captureServices", "planServices"} \cup Blocking
SubstOK(p) ==
  /\ pc[p] = "displace" => \A n \in Managed : n < cur[p] => Aside(p, n)
  /\ pc[p] \in MovedSites => \A n \in Managed : Aside(p, n)
  /\ pc[p] = "planServices" => \A n \in Services : Recorded(mem[p], n) => mem[p][n].stage = "planned"
  /\ pc[p] \in Blocking => \A n \in Services : Recorded(mem[p], n) =>
       \/ mem[p][n].stage = "planned" /\ (n = cur[p] => pc[p] = "block")
       \/ mem[p][n].stage = "stubbed" /\ Blocked(n)
       \/ mem[p][n].stage = "renamed" /\ Blocked(n) /\ n = cur[p] /\ pc[p] \in {"markRenamed", "stub"}
\* What a step of the restoration is for.
TargetOK(p) ==
  /\ pc[p] = "remove" => Blocked(cur[p]) \/ (cur[p] \in Managed /\ mem[p][cur[p]].orig = Absent)
  /\ pc[p] \in {"keep", "drop"} => cur[p] \in Services

\* While commands run, and before they run again, no record depends on what is
\* in its node.
Done(p, n) == n = cur[p] /\ pc[p] \in {"keep", "drop", "retire"}
Exposed(p) == pc[p] \in CommandSites \/ (mode[p] = "commands" /\ cur[p] \in Services)
ExposedOK(p) ==
  Exposed(p) => \A n \in Nodes : Recorded(mem[p], n) /\ ~Done(p, n) =>
    /\ n \in Managed => Aside(p, n)
    /\ n \in Services => Blocked(n) /\ mem[p][n].stage = "stubbed"

SteadyOK(p) == SameOK(p) /\ TrueOK(p) /\ SubstOK(p) /\ TargetOK(p) /\ ExposedOK(p)
SteadyInv == ServiceInv /\ DiskInv /\ \A p \in Procs : pc[p] \in Working => SteadyOK(p)

LEMMA SteadyOwner ==
  ASSUME RecordsInv, CalmInv, SteadyInv, NEW p \in Procs, pc[p] \in Working
  PROVE  /\ TypeInv /\ WorkOK(p) /\ MetaOK(p) /\ EnterOK(p) /\ BlockOK(p) /\ RestoreOK(p)
         /\ AsideOK(p) /\ KnownOK(p) /\ PlanOK(p) /\ CommandOK(p) /\ UndoneOK(p) /\ ModeInv
         /\ SameOK(p) /\ TrueOK(p) /\ SubstOK(p) /\ TargetOK(p) /\ ExposedOK(p)
         /\ ServiceInv /\ DiskInv /\ \A q \in Procs \ {p} : pc[q] \notin OwnerSites
BY CalmOwner DEF SteadyInv, SteadyOK

LEMMA SteadyStep ==
  ASSUME NEW p \in Procs, \A q \in Procs \ {p} : pc'[q] = pc[q] /\ pc[q] \notin OwnerSites,
         ServiceInv', DiskInv', pc'[p] \in Working => SteadyOK(p)'
  PROVE  SteadyInv'
BY WorkingIs DEF SteadyInv

\* One who does not work does something that concerns nobody.
LEMMA SteadyQuiet ==
  ASSUME SteadyInv, NEW p \in Procs, UNCHANGED <<node, backup, journal>>, OthersKeep(p),
         \A q \in Procs \ {p} : pc'[q] = pc[q] /\ cur'[q] = cur[q], pc'[p] \notin Working
  PROVE  SteadyInv'
<1>1. ServiceInv' /\ DiskInv'
  BY DEF SteadyInv, ServiceInv, DiskInv, RecordOK, Blocked, Regular
<1>2. ASSUME NEW q \in Procs, pc'[q] \in Working PROVE SteadyOK(q)'
  <2>1. /\ q # p /\ pc'[q] = pc[q] /\ cur'[q] = cur[q] /\ mem'[q] = mem[q] /\ mode'[q] = mode[q] /\ SteadyOK(q)
    BY <1>2 DEF OthersKeep, SteadyInv
  <2>2. SameOK(q)' /\ TrueOK(q)' /\ SubstOK(q)' /\ TargetOK(q)'
    BY <2>1 DEF SteadyOK, SameOK, TrueOK, SubstOK, TargetOK, RecordOK, Aside, Blocked, Regular
  <2>3. ExposedOK(q)'
    BY <2>1 DEF SteadyOK, ExposedOK, Exposed, Done, Aside, Blocked
  <2> QED
    BY <2>2, <2>3 DEF SteadyOK
<1> QED
  BY <1>1, <1>2 DEF SteadyInv

\* As long as the nodes stay, so does what a record is worth.
LEMMA DiskSame ==
  ASSUME ServiceInv, DiskInv, UNCHANGED <<node, backup, journal>>
  PROVE  ServiceInv' /\ DiskInv'
BY DEF ServiceInv, DiskInv, RecordOK, Blocked, Regular
LEMMA TrueSame ==
  ASSUME NEW p \in Procs, TrueOK(p), UNCHANGED <<node, backup>>, mem'[p] = mem[p]
  PROVE  TrueOK(p)'
BY DEF TrueOK, RecordOK, Blocked, Regular

\* The owner reaches a place of which only this is known.
RestingSites == {"restore", "autoremove", "command", "finish", "unlock", "captureManaged"}
LEMMA SteadyResting ==
  ASSUME NEW p \in Procs, \A q \in Procs \ {p} : pc[q] \notin OwnerSites, NEW site \in RestingSites, To(p, site),
         ServiceInv', DiskInv', TrueOK(p)', ExposedOK(p)', site # "unlock" => journal'.recs = mem'[p]
  PROVE  SteadyInv'
<1>1. SameOK(p)'
  BY DEF SameOK, To, Ahead, RestingSites
<1>2. SubstOK(p)' /\ TargetOK(p)'
  BY DEF SubstOK, TargetOK, To, RestingSites, MovedSites, Blocking
<1> QED
  BY <1>1, <1>2, SteadyStep DEF SteadyOK, To

\* Nothing is exposed while a transaction is entered, but while its commands run.
LEMMA Unexposed ==
  ASSUME NEW p \in Procs, mode'[p] # "commands", pc'[p] \notin CommandSites
  PROVE  ExposedOK(p)'
BY DEF ExposedOK, Exposed

\* The loops reach a service, or the commands after the services, from a service.
LEMMA AdvanceExposed ==
  ASSUME TypeInv, NEW p \in Procs, cur[p] \in Nodes, Advance(p), mode'[p] = mode[p], Exposed(p)'
  PROVE  Exposed(p) /\ \A n \in Nodes : ~Done(p, n)'
<1>1. /\ pc'[p] \in {"restore", "autoremove"} /\ cur'[p] = NextToRestore(cur[p])
      /\ pc'[p] = "autoremove" <=> IsLastService(cur[p]) /\ mode[p] = "commands"
  BY Advances DEF To
<1>2. \A n : ~Done(p, n)'
  BY <1>1 DEF Done
<1>3. IsLastService(cur[p]) => cur[p] \in Services
  BY ConstantsAssumption DEF IsLastService, Services
<1>4. ASSUME cur'[p] \in Services PROVE cur[p] \in Services
  BY <1>1, <1>3, <1>4, ConstantsAssumption DEF NextToRestore, FirstToRestore, Services, Nodes
<1> QED
  BY <1>1, <1>2, <1>3, <1>4 DEF Exposed, CommandSites

LEMMA Advancing ==
  ASSUME TypeInv, NEW p \in Procs, cur[p] \in Nodes, Advance(p), mode'[p] = mode[p], ExposedOK(p),
         backup' = backup,
         \A n \in Nodes : Recorded(mem'[p], n) => mem'[p][n] = mem[p][n] /\ ~Done(p, n)
  PROVE  ExposedOK(p)'
<1> SUFFICES ASSUME Exposed(p)', NEW n \in Nodes, Recorded(mem'[p], n)
             PROVE  /\ n \in Managed => Aside(p, n)'
                    /\ n \in Services => Blocked(n)' /\ mem'[p][n].stage = "stubbed"
  BY DEF ExposedOK
<1>1. Exposed(p) /\ Recorded(mem[p], n) /\ ~Done(p, n) /\ mem'[p][n] = mem[p][n]
  BY AdvanceExposed DEF Recorded
<1> QED
  BY <1>1 DEF ExposedOK, Aside, Blocked
--------------------------------------------------------------------------------
(* SteadyInv: what happens to the disk *)

\* Commands change what is in a node, but no record that is left depends on it.
LEMMA EnvironmentSteady ==
  ASSUME RecordsInv, CalmInv, SteadyInv, CommandWrites \/ OrphanEnds \/ UNCHANGED vars
  PROVE  SteadyInv'
<1>1. CASE CommandWrites
  <2>1. UNCHANGED <<backup, journal, pc, mem, seq, cur, mode, fd, orphan>>
    BY <1>1 DEF CommandWrites, meta, KeepHandle, Keep
  <2>2. PICK p \in Procs : pc[p] \in CommandSites
    BY <1>1 DEF CommandWrites, CommandRunning, CalmInv, ModeInv
  <2>3. pc[p] \in Working /\ pc[p] \notin Ahead /\ pc[p] \notin {"keep", "drop", "retire"}
    BY <2>2 DEF Working, OwnerSites, CommandSites, Ahead
  <2>4. /\ SameOK(p) /\ TrueOK(p) /\ SubstOK(p) /\ TargetOK(p) /\ ExposedOK(p) /\ ServiceInv /\ TypeInv
        /\ \A q \in Procs \ {p} : pc[q] \notin OwnerSites
    BY <2>3, SteadyOwner
  <2>5. ServiceInv'
    <3>1. PICK n \in Nodes : \E v \in Files \cup {Absent} \cup Aliens : node' = [node EXCEPT ![n] = v]
      BY <1>1 DEF CommandWrites, Store
    <3>2. \A v \in Files \cup {Absent} \cup Aliens : v # Injected
      BY ConstantsAssumption DEF AlienKinds, Absent, Injected
    <3> QED
      BY <2>4, <3>1, <3>2, TypedProc, NodesAreNumbers DEF ServiceInv
  <2>6. \A n \in Nodes : Recorded(mem[p], n) =>
          /\ n \in Managed => Aside(p, n)
          /\ n \in Services => Blocked(n) /\ mem[p][n].stage = "stubbed"
    BY <2>2, <2>3, <2>4 DEF ExposedOK, Exposed, Done
  <2>7. TrueOK(p)'
    <3>1. \A n \in Nodes : n \in Managed \/ n \in Services
      BY ConstantsAssumption DEF Nodes, Managed, Services
    <3> QED
      BY <2>1, <2>6, <3>1, ServicesAreNotManaged DEF TrueOK, RecordOK, Recorded, Aside, Blocked
  <2>8. DiskInv' /\ SameOK(p)'
    BY <2>1, <2>3, <2>4, <2>7 DEF SameOK, DiskInv, TrueOK, RecordOK, Blocked, Regular
  <2>9. SubstOK(p)' /\ TargetOK(p)'
    BY <2>1, <2>4 DEF SubstOK, TargetOK, Aside, Blocked, Recorded
  <2>10. ExposedOK(p)'
    BY <2>1, <2>4 DEF ExposedOK, Exposed, Done, Aside, Blocked, Recorded
  <2> QED
    BY <2>1, <2>4, <2>5, <2>7, <2>8, <2>9, <2>10, SteadyStep DEF SteadyOK
<1>2. CASE OrphanEnds
  BY <1>2 DEF OrphanEnds, CalmInv, ModeInv
<1>3. CASE UNCHANGED vars
  <2>1. UNCHANGED <<node, backup, journal, pc, mem, cur, mode>>
    BY <1>3 DEF vars, disk, meta
  <2>2. ServiceInv' /\ DiskInv'
    BY <2>1, DiskSame DEF SteadyInv
  <2>3. ASSUME NEW p \in Procs, pc'[p] \in Working PROVE SteadyOK(p)'
    <3>1. SteadyOK(p)
      BY <2>1, <2>3 DEF SteadyInv
    <3>2. TrueOK(p)' /\ SameOK(p)' /\ SubstOK(p)' /\ TargetOK(p)'
      BY <2>1, <3>1, TrueSame DEF SteadyOK, SameOK, SubstOK, TargetOK, Aside, Blocked, Recorded
    <3>3. ExposedOK(p)'
      BY <2>1, <3>1 DEF SteadyOK, ExposedOK, Exposed, Done, Aside, Blocked, Recorded
    <3> QED
      BY <3>2, <3>3 DEF SteadyOK
  <2> QED
    BY <2>2, <2>3 DEF SteadyInv
<1> QED
  BY <1>1, <1>2, <1>3

\* An owner writes to a node only what its record can be restored from.
LEMMA NodeWriteSteady ==
  ASSUME RecordsInv, CalmInv, SteadyInv, NEW p \in Procs, pc[p] \in Working, NodeWrite(p)
  PROVE  /\ ServiceInv' /\ DiskInv' /\ journal' = journal /\ journal.recs = mem[p] /\ cur[p] \in Nodes
         /\ mem'[p] = mem[p] => TrueOK(p)'
         /\ \A n \in Nodes \ {cur[p]} : node'[n] = node[n] /\ backup'[n] = backup[n] /\ Blocked(n)' = Blocked(n)
         /\ pc[p] \in {"displace", "block"} => backup'[cur[p]] # Absent
         /\ pc[p] \in {"populate", "stub", "remove"} => backup' = backup
<1> DEFINE n == cur[p]
           rec == mem[p][n]
<1>1. /\ TypeInv /\ BlockOK(p) /\ RestoreOK(p) /\ AsideOK(p) /\ PlanOK(p) /\ UndoneOK(p)
      /\ SameOK(p) /\ TrueOK(p) /\ SubstOK(p) /\ TargetOK(p) /\ ServiceInv /\ DiskInv
  BY SteadyOwner
<1>2. /\ journal' = journal /\ pc[p] \in NodeSites /\ n \in Nodes
      /\ \A m \in Nodes \ {n} : node'[m] = node[m] /\ backup'[m] = backup[m]
  BY <1>1, NodeWriteIs
<1>3. journal.recs = mem[p]
  BY <1>1, <1>2 DEF SameOK, Ahead, NodeSites
<1>4. /\ \A m \in Nodes : backup[m] \notin Residue
      /\ rec.stage # "none" => RecordOK(n, rec)
  BY <1>1, <1>2 DEF RecordsInv, NamedInv, TrueOK
<1>5. \A m \in Nodes \ {n} : Blocked(m)' = Blocked(m) /\ Regular(m)' = Regular(m)
  BY <1>2 DEF Blocked, Regular
\* What the node is then.
<1>6. /\ n \in Services => node'[n] # Injected
      /\ rec.stage # "none" =>
         /\ \/ backup'[n] # Absent
            \/ n \in Managed /\ rec.orig = Absent
            \/ rec.orig # Absent /\ node'[n] = rec.orig
            \/ n \in Services /\ rec.stage = "preserve" /\ node'[n] \in Files
         /\ n \in Services => rec.stage # "managed" /\ (rec.stage = "preserve" => node'[n] \in Files)
  <2>1. CASE pc[p] \in {"displace", "populate"}
    <3>1. n \in Managed /\ n \notin Services
      BY <1>1, <2>1, ServicesAreNotManaged DEF TypeInv, CursorInv
    <3>2. CASE pc[p] = "displace"
      <4>1. rec.orig # Absent /\ backup'[n] = node[n]
        BY <1>1, <3>2, NodeWriteIs
      <4>2. node[n] = rec.orig
        BY <1>1, <3>1, <3>2, TypedProc, NodesAreNumbers DEF PlanOK
      <4> QED
        BY <3>1, <4>1, <4>2
    <3>3. CASE pc[p] = "populate"
      <4>1. Aside(p, n) /\ backup' = backup
        BY <1>1, <3>1, <3>3, NodeWriteIs DEF SubstOK, MovedSites
      <4> QED
        BY <3>1, <4>1 DEF Aside, Blocked
    <3> QED
      BY <2>1, <3>2, <3>3
  <2>2. CASE pc[p] = "block"
    <3>1. n \in Services /\ rec.stage = "planned"
      BY <1>1, <2>2 DEF BlockOK
    <3>2. rec.orig # Absent /\ backup'[n] = node[n] /\ node'[n] = Absent
      BY <1>1, <2>2, NodeWriteIs
    <3>3. node[n] = rec.orig
      BY <1>1, <2>2, <3>1 DEF PlanOK, Blocking
    <3> QED
      BY <3>1, <3>2, <3>3 DEF Absent, Injected
  <2>3. CASE pc[p] = "stub"
    <3>1. n \in Services /\ Recorded(mem[p], n) /\ backup' = backup /\ node'[n] = Stub
      BY <1>1, <2>3, NodeWriteIs DEF BlockOK
    <3>2. Blocked(n) /\ rec.stage \in {"stubbed", "renamed"}
      BY <1>1, <2>3, <3>1 DEF SubstOK, Blocking
    <3> QED
      BY <3>1, <3>2 DEF Blocked, Stub, Injected
  <2>4. CASE pc[p] = "remove"
    <3>1. backup' = backup /\ node'[n] = Absent
      BY <1>1, <2>4, NodeWriteIs
    <3>2. Blocked(n) \/ (n \in Managed /\ rec.orig = Absent)
      BY <1>1, <2>4 DEF TargetOK
    <3>3. n \in Services => Blocked(n) /\ ~Regular(n)
      BY <1>1, <2>4, <3>2, ServicesAreNotManaged DEF UndoneOK
    <3>4. n \in Services /\ rec.stage # "none" => rec.stage \notin {"managed", "preserve"}
      BY <1>4, <3>3 DEF RecordOK
    <3> QED
      BY <3>1, <3>2, <3>4 DEF Blocked, Absent, Injected
  <2>5. CASE pc[p] = "putBack"
    <3>1. backup'[n] = Absent /\ node'[n] = backup[n] /\ Blocked(n)
      BY <1>1, <2>5, NodeWriteIs DEF UndoneOK
    <3>2. backup[n] = rec.orig /\ rec.orig # Absent
      BY <1>1, <1>2, <3>1 DEF AsideOK, Blocked
    <3>3. n \in Services => ~Regular(n)
      BY <1>1, <2>5, <3>1 DEF UndoneOK
    <3>4. n \in Services /\ rec.stage # "none" => rec.stage \notin {"managed", "preserve"}
      BY <1>4, <3>3 DEF RecordOK
    <3> QED
      BY <1>2, <1>4, <3>1, <3>2, <3>4 DEF Residue
  <2>6. CASE pc[p] = "drop"
    <3>1. node' = node /\ rec.stage = "preserve" /\ Regular(n) /\ n \in Services
      BY <1>1, <2>6, NodeWriteIs DEF UndoneOK, TargetOK
    <3> QED
      BY <1>1, <3>1 DEF ServiceInv, Regular
  <2> QED
    BY <1>2, <2>1, <2>2, <2>3, <2>4, <2>5, <2>6 DEF NodeSites
<1>7. ServiceInv'
  BY <1>1, <1>2, <1>6, NodesAreNumbers DEF ServiceInv
<1>8. \A m \in Nodes : mem[p][m].stage # "none" =>
         /\ \/ backup'[m] # Absent
            \/ m \in Managed /\ mem[p][m].orig = Absent
            \/ mem[p][m].orig # Absent /\ node'[m] = mem[p][m].orig
            \/ m \in Services /\ mem[p][m].stage = "preserve" /\ node'[m] \in Files
         /\ m \in Services => mem[p][m].stage # "managed" /\ (mem[p][m].stage = "preserve" => node'[m] \in Files)
  <2>1. ASSUME NEW m \in Nodes, m # n PROVE node'[m] = node[m] /\ backup'[m] = backup[m]
    BY <1>2, <2>1
  <2>2. ASSUME NEW m \in Nodes PROVE RecordOK(m, mem[p][m])
    BY <1>1 DEF TrueOK
  <2> QED
    BY <1>6, <2>1, <2>2 DEF RecordOK, Blocked, Regular
<1>9. DiskInv' /\ (mem'[p] = mem[p] => TrueOK(p)')
  BY <1>2, <1>3, <1>8 DEF DiskInv, TrueOK, RecordOK, Blocked, Regular
<1>10. pc[p] \in {"displace", "block"} => backup'[n] # Absent
  <2> SUFFICES ASSUME pc[p] \in {"displace", "block"} PROVE backup'[n] # Absent
    OBVIOUS
  <2>1. rec.orig # Absent /\ backup'[n] = node[n]
    BY <1>1, NodeWriteIs
  <2>2. CASE pc[p] = "displace"
    BY <1>1, <2>1, <2>2, TypedProc, NodesAreNumbers DEF PlanOK, TypeInv, CursorInv
  <2>3. CASE pc[p] = "block"
    BY <1>1, <2>1, <2>3 DEF PlanOK, Blocking, BlockOK
  <2> QED
    BY <2>2, <2>3
<1>11. pc[p] \in {"populate", "stub", "remove"} => backup' = backup
  BY <1>1, NodeWriteIs
<1> QED
  BY <1>2, <1>3, <1>5, <1>7, <1>9, <1>10, <1>11

--------------------------------------------------------------------------------
(* SteadyInv: the transaction is entered *)

LEMMA CommitSteady ==
  ASSUME RecordsInv, CalmInv, SteadyInv, NEW p \in Procs, Commit(p)
  PROVE  SteadyInv'
<1>1. /\ pc[p] \in PersistSites /\ MetaWrite(p) /\ AfterPersist(p) /\ mode' = mode
      /\ mem' = [mem EXCEPT ![p] = RecordsLeft(p)]
  BY DEF Commit, KeepHandle
<1>2. pc[p] \in Working
  BY <1>1, WorkingIs
<1>3. /\ TypeInv /\ EnterOK(p) /\ BlockOK(p) /\ RestoreOK(p) /\ ModeInv
      /\ SameOK(p) /\ TrueOK(p) /\ SubstOK(p) /\ TargetOK(p) /\ ExposedOK(p)
      /\ ServiceInv /\ DiskInv /\ \A q \in Procs \ {p} : pc[q] \notin OwnerSites
  BY <1>2, SteadyOwner
<1>4. mem'[p] = RecordsLeft(p) /\ mode'[p] = mode[p]
  BY <1>1, <1>3, TypedProc
<1>5. /\ UNCHANGED <<node, backup>> /\ journal'.recs = mem'[p]
      /\ \A n \in Nodes : Recorded(mem'[p], n) => mem'[p][n] = mem[p][n]
      /\ pc[p] # "retire" => mem'[p] = mem[p]
  BY <1>1, <1>4, WrittenCalm
<1>6. TrueOK(p)'
  BY <1>3, <1>5 DEF TrueOK, RecordOK, Recorded, Blocked, Regular
<1>7. ServiceInv' /\ DiskInv'
  BY <1>3, <1>5, <1>6 DEF ServiceInv, DiskInv, TrueOK, RecordOK, Blocked, Regular
<1>8. SameOK(p)'
  BY <1>5 DEF SameOK
<1>9. pc[p] \in EnterSites => mode'[p] # "commands"
  BY <1>3, <1>4 DEF ModeInv, CommandsMode, RestoreSites, EnterSites
<1>10. ASSUME NEW site \in Working, To(p, site), SubstOK(p)', TargetOK(p)', ExposedOK(p)'
       PROVE  SteadyInv'
  BY <1>3, <1>6, <1>7, <1>8, <1>10, SteadyStep DEF SteadyOK, To
<1>11. CASE pc[p] = "journalInit" /\ GotoAt(p, "captureManaged", 0)
  <2>1. To(p, "captureManaged") /\ "captureManaged" \in Working /\ "captureManaged" \notin CommandSites
    BY <1>3, <1>11, GoesAt DEF Working, OwnerSites, EnterSites, CommandSites
  <2>2. SubstOK(p)' /\ TargetOK(p)'
    BY <2>1 DEF SubstOK, TargetOK, To, MovedSites, Blocking
  <2>3. ExposedOK(p)'
    BY <1>9, <1>11, <2>1, Unexposed DEF To, EnterSites
  <2> QED
    BY <1>10, <2>1, <2>2, <2>3
<1>12. CASE pc[p] = "planManaged" /\ GotoAt(p, "displace", 1)
  <2>1. /\ To(p, "displace") /\ "displace" \in Working /\ "displace" \notin CommandSites
        /\ cur'[p] = 1
    BY <1>3, <1>12, GoesAt DEF Working, OwnerSites, EnterSites, CommandSites
  <2>2. \A n \in Managed : ~(n < 1)
    BY ConstantsAssumption DEF Managed
  <2>3. SubstOK(p)' /\ TargetOK(p)'
    BY <2>1, <2>2 DEF SubstOK, TargetOK, To, MovedSites, Blocking
  <2>4. ExposedOK(p)'
    BY <1>9, <1>12, <2>1, Unexposed DEF To, EnterSites
  <2> QED
    BY <1>10, <2>1, <2>3, <2>4
<1>13. CASE pc[p] \in {"planServices", "markStubbed"}
  <2>1. /\ \A n \in Managed : Aside(p, n)
        /\ \A n \in Services : Recorded(mem[p], n) =>
             \/ mem[p][n].stage = "planned"
             \/ mem[p][n].stage = "stubbed" /\ Blocked(n)
    BY <1>3, <1>13 DEF SubstOK, MovedSites, Blocking
  <2>2. mem'[p] = mem[p] /\ backup' = backup
    BY <1>5, <1>13
  <2>3. ASSUME NEW n \in Services, GotoAt(p, "block", n) PROVE SteadyInv'
    <3>1. To(p, "block") /\ "block" \in Working /\ "block" \notin CommandSites /\ cur'[p] = n
      BY <1>3, <2>3, GoesAt DEF Working, OwnerSites, EnterSites, CommandSites
    <3>2. SubstOK(p)' /\ TargetOK(p)'
      BY <2>1, <2>2, <3>1 DEF SubstOK, TargetOK, To, MovedSites, Blocking, Aside, Blocked, Recorded
    <3>3. ExposedOK(p)'
      BY <1>9, <1>13, <3>1, Unexposed DEF To, EnterSites
    <3> QED
      BY <1>10, <3>1, <3>2, <3>3
  <2>4. ASSUME GotoAt(p, "command", 0), \A n \in Services : mem[p][n].stage # "planned" PROVE SteadyInv'
    <3>1. To(p, "command") /\ "command" \in RestingSites
      BY <1>3, <2>4, GoesAt DEF RestingSites
    <3>2. ExposedOK(p)'
      BY <2>1, <2>2, <2>4 DEF ExposedOK, Aside, Blocked, Recorded
    <3> QED
      BY <1>3, <1>5, <1>6, <1>7, <3>1, <3>2, SteadyResting
  <2> QED
    BY <1>1, <1>13, <2>3, <2>4 DEF AfterPersist
<1>14. CASE pc[p] = "markRenamed" /\ GotoAt(p, "stub", cur[p])
  <2>1. To(p, "stub") /\ "stub" \in Working /\ "stub" \notin CommandSites /\ cur'[p] = cur[p]
    BY <1>3, <1>14, GoesAt DEF Working, OwnerSites, EnterSites, CommandSites
  <2>2. SubstOK(p)' /\ TargetOK(p)'
    BY <1>3, <1>5, <1>14, <2>1 DEF SubstOK, TargetOK, To, MovedSites, Blocking, Aside, Blocked, Recorded
  <2>3. ExposedOK(p)'
    BY <1>9, <1>14, <2>1, Unexposed DEF To, EnterSites
  <2> QED
    BY <1>10, <2>1, <2>2, <2>3
<1>15. CASE pc[p] = "keep" /\ GotoAt(p, "drop", cur[p])
  <2>1. To(p, "drop") /\ "drop" \in Working /\ "drop" \notin CommandSites /\ cur'[p] = cur[p]
    BY <1>3, <1>15, GoesAt DEF Working, OwnerSites, RestoreSites, CommandSites
  <2>2. SubstOK(p)' /\ TargetOK(p)'
    BY <1>3, <1>15, <2>1 DEF SubstOK, TargetOK, To, MovedSites, Blocking
  <2>3. Exposed(p)' => Exposed(p)
    BY <1>4, <2>1 DEF Exposed, To
  <2>4. \A n \in Nodes : Done(p, n)' <=> Done(p, n)
    BY <1>15, <2>1 DEF Done, To
  <2>5. ExposedOK(p)'
    BY <1>3, <1>5, <1>15, <2>3, <2>4 DEF ExposedOK, Aside, Blocked, Recorded
  <2> QED
    BY <1>10, <2>1, <2>2, <2>5
<1>16. CASE pc[p] = "retire" /\ Advance(p)
  <2>1. PICK site \in {"restore", "autoremove"} : To(p, site)
    BY <1>3, <1>16, Advances
  <2>2. cur[p] \in Nodes
    BY <1>3, <1>16 DEF TypeInv, CursorInv, RestoreSites
  <2>3. \A n \in Nodes : Recorded(mem'[p], n) => ~Done(p, n)
    <3>1. mem'[p][cur[p]] = NoRecord
      BY <1>4, <1>3, <1>16, <2>2, RecordsLeftNames, <1>1
    <3> QED
      BY <3>1 DEF Recorded, Done, NoRecord
  <2>4. ExposedOK(p)'
    BY <1>3, <1>4, <1>5, <1>16, <2>2, <2>3, Advancing
  <2>5. site \in RestingSites
    BY DEF RestingSites
  <2> QED
    BY <1>3, <1>5, <1>6, <1>7, <2>1, <2>4, <2>5, SteadyResting
<1> QED
  BY <1>1, <1>11, <1>12, <1>13, <1>14, <1>15, <1>16 DEF AfterPersist

LEMMA CaptureSteady ==
  ASSUME RecordsInv, CalmInv, SteadyInv, NEW p \in Procs, CaptureManaged(p) \/ CaptureServices(p)
  PROVE  SteadyInv'
<1> DEFINE present == {n \in Services : node[n] # Absent}
           nodes == IF pc[p] = "captureManaged" THEN Managed ELSE present
           stage == IF pc[p] = "captureManaged" THEN "managed" ELSE "planned"
           next  == IF pc[p] = "captureManaged" THEN "planManaged"
                    ELSE IF present = {} THEN "command" ELSE "planServices"
           recs  == [n \in Nodes |-> IF n \in nodes THEN [stage |-> stage, orig |-> node[n]] ELSE mem[p][n]]
<1>1. /\ pc[p] \in {"captureManaged", "captureServices"}
      /\ UNCHANGED <<node, backup, journal, mode, fd, seq>>
      /\ \/ StartCleanup(p) /\ mem' = mem
         \/ mem' = [mem EXCEPT ![p] = recs] /\ GotoAt(p, next, 0)
  BY DEF CaptureManaged, CaptureServices, Capture, NoWrite, KeepHandle, disk, meta
<1>2. pc[p] \in Working
  BY <1>1 DEF Working, OwnerSites, EnterSites
<1>3. /\ TypeInv /\ EnterOK(p) /\ ModeInv /\ SameOK(p) /\ TrueOK(p) /\ SubstOK(p)
      /\ ServiceInv /\ DiskInv /\ \A q \in Procs \ {p} : pc[q] \notin OwnerSites
  BY <1>2, SteadyOwner
<1>4. mode'[p] # "commands" /\ journal.recs = mem[p]
  BY <1>1, <1>3 DEF ModeInv, CommandsMode, RestoreSites, SameOK, Ahead
<1>5. ServiceInv' /\ DiskInv'
  BY <1>1, <1>3, DiskSame
<1>6. CASE StartCleanup(p) /\ mem' = mem
  <2>1. To(p, "restore") /\ "restore" \in RestingSites /\ "restore" \notin CommandSites
    BY <1>3, <1>6, CleansUp DEF RestingSites, CommandSites
  <2>2. TrueOK(p)' /\ ExposedOK(p)'
    BY <1>1, <1>3, <1>4, <1>6, <2>1, TrueSame, Unexposed DEF To
  <2> QED
    BY <1>1, <1>3, <1>4, <1>5, <1>6, <2>1, <2>2, SteadyResting
<1>7. CASE mem' = [mem EXCEPT ![p] = recs] /\ GotoAt(p, next, 0)
  <2>1. mem'[p] = recs
    BY <1>3, <1>7, TypedProc
  <2>2. To(p, next)
    BY <1>3, <1>7, GoesAt
  <2>3. nodes \subseteq Nodes /\ \A n \in Nodes \ nodes : mem'[p][n] = mem[p][n]
    BY <2>1, NodesAreNumbers
  <2>4. \A n \in nodes : mem'[p][n].stage = stage /\ mem'[p][n].orig = node[n]
    BY <2>1, <2>3
  <2>5. \A n \in nodes : IF pc[p] = "captureManaged" THEN n \in Managed /\ n \notin Services /\ stage = "managed"
                         ELSE n \in Services /\ node[n] # Absent /\ stage = "planned"
    BY ServicesAreNotManaged
  <2>6. TrueOK(p)'
    <3>1. ASSUME NEW n \in nodes PROVE RecordOK(n, mem[p][n])'
      BY <1>1, <2>4, <2>5, <3>1 DEF RecordOK
    <3>2. ASSUME NEW n \in Nodes \ nodes PROVE RecordOK(n, mem[p][n])'
      BY <1>1, <1>3, <2>3, <3>2 DEF TrueOK, RecordOK, Blocked, Regular
    <3> QED
      BY <3>1, <3>2 DEF TrueOK
  <2>7. CASE pc[p] = "captureManaged"
    <3>1. To(p, "planManaged") /\ "planManaged" \notin CommandSites /\ "planManaged" \in Ahead
      BY <2>2, <2>7 DEF CommandSites, Ahead
    <3>2. SubstOK(p)' /\ TargetOK(p)' /\ SameOK(p)'
      BY <3>1 DEF SubstOK, TargetOK, SameOK, To, MovedSites, Blocking
    <3>3. ExposedOK(p)'
      BY <1>4, <3>1, Unexposed DEF To
    <3> QED
      BY <1>3, <1>5, <2>6, <3>1, <3>2, <3>3, SteadyStep DEF SteadyOK, To
  <2>8. CASE pc[p] = "captureServices"
    <3>1. /\ \A n \in Managed : Aside(p, n) /\ n \in Nodes /\ n \notin Services
          /\ \A n \in Services : mem[p][n].stage = "none" /\ n \in Nodes
      BY <1>3, <2>8, NodesAreNumbers, ServicesAreNotManaged DEF EnterOK, SubstOK, MovedSites
    <3>2. \A n \in Managed : Aside(p, n)'
      BY <1>1, <2>3, <2>5, <2>8, <3>1 DEF Aside, Blocked
    <3>3. \A n \in Services : Recorded(mem'[p], n) => n \in nodes /\ mem'[p][n].stage = "planned"
      BY <2>3, <2>4, <2>5, <2>8, <3>1 DEF Recorded
    <3>4. CASE present = {}
      <4>1. nodes = {} /\ mem'[p] = mem[p]
        BY <1>3, <2>1, <2>8, <3>4, TypedProc
      <4>2. To(p, "command") /\ "command" \in RestingSites
        BY <2>2, <2>8, <3>4 DEF RestingSites
      <4>3. ExposedOK(p)'
        BY <3>2, <3>3, <4>1 DEF ExposedOK
      <4> QED
        BY <1>1, <1>3, <1>4, <1>5, <2>6, <4>1, <4>2, <4>3, SteadyResting
    <3>5. CASE present # {}
      <4>1. To(p, "planServices") /\ "planServices" \notin CommandSites
        BY <2>2, <2>8, <3>5 DEF CommandSites
      <4> HIDE DEF present, nodes, stage, next, recs
      <4>2. SubstOK(p)' /\ TargetOK(p)' /\ SameOK(p)'
        BY <3>2, <3>3, <4>1 DEF SubstOK, TargetOK, SameOK, To, MovedSites, Blocking, Ahead
      <4>3. ExposedOK(p)'
        BY <1>4, <4>1, Unexposed DEF To
      <4> QED
        BY <1>3, <1>5, <2>6, <4>1, <4>2, <4>3, SteadyStep DEF SteadyOK, To
    <3> QED
      BY <3>4, <3>5
  <2> QED
    BY <1>1, <2>7, <2>8
<1> QED
  BY <1>1, <1>6, <1>7

LEMMA SubstituteSteady ==
  ASSUME RecordsInv, CalmInv, SteadyInv, NEW p \in Procs, Displace(p) \/ Populate(p)
  PROVE  SteadyInv'
<1>1. /\ pc[p] \in {"displace", "populate"} /\ UNCHANGED <<mem, seq, mode, fd>>
      /\ NodeWrite(p) \/ (NoWrite /\ pc[p] = "displace" /\ mem[p][cur[p]].orig = Absent)
      /\ \/ pc[p] = "displace" /\ NextManaged(p, "displace", GotoAt(p, "populate", 1))
         \/ pc[p] = "populate" /\ NextManaged(p, "populate", GotoAt(p, "locale", 0))
  BY DEF Displace, Populate, KeepHandle
<1>2. pc[p] \in Working
  BY <1>1 DEF Working, OwnerSites, EnterSites
<1>3. /\ TypeInv /\ EnterOK(p) /\ ModeInv /\ SameOK(p) /\ TrueOK(p) /\ SubstOK(p)
      /\ ServiceInv /\ DiskInv /\ \A q \in Procs \ {p} : pc[q] \notin OwnerSites
  BY <1>2, SteadyOwner
<1>4. mode'[p] # "commands" /\ journal.recs = mem[p] /\ cur[p] \in Managed /\ cur[p] \in 1..NumManaged
  BY <1>1, <1>3 DEF ModeInv, CommandsMode, RestoreSites, SameOK, Ahead, TypeInv, CursorInv, Managed
<1>5. /\ ServiceInv' /\ DiskInv' /\ TrueOK(p)' /\ journal' = journal
      /\ \A n \in Managed : Aside(p, n) => Aside(p, n)'
      /\ pc[p] = "displace" => Blocked(cur[p]) \/ mem[p][cur[p]].orig = Absent \/ backup'[cur[p]] # Absent
  <2>1. CASE NoWrite /\ mem[p][cur[p]].orig = Absent
    <3>1. UNCHANGED <<node, backup, journal>>
      BY <2>1 DEF NoWrite, disk, meta
    <3> QED
      BY <1>1, <1>3, <2>1, <3>1, DiskSame, TrueSame DEF Aside, Blocked
  <2>2. CASE NodeWrite(p)
    <3>1. /\ ServiceInv' /\ DiskInv' /\ TrueOK(p)' /\ journal' = journal
          /\ \A n \in Nodes \ {cur[p]} : Blocked(n)' = Blocked(n)
          /\ pc[p] = "displace" => backup'[cur[p]] # Absent
          /\ pc[p] = "populate" => backup' = backup
      BY <1>1, <1>2, <2>2, NodeWriteSteady
    <3>2. \A n \in Managed : n \in Nodes
      BY NodesAreNumbers
    <3> QED
      BY <1>1, <3>1, <3>2 DEF Aside, Blocked
  <2> QED
    BY <1>1, <2>1, <2>2
<1>6. /\ \A n \in Managed : n < cur[p] \/ n = cur[p] \/ n > cur[p]
      /\ \A n \in Managed : n <= NumManaged /\ (n < cur[p] + 1 => n < cur[p] \/ n = cur[p])
  BY <1>4, ConstantsAssumption DEF Managed
<1>7. /\ pc[p] = "displace" => \A n \in Managed : n < cur[p] + 1 => Aside(p, n)'
      /\ pc[p] = "populate" => \A n \in Managed : Aside(p, n)'
  <2>1. CASE pc[p] = "displace"
    <3>1. \A n \in Managed : n = cur[p] => Aside(p, n)'
      BY <1>1, <1>5, <2>1 DEF Aside, Blocked
    <3>2. \A n \in Managed : n < cur[p] => Aside(p, n)'
      BY <1>3, <1>5, <2>1 DEF SubstOK
    <3> QED
      BY <1>6, <2>1, <3>1, <3>2
  <2>2. CASE pc[p] = "populate"
    BY <1>3, <1>5, <2>2 DEF SubstOK, MovedSites
  <2> QED
    BY <1>1, <2>1, <2>2
<1>8. SameOK(p)'
  BY <1>1, <1>4, <1>5 DEF SameOK
<1>9. \A n \in Services : mem[p][n].stage = "none"
  BY <1>1, <1>3 DEF EnterOK
<1>10. CASE pc[p] = "displace" /\ GotoAt(p, "displace", cur[p] + 1)
  <2>1. To(p, "displace") /\ "displace" \notin CommandSites /\ cur'[p] = cur[p] + 1
    BY <1>3, <1>10, GoesAt DEF CommandSites
  <2>2. SubstOK(p)' /\ TargetOK(p)'
    BY <1>7, <1>10, <2>1 DEF SubstOK, TargetOK, To, MovedSites, Blocking
  <2>3. ExposedOK(p)'
    BY <1>4, <2>1, Unexposed DEF To
  <2> QED
    BY <1>3, <1>5, <1>8, <2>1, <2>2, <2>3, SteadyStep DEF SteadyOK, To
<1>11. ASSUME NEW site \in {"populate", "locale"}, NEW i, GotoAt(p, site, i), \A n \in Managed : Aside(p, n)'
       PROVE  SteadyInv'
  <2>1. To(p, site)
    BY <1>3, <1>11, GoesAt
  <2>2. SubstOK(p)' /\ TargetOK(p)'
    BY <1>11, <2>1 DEF SubstOK, TargetOK, To, Blocking
  <2>3. ExposedOK(p)'
    BY <1>1, <1>9, <1>11 DEF ExposedOK, Recorded
  <2> QED
    BY <1>3, <1>5, <1>8, <2>1, <2>2, <2>3, SteadyStep DEF SteadyOK, To
<1>12. cur[p] = NumManaged => \A n \in Managed : Aside(p, n)'
  BY <1>1, <1>6, <1>7, <1>4, ConstantsAssumption DEF Managed
<1> QED
  BY <1>1, <1>7, <1>10, <1>11, <1>12 DEF NextManaged

LEMMA BlockingSteady ==
  ASSUME RecordsInv, CalmInv, SteadyInv, NEW p \in Procs, Block(p) \/ MakeStub(p)
  PROVE  SteadyInv'
<1> DEFINE stage == IF pc[p] = "block" THEN "renamed" ELSE "stubbed"
           next  == IF pc[p] = "block" THEN "markRenamed" ELSE "markStubbed"
<1>1. /\ pc[p] \in {"block", "stub"} /\ mem' = [mem EXCEPT ![p][cur[p]].stage = stage]
      /\ UNCHANGED seq /\ KeepHandle /\ NodeWrite(p) /\ GotoAt(p, next, cur[p])
  BY DEF Block, MakeStub
<1>2. /\ stage = IF pc[p] = "block" THEN "renamed" ELSE "stubbed"
      /\ next = IF pc[p] = "block" THEN "markRenamed" ELSE "markStubbed"
  OBVIOUS
<1> HIDE DEF stage, next
<1>3. pc[p] \in Working
  BY <1>1 DEF Working, OwnerSites, EnterSites
<1>4. /\ TypeInv /\ BlockOK(p) /\ ModeInv /\ TrueOK(p) /\ SubstOK(p)
      /\ \A q \in Procs \ {p} : pc[q] \notin OwnerSites
  BY <1>3, SteadyOwner
<1>5. cur[p] \in Services /\ cur[p] \in Nodes /\ Recorded(mem[p], cur[p])
  BY <1>1, <1>4, NodesAreNumbers DEF BlockOK
<1>6. /\ mem'[p][cur[p]].stage = stage /\ mem'[p][cur[p]].orig = mem[p][cur[p]].orig
      /\ \A m \in Nodes \ {cur[p]} : mem'[p][m] = mem[p][m]
  BY <1>1, <1>4, <1>5, StageIs
<1>7. To(p, next) /\ cur'[p] = cur[p] /\ next \notin CommandSites /\ next \in Ahead
  BY <1>1, <1>2, <1>4, GoesAt DEF CommandSites, Ahead
<1>8. /\ ServiceInv' /\ DiskInv' /\ journal' = journal
      /\ \A n \in Nodes \ {cur[p]} : node'[n] = node[n] /\ backup'[n] = backup[n] /\ Blocked(n)' = Blocked(n)
      /\ pc[p] = "block" => backup'[cur[p]] # Absent
      /\ pc[p] = "stub" => backup' = backup
  BY <1>1, <1>3, NodeWriteSteady
<1>9. backup'[cur[p]] # Absent
  BY <1>1, <1>4, <1>5, <1>8 DEF SubstOK, Blocking, Blocked
<1>10. TrueOK(p)'
  <2>1. ASSUME NEW n \in Nodes, n # cur[p] PROVE RecordOK(n, mem[p][n])'
    BY <1>4, <1>6, <1>8, <2>1 DEF TrueOK, RecordOK, Blocked, Regular
  <2>2. ASSUME NEW n \in Nodes, n = cur[p] PROVE RecordOK(n, mem[p][n])'
    BY <1>1, <1>2, <1>6, <1>9, <2>2 DEF RecordOK, Blocked
  <2> QED
    BY <2>1, <2>2 DEF TrueOK
<1>11. SubstOK(p)'
  <2>1. \A n \in Managed : Aside(p, n)'
    BY <1>1, <1>4, <1>5, <1>6, <1>8, NodesAreNumbers, ServicesAreNotManaged DEF SubstOK, MovedSites, Blocking, Aside
  <2>2. ASSUME NEW n \in Services, Recorded(mem'[p], n)
        PROVE  \/ mem'[p][n].stage = "planned" /\ n # cur[p]
               \/ mem'[p][n].stage = "stubbed" /\ Blocked(n)'
               \/ mem'[p][n].stage = "renamed" /\ Blocked(n)' /\ n = cur[p] /\ next = "markRenamed"
    <3>1. CASE n = cur[p]
      BY <1>1, <1>2, <1>6, <1>9, <3>1 DEF Blocked
    <3>2. CASE n # cur[p]
      BY <1>1, <1>4, <1>6, <1>8, <2>2, <3>2, NodesAreNumbers DEF SubstOK, Blocking, Recorded
    <3> QED
      BY <3>1, <3>2
  <2> QED
    BY <1>1, <1>2, <1>7, <2>1, <2>2 DEF SubstOK, To, MovedSites, Blocking
<1>12. TargetOK(p)' /\ SameOK(p)'
  BY <1>1, <1>2, <1>7 DEF TargetOK, SameOK, To
<1>13. ExposedOK(p)'
  <2>1. mode'[p] # "commands"
    BY <1>1, <1>4 DEF ModeInv, CommandsMode, RestoreSites, KeepHandle
  <2> QED
    BY <1>7, <2>1, Unexposed DEF To
<1> QED
  BY <1>4, <1>7, <1>8, <1>10, <1>11, <1>12, <1>13, SteadyStep DEF SteadyOK, To

LEMMA CommandDoneSteady ==
  ASSUME RecordsInv, CalmInv, SteadyInv, NEW p \in Procs, CommandDone(p)
  PROVE  SteadyInv'
<1>1. /\ pc[p] \in CommandSites /\ UNCHANGED <<node, backup, journal, mem>>
      /\ \/ pc[p] = "locale" /\ GotoAt(p, "captureServices", 0) /\ mode' = mode
         \/ pc[p] \in {"command", "autoremove"} /\ (StartCleanup(p) \/ GotoAt(p, "restore", cur[p]))
  BY DEF CommandDone, NoWrite, disk, meta, CommandSites
<1>2. pc[p] \in Working /\ pc[p] \notin Ahead /\ \A n : ~Done(p, n)
  BY <1>1 DEF Working, OwnerSites, CommandSites, Ahead, Done
<1>3. /\ TypeInv /\ ModeInv /\ SameOK(p) /\ TrueOK(p) /\ SubstOK(p) /\ ExposedOK(p)
      /\ ServiceInv /\ DiskInv /\ \A q \in Procs \ {p} : pc[q] \notin OwnerSites
  BY <1>2, SteadyOwner
<1>4. ServiceInv' /\ DiskInv' /\ TrueOK(p)' /\ journal'.recs = mem'[p]
  BY <1>1, <1>2, <1>3, DiskSame, TrueSame DEF SameOK
<1>5. ExposedOK(p)'
  BY <1>1, <1>2, <1>3 DEF ExposedOK, Exposed, Aside, Blocked
<1>6. CASE pc[p] = "locale" /\ GotoAt(p, "captureServices", 0)
  <2>1. To(p, "captureServices")
    BY <1>3, <1>6, GoesAt
  <2>2. SubstOK(p)' /\ TargetOK(p)' /\ SameOK(p)'
    BY <1>1, <1>3, <1>4, <1>6, <2>1 DEF SubstOK, TargetOK, SameOK, To, MovedSites, Blocking, Aside, Blocked
  <2> QED
    BY <1>3, <1>4, <1>5, <2>1, <2>2, SteadyStep DEF SteadyOK, To
<1>7. CASE StartCleanup(p) \/ GotoAt(p, "restore", cur[p])
  <2>1. To(p, "restore") /\ "restore" \in RestingSites
    BY <1>3, <1>7, GoesAt, CleansUp DEF RestingSites
  <2> QED
    BY <1>3, <1>4, <1>5, <2>1, SteadyResting
<1> QED
  BY <1>1, <1>6, <1>7

--------------------------------------------------------------------------------
(* SteadyInv: the transaction is undone *)

LEMMA DecideSteady ==
  ASSUME RecordsInv, CalmInv, SteadyInv, NEW p \in Procs, Decide(p)
  PROVE  SteadyInv'
<1> DEFINE n == cur[p]
           rec == mem[p][n]
<1>1. /\ pc[p] = "restore" /\ n # 0 /\ seq' = seq /\ KeepHandle /\ UNCHANGED <<node, backup, journal>>
  BY DEF Decide, NoWrite, disk, meta
<1>2. pc[p] \in Working
  BY <1>1 DEF Working, OwnerSites, RestoreSites
<1>3. /\ TypeInv /\ SameOK(p) /\ TrueOK(p) /\ ExposedOK(p) /\ ServiceInv /\ DiskInv
      /\ \A q \in Procs \ {p} : pc[q] \notin OwnerSites
  BY <1>2, SteadyOwner
<1>4. n \in Nodes
  BY <1>1, <1>3, TypedProc, ConstantsAssumption DEF Nodes
<1>5. ServiceInv' /\ DiskInv' /\ mode'[p] = mode[p] /\ journal.recs = mem[p] /\ \A m \in Nodes : ~Done(p, m)
  BY <1>1, <1>3, DiskSame DEF KeepHandle, SameOK, Ahead, Done
<1>6. CASE Advance(p) /\ mem' = mem
  <2>1. PICK site \in {"restore", "autoremove"} : To(p, site)
    BY <1>3, <1>6, Advances
  <2>2. TrueOK(p)' /\ ExposedOK(p)' /\ site \in RestingSites
    BY <1>1, <1>3, <1>4, <1>5, <1>6, TrueSame, Advancing DEF RestingSites
  <2> QED
    BY <1>1, <1>3, <1>5, <1>6, <2>1, <2>2, SteadyResting
<1>7. ASSUME NEW site \in {"remove", "keep", "drop", "retire"}, GotoAt(p, site, n), TrueOK(p)', SameOK(p)',
             TargetOK(p)', \A m \in Nodes \ {n} : mem'[p][m] = mem[p][m],
             site \in {"keep", "drop", "retire"} \/ mem' = mem
      PROVE  SteadyInv'
  <2>1. To(p, site) /\ cur'[p] = n /\ site \notin CommandSites
    BY <1>3, <1>7, GoesAt DEF CommandSites
  <2>2. SubstOK(p)'
    BY <2>1 DEF SubstOK, To, MovedSites, Blocking
  <2>3. Exposed(p)' => Exposed(p)
    BY <1>5, <2>1 DEF Exposed, To
  <2>4. \A m \in Nodes : ~Done(p, m)' => mem'[p][m] = mem[p][m]
    BY <1>7, <2>1 DEF Done, To
  <2>5. ExposedOK(p)'
    BY <1>1, <1>3, <1>5, <2>3, <2>4 DEF ExposedOK, Aside, Blocked, Recorded
  <2> QED
    BY <1>3, <1>5, <1>7, <2>1, <2>2, <2>5, SteadyStep DEF SteadyOK, To
<1>8. mem' = mem => TrueOK(p)' /\ SameOK(p)'
  BY <1>1, <1>3, <1>5, TrueSame DEF SameOK
<1>9. CASE mem' = mem /\ GotoAt(p, "remove", n) /\ (MustPutBack(n, rec) \/ MustRemove(n, rec))
  <2>1. To(p, "remove") /\ cur'[p] = n
    BY <1>3, <1>9, GoesAt
  <2>2. TargetOK(p)'
    BY <1>1, <1>9, <2>1 DEF TargetOK, To, MustPutBack, MustRemove, Blocked
  <2> QED
    BY <1>7, <1>8, <1>9, <2>2
<1>10. CASE mem' = mem /\ GotoAt(p, "drop", n) /\ Replaced(n, rec)
  <2>1. To(p, "drop") /\ cur'[p] = n
    BY <1>3, <1>10, GoesAt
  <2>2. TargetOK(p)'
    BY <1>10, <2>1 DEF TargetOK, To, Replaced
  <2> QED
    BY <1>7, <1>8, <1>10, <2>2
<1>11. CASE mem' = mem /\ GotoAt(p, "retire", n)
  <2>1. To(p, "retire") /\ cur'[p] = n
    BY <1>3, <1>11, GoesAt
  <2>2. TargetOK(p)'
    BY <2>1 DEF TargetOK, To
  <2> QED
    BY <1>7, <1>8, <1>11, <2>2
<1>12. CASE /\ Replaced(n, rec) /\ GotoAt(p, "keep", n)
            /\ mem' = [mem EXCEPT ![p][cur[p]].stage = "preserve"]
  <2>1. /\ mem'[p][n].stage = "preserve" /\ mem'[p][n].orig = rec.orig
        /\ \A m \in Nodes \ {n} : mem'[p][m] = mem[p][m]
    BY <1>1, <1>3, <1>4, <1>12, StageIs
  <2>2. To(p, "keep") /\ cur'[p] = n
    BY <1>3, <1>12, GoesAt
  <2>3. TargetOK(p)' /\ SameOK(p)'
    BY <1>12, <2>2 DEF TargetOK, SameOK, To, Ahead, Replaced
  <2>4. TrueOK(p)'
    <3>1. ASSUME NEW m \in Nodes, m # n PROVE RecordOK(m, mem[p][m])'
      BY <1>1, <1>3, <2>1, <3>1 DEF TrueOK, RecordOK, Blocked, Regular
    <3>2. ASSUME NEW m \in Nodes, m = n PROVE RecordOK(m, mem[p][m])'
      BY <1>1, <1>12, <2>1, <3>2 DEF Replaced, RecordOK, Blocked, Regular
    <3> QED
      BY <3>1, <3>2 DEF TrueOK
  <2> QED
    BY <1>7, <1>12, <2>1, <2>3, <2>4
<1> QED
  BY <1>6, <1>9, <1>10, <1>11, <1>12 DEF Decide

LEMMA UndoSteady ==
  ASSUME RecordsInv, CalmInv, SteadyInv, NEW p \in Procs, Remove(p) \/ PutBackOrDrop(p)
  PROVE  SteadyInv'
<1>1. /\ pc[p] \in {"remove", "putBack", "drop"} /\ mem' = mem /\ KeepHandle /\ NodeWrite(p)
      /\ \/ GotoAt(p, "putBack", cur[p]) /\ pc[p] = "remove"
         \/ GotoAt(p, "retire", cur[p])
  BY DEF Remove, PutBackOrDrop
<1>2. pc[p] \in Working
  BY <1>1 DEF Working, OwnerSites, RestoreSites
<1>3. /\ TypeInv /\ ExposedOK(p) /\ \A q \in Procs \ {p} : pc[q] \notin OwnerSites
  BY <1>2, SteadyOwner
<1>4. /\ ServiceInv' /\ DiskInv' /\ TrueOK(p)' /\ journal'.recs = mem'[p]
      /\ \A n \in Nodes \ {cur[p]} : Blocked(n)' = Blocked(n)
      /\ pc[p] = "remove" => backup' = backup
  BY <1>1, <1>2, NodeWriteSteady
<1>5. PICK site \in {"putBack", "retire"} : To(p, site) /\ cur'[p] = cur[p] /\ (site = "putBack" => pc[p] = "remove")
  BY <1>1, <1>3, GoesAt
<1>6. SubstOK(p)' /\ TargetOK(p)' /\ SameOK(p)'
  BY <1>4, <1>5 DEF SubstOK, TargetOK, SameOK, To, MovedSites, Blocking
<1>7. ExposedOK(p)'
  <2>1. Exposed(p)' => Exposed(p)
    BY <1>1, <1>5 DEF Exposed, To, CommandSites, KeepHandle
  <2>2. \A n \in Nodes : ~Done(p, n)' => ~Done(p, n) /\ Blocked(n)' = Blocked(n)
    BY <1>1, <1>4, <1>5 DEF Done, To, Blocked
  <2> QED
    BY <1>1, <1>3, <2>1, <2>2 DEF ExposedOK, Aside, Recorded
<1> QED
  BY <1>3, <1>4, <1>5, <1>6, <1>7, SteadyStep DEF SteadyOK, To

LEMMA LeavingSteady ==
  ASSUME RecordsInv, SteadyInv, NEW p \in Procs, NEW site \in {"idle", "create"}, Leave(p, site),
         UNCHANGED <<node, backup, journal>>
  PROVE  SteadyInv'
<1>1. TypeInv
  BY DEF RecordsInv, LockInv
<1>2. To(p, site) /\ OthersKeep(p) /\ \A q \in Procs \ {p} : cur'[q] = cur[q]
  BY <1>1, GoesTo, TypedProc DEF Leave, OthersKeep
<1>3. site \notin Working
  BY DEF Working, OwnerSites, EnterSites, RestoreSites, CommandSites
<1> QED
  BY <1>2, <1>3, SteadyQuiet DEF To

LEMMA FinishingSteady ==
  ASSUME RecordsInv, CalmInv, SteadyInv, NEW p \in Procs, Finish(p) \/ RemoveJournal(p) \/ Unlock(p) \/ Close(p)
  PROVE  SteadyInv'
<1>1. TypeInv
  BY DEF RecordsInv, LockInv
<1>2. NoWrite => UNCHANGED <<node, backup, journal>>
  BY DEF NoWrite, disk, meta
<1>3. CASE Close(p)
  <2>1. NoWrite /\ \E site \in {"idle", "create"} : Leave(p, site)
    BY <1>3 DEF Close, Exit
  <2> QED
    BY <1>2, <2>1, LeavingSteady
<1>4. CASE Exit(p) /\ NoWrite
  BY <1>2, <1>4, LeavingSteady DEF Exit
<1>5. CASE Unlock(p) /\ ~(Exit(p) /\ NoWrite)
  <2>1. /\ LockWrite(p) /\ GotoAt(p, "close", 0) /\ UNCHANGED <<mem, seq>> /\ KeepHandle
    BY <1>5 DEF Unlock
  <2>2. To(p, "close") /\ OthersKeep(p) /\ UNCHANGED <<node, backup, journal>>
    BY <1>1, <2>1, GoesAt, Keeps DEF LockWrite, disk, meta
  <2>3. \A q \in Procs \ {p} : cur'[q] = cur[q]
    BY <1>1, <2>1, TypedProc DEF GotoAt
  <2>4. "close" \notin Working
    BY DEF Working, OwnerSites, EnterSites, RestoreSites, CommandSites
  <2> QED
    BY <2>2, <2>3, <2>4, SteadyQuiet DEF To
<1>6. 0 \notin Services /\ "finish" \notin CommandSites /\ "unlock" \notin CommandSites
  BY ConstantsAssumption DEF Services, CommandSites
<1>7. CASE Finish(p) /\ ~(Exit(p) /\ NoWrite)
  <2>1. /\ pc[p] = "restore" /\ mem' = mem /\ NoWrite
        /\ GotoAt(p, "unlock", 0) \/ GotoAt(p, "finish", 0)
    BY <1>7 DEF Finish
  <2>2. pc[p] \in Working
    BY <2>1 DEF Working, OwnerSites, RestoreSites
  <2>3. SameOK(p) /\ TrueOK(p) /\ ServiceInv /\ DiskInv /\ \A q \in Procs \ {p} : pc[q] \notin OwnerSites
    BY <2>2, SteadyOwner
  <2>4. PICK next \in {"unlock", "finish"} : To(p, next) /\ cur'[p] = 0
    BY <1>1, <2>1, GoesAt
  <2>5. ServiceInv' /\ DiskInv' /\ TrueOK(p)' /\ journal'.recs = mem'[p]
    BY <1>2, <2>1, <2>3, DiskSame, TrueSame DEF SameOK, Ahead
  <2>6. ExposedOK(p)' /\ next \in RestingSites
    BY <1>6, <2>4 DEF ExposedOK, Exposed, To, RestingSites
  <2> QED
    BY <2>3, <2>4, <2>5, <2>6, SteadyResting
<1>8. CASE RemoveJournal(p) /\ ~(Exit(p) /\ NoWrite)
  <2>1. /\ pc[p] = "finish" /\ MetaWrite(p) /\ GotoAt(p, "unlock", 0) /\ mem' = mem
    BY <1>8 DEF RemoveJournal
  <2>2. journal' = NoJournal /\ UNCHANGED <<node, backup>>
    BY <2>1 DEF MetaWrite, ReplaceJournal, UnlinkPending, UnlinkJournal, PersistSites, disk
  <2>3. pc[p] \in Working
    BY <2>1 DEF Working, OwnerSites
  <2>4. TrueOK(p) /\ ServiceInv /\ \A q \in Procs \ {p} : pc[q] \notin OwnerSites
    BY <2>3, SteadyOwner
  <2>5. To(p, "unlock") /\ cur'[p] = 0 /\ "unlock" \in RestingSites
    BY <1>1, <2>1, GoesAt DEF RestingSites
  <2>6. ServiceInv' /\ DiskInv' /\ TrueOK(p)'
    BY <2>1, <2>2, <2>4, TrueSame DEF ServiceInv, DiskInv, RecordOK, NoJournal, NoRecords, NoRecord
  <2>7. ExposedOK(p)'
    BY <1>6, <2>5 DEF ExposedOK, Exposed, To
  <2> QED
    BY <2>4, <2>5, <2>6, <2>7, SteadyResting
<1> QED
  BY <1>3, <1>4, <1>5, <1>7, <1>8
--------------------------------------------------------------------------------
(* SteadyInv: locks and failures *)

LEMMA AcquireSteady ==
  ASSUME RecordsInv, CalmInv, SteadyInv, NEW p \in Procs, Start(p) \/ Acquire(p)
  PROVE  SteadyInv'
<1>1. TypeInv /\ ModeInv /\ ServiceInv /\ DiskInv
  BY DEF RecordsInv, LockInv, CalmInv, SteadyInv
<1>2. NoWrite => UNCHANGED <<node, backup, journal>>
  BY DEF NoWrite, disk, meta
<1>3. ASSUME NEW site \in {"flock", "bind", "dropPending", "create", "flockNew", "abandonLock", "writeLock"},
             Goto(p, site), UNCHANGED <<node, backup, journal, cur>>, OthersKeep(p)
      PROVE  SteadyInv'
  <2>1. To(p, site) /\ site \notin Working
    BY <1>1, <1>3, GoesTo DEF Working, OwnerSites, EnterSites, RestoreSites, CommandSites
  <2> QED
    BY <1>3, <2>1, SteadyQuiet DEF To
<1>4. CASE Exit(p) /\ NoWrite
  BY <1>2, <1>4, LeavingSteady DEF Exit
<1>5. CASE Start(p)
  <2>1. /\ UNCHANGED <<held, mem, seq, cur>> /\ NoWrite
        /\ Goto(p, "flock") \/ Goto(p, "create")
        /\ fd' \in {fd, [fd EXCEPT ![p] = lock]} /\ mode' \in {mode, [mode EXCEPT ![p] = "recover"]}
    BY <1>5 DEF Start
  <2>2. OthersKeep(p)
    BY <1>1, <2>1, TypedProc DEF OthersKeep
  <2> QED
    BY <1>2, <1>3, <2>1, <2>2
<1>6. CASE (FlockStale(p) \/ FlockNew(p)) /\ ~Exit(p)
  <2>1. /\ UNCHANGED <<fd, mode, mem, seq, cur>> /\ NoWrite
        /\ Goto(p, "bind") \/ Goto(p, "abandonLock") \/ Goto(p, "writeLock")
    BY <1>6 DEF FlockStale, FlockNew
  <2> QED
    BY <1>2, <1>3, <2>1 DEF OthersKeep
<1>7. CASE Bind(p) /\ ~Exit(p)
  <2>1. /\ mem' = [mem EXCEPT ![p] = journal.recs] /\ seq' = [seq EXCEPT ![p] = journal.seq]
        /\ Goto(p, "dropPending") /\ UNCHANGED <<fd, mode, cur>> /\ NoWrite
    BY <1>7 DEF Bind
  <2>2. OthersKeep(p)
    BY <1>1, <2>1, TypedProc DEF OthersKeep
  <2> QED
    BY <1>2, <1>3, <2>1, <2>2
<1>8. CASE Create(p) /\ ~(Exit(p) /\ NoWrite)
  <2>1. /\ Goto(p, "flockNew") /\ fd' = [fd EXCEPT ![p] = locks + 1] /\ mode' = [mode EXCEPT ![p] = "enter"]
        /\ UNCHANGED <<node, backup, journal, mem, seq, cur>>
    BY <1>8 DEF Create, disk, meta
  <2>2. OthersKeep(p)
    BY <1>1, <2>1, TypedProc DEF OthersKeep
  <2> QED
    BY <1>3, <2>1, <2>2
<1>9. CASE AbandonLock(p)
  BY <1>9, LeavingSteady DEF AbandonLock, LockWrite, Exit, disk, meta
<1>10. CASE WriteLock(p)
  <2>1. /\ pc[p] = "writeLock" /\ To(p, "journalInit") /\ mem' = mem /\ mode' = mode
        /\ UNCHANGED <<node, backup, journal>>
    BY <1>1, <1>10, GoesTo DEF WriteLock, LockWrite, KeepHandle, disk, meta
  <2>2. /\ Clean /\ mem[p] = NoRecords /\ \A q \in Procs \ {p} : pc[q] \notin OwnerSites
    BY <2>1, Creating DEF CreatorSites
  <2>3. ServiceInv' /\ DiskInv'
    BY <1>1, <2>1, DiskSame
  <2>4. journal'.recs = NoRecords /\ mem'[p] = NoRecords /\ \A n \in Nodes : NoRecords[n].stage = "none"
    BY <2>1, <2>2 DEF Clean, NoJournal, NoRecords, NoRecord
  <2>5. SameOK(p)' /\ TrueOK(p)' /\ ExposedOK(p)'
    BY <2>4 DEF SameOK, TrueOK, RecordOK, ExposedOK, Recorded
  <2>6. SubstOK(p)' /\ TargetOK(p)'
    BY <2>1 DEF SubstOK, TargetOK, To, MovedSites, Blocking
  <2> QED
    BY <2>1, <2>2, <2>3, <2>5, <2>6, SteadyStep DEF SteadyOK, To
<1>11. CASE DropPending(p)
  <2>1. /\ pc[p] = "dropPending" /\ UNCHANGED <<node, backup, journal, mem, mode>>
        /\ GotoAt(p, "unlock", 0) \/ StartCleanup(p)
    BY <1>11 DEF DropPending, MetaWrite, ReplaceJournal, UnlinkPending, UnlinkJournal, PersistSites, disk,
       KeepHandle
  <2>2. /\ TakenOver(p) /\ \A q \in Procs \ {p} : pc[q] \notin OwnerSites
    BY <2>1, OwnerFacts, WorkingIs DEF RecordsInv, OwnerOK
  <2>3. PICK site \in {"unlock", "restore"} : To(p, site)
    BY <1>1, <2>1, GoesAt, CleansUp
  <2>4. mode'[p] # "commands" /\ site \notin CommandSites /\ site \in RestingSites
    BY <1>1, <2>1 DEF ModeInv, CommandsMode, RestoreSites, CommandSites, RestingSites
  <2>5. ServiceInv' /\ DiskInv' /\ journal'.recs = mem'[p]
    BY <1>1, <2>1, <2>2, DiskSame DEF TakenOver
  <2>6. TrueOK(p)' /\ ExposedOK(p)'
    BY <2>3, <2>4, <2>5, Unexposed DEF To, DiskInv, TrueOK
  <2> QED
    BY <2>2, <2>3, <2>4, <2>5, <2>6, SteadyResting
<1> QED
  BY <1>4, <1>5, <1>6, <1>7, <1>8, <1>9, <1>10, <1>11 DEF Acquire, FlockStale, Bind, FlockNew

LEMMA PrepareSteady ==
  ASSUME RecordsInv, CalmInv, SteadyInv, NEW p \in Procs, Prepare(p)
  PROVE  SteadyInv'
<1>1. pc[p] \in Working /\ UNCHANGED <<node, backup, journal, pc, mem, cur, mode>>
  BY WorkingIs DEF Prepare, disk, KeepHandle
<1>2. /\ SameOK(p) /\ TrueOK(p) /\ SubstOK(p) /\ TargetOK(p) /\ ExposedOK(p) /\ ServiceInv /\ DiskInv
      /\ \A q \in Procs \ {p} : pc[q] \notin OwnerSites
  BY <1>1, SteadyOwner
<1>3. ServiceInv' /\ DiskInv' /\ TrueOK(p)' /\ SameOK(p)'
  BY <1>1, <1>2, DiskSame, TrueSame DEF SameOK
<1>4. SubstOK(p)' /\ TargetOK(p)' /\ ExposedOK(p)'
  BY <1>1, <1>2 DEF SubstOK, TargetOK, ExposedOK, Exposed, Done, Aside, Blocked, Recorded
<1> QED
  BY <1>1, <1>2, <1>3, <1>4, SteadyStep DEF SteadyOK

\* A call raises only for what it finds, before it has done anything.
LEMMA RaiseSteady ==
  ASSUME MaxFaults = 0, RecordsInv, CalmInv, SteadyInv, NEW p \in Procs, Raise(p)
  PROVE  SteadyInv'
<1>1. /\ pc[p] \in FaultSites /\ KeepHandle
      /\ RaiseBefore(p) \/ RaiseAfter(p)
      /\ IF pc[p] \in EnterSites THEN StartCleanup(p) ELSE Advance(p)
  BY DEF Raise
<1>2. pc[p] \in Working
  BY <1>1 DEF FaultSites, Working, OwnerSites, EnterSites, RestoreSites
<1>3. /\ TypeInv /\ MetaOK(p) /\ BlockOK(p) /\ ModeInv /\ SameOK(p) /\ TrueOK(p) /\ ExposedOK(p) /\ ServiceInv /\ DiskInv
      /\ \A q \in Procs \ {p} : pc[q] \notin OwnerSites
  BY <1>2, SteadyOwner
<1>4. Obstructed(p)
  <2>1. faults \in Nat /\ faults' <= 0
    BY <1>3 DEF TypeInv, TypeOK, Raise
  <2> QED
    BY <2>1 DEF Raise
<1>5. pc[p] \in {"displace", "block", "populate", "stub", "remove", "putBack"}
  <2>1. PersistAllowed(p) \/ Prepared(p) \/ pc[p] \notin PersistSites
    BY <1>3 DEF MetaOK, PersistAllowed, Prepared, JournalData
  <2> QED
    BY <1>4, <2>1 DEF Obstructed
<1>6. UNCHANGED <<node, backup, journal, mem>> /\ mode'[p] = mode[p] /\ journal.recs = mem[p]
  BY <1>1, <1>3, <1>4, <1>5 DEF RaiseBefore, RaiseAfter, disk, KeepHandle, SameOK, Ahead
<1>7. ServiceInv' /\ DiskInv' /\ TrueOK(p)'
  BY <1>3, <1>6, DiskSame, TrueSame
<1>8. PICK site \in {"restore", "autoremove"} : To(p, site)
  BY <1>1, <1>3, CleansUp, Advances
<1>9. site \in RestingSites
  BY DEF RestingSites
<1>10. ExposedOK(p)'
  <2>1. CASE pc[p] \in EnterSites
    <3>1. To(p, "restore") /\ mode'[p] # "commands"
      BY <1>1, <1>3, <1>6, <2>1, CleansUp DEF ModeInv, CommandsMode, RestoreSites, EnterSites
    <3> QED
      BY <3>1, Unexposed DEF To, CommandSites
  <2>2. CASE pc[p] \notin EnterSites
    <3>1. cur[p] \in Nodes /\ \A n \in Nodes : ~Done(p, n)
      BY <1>3, <1>5, <2>2 DEF EnterSites, TypeInv, CursorInv, RestoreSites, Done
    <3> QED
      BY <1>1, <1>3, <1>6, <2>2, <3>1, Advancing
  <2> QED
    BY <2>1, <2>2
<1> QED
  BY <1>3, <1>6, <1>7, <1>8, <1>9, <1>10, SteadyResting
--------------------------------------------------------------------------------
(* SteadyInv is kept *)

LEMMA InitSteady == Init => SteadyInv
<1> SUFFICES ASSUME Init PROVE SteadyInv
  OBVIOUS
<1>1. \A p \in Procs : pc[p] \notin Working
  BY WorkingIs DEF Init
<1>2. ServiceInv
  BY ConstantsAssumption, NodesAreNumbers DEF Init, ServiceInv, Absent, Injected
<1>3. DiskInv
  BY DEF Init, DiskInv, RecordOK, NoJournal, NoRecords, NoRecord
<1> QED
  BY <1>1, <1>2, <1>3 DEF SteadyInv

LEMMA StepSteady ==
  ASSUME MaxFaults = 0, RecordsInv, CalmInv, SteadyInv, [Next]_vars
  PROVE  SteadyInv'
<1>1. CASE CommandWrites \/ OrphanEnds \/ UNCHANGED vars
  BY <1>1, EnvironmentSteady
<1>2. ASSUME NEW p \in Procs, Start(p) \/ Step(p) \/ RaiseOut(p) \/ Crash(p)
      PROVE  SteadyInv'
  <2>1. CASE Step(p)
    <3>1. CASE Acquire(p) \/ Prepare(p) \/ Commit(p)
      BY <3>1, AcquireSteady, PrepareSteady, CommitSteady
    <3>2. CASE Enter(p) \/ CommandDone(p)
      BY <3>2, CaptureSteady, SubstituteSteady, BlockingSteady, CommandDoneSteady DEF Enter
    <3>3. CASE Cleanup(p) \/ Raise(p)
      BY <3>3, DecideSteady, UndoSteady, FinishingSteady, RaiseSteady DEF Cleanup
    <3> QED
      BY <2>1, <3>1, <3>2, <3>3 DEF Step
  <2>2. CASE Crash(p)
    BY <2>2, LeavingSteady DEF Crash, Exit, disk
  <2>3. ~RaiseOut(p)
    BY DEF RaiseOut, RecordsInv, LockInv, TypeInv, TypeOK
  <2> QED
    BY <1>2, <2>1, <2>2, <2>3, AcquireSteady
<1> QED
  BY <1>1, <1>2 DEF Next

\* A record that can be restored is one that a recovery accepts, on a disk
\* without a node it cannot tell the kind of.
LEMMA RecordAccepted ==
  ASSUME RecordsInv, CalmInv, SteadyInv, NEW n \in Nodes, node[n] \notin AlienKinds, Recorded(journal.recs, n)
  PROVE  Restorable(n, journal.recs[n])
<1> DEFINE rec == journal.recs[n]
<1>1. /\ node[n] \in Files \cup {Absent, Injected, Stub} /\ rec.stage \in Stages
      /\ "dir" \in AlienKinds
      /\ n \in Managed \/ (n \in Services /\ n \notin Managed)
  <2>1. journal \in Journals /\ node \in [Nodes -> Values]
    BY DEF RecordsInv, LockInv, TypeInv, TypeOK
  <2>2. n \in Managed \/ n \in Services
    BY ConstantsAssumption DEF Nodes, Managed, Services
  <2> QED
    BY <2>1, <2>2, ServicesAreNotManaged DEF Journals, Records, Values, AlienKinds
<1>2. RecordOK(n, rec) /\ (n \in Services => node[n] # Injected)
  BY DEF SteadyInv, DiskInv, ServiceInv
<1>3. Blocked(n) => backup[n] = rec.orig
  BY DEF CalmInv, AsideInv
<1>4. ~Ambiguous(n, rec)
  <2>1. CASE Blocked(n) /\ n \in Managed
    BY <1>1, <1>3, <2>1, ServicesAreNotManaged DEF Ambiguous, MustPutBack
  <2>2. CASE Blocked(n) /\ n \in Services
    BY <1>1, <1>2, <1>3, <2>2 DEF Ambiguous, MustPutBack, Replaced, RecordOK, Recorded, Regular, Stages
  <2>3. CASE ~Blocked(n)
    BY <1>2, <2>3 DEF Ambiguous, MustRemove, AlreadyRestored, RecordOK, Recorded
  <2> QED
    BY <1>1, <2>1, <2>2, <2>3
<1> QED
  BY <1>4 DEF Restorable, AlienKinds

\* transaction.py: whatever a process that died had done and recorded, the
\* checks of _recover_stale_transaction pass, and the next process can put it back.
THEOREM DeathsAreRecoverable ==
  ~OrphanCommands /\ MaxFaults = 0 => (Spec => []StaleRecoverable)
<1> SUFFICES ASSUME ~OrphanCommands, MaxFaults = 0 PROVE Spec => []StaleRecoverable
  OBVIOUS
<1> DEFINE Inv == RecordsInv /\ OrigInv /\ CalmInv /\ SteadyInv
<1>1. Init => Inv
  BY InitRecords, InitCalm, InitSteady
<1>2. Inv /\ [Next]_vars => Inv'
  BY StepRecords, StepCalm, StepSteady
<1>3. Inv => StaleRecoverable
  <2> SUFFICES ASSUME Inv, Abandoned PROVE RecoveryAccepts(lock)
    BY DEF StaleRecoverable
  <2>1. {journal.tok, pending.tok} \subseteq {0, lock} /\ PendingFits
    BY DEF Abandoned, RecordsInv, JournalInv
  <2>2. ASSUME NEW n \in Nodes
        PROVE  IF journal.recs[n].stage = "none" THEN ~Blocked(n) ELSE Restorable(n, journal.recs[n])
    BY RecordAccepted DEF Abandoned, RecordsInv, NamedInv, Touched, Recorded
  <2> QED
    BY <2>1, <2>2 DEF Abandoned, RecoveryAccepts
<1> QED
  BY <1>1, <1>2, <1>3, PTL DEF Spec

================================================================================
