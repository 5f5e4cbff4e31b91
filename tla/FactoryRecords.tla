----------------------------- MODULE FactoryRecords -----------------------------
(***************************************************************************)
(* The grant records of liveusb/backend/factory_execution.py.  Every       *)
(* operation runs under one flock on the records directory, which the      *)
(* commands it starts inherit; it may die between any two system calls,    *)
(* and only files tell the next one how far it got:                        *)
(*   grant.json, state.json, .state.pending-<id>, outcome.json             *)
(* The receipt's own pending file matters only as a second link to         *)
(* outcome.json.  A state file is represented by its phase: sequence,      *)
(* previous digest and attempt follow from it.                             *)
(***************************************************************************)
EXTENDS Naturals

CONSTANTS
  Procs,        \* processes that plan, execute and recover
  Grants,       \* grant identifiers that may be issued
  NoGrant,      \* a value that is no grant
  NumCommands,  \* factory commands of a complete rebuild
  TornWrites,   \* a failing write may leave a part of its file
  MaxCrashes,   \* bound: process deaths
  MaxFaults     \* bound: system calls that raise OSError

ASSUME RecordsAssumption ==
  /\ NoGrant \notin Grants
  /\ NumCommands \in Nat \ {0}
  /\ TornWrites \in BOOLEAN
  /\ MaxCrashes \in Nat
  /\ MaxFaults \in Nat

Open     == {"issued", "consumed"}
Terminal == {"revoked", "succeeded", "failed", "interrupted"}
Phases   == Open \cup Terminal
Files    == Phases \cup {"none", "torn"}

\* links = 2 while the receipt's pending name is still there.
Outcomes  == [status : Terminal \cup {"none"}, links : 0..2]
NoOutcome == [status |-> "none", links |-> 0]

VARIABLES
  bundles,  \* the grant directories
  grant,    \* grant.json: "none", "torn" or "complete"
  state,    \* state.json
  pending,  \* the pending state file
  outcome,  \* outcome.json
  site,     \* where each process stands
  held,     \* whether it holds the record lock
  op,       \* "issue", "execute" or "recover"
  at,       \* the grant it works on
  goal,     \* the phase it is about to write
  run,      \* the command it has running: "none", "factory" or "recovery"
  orphan,   \* for each grant, a command whose parent died
  ran,      \* factory commands started for each grant
  crashes, faults

files   == <<bundles, grant, state, pending, outcome>>
control == <<site, held, op, at, goal, run>>
vars    == <<files, control, orphan, ran, crashes, faults>>

Sites == {"idle", "scan", "mkdir", "writeGrant", "writeState", "undo",
          "read", "reconcile", "compare", "rebuild", "recover",
          "publish", "unlink", "prepare", "replace"}

Init ==
  /\ bundles = {}
  /\ grant = [g \in Grants |-> "none"]
  /\ state = [g \in Grants |-> "none"]
  /\ pending = [g \in Grants |-> "none"]
  /\ outcome = [g \in Grants |-> NoOutcome]
  /\ site = [p \in Procs |-> "idle"]
  /\ held = [p \in Procs |-> FALSE]
  /\ op = [p \in Procs |-> "issue"]
  /\ at = [p \in Procs |-> NoGrant]
  /\ goal = [p \in Procs |-> "none"]
  /\ run = [p \in Procs |-> "none"]
  /\ orphan = [g \in Grants |-> "none"]
  /\ ran = [g \in Grants |-> 0]
  /\ crashes = 0
  /\ faults = 0
--------------------------------------------------------------------------------
(* Control of one process *)

Goto(p, s) == site' = [site EXCEPT ![p] = s]
Aim(p, phase, s) == goal' = [goal EXCEPT ![p] = phase] /\ Goto(p, s)

\* FactoryRecordStore.__exit__, or the kernel, closes the lock descriptor.
Exit(p) ==
  /\ Goto(p, "idle")
  /\ held' = [held EXCEPT ![p] = FALSE]
  /\ op' = [op EXCEPT ![p] = "issue"]
  /\ at' = [at EXCEPT ![p] = NoGrant]
  /\ goal' = [goal EXCEPT ![p] = "none"]
  /\ run' = [run EXCEPT ![p] = "none"]

NoWrite  == UNCHANGED files
Still    == UNCHANGED <<orphan, ran, crashes, faults>>
KeepTask == UNCHANGED <<held, op, at>>

\* The lock is free when neither a process nor a command it started has the
\* open file description: the descriptor is in pass_fds of every command.
LockFree == (\A q \in Procs : ~held[q]) /\ (\A g \in Grants : orphan[g] = "none")
--------------------------------------------------------------------------------
(* read_state, reconcile_terminal_outcome: what the files allow *)

Successors(phase) ==
  CASE phase = "issued"   -> {"consumed", "revoked"}
    [] phase = "consumed" -> {"succeeded", "failed", "interrupted"}
    [] OTHER              -> {}

Readable(g) == /\ state[g] \in Phases
               /\ pending[g] \in {"none"} \cup Successors(state[g])
Settled(g)  == IF pending[g] = "none" THEN state[g] ELSE pending[g]

\* A complete pending state is put in place.
Settle(g) ==
  /\ state' = [state EXCEPT ![g] = Settled(g)]
  /\ pending' = [pending EXCEPT ![g] = "none"]
  /\ UNCHANGED <<bundles, grant, outcome>>

\* _read_exact_file refuses a file with two links.
OutcomeSeen(g) == outcome[g].links > 0   \* faulty: links are not counted
OutcomeReadable(g) == outcome[g].links = 1
NeverReconcile(g) == FALSE               \* faulty: an outcome ends the matter
\* The outcome is ahead of the state and fits it.
MayReconcile(g) == OutcomeReadable(g) /\ outcome[g].status \in Successors(state[g])
--------------------------------------------------------------------------------
(* issue_complete_rebuild *)

\* The lock is taken without waiting; whoever does not get it leaves no trace.
Enter(p, task, g) ==
  /\ site[p] = "idle" /\ LockFree
  /\ held' = [held EXCEPT ![p] = TRUE]
  /\ op' = [op EXCEPT ![p] = task]
  /\ at' = [at EXCEPT ![p] = g]
  /\ Goto(p, IF task = "issue" THEN "scan" ELSE "read")
  /\ UNCHANGED <<goal, run>> /\ NoWrite /\ Still

Incomplete(g) == state[g] \in Open

\* incomplete_bundles, then the fresh plan, which may be refused.
Scan(p) ==
  /\ site[p] = "scan"
  /\ \/ /\ \E g \in bundles : Readable(g) /\ pending[g] # "none" /\ Settle(g)
        /\ UNCHANGED control
     \/ /\ \/ \E g \in bundles : ~Readable(g)
           \/ \A g \in bundles : pending[g] = "none"
        /\ Exit(p) /\ NoWrite
     \/ /\ \A g \in bundles : Readable(g) /\ pending[g] = "none" /\ ~Incomplete(g)
        /\ \E g \in Grants \ bundles : at' = [at EXCEPT ![p] = g]
        /\ Goto(p, "mkdir")
        /\ UNCHANGED <<held, op, goal, run>> /\ NoWrite
  /\ Still

MakeBundle(p) ==
  /\ site[p] = "mkdir"
  /\ bundles' = bundles \cup {at[p]}
  /\ Goto(p, "writeGrant")
  /\ UNCHANGED <<grant, state, pending, outcome, goal, run>> /\ KeepTask /\ Still

WriteGrant(p) ==
  /\ site[p] = "writeGrant"
  /\ grant' = [grant EXCEPT ![at[p]] = "complete"]
  /\ Goto(p, "writeState")
  /\ UNCHANGED <<bundles, state, pending, outcome, goal, run>> /\ KeepTask /\ Still

WriteIssued(p) ==
  /\ site[p] = "writeState"
  /\ state' = [state EXCEPT ![at[p]] = "issued"]
  /\ Exit(p)
  /\ UNCHANGED <<bundles, grant, pending, outcome>> /\ Still

\* After an exception: unlink state.json and grant.json, remove the directory.
Undo(p) ==
  LET g == at[p] IN
  /\ site[p] = "undo"
  /\ \/ /\ state[g] # "none" /\ state' = [state EXCEPT ![g] = "none"]
        /\ UNCHANGED <<bundles, grant, control>>
     \/ /\ state[g] = "none" /\ grant[g] # "none"
        /\ grant' = [grant EXCEPT ![g] = "none"]
        /\ UNCHANGED <<bundles, state, control>>
     \/ /\ state[g] = "none" /\ grant[g] = "none"
        /\ bundles' = bundles \ {g} /\ Exit(p)
        /\ UNCHANGED <<grant, state>>
  /\ UNCHANGED <<pending, outcome>> /\ Still
--------------------------------------------------------------------------------
(* The common beginning of execute_issued_rebuild and recover_consumed_rebuild *)

Read(p) ==
  /\ site[p] = "read"
  /\ \/ ~Readable(at[p]) /\ Exit(p) /\ NoWrite
     \/ /\ Readable(at[p]) /\ Settle(at[p])
        /\ Goto(p, "reconcile") /\ UNCHANGED <<goal, run>> /\ KeepTask
  /\ Still

Required(p) == IF op[p] = "execute" THEN "issued" ELSE "consumed"
MayProceedAgain(p) ==            \* faulty: a consumed grant is executed again
  outcome[at[p]] = NoOutcome /\ state[at[p]] \in Open
MayProceed(p) == outcome[at[p]] = NoOutcome /\ state[at[p]] = Required(p)

Reconcile(p) ==
  LET g == at[p] IN
  /\ site[p] = "reconcile"
  /\ \/ /\ MayReconcile(g)
        /\ Aim(p, outcome[g].status, "prepare") /\ UNCHANGED run /\ KeepTask
     \/ /\ MayProceed(p)
        /\ Goto(p, IF op[p] = "execute" THEN "compare" ELSE "recover")
        /\ UNCHANGED <<goal, run>> /\ KeepTask
     \/ ~MayReconcile(g) /\ ~MayProceed(p) /\ Exit(p)
  /\ NoWrite /\ Still

\* The fresh plan equals the stored grant, differs from it, or cannot be made.
Compare(p) ==
  /\ site[p] = "compare"
  /\ \/ Aim(p, "consumed", "prepare") /\ UNCHANGED run /\ KeepTask
     \/ Aim(p, "revoked", "publish") /\ UNCHANGED run /\ KeepTask
     \/ Exit(p)
  /\ NoWrite /\ Still
--------------------------------------------------------------------------------
(* Running commands *)

MayStartOneMore(g) == ran[g] <= NumCommands   \* faulty: off by one
MayStart(g) == ran[g] < NumCommands           \* each stage is used once
StartCommand(p) ==
  /\ site[p] = "rebuild" /\ run[p] = "none" /\ MayStart(at[p])
  /\ run' = [run EXCEPT ![p] = "factory"]
  /\ ran' = [ran EXCEPT ![at[p]] = @ + 1]
  /\ UNCHANGED <<site, goal, orphan, crashes, faults>> /\ NoWrite /\ KeepTask

AllConsumed(g) == ran[g] = NumCommands   \* assert_complete

\* A command returns; between two commands run_rebuild comes to an end or raises.
EndCommand(p) ==
  /\ site[p] = "rebuild" /\ run[p] = "factory"
  /\ run' = [run EXCEPT ![p] = "none"]
  /\ UNCHANGED <<site, goal>> /\ KeepTask /\ NoWrite /\ Still
EndRebuild(p) ==
  /\ site[p] = "rebuild" /\ run[p] = "none"
  /\ \/ AllConsumed(at[p]) /\ Aim(p, "succeeded", "publish")
     \/ Aim(p, "failed", "publish")
  /\ UNCHANGED run /\ KeepTask /\ NoWrite /\ Still

\* The mount and unmount commands of recover_rebuild are one block.
StartRecovery(p) ==
  /\ site[p] = "recover" /\ run[p] = "none"
  /\ \/ run' = [run EXCEPT ![p] = "recovery"] /\ UNCHANGED <<site, goal>>
     \/ Aim(p, "interrupted", "publish") /\ UNCHANGED run
  /\ KeepTask /\ NoWrite /\ Still
EndRecovery(p) ==
  /\ site[p] = "recover" /\ run[p] = "recovery"
  /\ run' = [run EXCEPT ![p] = "none"]
  /\ Aim(p, "interrupted", "publish")
  /\ KeepTask /\ NoWrite /\ Still
--------------------------------------------------------------------------------
(* write_receipt and _replace_state *)

Publish(p) ==
  /\ site[p] = "publish" /\ outcome[at[p]] = NoOutcome
  /\ outcome' = [outcome EXCEPT ![at[p]] = [status |-> goal[p], links |-> 2]]
  /\ Goto(p, "unlink")
  /\ UNCHANGED <<bundles, grant, state, pending, goal, run>> /\ KeepTask /\ Still

UnlinkReceipt(p) ==
  /\ site[p] = "unlink"
  /\ outcome' = [outcome EXCEPT ![at[p]].links = 1]
  /\ Goto(p, "prepare")
  /\ UNCHANGED <<bundles, grant, state, pending, goal, run>> /\ KeepTask /\ Still

Prepare(p) ==
  /\ site[p] = "prepare" /\ pending[at[p]] = "none"
  /\ pending' = [pending EXCEPT ![at[p]] = goal[p]]
  /\ Goto(p, "replace")
  /\ UNCHANGED <<bundles, grant, state, outcome, goal, run>> /\ KeepTask /\ Still

Replace(p) ==
  /\ site[p] = "replace"
  /\ Settle(at[p])
  /\ IF goal[p] = "consumed"
     THEN Goto(p, "rebuild") /\ UNCHANGED <<goal, run>> /\ KeepTask
     ELSE Exit(p)
  /\ Still
--------------------------------------------------------------------------------
(* Failures *)

Torn == IF TornWrites THEN {"torn"} ELSE {}
Write(file, g, values) == \E v \in values : file' = [file EXCEPT ![g] = v]

\* write_receipt removes a published outcome when a later call of it raises.
KeepOutcome(g) == UNCHANGED outcome      \* faulty: and leaves the second link
RetractOutcome(g) == outcome' = [outcome EXCEPT ![g] = NoOutcome]

\* A system call raises, before or after its effect.  issue() takes back what
\* it wrote; a pending state stays where it is.
RaiseInIssue(p) ==
  LET g == at[p] IN
  /\ \/ /\ site[p] = "writeGrant" /\ Write(grant, g, {"none", "complete"} \cup Torn)
        /\ UNCHANGED state
     \/ /\ site[p] = "writeState" /\ Write(state, g, {"none", "issued"} \cup Torn)
        /\ UNCHANGED grant
  /\ Goto(p, "undo")
  /\ UNCHANGED <<bundles, pending, outcome, goal, run>> /\ KeepTask
RaiseInReceipt(p) ==
  /\ \/ site[p] = "publish" /\ UNCHANGED outcome
     \/ site[p] = "unlink" /\ RetractOutcome(at[p])
  /\ UNCHANGED <<bundles, grant, state, pending>> /\ Exit(p)
RaiseInState(p) ==
  /\ \/ /\ site[p] = "prepare" /\ Write(pending, at[p], {"none", goal[p]} \cup Torn)
        /\ UNCHANGED <<bundles, grant, state, outcome>>
     \/ /\ site[p] = "read" /\ Readable(at[p]) /\ pending[at[p]] # "none"
        /\ NoWrite \/ Settle(at[p])
     \/ site[p] = "replace" /\ (NoWrite \/ Settle(at[p]))
     \/ /\ site[p] = "scan"
        /\ \E g \in bundles : Readable(g) /\ pending[g] # "none" /\ Settle(g)
     \/ site[p] = "mkdir" /\ NoWrite
     \/ site[p] = "recover" /\ NoWrite
  /\ Exit(p)
Raise(p) ==
  /\ faults < MaxFaults /\ faults' = faults + 1
  /\ RaiseInIssue(p) \/ RaiseInReceipt(p) \/ RaiseInState(p)
  /\ UNCHANGED <<orphan, ran, crashes>>

\* The process dies; a command it started may live on with the lock, and the
\* file it was writing may be incomplete.
Crash(p) ==
  LET g == at[p] IN
  /\ site[p] # "idle" /\ crashes < MaxCrashes
  /\ crashes' = crashes + 1
  /\ \/ site[p] = "writeGrant" /\ Write(grant, g, Torn) /\ UNCHANGED <<state, pending>>
     \/ site[p] = "writeState" /\ Write(state, g, Torn) /\ UNCHANGED <<grant, pending>>
     \/ site[p] = "prepare" /\ Write(pending, g, Torn) /\ UNCHANGED <<grant, state>>
     \/ UNCHANGED <<grant, state, pending>>
  /\ \/ UNCHANGED orphan
     \/ run[p] # "none" /\ orphan' = [orphan EXCEPT ![g] = run[p]]
  /\ Exit(p)
  /\ UNCHANGED <<bundles, outcome, ran, faults>>

OrphanEnds(g) ==
  /\ orphan[g] # "none" /\ orphan' = [orphan EXCEPT ![g] = "none"]
  /\ NoWrite /\ UNCHANGED <<control, ran, crashes, faults>>
--------------------------------------------------------------------------------
Step(p) ==
  \/ Scan(p) \/ MakeBundle(p) \/ WriteGrant(p) \/ WriteIssued(p) \/ Undo(p)
  \/ Read(p) \/ Reconcile(p) \/ Compare(p)
  \/ StartCommand(p) \/ EndCommand(p) \/ EndRebuild(p)
  \/ StartRecovery(p) \/ EndRecovery(p)
  \/ Publish(p) \/ UnlinkReceipt(p) \/ Prepare(p) \/ Replace(p)

Next ==
  \/ \E p \in Procs :
       \/ Enter(p, "issue", NoGrant)
       \/ \E g \in bundles : Enter(p, "execute", g) \/ Enter(p, "recover", g)
       \/ Step(p) \/ Raise(p) \/ Crash(p)
  \/ \E g \in Grants : OrphanEnds(g)

Spec == Init /\ [][Next]_vars

\* Processes run, commands end, and an operator repeats `factory recover` until
\* it gets the lock.
Recover(g) == g \in bundles /\ \E p \in Procs : Enter(p, "recover", g)
FairSpec ==
  /\ Spec
  /\ \A p \in Procs : WF_vars(Step(p))
  /\ \A g \in Grants : WF_vars(OrphanEnds(g)) /\ SF_vars(Recover(g))
--------------------------------------------------------------------------------
(* Properties *)

\* Every variable keeps its type.
TypeOK ==
  /\ bundles \subseteq Grants
  /\ grant \in [Grants -> {"none", "torn", "complete"}]
  /\ state \in [Grants -> Files] /\ pending \in [Grants -> Files]
  /\ outcome \in [Grants -> Outcomes]
  /\ site \in [Procs -> Sites]
  /\ held \in [Procs -> BOOLEAN]
  /\ op \in [Procs -> {"issue", "execute", "recover"}]
  /\ at \in [Procs -> Grants \cup {NoGrant}]
  /\ goal \in [Procs -> Phases \cup {"none"}]
  /\ run \in [Procs -> {"none", "factory", "recovery"}]
  /\ orphan \in [Grants -> {"none", "factory", "recovery"}]
  /\ ran \in [Grants -> 0..NumCommands]
  /\ crashes \in Nat /\ faults \in Nat

\* The phase a grant is in for whoever reads it next.
phase == [g \in Grants |->
            IF pending[g] \in Phases THEN pending[g]
            ELSE IF state[g] \in Phases THEN state[g] ELSE "none"]

\* A terminal phase is never written, not even to a pending file, before its
\* outcome is published under its final name only ...
OutcomeFirst ==
  \A g \in Grants : phase[g] \in Terminal =>
    outcome[g] = [status |-> phase[g], links |-> 1]

\* ... and the outcome of a grant tells what happened to its commands, none of
\* which runs any more, not even one that outlived its process.
OutcomeTold ==
  \A g \in Grants : outcome[g] # NoOutcome =>
    /\ orphan[g] # "factory"
    /\ \A p \in Procs : at[p] = g => run[p] # "factory"
    /\ outcome[g].status = "succeeded" => ran[g] = NumCommands
    /\ outcome[g].status = "revoked" => ran[g] = 0

\* The records of an execution are written in an order in which each of them is
\* true when it is written, whoever dies, fails or goes on in between.
OutcomeTruthful == OutcomeFirst /\ OutcomeTold

Abandoned == LockFree /\ \A p \in Procs : site[p] = "idle"

\* A state write that was interrupted is completed by the next operation: a
\* whole pending file follows the state it is to replace ...
StateWriteReconcilable ==
  \A g \in Grants : Abandoned /\ pending[g] \in Phases => Readable(g)

\* ... and whenever the outcome is durable, the next operation finds a terminal
\* state that agrees with it or reconciles one from it, unless a file that no
\* operation reads any more stands in the way: an incomplete pending state, or
\* an outcome with the two links a death left.
Reconcilable(g) == /\ Readable(g)
                   /\ Settled(g) = outcome[g].status \/ MayReconcile(g)
Stuck(g) == pending[g] = "torn" \/ (outcome[g].links = 2 /\ crashes > 0)
OutcomeSettles ==
  \A g \in Grants : Abandoned /\ outcome[g] # NoOutcome /\ ~Stuck(g) => Reconcilable(g)
\* What a death or an error leaves of the records, the next operation takes up.
RecordsReconcilable == StateWriteReconcilable /\ OutcomeSettles

\* A consumed grant comes to its end, or is stuck.
ConsumedEnds ==
  \A g \in Grants : phase[g] = "consumed" ~> (phase[g] \in Terminal \/ Stuck(g))

\* The records implement the life of a grant.
authority == {g \in Grants : \E p \in Procs :
                /\ at[p] = g /\ goal[p] = "consumed"
                /\ site[p] \in {"replace", "rebuild"}}
busy == {g \in Grants : \/ orphan[g] = "factory"
                        \/ \E p \in Procs : at[p] = g /\ run[p] = "factory"}
Lifecycle == INSTANCE GrantLifecycle WITH
               phase <- phase, authority <- authority, executed <- ran, busy <- busy
ImplementsLifecycle == Lifecycle!LSpec
================================================================================
