-------------------------- MODULE FactoryRecordsProofs --------------------------
(***************************************************************************)
(* Proofs about FactoryRecords for any processes, grants, number of        *)
(* commands and bounds: the records tell the truth, what is left of them   *)
(* can be taken up, and they implement GrantLifecycle.                     *)
(***************************************************************************)
EXTENDS FactoryRecords, TLAPS

\* Whoever works on the records has the lock, alone, and no command that
\* outlived its process runs beside it.
AloneInv ==
  /\ \A p \in Procs : held[p] <=> site[p] # "idle"
  /\ \A p, q \in Procs : held[p] /\ held[q] => p = q
  /\ \A p \in Procs, g \in Grants : held[p] => orphan[g] = "none"

Issuing == {"mkdir", "writeGrant", "writeState", "undo"}

\* What a process works on, and where it has a command.
TaskInv ==
  \A p \in Procs :
    /\ site[p] \in {"idle", "scan"} <=> at[p] = NoGrant
    /\ site[p] \notin {"idle", "scan", "mkdir"} => at[p] \in bundles
    /\ run[p] = "factory" => site[p] = "rebuild"
    /\ run[p] = "recovery" => site[p] = "recover"

\* The files of one grant fit together, and with what its commands did.
RecordOK(g) ==
  /\ g \notin bundles => state[g] = "none"
  /\ state[g] \in {"none", "torn"} => pending[g] = "none" /\ outcome[g] = NoOutcome
  /\ pending[g] \in {"none", "torn"} \cup Successors(state[g])
  /\ state[g] \in Terminal =>
       pending[g] = "none" /\ outcome[g] = [status |-> state[g], links |-> 1]
  /\ pending[g] \in Terminal => outcome[g] = [status |-> pending[g], links |-> 1]
  /\ outcome[g] # NoOutcome =>
       /\ outcome[g].status \in Terminal /\ outcome[g].links \in {1, 2}
       /\ outcome[g].status \in Successors(state[g]) \cup {state[g]}
       /\ pending[g] \in {"none", "torn", outcome[g].status}
       /\ outcome[g].status = "succeeded" => ran[g] = NumCommands
       /\ outcome[g].status = "revoked" => ran[g] = 0
  /\ ran[g] # 0 => state[g] \notin {"none", "torn", "issued"}
  /\ orphan[g] = "factory" => state[g] = "consumed" /\ outcome[g] = NoOutcome
RecordInv == \A g \in Grants : RecordOK(g)

\* What a process has seen or written of its grant still holds.
SiteOK(p) ==
  LET g == at[p] IN
  /\ site[p] \in Issuing \ {"undo"} => state[g] = "none"
  /\ site[p] = "undo" => /\ state[g] \in {"none", "torn", "issued"}
                         /\ pending[g] = "none" /\ outcome[g] = NoOutcome
  /\ site[p] \in Issuing => \A h \in Grants \ {g} : phase[h] \notin Open
  /\ site[p] \in {"reconcile", "compare", "rebuild", "recover",
                  "publish", "unlink", "prepare"} => pending[g] = "none"
  /\ site[p] = "compare" => state[g] = "issued" /\ outcome[g] = NoOutcome
  /\ site[p] = "recover" => state[g] = "consumed" /\ outcome[g] = NoOutcome
  /\ site[p] = "rebuild" => /\ state[g] = "consumed" /\ outcome[g] = NoOutcome
                            /\ goal[p] = "consumed"
  /\ site[p] \in {"publish", "unlink", "prepare", "replace"} =>
       goal[p] \in Successors(state[g])
  /\ site[p] = "publish" => /\ goal[p] \in Terminal /\ outcome[g] = NoOutcome
                            /\ goal[p] = "succeeded" => ran[g] = NumCommands
  /\ site[p] = "unlink" =>
       goal[p] \in Terminal /\ outcome[g] = [status |-> goal[p], links |-> 2]
  /\ site[p] \in {"prepare", "replace"} =>
       outcome[g] = IF goal[p] = "consumed" THEN NoOutcome
                    ELSE [status |-> goal[p], links |-> 1]
  /\ site[p] = "replace" => pending[g] = goal[p]
SiteInv == \A p \in Procs : SiteOK(p)

\* An outcome has two links while its writer is there, or because it died.
LinkInv ==
  \A g \in Grants : outcome[g].links = 2 =>
    crashes > 0 \/ \E p \in Procs : site[p] = "unlink" /\ at[p] = g

IInv == TypeOK /\ AloneInv /\ TaskInv /\ RecordInv /\ SiteInv /\ LinkInv
--------------------------------------------------------------------------------
(* Groups of variables, and what a step does to each *)

FilesType ==
  /\ bundles \subseteq Grants
  /\ grant \in [Grants -> {"none", "torn", "complete"}]
  /\ state \in [Grants -> Files] /\ pending \in [Grants -> Files]
  /\ outcome \in [Grants -> Outcomes]
ControlType ==
  /\ site \in [Procs -> Sites]
  /\ held \in [Procs -> BOOLEAN]
  /\ op \in [Procs -> {"issue", "execute", "recover"}]
  /\ at \in [Procs -> Grants \cup {NoGrant}]
  /\ goal \in [Procs -> Phases \cup {"none"}]
  /\ run \in [Procs -> {"none", "factory", "recovery"}]
CountType ==
  /\ orphan \in [Grants -> {"none", "factory", "recovery"}]
  /\ ran \in [Grants -> 0..NumCommands]
  /\ crashes \in Nat /\ faults \in Nat

LEMMA TypeGroups ==
  /\ TypeOK <=> FilesType /\ ControlType /\ CountType
  /\ TypeOK' <=> FilesType' /\ ControlType' /\ CountType'
BY DEF TypeOK, FilesType, ControlType, CountType

\* Nobody else is at work.
LEMMA Alone ==
  ASSUME IInv, NEW p \in Procs, site[p] # "idle"
  PROVE  /\ held[p]
         /\ \A q \in Procs \ {p} :
              site[q] = "idle" /\ ~held[q] /\ at[q] = NoGrant /\ run[q] = "none"
         /\ \A g \in Grants : orphan[g] = "none"
         /\ site[p] # "scan" => at[p] \in Grants
         /\ site[p] \notin {"rebuild", "recover"} => run[p] = "none"
BY TypeGroups DEF IInv, AloneInv, TaskInv, ControlType

LEMMA Leaving ==
  ASSUME IInv, NEW p \in Procs, site[p] # "idle", Exit(p)
  PROVE  /\ ControlType' /\ AloneInv' /\ TaskInv' /\ SiteInv'
         /\ \A q \in Procs : site'[q] = "idle" /\ run'[q] = "none"
<1>1. \A q \in Procs : /\ site'[q] = "idle" /\ ~held'[q] /\ at'[q] = NoGrant
                       /\ run'[q] = "none"
  BY Alone, TypeGroups DEF Exit, Goto, ControlType, IInv
<1>2. ControlType'
  BY TypeGroups DEF Exit, Goto, ControlType, Sites, IInv
<1>3. AloneInv' /\ TaskInv' /\ SiteInv'
  BY <1>1 DEF AloneInv, TaskInv, SiteInv, SiteOK, Issuing
<1> QED
  BY <1>1, <1>2, <1>3

\* It goes on with its grant, without a command.
LEMMA Moving ==
  ASSUME IInv, NEW p \in Procs, site[p] \notin {"idle", "scan"}, run[p] = "none",
         NEW s \in Sites \ {"idle", "scan", "mkdir"}, Goto(p, s), KeepTask,
         UNCHANGED <<run, orphan>>, at[p] \in bundles'
  PROVE  /\ AloneInv' /\ TaskInv' /\ (SiteOK(p)' => SiteInv')
         /\ site' \in [Procs -> Sites] /\ site'[p] = s
         /\ \A q \in Procs \ {p} : site'[q] = "idle"
<1>1. /\ site' \in [Procs -> Sites] /\ site'[p] = s
      /\ \A q \in Procs \ {p} : site'[q] = "idle"
  BY Alone, TypeGroups DEF Goto, ControlType, IInv
<1>2. /\ at' = at /\ held' = held /\ run' = run
      /\ at[p] \in Grants \cup {NoGrant}
  BY TypeGroups DEF KeepTask, ControlType, IInv
<1>3. AloneInv'
  BY <1>1, <1>2, Alone DEF AloneInv
<1>4. TaskInv'
  BY <1>1, <1>2, Alone, RecordsAssumption DEF TaskInv
<1>5. SiteOK(p)' => SiteInv'
  BY <1>1 DEF SiteInv, SiteOK, Issuing
<1> QED
  BY <1>1, <1>3, <1>4, <1>5

LEMMA SuccessorsAre ==
  /\ Successors("issued") = {"consumed", "revoked"}
  /\ Successors("consumed") = {"succeeded", "failed", "interrupted"}
  /\ \A s : s \notin Open => Successors(s) = {}
BY DEF Successors, Open

LEMMA OutcomeFields ==
  /\ NoOutcome.links = 0 /\ NoOutcome.status = "none" /\ NoOutcome \in Outcomes
  /\ \A s, n : /\ [status |-> s, links |-> n].status = s
               /\ [status |-> s, links |-> n].links = n
               /\ n # 0 => [status |-> s, links |-> n] # NoOutcome
<1>1. NoOutcome.links = 0 /\ NoOutcome.status = "none" /\ NoOutcome \in Outcomes
  BY DEF NoOutcome, Outcomes
<1>2. ASSUME NEW s, NEW n
      PROVE  [status |-> s, links |-> n].status = s /\ [status |-> s, links |-> n].links = n
  OBVIOUS
<1> QED
  BY <1>1, <1>2

PhaseOf(s, d) == IF d \in Phases THEN d ELSE IF s \in Phases THEN s ELSE "none"

LEMMA PhaseIs ==
  \A g \in Grants : /\ phase[g] = PhaseOf(state[g], pending[g])
                    /\ phase'[g] = PhaseOf(state'[g], pending'[g])
BY DEF phase, PhaseOf

LEMMA PhaseStays ==
  ASSUME \A g \in Grants : phase'[g] = phase[g]
  PROVE  phase' = phase
BY DEF phase

LEMMA PhaseBecomes ==
  ASSUME NEW g \in Grants, NEW s, phase'[g] = s,
         \A h \in Grants \ {g} : phase'[h] = phase[h]
  PROVE  phase' = [phase EXCEPT ![g] = s]
BY DEF phase

LEMMA OtherRecordsStay ==
  ASSUME RecordInv, NEW g \in Grants, RecordOK(g)',
         \A h \in Grants \ {g} :
           /\ h \in bundles <=> h \in bundles'
           /\ state'[h] = state[h] /\ pending'[h] = pending[h]
           /\ outcome'[h] = outcome[h] /\ ran'[h] = ran[h] /\ orphan'[h] = orphan[h]
  PROVE  RecordInv'
BY DEF RecordInv, RecordOK

LEMMA RecordsStay ==
  ASSUME TypeOK, RecordInv, NoWrite, UNCHANGED <<orphan, ran>>
  PROVE  FilesType' /\ RecordInv' /\ phase' = phase
BY TypeGroups DEF RecordInv, RecordOK, NoWrite, files, FilesType, phase

\* The file that a state write left is put in its place.
LEMMA SettleKeeps ==
  ASSUME TypeOK, RecordInv, NEW g \in Grants, Readable(g), Settle(g),
         UNCHANGED <<orphan, ran>>
  PROVE  /\ FilesType' /\ RecordInv' /\ phase' = phase
         /\ pending'[g] = "none" /\ state'[g] \in Phases
         /\ \A h \in Grants \ {g} : state'[h] = state[h] /\ pending'[h] = pending[h]
<1>1. /\ state'[g] = Settled(g) /\ pending'[g] = "none"
      /\ \A h \in Grants \ {g} : state'[h] = state[h] /\ pending'[h] = pending[h]
      /\ UNCHANGED <<bundles, grant, outcome>>
  BY TypeGroups DEF Settle, FilesType
<1>2. Settled(g) \in Phases /\ (pending[g] # "none" => pending[g] \in Successors(state[g]))
  BY SuccessorsAre DEF Settled, Readable, Phases, Open, Terminal
<1>3. FilesType'
  BY <1>2, TypeGroups DEF Settle, FilesType, Files
<1>4. RecordOK(g)'
  <2>1. CASE pending[g] = "none"
    BY <1>1, <2>1 DEF RecordInv, RecordOK, Settled
  <2>2. CASE pending[g] = "consumed"
    BY <1>1, <1>2, <2>2, SuccessorsAre
       DEF RecordInv, RecordOK, NoOutcome, Settled, Phases, Open, Terminal
  <2>3. CASE pending[g] \in Terminal
    <3>1. /\ outcome[g] = [status |-> pending[g], links |-> 1]
          /\ outcome[g].status = pending[g] /\ outcome[g].links = 1
          /\ outcome[g] # NoOutcome
      <4>1. outcome[g] = [status |-> pending[g], links |-> 1]
        BY <2>3 DEF RecordInv, RecordOK
      <4> QED
        BY <4>1, OutcomeFields
    <3>2. /\ state'[g] = pending[g] /\ state[g] \in Open
          /\ outcome'[g] = outcome[g] /\ ran'[g] = ran[g] /\ orphan'[g] = orphan[g]
      BY <1>1, <1>2, <2>3, SuccessorsAre DEF Settled, Terminal
    <3> QED
      BY <1>1, <2>3, <3>1, <3>2 DEF RecordInv, RecordOK, Open, Terminal
  <2> QED
    BY <1>2, <2>1, <2>2, <2>3, SuccessorsAre DEF Settled, Phases, Open, Terminal
<1>5. RecordInv'
  BY <1>1, <1>4, OtherRecordsStay
<1>6. phase' = phase
  <2>1. PhaseOf(state'[g], pending'[g]) = PhaseOf(state[g], pending[g])
    BY <1>1, <1>2 DEF PhaseOf, Settled, Phases, Open, Terminal
  <2> QED
    BY <2>1, <1>1, PhaseIs, PhaseStays
<1> QED
  BY <1>1, <1>2, <1>3, <1>5, <1>6
--------------------------------------------------------------------------------
(* Each step keeps the invariant *)

\* A process ends with nothing written.
LEMMA QuietExitKeeps ==
  ASSUME IInv, NEW p \in Procs, site[p] \notin {"idle", "unlink"}, Exit(p), NoWrite,
         UNCHANGED <<orphan, ran>>, CountType', crashes' >= crashes
  PROVE  IInv'
<1>1. ControlType' /\ AloneInv' /\ TaskInv' /\ SiteInv'
  BY Leaving
<1>2. FilesType' /\ RecordInv'
  BY RecordsStay DEF IInv
<1>3. LinkInv'
  BY Alone, TypeGroups DEF IInv, LinkInv, NoWrite, files, CountType
<1> QED
  BY <1>1, <1>2, <1>3, TypeGroups DEF IInv

LEMMA EnterKeeps ==
  ASSUME IInv, NEW p \in Procs, NEW task \in {"issue", "execute", "recover"},
         NEW g \in bundles \cup {NoGrant}, task = "issue" <=> g = NoGrant,
         Enter(p, task, g)
  PROVE  IInv'
<1>1. /\ site' = [site EXCEPT ![p] = IF task = "issue" THEN "scan" ELSE "read"]
      /\ held' = [held EXCEPT ![p] = TRUE] /\ op' = [op EXCEPT ![p] = task]
      /\ at' = [at EXCEPT ![p] = g] /\ UNCHANGED <<goal, run>> /\ NoWrite /\ Still
  BY DEF Enter, Goto
<1>2. /\ \A q \in Procs : site[q] = "idle" /\ ~held[q]
      /\ \A h \in Grants : orphan[h] = "none"
  BY DEF Enter, LockFree, IInv, AloneInv
<1>3. ControlType'
  BY <1>1, TypeGroups DEF ControlType, Sites, IInv, FilesType
<1>4. FilesType' /\ RecordInv' /\ phase' = phase /\ CountType'
  BY <1>1, RecordsStay, TypeGroups DEF IInv, Still, CountType
<1>5. AloneInv'
  BY <1>1, <1>2, TypeGroups DEF AloneInv, ControlType, Still, IInv
<1>6. TaskInv'
  BY <1>1, <1>2, TypeGroups, RecordsAssumption
     DEF TaskInv, ControlType, FilesType, NoWrite, files, IInv
<1>7. SiteInv'
  BY <1>1, <1>2, TypeGroups DEF SiteInv, SiteOK, ControlType, Issuing, IInv
<1>8. LinkInv'
  BY <1>1, <1>2, TypeGroups DEF LinkInv, NoWrite, files, Still, IInv
<1> QED
  BY <1>3, <1>4, <1>5, <1>6, <1>7, <1>8, TypeGroups DEF IInv

LEMMA ScanKeeps ==
  ASSUME IInv, NEW p \in Procs, Scan(p)
  PROVE  IInv'
<1>1. site[p] = "scan" /\ at[p] = NoGrant /\ Still /\ CountType' /\ run[p] = "none"
  <2>1. site[p] = "scan" /\ Still
    BY DEF Scan
  <2> QED
    BY <2>1, Alone, TypeGroups DEF IInv, TaskInv, Still, CountType
<1>2. CASE /\ \E g \in bundles : Readable(g) /\ pending[g] # "none" /\ Settle(g)
           /\ UNCHANGED control
  <2>1. PICK g \in bundles : Readable(g) /\ Settle(g)
    BY <1>2
  <2>2. FilesType' /\ RecordInv'
    BY <1>1, <2>1, SettleKeeps, TypeGroups DEF IInv, FilesType, Still
  <2>3. ControlType' /\ AloneInv'
    BY <1>1, <1>2, TypeGroups DEF control, ControlType, AloneInv, IInv, Still
  <2>4. TaskInv' /\ LinkInv'
    BY <1>1, <1>2, <2>1 DEF control, TaskInv, LinkInv, Settle, IInv, Still
  <2>5. SiteInv'
    BY <1>1, <1>2, Alone DEF control, SiteInv, SiteOK, Issuing, IInv
  <2> QED
    BY <1>1, <2>2, <2>3, <2>4, <2>5, TypeGroups DEF IInv
<1>3. CASE Exit(p) /\ NoWrite
  BY <1>1, <1>3, QuietExitKeeps, TypeGroups DEF Still, IInv, CountType
<1>4. CASE /\ \A g \in bundles : Readable(g) /\ pending[g] = "none" /\ ~Incomplete(g)
           /\ \E g \in Grants \ bundles : at' = [at EXCEPT ![p] = g]
           /\ Goto(p, "mkdir")
           /\ UNCHANGED <<held, op, goal, run>> /\ NoWrite
  <2>1. PICK g \in Grants \ bundles : at' = [at EXCEPT ![p] = g]
    BY <1>4
  <2>2. /\ at'[p] = g /\ site'[p] = "mkdir" /\ state[g] = "none"
        /\ \A q \in Procs \ {p} : /\ site'[q] = "idle" /\ ~held[q]
                                 /\ at'[q] = NoGrant /\ run[q] = "none"
    <3>1. at'[p] = g /\ site'[p] = "mkdir" /\ state[g] = "none"
      <4>1. at'[p] = g /\ site'[p] = "mkdir"
        BY <1>4, <2>1, TypeGroups DEF Goto, ControlType, IInv
      <4>2. state[g] = "none"
        BY <2>1 DEF RecordInv, RecordOK, IInv
      <4> QED
        BY <4>1, <4>2
    <3>2. \A q \in Procs \ {p} : site'[q] = "idle" /\ at'[q] = NoGrant
      BY <1>1, <1>4, <2>1, Alone, TypeGroups DEF Goto, ControlType, IInv
    <3> QED
      BY <1>1, <3>1, <3>2, Alone
  <2>3. FilesType' /\ RecordInv' /\ phase' = phase
    BY <1>1, <1>4, RecordsStay DEF IInv, Still
  <2>4. \A h \in Grants \ {g} : phase[h] \notin Open
    BY <1>4, PhaseIs DEF PhaseOf, Readable, Incomplete, Open, IInv, RecordInv, RecordOK
  <2>5. ControlType'
    BY <1>4, <2>1, TypeGroups DEF Goto, ControlType, Sites, IInv
  <2>6. AloneInv'
    BY <1>1, <1>4, <2>2, Alone DEF AloneInv, Still, IInv
  <2>7. TaskInv'
    BY <1>1, <1>4, <2>2, RecordsAssumption DEF TaskInv, Still, IInv
  <2>8. SiteInv'
    BY <1>4, <2>2, <2>3, <2>4 DEF SiteInv, SiteOK, Issuing, NoWrite, files
  <2>9. LinkInv'
    BY <1>1, <1>4, <2>2, Alone DEF LinkInv, IInv, NoWrite, files, Still
  <2> QED
    BY <1>1, <2>3, <2>5, <2>6, <2>7, <2>8, <2>9, TypeGroups DEF IInv
<1> QED
  BY <1>2, <1>3, <1>4 DEF Scan

\* The steps of issue: what they write is not read by anybody yet.
LEMMA MakeBundleKeeps ==
  ASSUME IInv, NEW p \in Procs, MakeBundle(p)
  PROVE  IInv'
<1>1. /\ site[p] = "mkdir" /\ bundles' = bundles \cup {at[p]} /\ Goto(p, "writeGrant")
      /\ UNCHANGED <<grant, state, pending, outcome, goal, run>> /\ KeepTask /\ Still
  BY DEF MakeBundle
<1>2. at[p] \in Grants /\ run[p] = "none"
  BY <1>1, Alone
<1>3. FilesType' /\ CountType' /\ RecordInv' /\ phase' = phase
  BY <1>1, <1>2, TypeGroups
     DEF FilesType, CountType, RecordInv, RecordOK, IInv, Still, phase
<1>4. AloneInv' /\ TaskInv' /\ (SiteOK(p)' => SiteInv') /\ site'[p] = "writeGrant"
  BY <1>1, <1>2, Moving DEF Still, Sites
<1>5. ControlType'
  BY <1>1, TypeGroups DEF Goto, ControlType, KeepTask, Sites, IInv
<1>6. SiteOK(p)'
  BY <1>1, <1>3, <1>4 DEF SiteInv, SiteOK, Issuing, IInv, KeepTask
<1>7. LinkInv'
  BY <1>1, TypeGroups DEF LinkInv, IInv, Still, Goto, KeepTask, ControlType
<1> QED
  BY <1>3, <1>4, <1>5, <1>6, <1>7, TypeGroups DEF IInv

LEMMA WriteGrantKeeps ==
  ASSUME IInv, NEW p \in Procs, WriteGrant(p)
  PROVE  IInv'
<1>1. /\ site[p] = "writeGrant" /\ grant' = [grant EXCEPT ![at[p]] = "complete"]
      /\ Goto(p, "writeState") /\ KeepTask /\ Still
      /\ UNCHANGED <<bundles, state, pending, outcome, goal, run>>
  BY DEF WriteGrant
<1>2. at[p] \in bundles /\ run[p] = "none"
  BY <1>1, Alone DEF TaskInv, IInv
<1>3. FilesType' /\ CountType' /\ RecordInv' /\ phase' = phase
  BY ZenonT(60), <1>1, TypeGroups DEF FilesType, CountType, RecordInv, RecordOK, IInv, Still, phase
<1>4. AloneInv' /\ TaskInv' /\ (SiteOK(p)' => SiteInv') /\ site'[p] = "writeState"
  BY <1>1, <1>2, Moving DEF Still, Sites
<1>5. ControlType'
  BY <1>1, TypeGroups DEF Goto, ControlType, KeepTask, Sites, IInv
<1>6. SiteOK(p)'
  BY <1>1, <1>3, <1>4 DEF SiteInv, SiteOK, Issuing, IInv, KeepTask
<1>7. LinkInv'
  BY <1>1, TypeGroups DEF LinkInv, IInv, Still, Goto, KeepTask, ControlType
<1> QED
  BY <1>3, <1>4, <1>5, <1>6, <1>7, TypeGroups DEF IInv

\* Of a grant whose state is being written there is nothing else.
LEMMA NewRecordKeeps ==
  ASSUME IInv, NEW g \in bundles, NEW value \in {"none", "torn", "issued"},
         state[g] \in {"none", "torn", "issued"},
         pending[g] = "none", outcome[g] = NoOutcome,
         state' = [state EXCEPT ![g] = value],
         UNCHANGED <<bundles, pending, outcome, orphan, ran>>
  PROVE  /\ RecordInv' /\ state' \in [Grants -> Files] /\ state'[g] = value
         /\ \A h \in Grants \ {g} : phase'[h] = phase[h]
         /\ phase'[g] = IF value = "issued" THEN "issued" ELSE "none"
<1>1. /\ state'[g] = value /\ g \in Grants /\ state' \in [Grants -> Files]
      /\ \A h \in Grants \ {g} : state'[h] = state[h]
  BY TypeGroups DEF FilesType, IInv, Files, Phases, Open
<1>2. RecordOK(g)'
  BY <1>1 DEF RecordOK, RecordInv, IInv, Terminal
<1>3. RecordInv'
  BY <1>1, <1>2, OtherRecordsStay DEF IInv
<1>4. /\ \A h \in Grants \ {g} : phase'[h] = phase[h]
      /\ phase'[g] = IF value = "issued" THEN "issued" ELSE "none"
  BY <1>1, PhaseIs DEF PhaseOf, Phases, Open, Terminal
<1> QED
  BY <1>1, <1>3, <1>4

LEMMA WriteIssuedKeeps ==
  ASSUME IInv, NEW p \in Procs, WriteIssued(p)
  PROVE  IInv'
<1>1. /\ site[p] = "writeState" /\ state' = [state EXCEPT ![at[p]] = "issued"]
      /\ Exit(p) /\ UNCHANGED <<bundles, grant, pending, outcome>> /\ Still
  BY DEF WriteIssued
<1>2. at[p] \in bundles /\ state[at[p]] = "none"
  BY <1>1 DEF TaskInv, SiteInv, SiteOK, Issuing, IInv
<1>3. pending[at[p]] = "none" /\ outcome[at[p]] = NoOutcome
  BY <1>2, TypeGroups DEF RecordInv, RecordOK, FilesType, IInv
<1>4. RecordInv' /\ state' \in [Grants -> Files]
  BY <1>1, <1>2, <1>3, NewRecordKeeps DEF Still
<1>5. ControlType' /\ AloneInv' /\ TaskInv' /\ SiteInv'
  BY <1>1, Leaving
<1>6. LinkInv'
  BY <1>1, Alone DEF LinkInv, IInv, Still
<1>7. FilesType' /\ CountType'
  BY <1>1, <1>4, TypeGroups DEF FilesType, CountType, Still, IInv
<1> QED
  BY <1>4, <1>5, <1>6, <1>7, TypeGroups DEF IInv

LEMMA UndoKeeps ==
  ASSUME IInv, NEW p \in Procs, Undo(p)
  PROVE  IInv'
<1> DEFINE g == at[p]
<1>1. site[p] = "undo" /\ UNCHANGED <<pending, outcome>> /\ Still
  BY DEF Undo
<1>2. /\ g \in bundles /\ state[g] \in {"none", "torn", "issued"}
      /\ pending[g] = "none" /\ outcome[g] = NoOutcome
      /\ \A h \in Grants \ {g} : phase[h] \notin Open
  BY <1>1 DEF TaskInv, SiteInv, SiteOK, Issuing, IInv
<1>3. CountType'
  BY <1>1, TypeGroups DEF CountType, Still, IInv
<1>4. CASE /\ state' = [state EXCEPT ![g] = "none"] /\ UNCHANGED <<bundles, grant, control>>
  <2>1. /\ RecordInv' /\ state' \in [Grants -> Files] /\ state'[g] = "none"
        /\ \A h \in Grants \ {g} : phase'[h] = phase[h]
    BY <1>1, <1>2, <1>4, NewRecordKeeps DEF Still
  <2>2. FilesType' /\ ControlType' /\ AloneInv' /\ TaskInv' /\ LinkInv'
    BY <1>1, <1>4, <2>1, TypeGroups
       DEF FilesType, ControlType, AloneInv, TaskInv, LinkInv, control, Still, IInv
  <2>3. SiteInv'
    BY <1>1, <1>2, <1>4, <2>1, Alone DEF SiteInv, SiteOK, Issuing, control, IInv
  <2> QED
    BY <1>3, <2>1, <2>2, <2>3, TypeGroups DEF IInv
<1>5. CASE /\ grant' = [grant EXCEPT ![g] = "none"] /\ UNCHANGED <<bundles, state, control>>
  <2>1. FilesType' /\ ControlType'
    BY <1>1, <1>5, TypeGroups DEF FilesType, ControlType, control, IInv
  <2>2. AloneInv' /\ TaskInv' /\ LinkInv' /\ RecordInv'
    BY <1>1, <1>5
       DEF AloneInv, TaskInv, LinkInv, RecordInv, RecordOK, control, Still, IInv
  <2>3. SiteInv'
    BY <1>1, <1>2, <1>5, Alone, PhaseIs DEF SiteInv, SiteOK, Issuing, control, IInv
  <2> QED
    BY <1>3, <2>1, <2>2, <2>3, TypeGroups DEF IInv
<1>6. CASE /\ state[g] = "none" /\ bundles' = bundles \ {g} /\ Exit(p)
           /\ UNCHANGED <<grant, state>>
  <2>1. ControlType' /\ AloneInv' /\ TaskInv' /\ SiteInv'
    BY <1>1, <1>6, Leaving
  <2>2. FilesType' /\ RecordInv'
    BY <1>1, <1>6, TypeGroups DEF FilesType, RecordInv, RecordOK, Still, IInv
  <2>3. LinkInv'
    BY <1>1, Alone DEF LinkInv, Still, IInv
  <2> QED
    BY <1>3, <2>1, <2>2, <2>3, TypeGroups DEF IInv
<1> QED
  BY <1>4, <1>5, <1>6 DEF Undo

\* The beginning of execute and recover.
LEMMA ReadKeeps ==
  ASSUME IInv, NEW p \in Procs, Read(p)
  PROVE  IInv'
<1>1. site[p] = "read" /\ Still
  BY DEF Read
<1>2. at[p] \in bundles /\ at[p] \in Grants /\ run[p] = "none" /\ CountType'
  BY <1>1, Alone, TypeGroups DEF TaskInv, IInv, Still, CountType
<1>3. CASE Exit(p) /\ NoWrite
  BY <1>1, <1>2, <1>3, QuietExitKeeps, TypeGroups DEF Still, IInv, CountType
<1>4. CASE /\ Readable(at[p]) /\ Settle(at[p])
           /\ Goto(p, "reconcile") /\ UNCHANGED <<goal, run>> /\ KeepTask
  <2>1. FilesType' /\ RecordInv' /\ pending'[at[p]] = "none" /\ bundles' = bundles
    BY <1>1, <1>2, <1>4, SettleKeeps DEF IInv, Still, Settle
  <2>2. AloneInv' /\ TaskInv' /\ (SiteOK(p)' => SiteInv') /\ site'[p] = "reconcile"
    BY <1>1, <1>2, <1>4, <2>1, Moving DEF Still, Sites
  <2>3. ControlType'
    BY <1>4, TypeGroups DEF Goto, ControlType, KeepTask, Sites, IInv
  <2>4. SiteOK(p)'
    BY <1>4, <2>1, <2>2 DEF SiteOK, Issuing, KeepTask
  <2>5. LinkInv'
    BY <1>1, <1>4, TypeGroups
       DEF LinkInv, IInv, Still, Goto, KeepTask, ControlType, Settle
  <2> QED
    BY <1>2, <2>1, <2>2, <2>3, <2>4, <2>5, TypeGroups DEF IInv
<1> QED
  BY <1>1, <1>3, <1>4 DEF Read

\* A process goes on with nothing written: its next site has to be justified.
LEMMA QuietMoveKeeps ==
  ASSUME IInv, NEW p \in Procs, site[p] \notin {"idle", "scan", "mkdir", "unlink"},
         run[p] = "none", NEW s \in Sites \ {"idle", "scan", "mkdir"}, Goto(p, s),
         KeepTask, UNCHANGED run, goal' \in [Procs -> Phases \cup {"none"}],
         NoWrite, Still, SiteOK(p)'
  PROVE  IInv'
<1>1. FilesType' /\ RecordInv'
  BY RecordsStay DEF IInv, Still
<1>2. at[p] \in bundles'
  BY DEF TaskInv, IInv, NoWrite, files
<1>3. AloneInv' /\ TaskInv' /\ SiteInv'
  BY <1>2, Moving DEF Still
<1>4. ControlType' /\ CountType'
  BY TypeGroups DEF Goto, ControlType, CountType, KeepTask, Still, IInv
<1>5. LinkInv'
  BY TypeGroups DEF LinkInv, IInv, Still, Goto, KeepTask, ControlType, NoWrite, files
<1> QED
  BY <1>1, <1>3, <1>4, <1>5, TypeGroups DEF IInv

LEMMA AimType ==
  ASSUME IInv, NEW p \in Procs, NEW to \in Phases, NEW s \in Sites, Aim(p, to, s)
  PROVE  /\ goal' \in [Procs -> Phases \cup {"none"}] /\ goal'[p] = to
         /\ Goto(p, s) /\ site'[p] = s
BY TypeGroups DEF Aim, Goto, ControlType, IInv

LEMMA ReconcileKeeps ==
  ASSUME IInv, NEW p \in Procs, Reconcile(p)
  PROVE  IInv'
<1> DEFINE g == at[p]
<1>1. site[p] = "reconcile" /\ NoWrite /\ Still
  BY DEF Reconcile
<1>2. /\ g \in Grants /\ run[p] = "none" /\ pending[g] = "none" /\ CountType'
      /\ UNCHANGED <<state, pending, outcome, ran>>
  BY <1>1, Alone, TypeGroups
     DEF SiteInv, SiteOK, IInv, Still, CountType, NoWrite, files
<1>3. CASE /\ MayReconcile(g) /\ Aim(p, outcome[g].status, "prepare")
           /\ UNCHANGED run /\ KeepTask
  <2>1. /\ outcome[g].links = 1 /\ outcome[g].status \in Successors(state[g])
        /\ outcome[g] # NoOutcome /\ outcome[g].status \in Terminal
    <3>1. outcome[g].links = 1 /\ outcome[g].status \in Successors(state[g])
      BY <1>3 DEF MayReconcile, OutcomeReadable
    <3>2. outcome[g] # NoOutcome
      BY <3>1, OutcomeFields
    <3> QED
      BY <1>2, <3>1, <3>2 DEF RecordInv, RecordOK, IInv
  <2>2. outcome[g] = [status |-> outcome[g].status, links |-> 1]
    BY <1>2, <2>1, TypeGroups DEF FilesType, Outcomes, IInv
  <2>3. /\ goal' \in [Procs -> Phases \cup {"none"}] /\ goal'[p] = outcome[g].status
        /\ Goto(p, "prepare") /\ site'[p] = "prepare"
    BY <1>3, <2>1, AimType DEF Phases, Sites
  <2>4. at' = at
    BY <1>3 DEF KeepTask
  <2>5. SiteOK(p)'
    BY <1>2, <2>1, <2>2, <2>3, <2>4 DEF SiteOK, Issuing, Terminal
  <2> QED
    BY <1>1, <1>2, <1>3, <2>3, <2>5, QuietMoveKeeps DEF Sites
<1>4. CASE /\ MayProceed(p) /\ UNCHANGED <<goal, run>> /\ KeepTask
           /\ Goto(p, IF op[p] = "execute" THEN "compare" ELSE "recover")
  <2>1. outcome[g] = NoOutcome /\ state[g] = IF op[p] = "execute" THEN "issued" ELSE "consumed"
    BY <1>4 DEF MayProceed, Required
  <2>2. site'[p] = IF op[p] = "execute" THEN "compare" ELSE "recover"
    BY <1>4, TypeGroups DEF Goto, ControlType, IInv
  <2>3. SiteOK(p)'
    BY <1>2, <1>4, <2>1, <2>2 DEF SiteOK, Issuing, KeepTask
  <2> QED
    BY <1>1, <1>2, <1>4, <2>3, QuietMoveKeeps, TypeGroups DEF Sites, ControlType, IInv
<1>5. CASE Exit(p)
  BY <1>1, <1>2, <1>5, QuietExitKeeps, TypeGroups DEF Still, IInv, CountType
<1> QED
  BY <1>3, <1>4, <1>5 DEF Reconcile

LEMMA CompareKeeps ==
  ASSUME IInv, NEW p \in Procs, Compare(p)
  PROVE  IInv'
<1> DEFINE g == at[p]
<1>1. site[p] = "compare" /\ NoWrite /\ Still
  BY DEF Compare
<1>2. /\ run[p] = "none" /\ CountType'
      /\ state[g] = "issued" /\ pending[g] = "none" /\ outcome[g] = NoOutcome
      /\ UNCHANGED <<state, pending, outcome, ran>>
  BY <1>1, Alone, TypeGroups
     DEF SiteInv, SiteOK, IInv, Still, CountType, NoWrite, files
<1>3. CASE Aim(p, "consumed", "prepare") /\ UNCHANGED run /\ KeepTask
  <2>1. /\ goal' \in [Procs -> Phases \cup {"none"}] /\ goal'[p] = "consumed"
        /\ Goto(p, "prepare") /\ site'[p] = "prepare"
    BY <1>3, AimType DEF Phases, Open, Sites
  <2>2. SiteOK(p)'
    BY <1>2, <1>3, <2>1, SuccessorsAre DEF SiteOK, Issuing, KeepTask
  <2> QED
    BY <1>1, <1>2, <1>3, <2>1, <2>2, QuietMoveKeeps DEF Sites
<1>4. CASE Aim(p, "revoked", "publish") /\ UNCHANGED run /\ KeepTask
  <2>1. /\ goal' \in [Procs -> Phases \cup {"none"}] /\ goal'[p] = "revoked"
        /\ Goto(p, "publish") /\ site'[p] = "publish"
    BY <1>4, AimType DEF Phases, Terminal, Sites
  <2>2. SiteOK(p)'
    BY <1>2, <1>4, <2>1, SuccessorsAre DEF SiteOK, Issuing, KeepTask, Terminal
  <2> QED
    BY <1>1, <1>2, <1>4, <2>1, <2>2, QuietMoveKeeps DEF Sites
<1>5. CASE Exit(p)
  BY <1>1, <1>2, <1>5, QuietExitKeeps, TypeGroups DEF Still, IInv, CountType
<1> QED
  BY <1>3, <1>4, <1>5 DEF Compare

\* Commands start and end; nothing is written.
LEMMA CommandKeeps ==
  ASSUME IInv, NEW p \in Procs, site[p] \in {"rebuild", "recover"},
         NEW command \in {"none", "factory", "recovery"},
         command = "factory" => site[p] = "rebuild",
         command = "recovery" => site[p] = "recover",
         run' = [run EXCEPT ![p] = command], UNCHANGED <<site, goal>>, KeepTask, NoWrite,
         ran' \in [Grants -> 0..NumCommands],
         \A h \in Grants : ran'[h] # ran[h] => h = at[p] /\ site[p] = "rebuild",
         UNCHANGED <<orphan, crashes, faults>>
  PROVE  IInv'
<1>1. /\ state' = state /\ pending' = pending /\ outcome' = outcome /\ bundles' = bundles
      /\ phase' = phase /\ FilesType'
  BY TypeGroups DEF NoWrite, files, phase, IInv, FilesType
<1>2. ControlType' /\ CountType'
  BY TypeGroups DEF ControlType, CountType, KeepTask, IInv
<1>3. AloneInv' /\ LinkInv'
  BY <1>1 DEF AloneInv, LinkInv, KeepTask, IInv
<1>4. TaskInv'
  BY <1>1, TypeGroups DEF TaskInv, KeepTask, IInv, ControlType
<1>5. RecordInv'
  <2>1. SUFFICES ASSUME NEW h \in Grants PROVE RecordOK(h)'
    BY DEF RecordInv
  <2>2. CASE ran'[h] = ran[h]
    BY <1>1, <2>2 DEF RecordOK, RecordInv, IInv
  <2>3. CASE ran'[h] # ran[h]
    <3>1. state[h] = "consumed" /\ outcome[h] = NoOutcome
      BY <2>3 DEF SiteInv, SiteOK, IInv
    <3> QED
      BY <1>1, <3>1 DEF RecordOK, RecordInv, IInv, Terminal
  <2> QED
    BY <2>2, <2>3
<1>6. SiteInv'
  <2>1. SUFFICES ASSUME NEW q \in Procs PROVE SiteOK(q)'
    BY DEF SiteInv
  <2>2. CASE q = p
    BY <1>1, <2>2 DEF SiteInv, SiteOK, IInv, KeepTask, Issuing
  <2>3. CASE q # p
    BY <2>3, Alone DEF SiteOK, Issuing
  <2> QED
    BY <2>2, <2>3
<1> QED
  BY <1>1, <1>2, <1>3, <1>4, <1>5, <1>6, TypeGroups DEF IInv

LEMMA StartCommandKeeps ==
  ASSUME IInv, NEW p \in Procs, StartCommand(p)
  PROVE  IInv'
<1>1. /\ site[p] = "rebuild" /\ ran[at[p]] < NumCommands
      /\ run' = [run EXCEPT ![p] = "factory"] /\ ran' = [ran EXCEPT ![at[p]] = @ + 1]
      /\ UNCHANGED <<site, goal, orphan, crashes, faults>> /\ NoWrite /\ KeepTask
  BY DEF StartCommand, MayStart
<1>2. at[p] \in Grants
  BY <1>1, Alone
<1>3. ran' \in [Grants -> 0..NumCommands]
  BY <1>1, <1>2, RecordsAssumption, TypeGroups DEF CountType, IInv
<1>4. \A h \in Grants : ran'[h] # ran[h] => h = at[p]
  BY <1>1, <1>2, TypeGroups DEF CountType, IInv
<1> QED
  BY <1>1, <1>3, <1>4, CommandKeeps

LEMMA EndCommandKeeps ==
  ASSUME IInv, NEW p \in Procs, EndCommand(p)
  PROVE  IInv'
<1>1. /\ site[p] = "rebuild" /\ run' = [run EXCEPT ![p] = "none"]
      /\ UNCHANGED <<site, goal, orphan, ran, crashes, faults>> /\ NoWrite /\ KeepTask
  BY DEF EndCommand, Still
<1>2. ran' \in [Grants -> 0..NumCommands]
  BY <1>1, TypeGroups DEF CountType, IInv
<1> QED
  BY <1>1, <1>2, CommandKeeps

\* With its commands ended, a process goes on to publish what came of them.
LEMMA ToPublish ==
  ASSUME IInv, NEW p \in Procs, site[p] \in {"rebuild", "recover"}, run[p] = "none",
         NEW to \in {"succeeded", "failed", "interrupted"}, Aim(p, to, "publish"),
         to = "succeeded" => ran[at[p]] = NumCommands,
         UNCHANGED run, KeepTask, NoWrite, Still
  PROVE  IInv'
<1>1. /\ state[at[p]] = "consumed" /\ outcome[at[p]] = NoOutcome
      /\ pending[at[p]] = "none" /\ UNCHANGED <<state, pending, outcome, ran, at>>
  BY DEF SiteInv, SiteOK, IInv, NoWrite, files, KeepTask, Still
<1>2. /\ goal' \in [Procs -> Phases \cup {"none"}] /\ goal'[p] = to
      /\ Goto(p, "publish") /\ site'[p] = "publish"
  BY AimType DEF Phases, Terminal, Sites
<1>3. SiteOK(p)'
  BY <1>1, <1>2, SuccessorsAre DEF SiteOK, Issuing, Terminal
<1> QED
  BY <1>2, <1>3, QuietMoveKeeps DEF Sites

LEMMA EndRebuildKeeps ==
  ASSUME IInv, NEW p \in Procs, EndRebuild(p)
  PROVE  IInv'
BY ToPublish DEF EndRebuild, AllConsumed

LEMMA StartRecoveryKeeps ==
  ASSUME IInv, NEW p \in Procs, StartRecovery(p)
  PROVE  IInv'
<1>1. site[p] = "recover" /\ run[p] = "none" /\ KeepTask /\ NoWrite /\ Still
  BY DEF StartRecovery
<1>2. CASE run' = [run EXCEPT ![p] = "recovery"] /\ UNCHANGED <<site, goal>>
  <2>1. ran' \in [Grants -> 0..NumCommands] /\ UNCHANGED <<orphan, ran, crashes, faults>>
    BY <1>1, TypeGroups DEF CountType, IInv, Still
  <2> QED
    BY <1>1, <1>2, <2>1, CommandKeeps
<1>3. CASE Aim(p, "interrupted", "publish") /\ UNCHANGED run
  BY <1>1, <1>3, ToPublish
<1> QED
  BY <1>2, <1>3 DEF StartRecovery

LEMMA EndRecoveryKeeps ==
  ASSUME IInv, NEW p \in Procs, EndRecovery(p)
  PROVE  IInv'
<1>1. /\ site[p] = "recover" /\ run' = [run EXCEPT ![p] = "none"]
      /\ Aim(p, "interrupted", "publish") /\ KeepTask /\ NoWrite /\ Still
  BY DEF EndRecovery
<1>2. /\ goal' \in [Procs -> Phases \cup {"none"}] /\ goal'[p] = "interrupted"
      /\ Goto(p, "publish") /\ site'[p] = "publish"
  BY <1>1, AimType DEF Phases, Terminal, Sites
<1>3. /\ state[at[p]] = "consumed" /\ outcome[at[p]] = NoOutcome
      /\ pending[at[p]] = "none" /\ UNCHANGED <<state, pending, outcome, ran, at, held>>
      /\ bundles' = bundles
  BY <1>1 DEF SiteInv, SiteOK, IInv, NoWrite, files, KeepTask, Still
<1>4. /\ \A q \in Procs \ {p} : site'[q] = "idle" /\ run'[q] = "none"
      /\ run'[p] = "none"
  BY <1>1, <1>2, Alone, TypeGroups DEF Goto, ControlType, IInv
<1>5. FilesType' /\ RecordInv' /\ ControlType' /\ CountType'
  BY <1>1, <1>2, RecordsStay, TypeGroups
     DEF IInv, Still, Goto, ControlType, CountType, KeepTask, Sites
<1>6. AloneInv' /\ TaskInv'
  BY <1>1, <1>2, <1>3, <1>4, Alone DEF AloneInv, TaskInv, Still, IInv
<1>7. SiteInv'
  BY <1>2, <1>3, <1>4, SuccessorsAre DEF SiteInv, SiteOK, Issuing, Terminal
<1>8. LinkInv'
  BY <1>1, <1>3, Alone, TypeGroups DEF LinkInv, IInv, Still, Aim, Goto, ControlType
<1> QED
  BY <1>5, <1>6, <1>7, <1>8, TypeGroups DEF IInv

\* write_receipt and the write of the state.
LEMMA OutcomeKeeps ==
  ASSUME IInv, NEW g \in Grants, NEW s \in Terminal, NEW n \in {1, 2},
         s \in Successors(state[g]), pending[g] = "none", orphan[g] = "none",
         s = "succeeded" => ran[g] = NumCommands,
         outcome' = [outcome EXCEPT ![g] = [status |-> s, links |-> n]],
         UNCHANGED <<bundles, state, pending, orphan, ran>>
  PROVE  /\ RecordInv' /\ outcome' \in [Grants -> Outcomes]
         /\ outcome'[g] = [status |-> s, links |-> n]
         /\ \A h \in Grants \ {g} : outcome'[h] = outcome[h]
<1>1. /\ outcome'[g] = [status |-> s, links |-> n]
      /\ \A h \in Grants \ {g} : outcome'[h] = outcome[h]
      /\ outcome' \in [Grants -> Outcomes]
  BY TypeGroups DEF FilesType, Outcomes, IInv
<1>2. outcome'[g].status = s /\ outcome'[g].links = n
  BY <1>1, OutcomeFields
<1>3. state[g] \in Open /\ (s = "revoked" => ran[g] = 0)
  BY SuccessorsAre DEF RecordInv, RecordOK, IInv, Open
<1>4. RecordOK(g)'
  BY <1>2, <1>3 DEF RecordInv, RecordOK, IInv, Open, Terminal
<1> QED
  BY <1>1, <1>4, OtherRecordsStay DEF IInv

LEMMA PublishKeeps ==
  ASSUME IInv, NEW p \in Procs, Publish(p)
  PROVE  IInv'
<1> DEFINE g == at[p]
           new == [status |-> goal[p], links |-> 2]
<1>1. /\ site[p] = "publish" /\ outcome' = [outcome EXCEPT ![g] = new]
      /\ Goto(p, "unlink") /\ KeepTask /\ Still
      /\ UNCHANGED <<bundles, grant, state, pending, goal, run>>
  BY DEF Publish
<1>2. /\ g \in Grants /\ g \in bundles /\ run[p] = "none" /\ pending[g] = "none"
      /\ goal[p] \in Successors(state[g]) /\ goal[p] \in Terminal /\ orphan[g] = "none"
      /\ goal[p] = "succeeded" => ran[g] = NumCommands
  BY <1>1, Alone DEF SiteInv, SiteOK, TaskInv, IInv
<1>3. /\ RecordInv' /\ outcome' \in [Grants -> Outcomes] /\ outcome'[g] = new
      /\ \A h \in Grants \ {g} : outcome'[h] = outcome[h]
  BY <1>1, <1>2, OutcomeKeeps DEF Still
<1>4. AloneInv' /\ TaskInv' /\ (SiteOK(p)' => SiteInv') /\ site'[p] = "unlink"
  BY <1>1, <1>2, Moving DEF Still, Sites
<1>5. SiteOK(p)'
  BY <1>1, <1>2, <1>3, <1>4 DEF SiteOK, Issuing, KeepTask
<1>6. LinkInv'
  BY <1>1, <1>3, <1>4, Alone DEF LinkInv, IInv, Still, KeepTask
<1>7. FilesType' /\ ControlType' /\ CountType'
  BY <1>1, <1>3, TypeGroups
     DEF FilesType, ControlType, CountType, IInv, Still, KeepTask, Goto, Sites
<1> QED
  BY <1>3, <1>4, <1>5, <1>6, <1>7, TypeGroups DEF IInv

LEMMA UnlinkReceiptKeeps ==
  ASSUME IInv, NEW p \in Procs, UnlinkReceipt(p)
  PROVE  IInv'
<1> DEFINE g == at[p]
           new == [status |-> goal[p], links |-> 1]
<1>1. /\ site[p] = "unlink" /\ outcome' = [outcome EXCEPT ![g].links = 1]
      /\ Goto(p, "prepare") /\ KeepTask /\ Still
      /\ UNCHANGED <<bundles, grant, state, pending, goal, run>>
  BY DEF UnlinkReceipt
<1>2. /\ g \in Grants /\ g \in bundles /\ run[p] = "none" /\ pending[g] = "none"
      /\ goal[p] \in Successors(state[g]) /\ goal[p] \in Terminal /\ orphan[g] = "none"
      /\ outcome[g] = [status |-> goal[p], links |-> 2]
  BY <1>1, Alone DEF SiteInv, SiteOK, TaskInv, IInv
<1>3. goal[p] = "succeeded" => ran[g] = NumCommands
  <2>1. outcome[g].status = goal[p] /\ outcome[g] # NoOutcome
    BY <1>2, OutcomeFields
  <2> QED
    BY <1>2, <2>1 DEF RecordInv, RecordOK, IInv
<1>4. outcome' = [outcome EXCEPT ![g] = new]
  <2>1. [outcome[g] EXCEPT !.links = 1] = new
    BY <1>2
  <2> QED
    BY <1>1, <2>1
<1>5. /\ RecordInv' /\ outcome' \in [Grants -> Outcomes] /\ outcome'[g] = new
      /\ \A h \in Grants \ {g} : outcome'[h] = outcome[h]
  BY <1>1, <1>2, <1>3, <1>4, OutcomeKeeps DEF Still
<1>6. AloneInv' /\ TaskInv' /\ (SiteOK(p)' => SiteInv') /\ site'[p] = "prepare"
  BY <1>1, <1>2, Moving DEF Still, Sites
<1>7. SiteOK(p)'
  BY <1>1, <1>2, <1>5, <1>6 DEF SiteOK, Issuing, KeepTask, Terminal
<1>8. LinkInv'
  BY <1>1, <1>5, Alone DEF LinkInv, IInv, Still
<1>9. FilesType' /\ ControlType' /\ CountType'
  BY <1>1, <1>5, TypeGroups
     DEF FilesType, ControlType, CountType, IInv, Still, KeepTask, Goto, Sites
<1> QED
  BY <1>5, <1>6, <1>7, <1>8, <1>9, TypeGroups DEF IInv

\* A pending state is written whole, in part, or taken away again.
LEMMA PendingKeeps ==
  ASSUME IInv, NEW g \in Grants, NEW value \in {"none", "torn"} \cup Successors(state[g]),
         state[g] \in Open, pending[g] = "none", orphan[g] = "none",
         value \in Terminal => outcome[g] = [status |-> value, links |-> 1],
         value = "consumed" => outcome[g] = NoOutcome,
         pending' = [pending EXCEPT ![g] = value],
         UNCHANGED <<bundles, state, outcome, orphan, ran>>
  PROVE  /\ RecordInv' /\ pending' \in [Grants -> Files] /\ pending'[g] = value
         /\ \A h \in Grants \ {g} : phase'[h] = phase[h]
         /\ phase'[g] = IF value \in {"none", "torn"} THEN phase[g] ELSE value
<1>1. value \in {"none", "torn", "consumed"} \cup Terminal
  BY SuccessorsAre DEF Open, Terminal
<1>2. /\ pending'[g] = value /\ pending' \in [Grants -> Files]
      /\ \A h \in Grants \ {g} : pending'[h] = pending[h]
  BY <1>1, TypeGroups DEF FilesType, Files, IInv, Phases, Open
<1>3. RecordOK(g)'
  <2>1. CASE value \in {"none", "torn"}
    BY <1>2, <2>1 DEF RecordInv, RecordOK, IInv, Open, Terminal
  <2>2. CASE value = "consumed"
    BY <1>1, <1>2, <2>2 DEF RecordInv, RecordOK, IInv, Terminal, Open
  <2>3. CASE value \in Terminal
    <3>1. outcome[g].status = value /\ outcome[g].links = 1 /\ outcome[g] # NoOutcome
      BY <2>3, OutcomeFields
    <3> QED
      BY <1>2, <2>3, <3>1 DEF RecordInv, RecordOK, IInv, Terminal, Open
  <2> QED
    BY <1>1, <2>1, <2>2, <2>3
<1>4. RecordInv'
  BY <1>2, <1>3, OtherRecordsStay DEF IInv
<1>5. /\ \A h \in Grants \ {g} : phase'[h] = phase[h]
      /\ phase'[g] = IF value \in {"none", "torn"} THEN phase[g] ELSE value
  BY <1>1, <1>2, PhaseIs DEF PhaseOf, Phases, Open, Terminal
<1> QED
  BY <1>2, <1>4, <1>5

\* What is known where a state is written.
LEMMA StateWrite ==
  ASSUME IInv, NEW p \in Procs, site[p] \in {"prepare", "replace"}
  PROVE  /\ at[p] \in Grants /\ at[p] \in bundles /\ run[p] = "none"
         /\ state[at[p]] \in Open /\ orphan[at[p]] = "none"
         /\ goal[p] \in Successors(state[at[p]]) /\ goal[p] \in {"consumed"} \cup Terminal
         /\ goal[p] \in Terminal => outcome[at[p]] = [status |-> goal[p], links |-> 1]
         /\ goal[p] = "consumed" => outcome[at[p]] = NoOutcome
         /\ site[p] = "prepare" => pending[at[p]] = "none"
         /\ site[p] = "replace" => pending[at[p]] = goal[p] /\ Readable(at[p])
<1>1. /\ at[p] \in Grants /\ at[p] \in bundles /\ run[p] = "none" /\ orphan[at[p]] = "none"
      /\ goal[p] \in Successors(state[at[p]])
  BY Alone DEF TaskInv, SiteInv, SiteOK, IInv
<1>2. state[at[p]] \in Open /\ goal[p] \in {"consumed"} \cup Terminal
  BY <1>1, SuccessorsAre DEF Open, Terminal
<1> QED
  BY <1>1, <1>2 DEF SiteInv, SiteOK, IInv, Readable, Phases, Terminal

LEMMA PrepareKeeps ==
  ASSUME IInv, NEW p \in Procs, Prepare(p)
  PROVE  IInv'
<1> DEFINE g == at[p]
<1>1. /\ site[p] = "prepare" /\ pending' = [pending EXCEPT ![g] = goal[p]]
      /\ Goto(p, "replace") /\ KeepTask /\ Still
      /\ UNCHANGED <<bundles, grant, state, outcome, goal, run>>
  BY DEF Prepare
<1>2. /\ RecordInv' /\ pending' \in [Grants -> Files] /\ pending'[g] = goal[p]
  BY <1>1, StateWrite, PendingKeeps DEF Still
<1>3. AloneInv' /\ TaskInv' /\ (SiteOK(p)' => SiteInv') /\ site'[p] = "replace"
  BY <1>1, StateWrite, Moving DEF Still, Sites
<1>4. SiteOK(p)'
  BY <1>1, <1>2, <1>3, StateWrite DEF SiteOK, Issuing, KeepTask
<1>5. LinkInv'
  BY <1>1 DEF LinkInv, IInv, Still, Goto, KeepTask, TypeOK
<1>6. FilesType' /\ ControlType' /\ CountType'
  BY <1>1, <1>2, TypeGroups
     DEF FilesType, ControlType, CountType, IInv, Still, KeepTask, Goto, Sites
<1> QED
  BY <1>2, <1>3, <1>4, <1>5, <1>6, TypeGroups DEF IInv

\* A process that ends after putting a pending state in its place.
LEMMA SettleExitKeeps ==
  ASSUME IInv, NEW p \in Procs, site[p] \notin {"idle", "unlink"}, Exit(p),
         NEW g \in Grants, Readable(g), Settle(g), UNCHANGED <<orphan, ran, crashes>>,
         faults' \in Nat
  PROVE  IInv'
<1>1. ControlType' /\ AloneInv' /\ TaskInv' /\ SiteInv'
  BY Leaving
<1>2. FilesType' /\ RecordInv'
  BY SettleKeeps DEF IInv
<1>3. LinkInv' /\ CountType'
  BY Alone, TypeGroups DEF LinkInv, Settle, CountType, IInv
<1> QED
  BY <1>1, <1>2, <1>3, TypeGroups DEF IInv

LEMMA ReplaceKeeps ==
  ASSUME IInv, NEW p \in Procs, Replace(p)
  PROVE  IInv'
<1> DEFINE g == at[p]
<1>1. site[p] = "replace" /\ Settle(g) /\ Still
  BY DEF Replace
<1>2. CASE goal[p] = "consumed"
  <2>1. Goto(p, "rebuild") /\ UNCHANGED <<goal, run>> /\ KeepTask
    BY <1>2 DEF Replace
  <2>2. /\ FilesType' /\ RecordInv' /\ pending'[g] = "none" /\ state'[g] = "consumed"
        /\ UNCHANGED <<bundles, outcome>>
    <3>1. FilesType' /\ RecordInv' /\ pending'[g] = "none"
      BY <1>1, StateWrite, SettleKeeps DEF IInv, Still
    <3>2. state'[g] = "consumed" /\ UNCHANGED <<bundles, outcome>>
      BY <1>1, <1>2, StateWrite, TypeGroups DEF Settle, Settled, FilesType, IInv
    <3> QED
      BY <3>1, <3>2
  <2>3. AloneInv' /\ TaskInv' /\ (SiteOK(p)' => SiteInv') /\ site'[p] = "rebuild"
    <3>1. at[p] \in bundles' /\ run[p] = "none"
      BY <1>1, <2>2, StateWrite
    <3> QED
      BY <1>1, <2>1, <3>1, Moving DEF Still, Sites
  <2>4. SiteOK(p)'
    BY <1>1, <1>2, <2>1, <2>2, <2>3, StateWrite DEF SiteOK, Issuing, KeepTask
  <2>5. LinkInv' /\ ControlType' /\ CountType'
    BY <1>1, <2>1, <2>2, TypeGroups
       DEF LinkInv, ControlType, CountType, IInv, Still, Goto, KeepTask, Sites
  <2> QED
    BY <2>2, <2>3, <2>4, <2>5, TypeGroups DEF IInv
<1>3. CASE goal[p] # "consumed"
  <2>1. Exit(p)
    BY <1>3 DEF Replace
  <2> QED
    BY <1>1, <2>1, StateWrite, SettleExitKeeps, TypeGroups DEF Still, CountType, IInv
<1> QED
  BY <1>2, <1>3
--------------------------------------------------------------------------------
(* Failures *)

LEMMA RaiseInIssueKeeps ==
  ASSUME IInv, NEW p \in Procs, RaiseInIssue(p), UNCHANGED <<orphan, ran, crashes>>,
         faults' \in Nat
  PROVE  IInv'
<1> DEFINE g == at[p]
<1>1. /\ site[p] \in {"writeGrant", "writeState"} /\ Goto(p, "undo") /\ KeepTask
      /\ UNCHANGED <<bundles, pending, outcome, goal, run>>
  BY DEF RaiseInIssue
<1>2. /\ g \in bundles /\ g \in Grants /\ run[p] = "none" /\ state[g] = "none"
      /\ pending[g] = "none" /\ outcome[g] = NoOutcome
      /\ \A h \in Grants \ {g} : phase[h] \notin Open
  BY ZenonT(60), <1>1, Alone DEF TaskInv, SiteInv, SiteOK, Issuing, RecordInv, RecordOK, IInv
<1>3. PICK value \in {"none", "torn", "issued"} :
        /\ state' = [state EXCEPT ![g] = value]
        /\ grant' \in [Grants -> {"none", "torn", "complete"}]
  <2>1. CASE site[p] = "writeGrant"
    <3>1. UNCHANGED state /\ Write(grant, g, {"none", "complete"} \cup Torn)
      BY <2>1 DEF RaiseInIssue
    <3>2. state' = [state EXCEPT ![g] = "none"]
      BY <1>2, <3>1, TypeGroups DEF FilesType, IInv
    <3>3. grant' \in [Grants -> {"none", "torn", "complete"}]
      BY <3>1, TypeGroups DEF FilesType, IInv, Write, Torn
    <3> QED
      BY <3>2, <3>3
  <2>2. CASE site[p] = "writeState"
    BY <2>2, TypeGroups DEF RaiseInIssue, Write, Torn, FilesType, IInv
  <2> QED
    BY <1>1, <2>1, <2>2
<1>4. /\ RecordInv' /\ state' \in [Grants -> Files] /\ state'[g] = value
      /\ \A h \in Grants \ {g} : phase'[h] = phase[h]
  BY <1>1, <1>2, <1>3, NewRecordKeeps
<1>5. AloneInv' /\ TaskInv' /\ (SiteOK(p)' => SiteInv') /\ site'[p] = "undo"
  BY <1>1, <1>2, Moving DEF Sites
<1>6. SiteOK(p)'
  BY <1>1, <1>2, <1>4, <1>5 DEF SiteOK, Issuing, KeepTask
<1>7. LinkInv' /\ FilesType' /\ ControlType' /\ CountType'
  BY <1>1, <1>3, <1>4, TypeGroups
     DEF LinkInv, FilesType, ControlType, CountType, IInv, KeepTask, Goto, Sites
<1> QED
  BY <1>4, <1>5, <1>6, <1>7, TypeGroups DEF IInv

LEMMA RaiseInReceiptKeeps ==
  ASSUME IInv, NEW p \in Procs, RaiseInReceipt(p), UNCHANGED <<orphan, ran, crashes>>,
         faults' \in Nat
  PROVE  IInv'
<1> DEFINE g == at[p]
<1>1. Exit(p) /\ UNCHANGED <<bundles, grant, state, pending>>
  BY DEF RaiseInReceipt
<1>2. CASE site[p] = "publish" /\ UNCHANGED outcome
  BY <1>1, <1>2, QuietExitKeeps, TypeGroups DEF NoWrite, files, CountType, IInv
<1>3. CASE site[p] = "unlink" /\ outcome' = [outcome EXCEPT ![g] = NoOutcome]
  <2>1. /\ g \in Grants /\ pending[g] = "none" /\ state[g] \in Open
    BY <1>3, Alone, SuccessorsAre DEF SiteInv, SiteOK, IInv
  <2>2. /\ outcome'[g] = NoOutcome /\ \A h \in Grants \ {g} : outcome'[h] = outcome[h]
        /\ outcome' \in [Grants -> Outcomes]
    BY <1>3, <2>1, OutcomeFields, TypeGroups DEF FilesType, IInv
  <2>3. RecordInv'
    <3>1. SUFFICES ASSUME NEW h \in Grants PROVE RecordOK(h)'
      BY DEF RecordInv
    <3>2. CASE h = g
      BY <1>1, <2>1, <2>2, <3>2 DEF RecordInv, RecordOK, Open, Terminal, IInv
    <3>3. CASE h # g
      BY <1>1, <2>2, <3>3 DEF RecordInv, RecordOK, IInv
    <3> QED
      BY <3>2, <3>3
  <2>4. LinkInv'
    BY <1>3, <2>2, Alone, OutcomeFields DEF LinkInv, IInv
  <2>5. ControlType' /\ AloneInv' /\ TaskInv' /\ SiteInv'
    BY <1>1, <1>3, Leaving
  <2>6. FilesType' /\ CountType'
    BY <1>1, <2>2, TypeGroups DEF FilesType, CountType, IInv
  <2> QED
    BY <2>3, <2>4, <2>5, <2>6, TypeGroups DEF IInv
<1> QED
  BY <1>2, <1>3 DEF RaiseInReceipt, RetractOutcome

LEMMA RaiseInStateKeeps ==
  ASSUME IInv, NEW p \in Procs, RaiseInState(p), UNCHANGED <<orphan, ran, crashes>>,
         faults' \in Nat
  PROVE  IInv'
<1> DEFINE g == at[p]
<1>1. Exit(p) /\ site[p] \in {"prepare", "read", "replace", "scan", "mkdir", "recover"}
  BY DEF RaiseInState
<1>2. CASE NoWrite
  BY <1>1, <1>2, QuietExitKeeps, TypeGroups DEF CountType, IInv
<1>3. CASE \E h \in Grants : Readable(h) /\ Settle(h)
  BY <1>1, <1>3, SettleExitKeeps
<1>4. CASE /\ site[p] = "prepare" /\ Write(pending, g, {"none", goal[p]} \cup Torn)
           /\ UNCHANGED <<bundles, grant, state, outcome>>
  <2>1. PICK value \in {"none", "torn", goal[p]} : pending' = [pending EXCEPT ![g] = value]
    BY <1>4 DEF Write, Torn
  <2>2. RecordInv' /\ pending' \in [Grants -> Files]
    <3>1. /\ value \in {"none", "torn"} \cup Successors(state[g])
          /\ value \in Terminal => outcome[g] = [status |-> value, links |-> 1]
          /\ value = "consumed" => outcome[g] = NoOutcome
      BY <1>4, <2>1, StateWrite DEF Terminal
    <3> QED
      BY <1>4, <2>1, <3>1, StateWrite, PendingKeeps
  <2>3. ControlType' /\ AloneInv' /\ TaskInv' /\ SiteInv'
    BY <1>1, Leaving
  <2>4. FilesType' /\ CountType' /\ LinkInv'
    BY <1>1, <1>4, <2>2, Alone, TypeGroups DEF FilesType, CountType, LinkInv, IInv
  <2> QED
    BY <2>2, <2>3, <2>4, TypeGroups DEF IInv
<1>5. site[p] \in {"read", "replace"} => at[p] \in Grants
  BY Alone
<1>6. site[p] = "replace" => Readable(at[p])
  BY StateWrite
<1>7. bundles \subseteq Grants
  BY TypeGroups DEF FilesType, IInv
<1> QED
  BY <1>2, <1>3, <1>4, <1>5, <1>6, <1>7 DEF RaiseInState

LEMMA RaiseKeeps ==
  ASSUME IInv, NEW p \in Procs, Raise(p)
  PROVE  IInv'
<1>1. faults' \in Nat /\ UNCHANGED <<orphan, ran, crashes>>
  BY TypeGroups DEF Raise, CountType, IInv
<1> QED
  BY <1>1, RaiseInIssueKeeps, RaiseInReceiptKeeps, RaiseInStateKeeps DEF Raise

LEMMA CrashKeeps ==
  ASSUME IInv, NEW p \in Procs, Crash(p)
  PROVE  IInv'
<1> DEFINE g == at[p]
<1>1. /\ site[p] # "idle" /\ crashes' = crashes + 1 /\ Exit(p)
      /\ UNCHANGED <<bundles, outcome, ran, faults>>
  BY DEF Crash
<1>2. ControlType' /\ AloneInv' /\ TaskInv' /\ SiteInv'
  BY <1>1, Leaving
<1>3. LinkInv'
  BY <1>1, TypeGroups DEF LinkInv, CountType, IInv
<1>4. /\ orphan' \in [Grants -> {"none", "factory", "recovery"}]
      /\ \A h \in Grants : orphan'[h] = "factory" =>
           state[h] = "consumed" /\ outcome[h] = NoOutcome /\ site[p] = "rebuild"
  <2>1. CASE UNCHANGED orphan
    BY <1>1, <2>1, Alone, TypeGroups DEF CountType, IInv
  <2>2. CASE run[p] # "none" /\ orphan' = [orphan EXCEPT ![g] = run[p]]
    <3>1. g \in Grants /\ run[p] \in {"factory", "recovery"} /\ \A h \in Grants : orphan[h] = "none"
      BY <1>1, <2>2, Alone, TypeGroups DEF ControlType, IInv
    <3>2. run[p] = "factory" =>
            state[g] = "consumed" /\ outcome[g] = NoOutcome /\ site[p] = "rebuild"
      BY DEF TaskInv, SiteInv, SiteOK, IInv
    <3> QED
      BY <2>2, <3>1, <3>2, TypeGroups DEF CountType, IInv
  <2> QED
    BY <2>1, <2>2 DEF Crash
<1>5. CountType'
  BY <1>1, <1>4, TypeGroups DEF CountType, IInv
<1>6. FilesType' /\ RecordInv'
  <2>1. CASE UNCHANGED <<grant, state, pending>>
    BY <1>1, <1>4, <2>1, TypeGroups DEF FilesType, RecordInv, RecordOK, IInv
  <2>2. CASE site[p] = "writeGrant" /\ Write(grant, g, Torn) /\ UNCHANGED <<state, pending>>
    <3>1. FilesType'
      BY <1>1, <2>2, TypeGroups DEF FilesType, IInv, Write, Torn
    <3>2. RecordInv'
      BY <1>1, <1>4, <2>2 DEF RecordInv, RecordOK, IInv
    <3> QED
      BY <3>1, <3>2
  <2>3. CASE site[p] = "writeState" /\ Write(state, g, Torn) /\ UNCHANGED <<grant, pending>>
    <3>1. state' = [state EXCEPT ![g] = "torn"]
      BY <2>3 DEF Write, Torn
    <3>2. /\ g \in bundles /\ g \in Grants /\ state[g] = "none" /\ orphan' = orphan
          /\ pending[g] = "none" /\ outcome[g] = NoOutcome
      <4>1. run[p] = "none"
        BY <2>3, Alone
      <4> QED
        BY ZenonT(60), <2>3, <4>1, Alone
           DEF Crash, TaskInv, SiteInv, SiteOK, Issuing, RecordInv, RecordOK, IInv
    <3> QED
      BY <1>1, <2>3, <3>1, <3>2, NewRecordKeeps, TypeGroups DEF FilesType, IInv
  <2>4. CASE site[p] = "prepare" /\ Write(pending, g, Torn) /\ UNCHANGED <<grant, state>>
    <3>1. pending' = [pending EXCEPT ![g] = "torn"] /\ orphan' = orphan
      BY <2>4, StateWrite DEF Crash, Write, Torn
    <3>2. RecordInv' /\ pending' \in [Grants -> Files]
      BY <1>1, <2>4, <3>1, StateWrite, PendingKeeps DEF Terminal
    <3> QED
      BY <1>1, <2>4, <3>2, TypeGroups DEF FilesType, IInv
  <2> QED
    BY <2>1, <2>2, <2>3, <2>4 DEF Crash
<1> QED
  BY <1>2, <1>3, <1>5, <1>6, TypeGroups DEF IInv

LEMMA OrphanEndsKeeps ==
  ASSUME IInv, NEW g \in Grants, OrphanEnds(g)
  PROVE  IInv'
<1>1. /\ orphan' = [orphan EXCEPT ![g] = "none"] /\ NoWrite
      /\ UNCHANGED <<control, ran, crashes, faults>>
  BY DEF OrphanEnds
<1>2. FilesType' /\ ControlType' /\ CountType'
  BY <1>1, TypeGroups
     DEF FilesType, ControlType, CountType, NoWrite, files, control, IInv
<1>3. AloneInv' /\ TaskInv' /\ SiteInv' /\ LinkInv'
  BY <1>1, TypeGroups DEF AloneInv, TaskInv, SiteInv, SiteOK, LinkInv, NoWrite, files,
                          control, phase, CountType, IInv
<1>4. RecordInv'
  BY <1>1, TypeGroups DEF RecordInv, RecordOK, NoWrite, files, CountType, IInv
<1> QED
  BY <1>2, <1>3, <1>4, TypeGroups DEF IInv

LEMMA InitInv == Init => IInv
<1> SUFFICES ASSUME Init PROVE IInv
  OBVIOUS
<1>1. TypeOK
  BY OutcomeFields, RecordsAssumption DEF Init, TypeOK, Files, Sites
<1>2. AloneInv /\ TaskInv
  BY DEF Init, AloneInv, TaskInv
<1>3. RecordInv /\ LinkInv
  BY OutcomeFields DEF Init, RecordInv, RecordOK, LinkInv, Terminal
<1>4. SiteInv
  BY DEF Init, SiteInv, SiteOK, Issuing
<1> QED
  BY <1>1, <1>2, <1>3, <1>4 DEF IInv

LEMMA StepInv == IInv /\ [Next]_vars => IInv'
<1> SUFFICES ASSUME IInv, [Next]_vars PROVE IInv'
  OBVIOUS
<1>1. ASSUME NEW p \in Procs, Step(p) PROVE IInv'
  BY <1>1, ScanKeeps, MakeBundleKeeps, WriteGrantKeeps, WriteIssuedKeeps, UndoKeeps,
     ReadKeeps, ReconcileKeeps, CompareKeeps, StartCommandKeeps, EndCommandKeeps,
     EndRebuildKeeps, StartRecoveryKeeps, EndRecoveryKeeps, PublishKeeps,
     UnlinkReceiptKeeps, PrepareKeeps, ReplaceKeeps DEF Step
<1>2. ASSUME NEW p \in Procs, Enter(p, "issue", NoGrant) PROVE IInv'
  BY <1>2, EnterKeeps
<1>3. ASSUME NEW p \in Procs, NEW g \in bundles, Enter(p, "execute", g) \/ Enter(p, "recover", g)
      PROVE  IInv'
  <2>1. g # NoGrant
    BY RecordsAssumption, TypeGroups DEF FilesType, IInv
  <2> QED
    BY <1>3, <2>1, EnterKeeps
<1>4. ASSUME NEW p \in Procs, Raise(p) \/ Crash(p) PROVE IInv'
  BY <1>4, RaiseKeeps, CrashKeeps
<1>5. ASSUME NEW g \in Grants, OrphanEnds(g) PROVE IInv'
  BY <1>5, OrphanEndsKeeps
<1>6. CASE UNCHANGED vars
  <2>1. FilesType' /\ ControlType' /\ CountType'
    BY <1>6, TypeGroups
       DEF FilesType, ControlType, CountType, vars, files, control, IInv
  <2>2. AloneInv' /\ TaskInv' /\ SiteInv' /\ LinkInv' /\ RecordInv'
    BY <1>6 DEF AloneInv, TaskInv, SiteInv, SiteOK, LinkInv, RecordInv, RecordOK,
                phase, vars, files, control, IInv
  <2> QED
    BY <2>1, <2>2, TypeGroups DEF IInv
<1> QED
  BY <1>1, <1>2, <1>3, <1>4, <1>5, <1>6 DEF Next

LEMMA Invariance == Spec => []IInv
BY InitInv, StepInv, PTL DEF Spec
--------------------------------------------------------------------------------
(* The properties *)

\* Every reachable state is well typed.
THEOREM TypeCorrect == Spec => []TypeOK
<1>1. IInv => TypeOK
  BY DEF IInv
<1> QED
  BY <1>1, Invariance, PTL

\* The records tell the truth: the outcome of a grant is published before its
\* terminal phase, agrees with it and with the commands that were run, none of
\* which still runs (factory_execution._finalize_grant, write_receipt).
THEOREM OutcomesTellTheTruth == Spec => []OutcomeTruthful
<1>1. ASSUME IInv PROVE OutcomeFirst
  <2>1. SUFFICES ASSUME NEW g \in Grants, phase[g] \in Terminal
                 PROVE  outcome[g] = [status |-> phase[g], links |-> 1]
    BY DEF OutcomeFirst
  <2>2. phase[g] = PhaseOf(state[g], pending[g])
    BY PhaseIs
  <2> QED
    BY <1>1, <2>1, <2>2 DEF PhaseOf, RecordInv, RecordOK, Phases, Terminal, IInv
<1>2. ASSUME IInv PROVE OutcomeTold
  <2>1. SUFFICES ASSUME NEW g \in Grants, outcome[g] # NoOutcome
                 PROVE  /\ orphan[g] # "factory"
                        /\ \A p \in Procs : at[p] = g => run[p] # "factory"
                        /\ outcome[g].status = "succeeded" => ran[g] = NumCommands
                        /\ outcome[g].status = "revoked" => ran[g] = 0
    BY DEF OutcomeTold
  <2>2. \A p \in Procs : at[p] = g => run[p] # "factory"
    BY <1>2, <2>1 DEF TaskInv, SiteInv, SiteOK, IInv
  <2> QED
    BY <1>2, <2>1, <2>2 DEF RecordInv, RecordOK, IInv
<1>3. IInv => OutcomeTruthful
  BY <1>1, <1>2 DEF OutcomeTruthful
<1> QED
  BY <1>3, Invariance, PTL

\* What a death or an error leaves of the records, the next operation takes up
\* (FactoryRecordStore.read_state, reconcile_terminal_outcome).
THEOREM RecordsAreTakenUp == Spec => []RecordsReconcilable
<1>1. ASSUME IInv PROVE StateWriteReconcilable
  <2>1. SUFFICES ASSUME NEW g \in Grants, pending[g] \in Phases PROVE Readable(g)
    BY DEF StateWriteReconcilable
  <2>2. pending[g] \in Successors(state[g])
    BY <1>1, <2>1 DEF RecordInv, RecordOK, IInv, Phases, Open, Terminal
  <2> QED
    BY <2>2, SuccessorsAre DEF Readable, Phases
<1>2. ASSUME IInv PROVE OutcomeSettles
  <2>1. SUFFICES ASSUME NEW g \in Grants, Abandoned, outcome[g] # NoOutcome, ~Stuck(g)
                 PROVE  Reconcilable(g)
    BY DEF OutcomeSettles
  <2>2. /\ outcome[g].status \in Terminal
        /\ outcome[g].status \in Successors(state[g]) \cup {state[g]}
        /\ pending[g] \in {"none", outcome[g].status}
        /\ pending[g] \in {"none", "torn"} \cup Successors(state[g])
    BY <1>2, <2>1 DEF RecordInv, RecordOK, IInv, Stuck
  <2>3. outcome[g].links = 1
    BY <1>2, <2>1, TypeGroups
       DEF RecordInv, RecordOK, LinkInv, IInv, Stuck, Abandoned
  <2>4. state[g] \in Phases
    BY <2>2, SuccessorsAre DEF Phases
  <2>5. Readable(g)
    BY <2>2, <2>4, SuccessorsAre DEF Readable, Phases, Terminal
  <2>6. Settled(g) = outcome[g].status \/ MayReconcile(g)
    BY <2>2, <2>3 DEF Settled, MayReconcile, OutcomeReadable
  <2> QED
    BY <2>5, <2>6 DEF Reconcilable
<1>3. IInv => RecordsReconcilable
  BY <1>1, <1>2 DEF RecordsReconcilable
<1> QED
  BY <1>3, Invariance, PTL
--------------------------------------------------------------------------------
(* The refinement of GrantLifecycle *)

Executing == {"replace", "rebuild"}

\* Without a process that executes and without a factory command there is
\* neither authority nor work; with one, there is only its own.
LEMMA Powerless ==
  /\ /\ IInv /\ \A p \in Procs : site[p] \notin Executing
     /\ \A g \in Grants : orphan[g] # "factory"
     => authority = {} /\ busy = {}
  /\ /\ IInv' /\ \A p \in Procs : site'[p] \notin Executing
     /\ \A g \in Grants : orphan'[g] # "factory"
     => authority' = {} /\ busy' = {}
BY DEF IInv, TaskInv, authority, busy, Executing

Power(p) == IF goal[p] = "consumed" /\ site[p] \in Executing THEN {at[p]} ELSE {}
Work(p)  == IF run[p] = "factory" THEN {at[p]} ELSE {}

LEMMA Powerful ==
  ASSUME IInv, NEW p \in Procs, site[p] # "idle", at[p] \in Grants
  PROVE  authority = Power(p) /\ busy = Work(p)
BY Alone DEF authority, busy, Power, Work, Executing

LEMMA PowerfulAfter ==
  ASSUME IInv', NEW p \in Procs, at'[p] \in Grants,
         \A q \in Procs \ {p} : site'[q] = "idle",
         \A h \in Grants : orphan'[h] = "none"
  PROVE  authority' = Power(p)' /\ busy' = Work(p)'
BY DEF IInv, TaskInv, authority, busy, Power, Work, Executing

LEMMA Stutter ==
  ASSUME phase' = phase, authority' = authority, ran' = ran, busy' = busy
  PROVE  [Lifecycle!LNext]_(Lifecycle!lvars)
BY DEF Lifecycle!lvars

\* Nobody executes, before or after the step, and no phase changes.
LEMMA Unconcerned ==
  ASSUME IInv, IInv', NEW p \in Procs, site[p] \notin {"idle"} \cup Executing,
         site'[p] \notin Executing, phase' = phase, ran' = ran,
         \A q \in Procs \ {p} : site'[q] = "idle",
         \A g \in Grants : orphan'[g] # "factory"
  PROVE  [Lifecycle!LNext]_(Lifecycle!lvars)
<1>1. authority = {} /\ busy = {}
  BY Powerless, Alone DEF Executing
<1>2. authority' = {} /\ busy' = {}
  BY Powerless DEF Executing
<1> QED
  BY <1>1, <1>2, Stutter

LEMMA InitRefines == Init => Lifecycle!LInit
BY DEF Init, Lifecycle!LInit, phase, authority, busy, Phases, Open, Terminal

\* A process that moves leaves the others idle.
LEMMA OthersStay ==
  ASSUME IInv, NEW p \in Procs, site[p] # "idle",
         (\E s \in Sites : Goto(p, s)) \/ Exit(p) \/ UNCHANGED site
  PROVE  \A q \in Procs \ {p} : site'[q] = "idle"
BY Alone, TypeGroups DEF Goto, Exit, ControlType, IInv

\* The steps that neither change a phase nor belong to an execution.
LEMMA QuietRefines ==
  ASSUME IInv, IInv', NEW p \in Procs,
         \/ Scan(p) \/ MakeBundle(p) \/ WriteGrant(p) \/ Read(p)
         \/ Reconcile(p) \/ Compare(p) \/ StartRecovery(p) \/ EndRecovery(p)
         \/ Publish(p) \/ UnlinkReceipt(p)
  PROVE  [Lifecycle!LNext]_(Lifecycle!lvars)
<1>1. /\ site[p] \notin {"idle"} \cup Executing /\ UNCHANGED <<orphan, ran>>
      /\ site'[p] \notin Executing
      /\ (\E s \in Sites : Goto(p, s)) \/ Exit(p) \/ UNCHANGED site
  <2>1. site[p] \notin {"idle"} \cup Executing /\ UNCHANGED <<orphan, ran>>
    BY DEF Scan, MakeBundle, WriteGrant, Read, Reconcile, Compare, StartRecovery,
           EndRecovery, Publish, UnlinkReceipt, Executing, Still
  <2>2. (\E s \in Sites \ Executing : Goto(p, s)) \/ Exit(p) \/ UNCHANGED site
    BY DEF Scan, MakeBundle, WriteGrant, Read, Reconcile, Compare, StartRecovery,
           EndRecovery, Publish, UnlinkReceipt, Executing, Sites, Aim, control
  <2>3. site'[p] \notin Executing
    BY <2>1, <2>2, TypeGroups DEF Exit, Goto, Executing, ControlType, IInv
  <2> QED
    BY <2>1, <2>2, <2>3
<1>2. /\ \A q \in Procs \ {p} : site'[q] = "idle"
      /\ \A g \in Grants : orphan'[g] = "none"
  BY <1>1, Alone, OthersStay
<1>3. phase' = phase
  <2>1. CASE UNCHANGED <<state, pending>>
    BY <2>1 DEF phase
  <2>2. CASE \E g \in Grants : Readable(g) /\ Settle(g)
    BY <1>1, <2>2, SettleKeeps DEF IInv
  <2>3. UNCHANGED <<state, pending>> \/ \E g \in Grants : Readable(g) /\ Settle(g)
    <3>1. bundles \subseteq Grants /\ (site[p] = "read" => at[p] \in Grants)
      BY Alone, TypeGroups DEF FilesType, IInv
    <3> QED
      BY <3>1 DEF Scan, MakeBundle, WriteGrant, Read, Reconcile, Compare, StartRecovery,
                  EndRecovery, Publish, UnlinkReceipt, NoWrite, files
  <2> QED
    BY <2>1, <2>2, <2>3
<1> QED
  BY <1>1, <1>2, <1>3, Unconcerned

LEMMA EnterRefines ==
  ASSUME IInv, IInv', NEW p \in Procs, NEW task \in {"issue", "execute", "recover"},
         NEW g, Enter(p, task, g)
  PROVE  [Lifecycle!LNext]_(Lifecycle!lvars)
<1>1. /\ \A q \in Procs : site[q] = "idle"
      /\ \A h \in Grants : orphan[h] = "none"
  BY DEF Enter, LockFree, IInv, AloneInv
<1>2. /\ UNCHANGED <<orphan, ran>> /\ phase' = phase
      /\ \A q \in Procs : site'[q] \notin Executing
  <2>1. /\ site' = [site EXCEPT ![p] = IF task = "issue" THEN "scan" ELSE "read"]
        /\ UNCHANGED <<state, pending, orphan, ran>>
    BY DEF Enter, Goto, NoWrite, files, Still
  <2> QED
    BY <1>1, <2>1, TypeGroups DEF phase, Executing, ControlType, IInv
<1>3. authority = {} /\ busy = {}
  BY <1>1, Powerless DEF Executing
<1>4. authority' = {} /\ busy' = {}
  BY <1>1, <1>2, Powerless
<1> QED
  BY <1>2, <1>3, <1>4, Stutter

\* A grant appears, or is taken back, while no other one is open.
LEMMA IssueRefines ==
  ASSUME IInv, IInv', NEW p \in Procs, site[p] \in Issuing, site'[p] \in Issuing \cup {"idle"},
         \A q \in Procs \ {p} : site'[q] = "idle",
         UNCHANGED <<orphan, ran>>, NEW g \in Grants, g = at[p],
         NEW value \in {"issued", "none"}, phase' = [phase EXCEPT ![g] = value]
  PROVE  [Lifecycle!LNext]_(Lifecycle!lvars)
<1>1. /\ authority = {} /\ busy = {} /\ authority' = {} /\ busy' = {}
      /\ UNCHANGED <<authority, ran, busy>>
  BY Alone, Powerless DEF Executing, Issuing
<1>2. /\ \A h \in Grants \ {g} : phase[h] \notin Open
      /\ phase[g] \in {"none", "issued"}
  <2>1. /\ pending[g] = "none" /\ state[g] \in {"none", "torn", "issued"}
        /\ \A h \in Grants \ {g} : phase[h] \notin Open
    BY DEF SiteInv, SiteOK, RecordInv, RecordOK, IInv, Issuing
  <2> QED
    BY <2>1, PhaseIs DEF PhaseOf, Phases, Open, Terminal
<1>3. CASE phase[g] = value
  <2>1. phase' = phase
    BY <1>3, PhaseStays DEF phase
  <2> QED
    BY <1>1, <2>1, Stutter
<1>4. CASE phase[g] = "none" /\ value = "issued"
  <2>1. Lifecycle!Issue(g)
    BY <1>1, <1>2, <1>4 DEF Lifecycle!Issue, Lifecycle!Become, Lifecycle!Open, Open
  <2> QED
    BY <2>1 DEF Lifecycle!LNext
<1>5. CASE phase[g] = "issued" /\ value = "none"
  <2>1. Lifecycle!Withdraw(g)
    BY <1>1, <1>5 DEF Lifecycle!Withdraw, Lifecycle!Become
  <2> QED
    BY <2>1 DEF Lifecycle!LNext
<1> QED
  BY <1>2, <1>3, <1>4, <1>5

LEMMA WriteIssuedRefines ==
  ASSUME IInv, IInv', NEW p \in Procs, WriteIssued(p)
  PROVE  [Lifecycle!LNext]_(Lifecycle!lvars)
<1>1. /\ site[p] = "writeState" /\ state' = [state EXCEPT ![at[p]] = "issued"]
      /\ Exit(p) /\ UNCHANGED <<bundles, grant, pending, outcome>> /\ Still
  BY DEF WriteIssued
<1>2. PICK g \in bundles : g = at[p] /\ state[g] = "none" /\ g \in Grants
  BY ZenonT(60), <1>1, Alone DEF TaskInv, SiteInv, SiteOK, Issuing, IInv
<1>3. pending[g] = "none" /\ outcome[g] = NoOutcome
  BY <1>2 DEF RecordInv, RecordOK, IInv
<1>4. phase' = [phase EXCEPT ![g] = "issued"]
  BY ZenonT(60), <1>1, <1>2, <1>3, NewRecordKeeps, PhaseBecomes DEF Still
<1>5. \A q \in Procs : site'[q] = "idle"
  BY <1>1, Leaving
<1> QED
  BY <1>1, <1>2, <1>4, <1>5, IssueRefines DEF Issuing, Still

LEMMA UndoRefines ==
  ASSUME IInv, IInv', NEW p \in Procs, Undo(p)
  PROVE  [Lifecycle!LNext]_(Lifecycle!lvars)
<1>1. site[p] = "undo" /\ UNCHANGED <<pending, outcome>> /\ Still
  BY DEF Undo
<1>2. PICK g \in bundles : /\ g = at[p] /\ state[g] \in {"none", "torn", "issued"}
                          /\ pending[g] = "none" /\ outcome[g] = NoOutcome /\ g \in Grants
  BY ZenonT(60), <1>1, Alone DEF TaskInv, SiteInv, SiteOK, Issuing, IInv
<1>3. CASE state' = [state EXCEPT ![g] = "none"] /\ UNCHANGED <<bundles, control>>
  <2>1. phase' = [phase EXCEPT ![g] = "none"]
    BY ZenonT(60), <1>1, <1>2, <1>3, NewRecordKeeps, PhaseBecomes DEF Still
  <2>2. site'[p] = "undo" /\ \A q \in Procs \ {p} : site'[q] = "idle"
    BY <1>1, <1>3, Alone DEF control
  <2> QED
    BY <1>1, <1>2, <2>1, <2>2, IssueRefines DEF Issuing, Still
<1>4. CASE UNCHANGED state /\ (UNCHANGED control \/ Exit(p))
  <2>1. phase' = phase
    BY <1>1, <1>4 DEF phase
  <2>2. site'[p] \notin Executing /\ \A q \in Procs \ {p} : site'[q] = "idle"
    BY <1>1, <1>4, Alone, Leaving DEF control, Executing
  <2> QED
    BY <1>1, <2>1, <2>2, Alone, Unconcerned DEF Still, Executing
<1> QED
  BY <1>2, <1>3, <1>4 DEF Undo

\* A phase is written to a pending file, by a process that goes on or not.
LEMMA PhaseStepRefines ==
  ASSUME IInv, IInv', NEW p \in Procs, site[p] = "prepare", NEW g \in Grants, g = at[p],
         phase' = [phase EXCEPT ![g] = goal[p]], UNCHANGED ran, busy' = {},
         authority' = {} \/ (goal[p] = "consumed" /\ authority' = {g})
  PROVE  [Lifecycle!LNext]_(Lifecycle!lvars)
<1>1. authority = {} /\ busy = {}
  BY Alone, Powerless DEF Executing
<1>2. phase[g] = state[g] /\ state[g] \in Open /\ goal[p] \in Successors(state[g])
  BY StateWrite, PhaseIs DEF PhaseOf, Phases, Open, Terminal
<1>3. CASE goal[p] = "consumed"
  <2>1. Lifecycle!Consume(g)
    BY <1>1, <1>2, <1>3, SuccessorsAre DEF Lifecycle!Consume, Lifecycle!Become, Open
  <2> QED
    BY <2>1 DEF Lifecycle!LNext
<1>4. CASE goal[p] = "revoked"
  <2>1. Lifecycle!Revoke(g)
    BY <1>1, <1>2, <1>4, SuccessorsAre DEF Lifecycle!Revoke, Lifecycle!Become, Open
  <2> QED
    BY <2>1 DEF Lifecycle!LNext
<1>5. CASE goal[p] \in {"succeeded", "failed", "interrupted"}
  <2>1. goal[p] = "succeeded" => ran[g] = NumCommands
    <3>1. outcome[g] = [status |-> goal[p], links |-> 1]
      BY <1>5, StateWrite DEF Terminal
    <3>2. outcome[g].status = goal[p] /\ outcome[g] # NoOutcome
      BY <3>1, OutcomeFields
    <3> QED
      BY ZenonT(60), <3>2 DEF RecordInv, RecordOK, IInv
  <2>2. Lifecycle!Conclude(g, goal[p])
    BY <1>1, <1>2, <1>5, <2>1, SuccessorsAre DEF Lifecycle!Conclude, Lifecycle!Become, Open
  <2> QED
    BY <1>5, <2>2 DEF Lifecycle!LNext, Lifecycle!Terminal
<1> QED
  BY <1>2, <1>3, <1>4, <1>5, SuccessorsAre DEF Open

LEMMA PrepareRefines ==
  ASSUME IInv, IInv', NEW p \in Procs, Prepare(p)
  PROVE  [Lifecycle!LNext]_(Lifecycle!lvars)
<1>1. /\ site[p] = "prepare" /\ pending' = [pending EXCEPT ![at[p]] = goal[p]]
      /\ Goto(p, "replace") /\ KeepTask /\ Still
      /\ UNCHANGED <<bundles, grant, state, outcome, goal, run>>
  BY DEF Prepare
<1>2. PICK g \in Grants : g = at[p] /\ goal[p] \in Successors(state[g])
  BY <1>1, StateWrite
<1>3. phase' = [phase EXCEPT ![g] = goal[p]]
  <2>1. /\ \A h \in Grants \ {g} : phase'[h] = phase[h]
        /\ phase'[g] = IF goal[p] \in {"none", "torn"} THEN phase[g] ELSE goal[p]
    <3>1. /\ state[g] \in Open /\ pending[g] = "none" /\ orphan[g] = "none"
          /\ goal[p] \in Terminal => outcome[g] = [status |-> goal[p], links |-> 1]
          /\ goal[p] = "consumed" => outcome[g] = NoOutcome
      BY <1>1, <1>2, StateWrite
    <3> QED
      BY <1>1, <1>2, <3>1, PendingKeeps DEF Still
  <2>2. goal[p] \notin {"none", "torn"}
    BY <1>1, StateWrite DEF Terminal
  <2> QED
    BY <2>1, <2>2, PhaseBecomes
<1>4. /\ \A q \in Procs \ {p} : site'[q] = "idle"
      /\ \A h \in Grants : orphan'[h] = "none"
  BY <1>1, Alone, OthersStay DEF Sites, Still
<1>5. authority' = Power(p)' /\ busy' = Work(p)'
  BY <1>1, <1>2, <1>4, PowerfulAfter DEF KeepTask
<1>6. busy' = {} /\ (authority' = {} \/ (goal[p] = "consumed" /\ authority' = {g}))
  BY <1>1, <1>2, <1>5, StateWrite DEF Power, Work, KeepTask
<1> QED
  BY <1>1, <1>2, <1>3, <1>6, PhaseStepRefines DEF Still

\* A process that executes goes on, or ends.
LEMMA ReplaceRefines ==
  ASSUME IInv, IInv', NEW p \in Procs, Replace(p)
  PROVE  [Lifecycle!LNext]_(Lifecycle!lvars)
<1>1. site[p] = "replace" /\ Settle(at[p]) /\ Still
  BY DEF Replace
<1>2. at[p] \in Grants /\ phase' = phase /\ run[p] = "none"
  BY <1>1, StateWrite, SettleKeeps DEF Still, IInv
<1>3. CASE goal[p] = "consumed"
  <2>1. Goto(p, "rebuild") /\ UNCHANGED <<goal, run>> /\ KeepTask
    BY <1>3 DEF Replace
  <2>2. /\ site'[p] = "rebuild" /\ \A q \in Procs \ {p} : site'[q] = "idle"
        /\ \A h \in Grants : orphan'[h] = "none"
    BY ZenonT(60), <1>1, <2>1, Alone, OthersStay, TypeGroups DEF Sites, Still, Goto, ControlType, IInv
  <2>3. authority' = Power(p)' /\ busy' = Work(p)'
    BY <1>2, <2>1, <2>2, PowerfulAfter DEF KeepTask
  <2>4. authority = Power(p) /\ busy = Work(p)
    BY <1>1, <1>2, Powerful
  <2>5. Power(p)' = Power(p) /\ Work(p)' = Work(p)
    BY <1>1, <2>1, <2>2 DEF Power, Work, Executing, KeepTask
  <2> QED
    BY <1>1, <1>2, <2>3, <2>4, <2>5, Stutter DEF Still
<1>4. CASE goal[p] # "consumed"
  <2>1. Exit(p)
    BY <1>4 DEF Replace
  <2>2. authority' = {} /\ busy' = {}
    BY <1>1, <2>1, Alone, Leaving, Powerless DEF Executing, Still
  <2>3. authority = {} /\ busy = {}
    BY <1>1, <1>2, <1>4, Powerful DEF Power, Work
  <2> QED
    BY <1>1, <1>2, <2>2, <2>3, Stutter DEF Still
<1> QED
  BY <1>3, <1>4

\* What holds while the commands of a grant are run.
LEMMA WhileRebuilding ==
  ASSUME IInv, NEW p \in Procs, site[p] = "rebuild"
  PROVE  /\ at[p] \in Grants /\ phase[at[p]] = "consumed"
         /\ authority = {at[p]} /\ busy = Work(p)
<1>1. /\ at[p] \in Grants /\ state[at[p]] = "consumed" /\ pending[at[p]] = "none"
      /\ goal[p] = "consumed"
  BY Alone DEF SiteInv, SiteOK, IInv
<1>2. authority = {at[p]} /\ busy = Work(p)
  BY <1>1, Powerful DEF Power, Executing
<1> QED
  BY <1>1, <1>2, PhaseIs DEF PhaseOf, Phases, Open, Terminal

LEMMA CommandRefines ==
  ASSUME IInv, IInv', NEW p \in Procs, StartCommand(p) \/ EndCommand(p)
  PROVE  [Lifecycle!LNext]_(Lifecycle!lvars)
<1>1. /\ site[p] = "rebuild" /\ UNCHANGED <<site, goal, orphan>> /\ NoWrite /\ KeepTask
  BY DEF StartCommand, EndCommand, Still
<1>2. PICK g \in Grants : g = at[p] /\ at'[p] = g /\ phase[g] = "consumed" /\ phase' = phase
  BY <1>1, WhileRebuilding DEF KeepTask, NoWrite, files, phase
<1>3. authority = {g} /\ busy = Work(p)
  BY <1>1, <1>2, WhileRebuilding
<1>4. authority' = {g} /\ busy' = Work(p)'
  <2>1. /\ \A q \in Procs \ {p} : site'[q] = "idle"
        /\ \A h \in Grants : orphan'[h] = "none"
    BY <1>1, Alone
  <2>2. authority' = Power(p)' /\ busy' = Work(p)'
    BY <1>2, <2>1, PowerfulAfter
  <2>3. Power(p)' = Power(p)
    BY <1>1 DEF Power, KeepTask
  <2> QED
    BY <1>1, <1>2, <1>3, <2>2, <2>3, Powerful
<1>5. CASE StartCommand(p)
  <2>1. /\ busy = {} /\ busy' = {g} /\ ran[g] < NumCommands
        /\ ran' = [ran EXCEPT ![g] = @ + 1]
    BY <1>2, <1>3, <1>4, <1>5, TypeGroups
       DEF StartCommand, MayStart, Work, ControlType, IInv
  <2>2. Lifecycle!StartFactoryCommand(g)
    BY <1>2, <1>3, <1>4, <2>1 DEF Lifecycle!StartFactoryCommand
  <2> QED
    BY <2>2 DEF Lifecycle!LNext
<1>6. CASE EndCommand(p)
  <2>1. busy = {g} /\ busy' = {} /\ ran' = ran
    BY <1>2, <1>3, <1>4, <1>6, TypeGroups DEF EndCommand, Work, ControlType, IInv, Still
  <2>2. Lifecycle!EndFactoryCommand(g)
    BY <1>2, <1>3, <1>4, <2>1 DEF Lifecycle!EndFactoryCommand
  <2> QED
    BY <2>2 DEF Lifecycle!LNext
<1> QED
  BY <1>5, <1>6

\* An execution ends, of its own or by a death.
LEMMA LapseRefines ==
  ASSUME NEW g \in Grants, authority = {g}, authority' = {}, busy \subseteq {g},
         busy' \in {busy, {}}, phase' = phase, ran' = ran
  PROVE  [Lifecycle!LNext]_(Lifecycle!lvars)
<1>1. Lifecycle!Lapse(g)
  BY DEF Lifecycle!Lapse
<1> QED
  BY <1>1 DEF Lifecycle!LNext

LEMMA EndRebuildRefines ==
  ASSUME IInv, IInv', NEW p \in Procs, EndRebuild(p)
  PROVE  [Lifecycle!LNext]_(Lifecycle!lvars)
<1>1. /\ site[p] = "rebuild" /\ run[p] = "none" /\ NoWrite /\ Still /\ Goto(p, "publish")
  BY DEF EndRebuild, Aim
<1>2. /\ authority = {at[p]} /\ busy = {} /\ at[p] \in Grants
  BY <1>1, WhileRebuilding DEF Work
<1>3. authority' = {} /\ busy' = {}
  <2>1. \A q \in Procs : site'[q] \notin Executing
    <3>1. \A q \in Procs \ {p} : site'[q] = "idle"
      BY <1>1, OthersStay DEF Sites
    <3> QED
      BY <1>1, <3>1, TypeGroups DEF Goto, Executing, ControlType, IInv
  <2> QED
    BY <1>1, <2>1, Alone, Powerless DEF Still
<1> QED
  BY <1>1, <1>2, <1>3, LapseRefines DEF Still, NoWrite, files, phase

\* A process that ends gives up its authority; its command may go on.
LEMMA ExitRefines ==
  ASSUME IInv, IInv', NEW p \in Procs, site[p] # "idle", Exit(p), phase' = phase, ran' = ran,
         \A h \in Grants : orphan'[h] = "factory" => h = at[p] /\ run[p] = "factory"
  PROVE  [Lifecycle!LNext]_(Lifecycle!lvars)
<1>1. \A q \in Procs : site'[q] = "idle" /\ run'[q] = "none"
  BY Leaving
<1>2. authority' = {} /\ busy' = {h \in Grants : orphan'[h] = "factory"}
  BY <1>1 DEF authority, busy
<1>3. CASE site[p] \in Executing
  <2>1. at[p] \in Grants /\ authority = Power(p) /\ busy = Work(p)
    BY <1>3, Alone, Powerful DEF Executing
  <2>2. busy \subseteq {at[p]} /\ busy' \in {busy, {}}
    BY <1>2, <2>1 DEF Work
  <2>3. CASE goal[p] = "consumed"
    BY <1>2, <1>3, <2>1, <2>2, <2>3, LapseRefines DEF Power
  <2>4. CASE goal[p] # "consumed"
    <3>1. run[p] # "factory"
      BY <2>4 DEF TaskInv, SiteInv, SiteOK, IInv
    <3> QED
      BY <1>2, <2>1, <2>4, <3>1, Stutter DEF Power, Work
  <2> QED
    BY <2>3, <2>4
<1>4. CASE site[p] \notin Executing
  <2>1. run[p] # "factory"
    BY <1>4 DEF TaskInv, IInv, Executing
  <2> QED
    BY <1>1, <1>4, <2>1, Unconcerned DEF Executing
<1> QED
  BY <1>3, <1>4

LEMMA NewGrant ==
  ASSUME IInv, NEW p \in Procs, site[p] \in Issuing \ {"undo", "mkdir"}
  PROVE  /\ at[p] \in bundles /\ at[p] \in Grants /\ state[at[p]] = "none"
         /\ pending[at[p]] = "none" /\ outcome[at[p]] = NoOutcome
<1>1. at[p] \in bundles /\ at[p] \in Grants /\ state[at[p]] = "none"
  BY Alone DEF TaskInv, SiteInv, SiteOK, Issuing, IInv
<1> QED
  BY <1>1 DEF RecordInv, RecordOK, IInv

LEMMA RaiseInIssueRefines ==
  ASSUME IInv, IInv', NEW p \in Procs, RaiseInIssue(p), UNCHANGED <<orphan, ran>>
  PROVE  [Lifecycle!LNext]_(Lifecycle!lvars)
<1>1. /\ site[p] \in {"writeGrant", "writeState"} /\ Goto(p, "undo")
      /\ UNCHANGED <<bundles, pending, outcome>>
  BY DEF RaiseInIssue
<1>2. PICK g \in bundles : /\ g = at[p] /\ g \in Grants /\ state[g] = "none"
                          /\ pending[g] = "none" /\ outcome[g] = NoOutcome
  BY <1>1, NewGrant DEF Issuing
<1>3. PICK value \in {"none", "torn", "issued"} : state' = [state EXCEPT ![g] = value]
  <2>1. CASE site[p] = "writeGrant"
    <3>1. UNCHANGED state
      BY <2>1 DEF RaiseInIssue
    <3>2. state' = [state EXCEPT ![g] = "none"]
      BY <1>2, <3>1, TypeGroups DEF FilesType, IInv
    <3> QED
      BY <3>2
  <2>2. CASE site[p] = "writeState"
    BY <1>2, <2>2 DEF RaiseInIssue, Write, Torn
  <2> QED
    BY <1>1, <2>1, <2>2
<1>4. phase' = [phase EXCEPT ![g] = IF value = "issued" THEN "issued" ELSE "none"]
  <2>1. /\ \A h \in Grants \ {g} : phase'[h] = phase[h]
        /\ phase'[g] = IF value = "issued" THEN "issued" ELSE "none"
    BY <1>1, <1>2, <1>3, NewRecordKeeps
  <2> QED
    BY <1>2, <2>1, PhaseBecomes
<1>5. site'[p] = "undo" /\ \A q \in Procs \ {p} : site'[q] = "idle"
  BY <1>1, Alone, TypeGroups DEF Goto, ControlType, IInv
<1> QED
  BY <1>1, <1>2, <1>4, <1>5, IssueRefines DEF Issuing

LEMMA RaiseInStateRefines ==
  ASSUME IInv, IInv', NEW p \in Procs, RaiseInState(p), UNCHANGED <<orphan, ran>>
  PROVE  [Lifecycle!LNext]_(Lifecycle!lvars)
<1>1. /\ Exit(p) /\ site[p] \in {"prepare", "read", "replace", "scan", "mkdir", "recover"}
      /\ \A h \in Grants : orphan'[h] = "none"
  BY Alone DEF RaiseInState
<1>2. CASE phase' = phase
  BY <1>1, <1>2, ExitRefines
<1>3. CASE UNCHANGED <<state, pending>>
  BY <1>2, <1>3 DEF phase
<1>4. CASE \E h \in Grants : Readable(h) /\ Settle(h)
  BY <1>2, <1>4, SettleKeeps DEF IInv
<1>5. CASE /\ site[p] = "prepare" /\ Write(pending, at[p], {"none", goal[p]} \cup Torn)
           /\ UNCHANGED <<bundles, grant, state, outcome>>
  <2>1. PICK value \in {"none", "torn", goal[p]} : pending' = [pending EXCEPT ![at[p]] = value]
    BY <1>5 DEF Write, Torn
  <2>2. PICK g \in Grants : /\ g = at[p] /\ goal[p] \in Successors(state[g])
                           /\ goal[p] \in {"consumed"} \cup Terminal
    BY <1>5, StateWrite
  <2>3. /\ \A h \in Grants \ {g} : phase'[h] = phase[h]
        /\ phase'[g] = IF value \in {"none", "torn"} THEN phase[g] ELSE value
    <3>1. /\ state[g] \in Open /\ pending[g] = "none" /\ orphan[g] = "none"
          /\ value \in {"none", "torn"} \cup Successors(state[g])
          /\ value \in Terminal => outcome[g] = [status |-> value, links |-> 1]
          /\ value = "consumed" => outcome[g] = NoOutcome
      BY <1>5, <2>1, <2>2, StateWrite DEF Terminal
    <3> QED
      BY <1>5, <2>1, <2>2, <3>1, PendingKeeps
  <2>4. CASE value \in {"none", "torn"}
    BY <1>2, <2>2, <2>3, <2>4, PhaseStays
  <2>5. CASE value = goal[p]
    <3>1. phase' = [phase EXCEPT ![g] = goal[p]]
      <4>1. goal[p] \notin {"none", "torn"}
        BY <2>2 DEF Terminal
      <4> QED
        BY <2>3, <2>5, <4>1, PhaseBecomes
    <3>2. authority' = {} /\ busy' = {}
      BY <1>1, Leaving, Powerless DEF Executing
    <3> QED
      BY <1>5, <2>2, <3>1, <3>2, PhaseStepRefines
  <2> QED
    BY <2>1, <2>4, <2>5
<1>6. /\ site[p] \in {"read", "replace"} => at[p] \in Grants
      /\ site[p] = "replace" => Readable(at[p])
      /\ bundles \subseteq Grants
  BY Alone, StateWrite, TypeGroups DEF FilesType, IInv
<1> QED
  BY <1>3, <1>4, <1>5, <1>6 DEF RaiseInState, NoWrite, files

LEMMA RaiseRefines ==
  ASSUME IInv, IInv', NEW p \in Procs, Raise(p)
  PROVE  [Lifecycle!LNext]_(Lifecycle!lvars)
<1>1. UNCHANGED <<orphan, ran>>
  BY DEF Raise
<1>2. ASSUME RaiseInReceipt(p) PROVE [Lifecycle!LNext]_(Lifecycle!lvars)
  <2>1. site[p] # "idle" /\ Exit(p) /\ phase' = phase
    BY <1>2 DEF RaiseInReceipt, phase
  <2> QED
    BY <1>1, <2>1, Alone, ExitRefines
<1> QED
  BY <1>1, <1>2, RaiseInIssueRefines, RaiseInStateRefines DEF Raise

LEMMA CrashRefines ==
  ASSUME IInv, IInv', NEW p \in Procs, Crash(p)
  PROVE  [Lifecycle!LNext]_(Lifecycle!lvars)
<1>1. /\ site[p] # "idle" /\ Exit(p) /\ UNCHANGED <<bundles, outcome, ran>>
  BY DEF Crash
<1>2. \A h \in Grants : orphan'[h] = "factory" => h = at[p] /\ run[p] = "factory"
  BY <1>1, Alone, TypeGroups DEF Crash, CountType, IInv
<1>3. phase' = phase
  <2>1. CASE UNCHANGED <<state, pending>>
    BY <2>1 DEF phase
  <2>2. CASE site[p] = "writeState" /\ Write(state, at[p], Torn) /\ UNCHANGED pending
    <3>1. PICK g \in bundles : /\ g = at[p] /\ g \in Grants /\ state[g] = "none"
                              /\ pending[g] = "none" /\ outcome[g] = NoOutcome
      BY <2>2, NewGrant DEF Issuing
    <3>2. state' = [state EXCEPT ![g] = "torn"]
      BY <2>2, <3>1 DEF Write, Torn
    <3>3. orphan' = orphan
      BY <2>2, Alone DEF Crash
    <3>4. /\ \A h \in Grants \ {g} : phase'[h] = phase[h]
          /\ phase'[g] = "none"
      BY <1>1, <2>2, <3>1, <3>2, <3>3, NewRecordKeeps
    <3>5. phase[g] = "none"
      BY <3>1, PhaseIs DEF PhaseOf, Phases, Open, Terminal
    <3> QED
      BY <3>4, <3>5, PhaseStays
  <2>3. CASE site[p] = "prepare" /\ Write(pending, at[p], Torn) /\ UNCHANGED state
    <3>1. PICK g \in Grants : /\ g = at[p] /\ state[g] \in Open /\ run[p] = "none"
                             /\ pending[g] = "none" /\ orphan[g] = "none"
      BY <2>3, StateWrite
    <3>2. pending' = [pending EXCEPT ![g] = "torn"] /\ orphan' = orphan
      BY <2>3, <3>1 DEF Crash, Write, Torn
    <3>3. /\ \A h \in Grants \ {g} : phase'[h] = phase[h]
          /\ phase'[g] = phase[g]
      BY <1>1, <2>3, <3>1, <3>2, PendingKeeps DEF Terminal
    <3> QED
      BY <3>3, PhaseStays
  <2> QED
    BY <2>1, <2>2, <2>3 DEF Crash
<1> QED
  BY <1>1, <1>2, <1>3, ExitRefines

LEMMA OrphanEndsRefines ==
  ASSUME IInv, IInv', NEW g \in Grants, OrphanEnds(g)
  PROVE  [Lifecycle!LNext]_(Lifecycle!lvars)
<1>1. /\ orphan[g] # "none" /\ orphan' = [orphan EXCEPT ![g] = "none"] /\ NoWrite
      /\ UNCHANGED <<control, ran>>
  BY DEF OrphanEnds
<1>2. /\ UNCHANGED <<site, at, goal, run, ran>> /\ phase' = phase /\ authority' = authority
      /\ \A p \in Procs : run[p] # "factory"
  BY <1>1, Alone DEF NoWrite, files, control, phase, authority, TaskInv, IInv
<1>3. busy = {h \in Grants : orphan[h] = "factory"}
  BY <1>2 DEF busy
<1>4. busy' = {h \in Grants : orphan'[h] = "factory"}
  BY <1>2 DEF busy
<1>5. busy' = busy \ {g}
  BY <1>1, <1>3, <1>4, TypeGroups DEF CountType, IInv
<1>6. CASE g \in busy
  <2>1. Lifecycle!EndFactoryCommand(g)
    BY <1>2, <1>5, <1>6 DEF Lifecycle!EndFactoryCommand
  <2> QED
    BY <2>1 DEF Lifecycle!LNext
<1>7. CASE g \notin busy
  BY <1>2, <1>5, <1>7, Stutter
<1> QED
  BY <1>6, <1>7

LEMMA StepRefines ==
  IInv /\ IInv' /\ [Next]_vars => [Lifecycle!LNext]_(Lifecycle!lvars)
<1> SUFFICES ASSUME IInv, IInv', [Next]_vars PROVE [Lifecycle!LNext]_(Lifecycle!lvars)
  OBVIOUS
<1>1. ASSUME NEW p \in Procs, Step(p) PROVE [Lifecycle!LNext]_(Lifecycle!lvars)
  BY <1>1, QuietRefines, WriteIssuedRefines, UndoRefines, PrepareRefines, ReplaceRefines,
     CommandRefines, EndRebuildRefines DEF Step
<1>2. ASSUME NEW p \in Procs,
             \/ Enter(p, "issue", NoGrant)
             \/ \E g \in bundles : Enter(p, "execute", g) \/ Enter(p, "recover", g)
      PROVE  [Lifecycle!LNext]_(Lifecycle!lvars)
  BY <1>2, EnterRefines
<1>3. ASSUME NEW p \in Procs, Raise(p) \/ Crash(p) PROVE [Lifecycle!LNext]_(Lifecycle!lvars)
  BY <1>3, RaiseRefines, CrashRefines
<1>4. ASSUME NEW g \in Grants, OrphanEnds(g) PROVE [Lifecycle!LNext]_(Lifecycle!lvars)
  BY <1>4, OrphanEndsRefines
<1>5. CASE UNCHANGED vars
  BY <1>5, Stutter DEF vars, files, control, phase, authority, busy
<1> QED
  BY <1>1, <1>2, <1>3, <1>4, <1>5 DEF Next

\* The records implement the life of a grant: one open grant, one execution for
\* each, one terminal phase after its last command.
THEOREM RecordsImplementLifecycle == Spec => ImplementsLifecycle
BY InitRefines, StepRefines, Invariance, PTL DEF Spec, ImplementsLifecycle, Lifecycle!LSpec
================================================================================
