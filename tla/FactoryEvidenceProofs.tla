-------------------------- MODULE FactoryEvidenceProofs --------------------------
(***************************************************************************)
(* Proofs about FactoryEvidence for any residues, capacities and bounds.   *)
(***************************************************************************)
EXTENDS FactoryEvidence, TLAPS

USE EvidenceAssumption

AfterSecond == {"verifySource", "verifyTools", "decide", "granted"}
AfterFirst  == {"media", "tools", "metadata", "kernel", "probe", "second"} \cup AfterSecond
AfterTools  == {"metadata", "kernel", "probe", "second"} \cup AfterSecond

\* The checks an inspection has done.
FirstDone(i)  == at \in AfterFirst  \/ (at = "first"  /\ step > i)
SecondDone(i) == at \in AfterSecond \/ (at = "second" /\ step > i)

Host == [source : Nat, tools : Nat, target : Nat, free : 0..MaxFree, dirs : 0..MaxStops]
Seen == [tools : Nat, metadata : Nat, kernel : Nat, free : 0..MaxFree]

TypeInv ==
  /\ TypeOK
  /\ grant = NoGrant \/ grant \in [token : {1}, findings : [RequiredFindings -> Finding],
                                   seen : Seen]
  /\ host.dirs <= stops
  /\ at \notin Inspections => step = 1
  /\ at = "idle" => grant = NoGrant

\* Versions only grow, and mark lies between what was observed before and after.
MarkInv ==
  /\ mark.source <= host.source /\ mark.tools <= host.tools
  /\ FirstDone(2) => first["source"].value <= host.source
  /\ at \in {"second"} \cup AfterSecond => first["source"].value <= mark.source
  /\ SecondDone(2) => second["source"].value = mark.source
  /\ at \in {"metadata", "kernel", "probe"} => seen.tools <= host.tools
  /\ at \in {"second", "verifySource", "verifyTools"} => seen.tools <= mark.tools
  /\ at \in {"decide", "granted"} => seen.tools = mark.tools

\* The grant states what was so at the mark of its plan.
GrantInv ==
  /\ Executing => /\ grant.findings["source"].value = issued.source
                  /\ grant.seen.tools = issued.tools
  /\ at = "consumed" => mark = issued

\* What has been there since the second inspection began is there, and no check
\* the inspection has done looks for it.
Outstanding == <<{"rootMissing"}, {}, {}, {"mount"}, {"session"}, {}, {"mountJournal"},
                 {"chrootJournal"}, {"nodeMissing"}, {"candidate"}>>
SettledInv ==
  /\ settled \subseteq residue \cup (IF session THEN {"session"} ELSE {})
  /\ \A i \in 1..10 : SecondDone(i) => settled \cap Outstanding[i] = {}

IInv == TypeInv /\ MarkInv /\ GrantInv /\ SettledInv

\* The required findings of a second inspection, and so of a grant, are in order.
PassInv ==
  /\ \A i \in 1..10 : SecondDone(i) /\ Checks[i] \in RequiredFindings => second[Checks[i]].pass
  /\ Executing => \A c \in RequiredFindings : grant.findings[c].pass

Now == [c \in AllChecks |-> Observed(c)]

\* While nobody else does anything, all that was observed is still so.
CalmInv ==
  /\ at = "revoked" => ~calm
  /\ calm /\ at # "idle" =>
       /\ \A i \in 1..10 : /\ FirstDone(i)  => first[Checks[i]] = Now[Checks[i]]
                           /\ SecondDone(i) => second[Checks[i]] = Now[Checks[i]]
       /\ at \in AfterTools => seen.tools = host.tools
       /\ at \in AfterTools \ {"metadata"} => seen.metadata = host.target
       /\ at \in AfterTools \ {"metadata", "kernel"} => seen.kernel = host.target
       /\ at = "granted" => seen.free = host.free /\ host.free >= Required
       /\ Executing =>
            /\ \A c \in RequiredFindings : grant.findings[c] = Now[c]
            /\ grant.seen = [tools |-> host.tools, metadata |-> host.target,
                             kernel |-> host.target, free |-> host.free]
            /\ host.free >= Required
QuietInv == PassInv /\ CalmInv
--------------------------------------------------------------------------------
(* The checks *)

LEMMA CheckList ==
  /\ Len(Checks) = 10
  /\ \A i \in 1..10 : Checks[i] \in AllChecks
  /\ \A i, j \in 1..10 : Checks[i] = Checks[j] => i = j
  /\ \A c \in AllChecks : \E i \in 1..10 : Checks[i] = c
  /\ Checks[2] = "source" /\ Checks[3] = "capacity"
  /\ RequiredFindings \subseteq AllChecks /\ "source" \in RequiredFindings
  /\ "capacity" \in RequiredFindings
<1>1. Len(Checks) = 10
  BY DEF Checks
<1>2. \A i \in 1..10 : Checks[i] \in AllChecks
  BY <1>1 DEF AllChecks
<1>3. \A i, j \in 1..10 : Checks[i] = Checks[j] => i = j
  BY DEF Checks
<1>4. Checks[2] = "source" /\ Checks[3] = "capacity"
  BY DEF Checks
<1> QED
  BY <1>1, <1>2, <1>3, <1>4 DEF AllChecks, RequiredFindings

LEMMA ObservedType ==
  ASSUME TypeInv
  PROVE  /\ \A c \in AllChecks : Observed(c) \in Finding
         /\ Observed("source") = [pass |-> TRUE, value |-> host.source]
         /\ Observed("capacity") = [pass |-> TRUE, value |-> host.free]
<1>1. \A c \in AllChecks : c \in {"workspace", "source", "capacity", "mounts", "operationLock",
                                "chrootLock", "mountJournal", "chrootJournal", "profile", "publication"}
  BY DEF AllChecks, Checks
<1>2. host \in Host
      /\ session \in BOOLEAN
  BY DEF TypeInv, TypeOK, Host
<1> QED
  BY <1>1, <1>2 DEF Host, Observed, WorkspaceFinding, ProfileFinding, SourceFinding, CapacityFinding,
     MountsFinding, LockFinding, JournalFinding, PublicationFinding, Absent, Finding

LEMMA Typed ==
  ASSUME TypeInv
  PROVE  /\ host \in Host /\ host.source \in Nat /\ host.tools \in Nat
         /\ mark \in [source : Nat, tools : Nat] /\ mark.source \in Nat /\ mark.tools \in Nat
         /\ first["source"].value \in Nat /\ second["source"].value \in Nat
         /\ seen \in Seen /\ seen.tools \in Nat /\ step \in 1..10
BY CheckList DEF TypeInv, TypeOK, Host, Seen, Finding

LEMMA NowIs ==
  ASSUME TypeInv
  PROVE  /\ \A c \in AllChecks : Now[c] = Observed(c)
         /\ Now["source"].value = host.source /\ Now["capacity"].value = host.free
BY CheckList, ObservedType DEF Now

LEMMA NowStays == UNCHANGED world => Now' = Now
BY DEF world, Now, Observed, WorkspaceFinding, ProfileFinding, SourceFinding, CapacityFinding, MountsFinding,
   LockFinding, JournalFinding, PublicationFinding, Absent

\* What one check of an inspection does.
LEMMA InspectDoes ==
  ASSUME TypeInv, Inspect
  PROVE  /\ step \in 1..10 /\ ~Reason(Checks[step], Observed(Checks[step]))
         /\ at = "first" =>
              /\ at' \in {"first", "media"} /\ second' = second
              /\ first' = [first EXCEPT ![Checks[step]] = Observed(Checks[step])]
         /\ at = "second" =>
              /\ at' \in {"second", "verifySource"} /\ first' = first
              /\ second' = [second EXCEPT ![Checks[step]] = Observed(Checks[step])]
         /\ \/ step < 10 /\ step' = step + 1 /\ at' = at
            \/ step = 10 /\ step' = 1 /\ at' = IF at = "first" THEN "media" ELSE "verifySource"
         /\ at \in Inspections /\ UNCHANGED <<world, seen, grant, bounds, history>>
<1>1. /\ at \in Inspections /\ step \in 1..10
      /\ UNCHANGED <<world, seen, grant, bounds, history>>
      /\ ~Reason(Checks[step], Observed(Checks[step]))
  BY CheckList DEF Inspect, TypeInv, TypeOK
<1>2. /\ at = "first" => second' = second
                      /\ first' = [first EXCEPT ![Checks[step]] = Observed(Checks[step])]
      /\ at = "second" => first' = first
                       /\ second' = [second EXCEPT ![Checks[step]] = Observed(Checks[step])]
  BY DEF Inspect
<1>3. \/ step < 10 /\ step' = step + 1 /\ at' = at
      \/ step = 10 /\ step' = 1 /\ at' = IF at = "first" THEN "media" ELSE "verifySource"
  BY <1>1, CheckList DEF Inspect
<1> QED
  BY <1>1, <1>2, <1>3

\* It is done then, and nothing else.
LEMMA InspectMoves ==
  ASSUME TypeInv, Inspect, NEW i \in 1..10
  PROVE  /\ FirstDone(i)' <=> (FirstDone(i) \/ (at = "first" /\ i = step))
         /\ SecondDone(i)' <=> (SecondDone(i) \/ (at = "second" /\ i = step))
BY InspectDoes DEF FirstDone, SecondDone, AfterFirst, AfterSecond, Inspections
--------------------------------------------------------------------------------
(* The plan *)

LEMMA InspectKeeps ==
  ASSUME IInv, Inspect
  PROVE  IInv'
<1>1. TypeInv'
  <2>1. first' \in [AllChecks -> Finding] /\ second' \in [AllChecks -> Finding]
    BY InspectDoes, CheckList, ObservedType DEF IInv, TypeInv, TypeOK, Inspect, Inspections
  <2> QED
    BY <2>1, InspectDoes, CheckList DEF IInv, TypeInv, TypeOK, Working, world, bounds, history,
       Inspections
<1>2. MarkInv'
  <2>1. first'["source"] = IF at = "first" /\ step = 2 THEN Observed("source") ELSE first["source"]
    BY InspectDoes, CheckList DEF IInv, TypeInv, TypeOK, Inspect, Inspections
  <2>2. second'["source"] = IF at = "second" /\ step = 2 THEN Observed("source")
                                                      ELSE second["source"]
    BY InspectDoes, CheckList DEF IInv, TypeInv, TypeOK, Inspect, Inspections
  <2>3. at = "second" /\ step = 2 => Observed("source") = first["source"]
    BY InspectDoes, CheckList DEF IInv, Reason
  <2>4. UNCHANGED <<host, mark, seen>>
    BY InspectDoes DEF IInv, world, history
  <2>5. /\ at' \in {"second"} \cup AfterSecond <=> at = "second"
        /\ at' \notin {"metadata", "kernel", "probe", "decide", "granted"}
        /\ at' \in {"second", "verifySource", "verifyTools"} <=> at = "second"
        /\ at = "second" => FirstDone(2)
    BY InspectDoes DEF IInv, Inspect, Inspections, AfterSecond, AfterFirst, FirstDone
  <2> QED
    BY <2>1, <2>2, <2>3, <2>4, <2>5, InspectMoves, ObservedType, Typed DEF IInv, MarkInv
<1>3. GrantInv'
  BY InspectDoes DEF IInv, GrantInv, Executing, history
<1>4. SettledInv'
  <2>1. at = "second" => settled \cap Outstanding[step] = {}
    <3>1. \A x \in settled : x \in residue \/ (x = "session" /\ session)
      BY DEF IInv, SettledInv
    <3>2. at = "second" /\ Checks[step] \in RequiredFindings => Observed(Checks[step]).pass
      BY InspectDoes DEF IInv, Reason
    <3>3. ASSUME at = "second"
          PROVE  \A x \in Outstanding[step] : x \notin residue /\ (x = "session" => ~session)
      <4>1. step \in 1..10
        BY InspectDoes DEF IInv
      <4>2. step \in {2, 3, 6} => Outstanding[step] = {}
        BY DEF Outstanding
      <4>3. ASSUME step \notin {2, 3, 6}
            PROVE  Checks[step] \in RequiredFindings /\ Checks[step] # "chrootLock"
        BY <4>1, <4>3, CheckList DEF Checks, RequiredFindings
      <4>4. /\ step = 1 => Checks[step] = "workspace" /\ Outstanding[step] = {"rootMissing"}
            /\ step = 4 => Checks[step] = "mounts" /\ Outstanding[step] = {"mount"}
            /\ step = 5 => Checks[step] = "operationLock" /\ Outstanding[step] = {"session"}
            /\ step = 7 => Checks[step] = "mountJournal" /\ Outstanding[step] = {"mountJournal"}
            /\ step = 8 => Checks[step] = "chrootJournal" /\ Outstanding[step] = {"chrootJournal"}
            /\ step = 9 => Checks[step] = "profile" /\ Outstanding[step] = {"nodeMissing"}
            /\ step = 10 => Checks[step] = "publication" /\ Outstanding[step] = {"candidate"}
        BY DEF Checks, Outstanding
      <4>5. "session" \notin residue
        BY DEF IInv, TypeInv, TypeOK, AllResidues, TreeDefects
      <4> QED
        <5>1. step \notin {2, 3, 6} => Observed(Checks[step]).pass
          BY <3>2, <3>3, <4>3
        <5>2. step \notin {2, 3, 6} =>
                Checks[step] \in {"workspace", "mounts", "operationLock", "mountJournal",
                                 "chrootJournal", "profile", "publication"}
          BY <4>1, <4>4
        <5>3. /\ Observed("workspace").pass => "rootMissing" \notin residue
              /\ Observed("mounts").pass => "mount" \notin residue
              /\ Observed("operationLock").pass => ~session
              /\ Observed("mountJournal").pass => "mountJournal" \notin residue
              /\ Observed("chrootJournal").pass => "chrootJournal" \notin residue
              /\ Observed("profile").pass => "nodeMissing" \notin residue
              /\ Observed("publication").pass => "candidate" \notin residue
          BY DEF Observed, WorkspaceFinding, ProfileFinding, MountsFinding, LockFinding, JournalFinding,
             PublicationFinding, Absent
        <5> QED
          BY <4>1, <4>2, <4>4, <4>5, <5>1, <5>3
    <3> QED
      BY <3>1, <3>3
  <2>2. UNCHANGED <<residue, session, settled>>
    BY InspectDoes DEF IInv, world, history
  <2>3. ASSUME NEW i \in 1..10, SecondDone(i)'
        PROVE  settled' \cap Outstanding[i] = {}
    BY <2>1, <2>2, <2>3, InspectMoves DEF IInv, SettledInv
  <2> QED
    BY <2>2, <2>3 DEF IInv, SettledInv
<1> QED
  BY <1>1, <1>2, <1>3, <1>4 DEF IInv

\* A plan that is refused.
LEMMA RefuseKeeps ==
  ASSUME IInv, at \in Working, Refuse
  PROVE  IInv'
<1>1. NoFindings \in [AllChecks -> Finding] /\ NotSeen \in Seen
  BY DEF NoFindings, NoFinding, Finding, NotSeen, Seen
<1>2. TypeInv'
  BY <1>1, CheckList DEF IInv, TypeInv, TypeOK, Refuse, Forget, Executing, Places, Working, world,
     bounds, history, Inspections, Seen
<1>3. MarkInv' /\ GrantInv'
  BY DEF IInv, MarkInv, GrantInv, Refuse, Executing, world, history, AfterSecond, AfterFirst, FirstDone, SecondDone
<1>4. SettledInv'
  BY DEF IInv, SettledInv, Refuse, world, history, SecondDone, AfterSecond
<1> QED
  BY <1>2, <1>3, <1>4 DEF IInv

LEMMA RefusalsKeep ==
  ASSUME IInv, \/ InspectRefused \/ MediaRefused \/ SourceRefused \/ ToolsRefused
               \/ CapacityRefused \/ Revoke
  PROVE  IInv'
BY RefuseKeeps DEF InspectRefused, MediaRefused, SourceRefused, ToolsRefused, CapacityRefused,
   Revoke, Working, Inspections

\* The plan goes on, with nothing new but the place.
LEMMA GoKeeps ==
  ASSUME IInv, NEW place \in {"first", "tools", "verifyTools", "decide", "running", "failed"},
         at' = place, step' = step, UNCHANGED <<first, second, seen, grant, host, residue, session>>,
         UNCHANGED <<bounds, mark, issued, settled>>, calm' \in BOOLEAN,
         \/ at \in {"idle", "issued"} /\ place = "first"
         \/ at = "media" /\ place = "tools"
         \/ at = "verifySource" /\ place = "verifyTools"
         \/ at = "verifyTools" /\ place = "decide" /\ seen.tools = host.tools
         \/ at = "consumed" /\ place \in {"running", "failed"}
  PROVE  IInv'
<1>1. step = 1
  BY DEF IInv, TypeInv, Inspections
<1>2. TypeInv'
  BY <1>1, CheckList DEF IInv, TypeInv, TypeOK, Places, Working, bounds, Inspections
<1>3. MarkInv' /\ GrantInv'
  BY <1>1, Typed DEF IInv, MarkInv, GrantInv, Executing, FirstDone, SecondDone, AfterFirst,
     AfterSecond
<1>4. SettledInv'
  BY <1>1 DEF IInv, SettledInv, SecondDone, AfterSecond
<1> QED
  BY <1>2, <1>3, <1>4 DEF IInv

LEMMA PassagesKeep ==
  ASSUME IInv, BeginPlan \/ BeginExecute \/ Media \/ VerifySource \/ VerifyTools \/ StartRun
  PROVE  IInv'
<1>1. calm \in BOOLEAN
  BY DEF IInv, TypeInv, TypeOK
<1> QED
  BY <1>1, GoKeeps DEF BeginPlan, BeginExecute, Media, VerifySource, VerifyTools, StartRun, Go,
     world, history, ToolsCurrent

LEMMA NotesKeep ==
  ASSUME IInv, Tools \/ Metadata \/ Kernel
  PROVE  IInv'
<1>1. step = 1 /\ step' = 1
  BY DEF IInv, TypeInv, Inspections, Tools, Metadata, Kernel, Notes, Go
<1>2. /\ UNCHANGED <<world, first, second, grant, bounds, history>>
      /\ \/ at = "tools" /\ at' = "metadata" /\ seen' = [seen EXCEPT !.tools = host.tools]
         \/ at = "metadata" /\ at' = "kernel" /\ seen' = [seen EXCEPT !.metadata = host.target]
         \/ at = "kernel" /\ at' = "probe" /\ seen' = [seen EXCEPT !.kernel = host.target]
  BY DEF IInv, TypeInv, TypeOK, Tools, Metadata, Kernel, Notes, Go
<1>3. TypeInv'
  BY <1>1, <1>2, CheckList DEF IInv, TypeInv, TypeOK, Places, Working, world, bounds, history
<1>4. MarkInv' /\ GrantInv'
  <2>1. UNCHANGED <<host, first, second, mark, issued, grant>>
    BY <1>2 DEF world, history
  <2>2. /\ at \in {"tools", "metadata", "kernel"} /\ at' \in {"metadata", "kernel", "probe"}
        /\ seen'.tools = IF at = "tools" THEN host.tools ELSE seen.tools
    BY <1>2, Typed DEF IInv, Seen
  <2>3. seen'.tools <= host'.tools
    BY <2>1, <2>2, Typed DEF IInv, MarkInv
  <2> QED
    BY <1>1, <2>1, <2>2, <2>3 DEF IInv, MarkInv, GrantInv, Executing, FirstDone, SecondDone,
       AfterFirst, AfterSecond
<1>5. SettledInv'
  BY <1>1, <1>2 DEF IInv, SettledInv, SecondDone, AfterSecond, world, history
<1> QED
  BY <1>3, <1>4, <1>5 DEF IInv

LEMMA ProbeKeeps ==
  ASSUME IInv, Probe
  PROVE  IInv'
<1>1. step = 1 /\ step' = 1 /\ at = "probe" /\ at' = "second"
  BY DEF IInv, TypeInv, Inspections, Probe, BeginSecond
<1>2. TypeInv'
  BY <1>1, CheckList DEF IInv, TypeInv, TypeOK, Probe, BeginSecond, Places, Working, world, bounds,
     Inspections
<1>3. MarkInv' /\ GrantInv'
  BY <1>1, Typed DEF IInv, MarkInv, GrantInv, Probe, BeginSecond, Executing, FirstDone,
     SecondDone, AfterFirst, AfterSecond, world
<1>4. SettledInv'
  BY <1>1 DEF IInv, SettledInv, Probe, BeginSecond, SecondDone, AfterSecond, world
<1> QED
  BY <1>2, <1>3, <1>4 DEF IInv

LEMMA DecideKeeps ==
  ASSUME IInv, Decide
  PROVE  IInv'
<1>1. step = 1 /\ step' = 1 /\ at = "decide" /\ at' = "granted"
  BY DEF IInv, TypeInv, Inspections, Decide, Go
<1>2. TypeInv'
  BY <1>1, CheckList DEF IInv, TypeInv, TypeOK, Decide, Places, Working, world, bounds, history
<1>3. MarkInv' /\ GrantInv'
  BY <1>1 DEF IInv, TypeInv, TypeOK, MarkInv, GrantInv, Decide, Executing, FirstDone,
     SecondDone, AfterFirst, AfterSecond, world, history
<1>4. SettledInv'
  BY <1>1 DEF IInv, SettledInv, Decide, SecondDone, AfterSecond, world, history
<1> QED
  BY <1>2, <1>3, <1>4 DEF IInv
--------------------------------------------------------------------------------
(* The grant *)

\* What a granted plan writes down.
LEMMA PayloadIs ==
  ASSUME IInv, at = "granted"
  PROVE  /\ Payload \in [token : {1}, findings : [RequiredFindings -> Finding], seen : Seen]
         /\ Payload # NoGrant /\ Payload.seen = seen
         /\ \A c \in RequiredFindings : Payload.findings[c] = second[c]
         /\ Payload.findings["source"].value = mark.source /\ Payload.seen.tools = mark.tools
<1>1. Payload = [token |-> 1, findings |-> [c \in RequiredFindings |-> second[c]], seen |-> seen]
  BY DEF Payload, Token
<1>2. \A c \in RequiredFindings : second[c] \in Finding
  BY CheckList DEF IInv, TypeInv, TypeOK
<1>3. Payload.token # NoGrant.token
  BY <1>1 DEF NoGrant
<1>4. second["source"].value = mark.source /\ seen.tools = mark.tools
  BY DEF IInv, MarkInv, SecondDone, AfterSecond
<1>5. seen \in Seen
  BY DEF IInv, TypeInv, TypeOK, Seen
<1> QED
  BY <1>1, <1>2, <1>3, <1>4, <1>5, CheckList

LEMMA IssueKeeps ==
  ASSUME IInv, Issue
  PROVE  IInv'
<1>1. step = 1 /\ step' = 1 /\ at = "granted" /\ at' = "issued"
  BY DEF IInv, TypeInv, Inspections, Issue, Go
<1>2. /\ host' \in Host
      /\ host'.source = host.source /\ host'.tools = host.tools /\ host'.dirs = host.dirs
  <2>1. host' = host \/ (host.free > 0 /\ host' = [host EXCEPT !.free = @ - 1])
    BY DEF Issue
  <2> QED
    BY <2>1, Typed DEF IInv, Host
<1>3. NoFindings \in [AllChecks -> Finding] /\ NotSeen \in Seen
  BY DEF NoFindings, NoFinding, Finding, NotSeen, Seen
<1>4. grant' = Payload /\ issued' = mark
      /\ UNCHANGED <<residue, session, bounds, mark, settled, calm>>
      /\ first' = NoFindings /\ second' = NoFindings /\ seen' = NotSeen
  BY DEF Issue, Forget
<1>5. /\ grant' \in [token : {1}, findings : [RequiredFindings -> Finding], seen : Seen]
      /\ grant'.token = 1 /\ grant'.findings \in [RequiredFindings -> Finding]
  BY <1>1, <1>4, PayloadIs
<1>6. TypeInv'
  BY <1>1, <1>2, <1>3, <1>4, <1>5, CheckList
     DEF IInv, TypeInv, TypeOK, Places, bounds, Inspections, Seen, Host
<1>7. MarkInv'
  BY <1>1, <1>2, <1>4 DEF IInv, TypeInv, TypeOK, MarkInv, FirstDone, SecondDone, AfterFirst,
     AfterSecond
<1>8. GrantInv'
  BY <1>1, <1>4, PayloadIs DEF GrantInv
<1>9. SettledInv'
  BY <1>1, <1>4 DEF IInv, SettledInv, SecondDone, AfterSecond
<1> QED
  BY <1>6, <1>7, <1>8, <1>9 DEF IInv

LEMMA ConsumeKeeps ==
  ASSUME IInv, Consume
  PROVE  IInv'
<1>1. step = 1 /\ step' = 1 /\ at = "granted" /\ at' = "consumed" /\ Executing /\ grant = Payload
  BY DEF IInv, TypeInv, Inspections, Consume, Go
<1>2. NoFindings \in [AllChecks -> Finding] /\ NotSeen \in Seen
  BY DEF NoFindings, NoFinding, Finding, NotSeen, Seen
<1>3. TypeInv'
  BY <1>1, <1>2, CheckList
     DEF IInv, TypeInv, TypeOK, Consume, Forget, Places, world, bounds, history, Inspections, Seen
<1>4. MarkInv'
  BY <1>1 DEF IInv, MarkInv, Consume, FirstDone, SecondDone, AfterFirst, AfterSecond, world, history
<1>5. mark = issued
  <2>1. mark.source = issued.source /\ mark.tools = issued.tools
    BY <1>1, PayloadIs DEF IInv, GrantInv
  <2>2. mark \in [source : Nat, tools : Nat] /\ issued \in [source : Nat, tools : Nat]
    BY DEF IInv, TypeInv, TypeOK
  <2> QED
    BY <2>1, <2>2
<1>6. GrantInv'
  BY <1>1, <1>5 DEF IInv, GrantInv, Consume, Executing, history
<1>7. SettledInv'
  BY <1>1 DEF IInv, SettledInv, Consume, SecondDone, AfterSecond, world, history
<1> QED
  BY <1>3, <1>4, <1>6, <1>7 DEF IInv

LEMMA StopKeeps ==
  ASSUME IInv, Stop
  PROVE  IInv'
<1>1. /\ step' = 1 /\ at' \in {"idle", "issued"} /\ (at' = "idle" => grant = NoGrant)
      /\ stops' = stops + 1 /\ stops < MaxStops /\ calm' \in BOOLEAN
      /\ first' = NoFindings /\ second' = NoFindings /\ seen' = NotSeen
      /\ UNCHANGED <<residue, session, grant, sessions, changes, mark, issued, settled>>
  BY DEF IInv, TypeInv, TypeOK, Stop, Forget, Executing
<1>2. NoFindings \in [AllChecks -> Finding] /\ NotSeen \in Seen
  BY DEF NoFindings, NoFinding, Finding, NotSeen, Seen
<1>3. /\ host'.source = host.source /\ host'.tools = host.tools /\ host'.dirs <= stops'
      /\ host' \in Host
  <2>1. host' = host \/ host' = [host EXCEPT !.dirs = @ + 1]
    BY DEF Stop
  <2>2. host.dirs <= stops /\ stops \in Nat
    BY DEF IInv, TypeInv, TypeOK
  <2> QED
    BY <1>1, <2>1, <2>2, Typed DEF IInv, Host
<1>4. TypeInv'
  BY <1>1, <1>2, <1>3, CheckList DEF IInv, TypeInv, TypeOK, Places, Seen, Host
<1>5. MarkInv' /\ GrantInv'
  BY <1>1, <1>3 DEF IInv, MarkInv, GrantInv, Executing, FirstDone, SecondDone, AfterFirst,
     AfterSecond
<1>6. SettledInv'
  BY <1>1 DEF IInv, SettledInv, SecondDone, AfterSecond
<1> QED
  BY <1>4, <1>5, <1>6 DEF IInv
--------------------------------------------------------------------------------
(* The host and other commands *)

LEMMA OthersKeep ==
  ASSUME IInv, Others, residue' \subseteq Residues, session' \in BOOLEAN,
         host' \in Host,
         host'.source >= host.source, host'.tools >= host.tools, host'.dirs = host.dirs,
         sessions' \in 0..MaxSessions, changes' \in 0..MaxChanges
  PROVE  IInv'
<1>1. TypeInv'
  BY DEF IInv, TypeInv, TypeOK, Others, Host
<1>2. MarkInv' /\ GrantInv'
  BY Typed DEF IInv, MarkInv, GrantInv, Executing, Others, FirstDone, SecondDone, Host
<1>3. SettledInv'
  BY DEF IInv, SettledInv, Others, SecondDone
<1> QED
  BY <1>1, <1>2, <1>3 DEF IInv

LEMMA ChangeHostKeeps ==
  ASSUME IInv, ChangeHost
  PROVE  IInv'
<1>1. /\ host' \in Host
      /\ host'.source >= host.source /\ host'.tools >= host.tools /\ host'.dirs = host.dirs
  <2>1. CASE host' = [host EXCEPT !.source = @ + 1] \/ host' = [host EXCEPT !.tools = @ + 1]
    BY <2>1, Typed DEF IInv, Host
  <2>2. CASE \E free \in 0..MaxFree \ {host.free} : host' = [host EXCEPT !.free = free]
    BY <2>2, Typed DEF IInv, Host
  <2>3. CASE host' = [host EXCEPT !.target = @ + 1]
    BY <2>3, Typed DEF IInv, Host
  <2>4. CASE \E file \in {"source", "tools"} : host' = [host EXCEPT ![file] = @ + 1]
    BY <2>1, <2>4
  <2> QED
    BY <2>2, <2>3, <2>4 DEF ChangeHost
<1>2. /\ changes' \in 0..MaxChanges /\ UNCHANGED <<residue, session, sessions>> /\ Others
      /\ residue \subseteq Residues /\ session \in BOOLEAN /\ sessions \in 0..MaxSessions
  <2>1. /\ changes \in 0..MaxChanges /\ residue \subseteq Residues /\ session \in BOOLEAN
        /\ sessions \in 0..MaxSessions
    BY DEF IInv, TypeInv, TypeOK
  <2>2. changes < MaxChanges /\ changes' = changes + 1
    BY DEF ChangeHost
  <2>3. UNCHANGED <<residue, session, sessions>> /\ Others
    BY DEF ChangeHost
  <2> QED
    BY <2>1, <2>2, <2>3
<1> QED
  BY <1>1, <1>2, OthersKeep

LEMMA SessionsKeep ==
  ASSUME IInv, \/ SessionBegins \/ SessionEnds
               \/ \E x \in Residues : Adds(x) \/ Removes(x)
  PROVE  IInv'
<1>1. /\ host' = host /\ Others /\ residue' \subseteq Residues /\ session' \in BOOLEAN
      /\ sessions' \in 0..MaxSessions /\ changes' \in 0..MaxChanges
  <2>1. /\ residue \subseteq Residues /\ session \in BOOLEAN
        /\ sessions \in 0..MaxSessions /\ changes \in 0..MaxChanges
    BY DEF IInv, TypeInv, TypeOK
  <2>2. CASE SessionBegins
    BY <2>1, <2>2 DEF SessionBegins
  <2>3. CASE SessionEnds
    BY <2>1, <2>3 DEF SessionEnds
  <2>4. ASSUME NEW x \in Residues, Adds(x) \/ Removes(x)
        PROVE  /\ host' = host /\ Others /\ residue' \subseteq Residues /\ session' \in BOOLEAN
               /\ sessions' \in 0..MaxSessions /\ changes' \in 0..MaxChanges
    BY <2>1, <2>4 DEF Adds, Removes
  <2> QED
    BY <2>2, <2>3, <2>4
<1>2. host'.source >= host.source /\ host'.tools >= host.tools /\ host' \in Host
  BY <1>1, Typed DEF IInv
<1> QED
  BY <1>1, <1>2, OthersKeep
--------------------------------------------------------------------------------
LEMMA Initially == Init => IInv
<1> SUFFICES ASSUME Init PROVE IInv
  OBVIOUS
<1>1. NoFindings \in [AllChecks -> Finding] /\ NotSeen \in Seen
  BY DEF NoFindings, NoFinding, Finding, NotSeen, Seen
<1>2. TypeInv
  <2>1. /\ host = [source |-> 1, tools |-> 1, target |-> 1, free |-> MaxFree, dirs |-> 0]
        /\ host \in Host /\ host.dirs = 0 /\ step = 1 /\ at = "idle" /\ grant = NoGrant
    BY DEF Init, Host
  <2>2. step \in 1..Len(Checks)
    BY <2>1, CheckList
  <2>3. TypeOK
    <3>1. /\ first \in [AllChecks -> Finding] /\ second \in [AllChecks -> Finding] /\ seen \in Seen
      BY <1>1 DEF Init
    <3>2. /\ mark \in [source : Nat, tools : Nat] /\ issued \in [source : Nat, tools : Nat]
      BY DEF Init, NoVersions
    <3>3. /\ sessions \in 0..MaxSessions /\ changes \in 0..MaxChanges /\ stops \in 0..MaxStops
      BY DEF Init
    <3>4. /\ residue \subseteq Residues /\ session \in BOOLEAN /\ calm \in BOOLEAN
          /\ settled \subseteq Residues \cup {"session"} /\ at \in Places \cup Working
      BY DEF Init, Places
    <3> QED
      BY <2>1, <2>2, <3>1, <3>2, <3>3, <3>4 DEF TypeOK, Seen, Host
  <2> QED
    BY <2>1, <2>3 DEF Init, TypeInv
<1>3. MarkInv /\ GrantInv /\ SettledInv
  BY DEF Init, MarkInv, GrantInv, SettledInv, Executing, FirstDone, SecondDone, AfterFirst,
     AfterSecond, NoVersions
<1> QED
  BY <1>2, <1>3 DEF IInv

LEMMA StepInv == IInv /\ [Next]_vars => IInv'
<1> SUFFICES ASSUME IInv, [Next]_vars PROVE IInv'
  OBVIOUS
<1>1. CASE Collect
  BY <1>1, InspectKeeps, RefusalsKeep, PassagesKeep, NotesKeep, ProbeKeeps, DecideKeeps,
     IssueKeeps, ConsumeKeeps, StopKeeps DEF Collect
<1>2. CASE ChangeHost \/ SessionBegins \/ SessionEnds \/ \E x \in Residues : Adds(x) \/ Removes(x)
  BY <1>2, ChangeHostKeeps, SessionsKeep
<1>3. CASE UNCHANGED vars
  <2>1. UNCHANGED <<host, residue, session, at, step, first, second, seen, grant>>
        /\ UNCHANGED <<sessions, changes, stops, mark, issued, settled, calm>>
    BY <1>3 DEF vars, world, bounds, history
  <2>2. TypeInv'
    BY <2>1, <1>3 DEF IInv, TypeInv, TypeOK, vars, history
  <2>4. MarkInv'
    BY <2>1 DEF IInv, MarkInv, FirstDone, SecondDone
  <2>3. GrantInv' /\ SettledInv'
    BY <2>1 DEF IInv, GrantInv, SettledInv, SecondDone, Executing
  <2> QED
    BY <2>2, <2>3, <2>4 DEF IInv
<1> QED
  BY <1>1, <1>2, <1>3 DEF Next

LEMMA Invariance == Spec => []IInv
BY Initially, StepInv, PTL DEF Spec

\* Every reachable state of planning is well typed.
THEOREM EvidenceTypeCorrect == Spec => []TypeOK
BY Invariance, PTL DEF IInv, TypeInv

\* What a granted plan says of the source and the tools was so at one instant.
THEOREM EvidenceIsOfOneInstant == Spec => []EvidenceCoincides
<1>1. IInv => EvidenceCoincides
  BY DEF IInv, MarkInv, EvidenceCoincides, SecondDone, AfterSecond
<1> QED
  BY <1>1, Invariance, PTL

\* Source and tools of a consumed grant are those of its issue.
THEOREM ConsumedIsUnchanged == Spec => []UnchangedWhenConsumed
<1>1. IInv => UnchangedWhenConsumed
  BY DEF IInv, GrantInv, UnchangedWhenConsumed
<1> QED
  BY <1>1, Invariance, PTL

\* No plan is granted over what its second inspection could have seen throughout.
THEOREM NothingIsOutstanding == Spec => []NothingOutstanding
<1>1. IInv => NothingOutstanding
  <2> SUFFICES ASSUME IInv, at = "granted" PROVE settled \subseteq {"chrootLock", "fileMissing"}
    BY DEF NothingOutstanding
  <2>1. \A i \in 1..10 : settled \cap Outstanding[i] = {}
    BY DEF IInv, SettledInv, SecondDone, AfterSecond
  <2>2. settled \subseteq AllResidues \cup {"session"}
    BY DEF IInv, TypeInv, TypeOK
  <2>3. /\ settled \cap {"rootMissing"} = {} /\ settled \cap {"nodeMissing"} = {} /\ settled \cap {"mount"} = {}
        /\ settled \cap {"session"} = {} /\ settled \cap {"mountJournal"} = {}
        /\ settled \cap {"chrootJournal"} = {} /\ settled \cap {"candidate"} = {}
    BY <2>1 DEF Outstanding
  <2> QED
    BY <2>2, <2>3 DEF AllResidues, TreeDefects
<1> QED
  BY <1>1, Invariance, PTL
--------------------------------------------------------------------------------
(* Nobody else does anything *)

LEMMA InspectQuiet ==
  ASSUME IInv, QuietInv, Inspect
  PROVE  QuietInv'
<1>1. /\ UNCHANGED <<host, seen, grant, calm>> /\ Now' = Now /\ step \in 1..10
      /\ Checks[step] \in AllChecks /\ Observed(Checks[step]) = Now[Checks[step]]
  BY InspectDoes, NowStays, NowIs, CheckList DEF IInv, world, history
<1>2. ASSUME NEW i \in 1..10
      PROVE  /\ first'[Checks[i]] = IF at = "first" /\ i = step THEN Now[Checks[i]]
                                                              ELSE first[Checks[i]]
             /\ second'[Checks[i]] = IF at = "second" /\ i = step THEN Now[Checks[i]]
                                                                ELSE second[Checks[i]]
  BY <1>1, InspectDoes, CheckList DEF IInv, TypeInv, TypeOK, Inspections
<1>3. at = "second" /\ Checks[step] \in RequiredFindings => Now[Checks[step]].pass
  BY <1>1, InspectDoes DEF IInv, Reason
<1>4. ASSUME NEW i \in 1..10, SecondDone(i)', Checks[i] \in RequiredFindings
      PROVE  second'[Checks[i]].pass
  BY <1>2, <1>3, <1>4, InspectMoves DEF IInv, QuietInv, PassInv
<1>5. PassInv'
  BY <1>1, <1>4 DEF QuietInv, PassInv, Executing
<1>6. ASSUME calm', NEW i \in 1..10
      PROVE  /\ FirstDone(i)'  => first'[Checks[i]] = Now'[Checks[i]]
             /\ SecondDone(i)' => second'[Checks[i]] = Now'[Checks[i]]
  BY <1>1, <1>2, <1>6, InspectMoves DEF IInv, QuietInv, CalmInv, Inspect, Inspections
<1>7. /\ at # "idle" /\ at' \notin {"revoked", "granted"}
      /\ at' \in AfterTools <=> at \in AfterTools
      /\ at \notin {"metadata", "kernel"}
  BY InspectDoes DEF IInv, Inspections, AfterTools, AfterSecond
<1>8. CalmInv'
  BY <1>1, <1>6, <1>7 DEF QuietInv, CalmInv, Executing
<1> QED
  BY <1>5, <1>8 DEF QuietInv

\* A plan that only finds what the grant states is refused by nothing.
LEMMA CalmAccepts ==
  ASSUME IInv, QuietInv, calm, Executing,
         \/ InspectRefused \/ MediaRefused \/ SourceRefused \/ ToolsRefused
         \/ CapacityRefused \/ Revoke
  PROVE  FALSE
<1>1. /\ \A c \in RequiredFindings : grant.findings[c] = Now[c] /\ Now[c].pass
      /\ \A i \in 1..10 : /\ FirstDone(i)  => first[Checks[i]] = Now[Checks[i]]
                          /\ SecondDone(i) => second[Checks[i]] = Now[Checks[i]]
      /\ host.free >= Required
  BY DEF QuietInv, CalmInv, PassInv, IInv, TypeInv, Executing
<1>2. ~InspectRefused
  <2> SUFFICES ASSUME InspectRefused PROVE FALSE
    OBVIOUS
  <2>1. /\ at \in Inspections /\ step \in 1..10 /\ Reason(Checks[step], Observed(Checks[step]))
        /\ Observed(Checks[step]) = Now[Checks[step]]
    BY CheckList, Typed, NowIs DEF InspectRefused, IInv
  <2>2. at = "second" => first[Checks[step]] = Now[Checks[step]]
    BY <1>1, <2>1 DEF FirstDone, AfterFirst
  <2> QED
    BY <1>1, <2>1, <2>2 DEF Reason
<1>3. ~MediaRefused
  BY <1>1, CheckList, NowIs DEF IInv, MediaRefused, FirstDone, AfterFirst
<1>4. ~SourceRefused
  BY <1>1, CheckList, NowIs DEF IInv, SourceRefused, SecondDone, AfterSecond
<1>5. ~ToolsRefused
  BY DEF QuietInv, CalmInv, ToolsRefused, ToolsCurrent, AfterTools, AfterSecond
<1>6. ~CapacityRefused
  BY <1>1, CheckList, NowIs DEF IInv, CapacityRefused, Sufficient, SecondDone, AfterSecond
<1>7. ~Revoke
  <2> SUFFICES ASSUME Revoke PROVE grant = Payload
    BY DEF Revoke
  <2>1. at = "granted" /\ grant # NoGrant
    BY DEF Revoke, Executing
  <2>2. \A c \in RequiredFindings : second[c] = Now[c]
    BY <1>1, <2>1, CheckList DEF SecondDone, AfterSecond
  <2>3. /\ grant \in [token : {1}, findings : [RequiredFindings -> Finding], seen : Seen]
        /\ Payload \in [token : {1}, findings : [RequiredFindings -> Finding], seen : Seen]
    BY <2>1, PayloadIs DEF IInv, TypeInv
  <2>4. \A c \in RequiredFindings : grant.findings[c] = Payload.findings[c]
    BY <1>1, <2>1, <2>2, PayloadIs
  <2>5. grant.findings = Payload.findings
    BY <2>3, <2>4
  <2>6. grant.seen = seen
    BY <2>1, Typed DEF IInv, QuietInv, CalmInv, Executing, Seen, AfterTools, AfterSecond
  <2> QED
    BY <2>1, <2>3, <2>5, <2>6, PayloadIs
<1> QED
  BY <1>2, <1>3, <1>4, <1>5, <1>6, <1>7

LEMMA RefuseQuiet ==
  ASSUME IInv, QuietInv, \/ InspectRefused \/ MediaRefused \/ SourceRefused \/ ToolsRefused
                         \/ CapacityRefused \/ Revoke
  PROVE  QuietInv'
<1>1. Refuse /\ ~(calm /\ Executing)
  BY CalmAccepts DEF InspectRefused, MediaRefused, SourceRefused, ToolsRefused, CapacityRefused,
     Revoke
<1>2. at' = (IF Executing THEN "revoked" ELSE "idle") /\ UNCHANGED <<grant, calm>>
  BY <1>1 DEF Refuse, history
<1> QED
  BY <1>1, <1>2 DEF QuietInv, PassInv, CalmInv, SecondDone, AfterSecond, Executing

LEMMA GoQuiet ==
  ASSUME IInv, QuietInv,
         BeginPlan \/ BeginExecute \/ Media \/ VerifySource \/ VerifyTools \/ StartRun
  PROVE  QuietInv'
<1>1. /\ UNCHANGED <<world, first, second, seen, grant>> /\ step = 1 /\ step' = 1 /\ Now' = Now
  BY NowStays DEF IInv, TypeInv, Inspections, BeginPlan, BeginExecute, Media, VerifySource,
     VerifyTools, StartRun, Go
<1>2. \/ at = "idle" /\ at' = "first" /\ ~Executing
      \/ /\ calm' = calm
         /\ \/ at = "issued" /\ at' = "first"
            \/ at = "media" /\ at' = "tools"
            \/ at = "verifySource" /\ at' = "verifyTools"
            \/ at = "verifyTools" /\ at' = "decide"
            \/ at = "consumed" /\ at' \in {"running", "failed"}
  BY DEF IInv, TypeInv, Executing, BeginPlan, BeginExecute, Media, VerifySource, VerifyTools,
     StartRun, Go, history
<1>3. PassInv'
  BY <1>1, <1>2 DEF QuietInv, PassInv, Executing, SecondDone, AfterSecond
<1>4. CASE at = "idle"
  BY <1>1, <1>2, <1>3, <1>4 DEF QuietInv, CalmInv, Executing, FirstDone, SecondDone, AfterFirst,
     AfterSecond, AfterTools
<1>5. CASE at # "idle"
  BY <1>1, <1>2, <1>3, <1>5 DEF QuietInv, CalmInv, Executing, FirstDone, SecondDone, AfterFirst,
     AfterSecond, AfterTools, world
<1> QED
  BY <1>4, <1>5

LEMMA NotesQuiet ==
  ASSUME IInv, QuietInv, Tools \/ Metadata \/ Kernel
  PROVE  QuietInv'
<1>1. /\ UNCHANGED <<host, first, second, grant, calm>> /\ Now' = Now
      /\ \/ at = "tools" /\ at' = "metadata" /\ seen' = [seen EXCEPT !.tools = host.tools]
         \/ at = "metadata" /\ at' = "kernel" /\ seen' = [seen EXCEPT !.metadata = host.target]
         \/ at = "kernel" /\ at' = "probe" /\ seen' = [seen EXCEPT !.kernel = host.target]
  BY NowStays DEF Tools, Metadata, Kernel, Notes, Go, world, history
<1>2. /\ at' = "metadata" => seen'.tools = host.tools
      /\ at' = "kernel" => seen'.tools = seen.tools /\ seen'.metadata = host.target
      /\ at' = "probe" => /\ seen'.tools = seen.tools /\ seen'.metadata = seen.metadata
                         /\ seen'.kernel = host.target
  BY <1>1, Typed DEF IInv, Seen
<1>3. PassInv'
  BY <1>1 DEF QuietInv, PassInv, Executing, SecondDone, AfterSecond
<1>4. CalmInv'
  BY <1>1, <1>2 DEF QuietInv, CalmInv, Executing, FirstDone, SecondDone, AfterFirst, AfterSecond,
     AfterTools
<1> QED
  BY <1>3, <1>4 DEF QuietInv

LEMMA ProbeQuiet ==
  ASSUME IInv, QuietInv, Probe
  PROVE  QuietInv'
<1>1. /\ UNCHANGED <<host, first, second, seen, grant, calm>> /\ Now' = Now
      /\ at = "probe" /\ at' = "second" /\ step' = 1
  BY NowStays DEF IInv, TypeInv, Inspections, Probe, BeginSecond, world
<1>2. PassInv'
  BY <1>1 DEF QuietInv, PassInv, Executing, SecondDone, AfterSecond
<1>3. CalmInv'
  BY <1>1 DEF QuietInv, CalmInv, Executing, FirstDone, SecondDone, AfterFirst, AfterSecond,
     AfterTools
<1> QED
  BY <1>2, <1>3 DEF QuietInv

LEMMA DecideQuiet ==
  ASSUME IInv, QuietInv, Decide
  PROVE  QuietInv'
<1>1. /\ UNCHANGED <<host, first, second, grant, calm>> /\ Now' = Now
      /\ at = "decide" /\ at' = "granted" /\ host.free >= Required
  BY NowStays DEF Decide, Sufficient, Go, world, history
<1>2. /\ seen'.free = host.free /\ seen'.tools = seen.tools /\ seen'.metadata = seen.metadata
      /\ seen'.kernel = seen.kernel
  BY Typed DEF IInv, Seen, Decide
<1>3. PassInv'
  BY <1>1 DEF QuietInv, PassInv, Executing, SecondDone, AfterSecond
<1>4. CalmInv'
  BY <1>1, <1>2 DEF QuietInv, CalmInv, Executing, FirstDone, SecondDone, AfterFirst, AfterSecond,
     AfterTools
<1> QED
  BY <1>3, <1>4 DEF QuietInv

LEMMA IssueQuiet ==
  ASSUME IInv, QuietInv, Issue, ~RecordsOnWork
  PROVE  QuietInv'
<1>1. /\ UNCHANGED <<world, calm>> /\ grant' = Payload /\ at = "granted" /\ at' = "issued"
      /\ Now' = Now
  BY NowStays DEF Issue, Go, world
<1>2. /\ grant'.seen = seen
      /\ \A c \in RequiredFindings : grant'.findings[c] = second[c] /\ second[c].pass
  BY <1>1, PayloadIs, CheckList DEF QuietInv, PassInv, SecondDone, AfterSecond
<1>3. PassInv'
  BY <1>1, <1>2 DEF PassInv, SecondDone, AfterSecond
<1>4. ASSUME calm
      PROVE  /\ seen = [tools |-> host.tools, metadata |-> host.target,
                        kernel |-> host.target, free |-> host.free]
             /\ host.free >= Required
             /\ \A c \in RequiredFindings : second[c] = Now[c]
  BY <1>1, <1>4, Typed, CheckList DEF IInv, Seen, QuietInv, CalmInv, SecondDone, AfterSecond,
     AfterTools
<1>5. CalmInv'
  BY <1>1, <1>2, <1>4 DEF CalmInv, FirstDone, SecondDone, AfterFirst, AfterSecond, AfterTools, world
<1> QED
  BY <1>3, <1>5 DEF QuietInv

LEMMA ConsumeQuiet ==
  ASSUME IInv, QuietInv, Consume
  PROVE  QuietInv'
<1>1. /\ UNCHANGED <<host, grant, calm>> /\ Now' = Now /\ at = "granted" /\ at' = "consumed"
  BY NowStays DEF Consume, Go, world, history
<1> QED
  BY <1>1 DEF QuietInv, PassInv, CalmInv, Executing, FirstDone, SecondDone, AfterFirst,
     AfterSecond, AfterTools

LEMMA StopQuiet ==
  ASSUME IInv, QuietInv, Stop
  PROVE  QuietInv'
<1>1. /\ at \in Working /\ at' \in {"idle", "issued"} /\ grant' = grant
      /\ calm' => host' = host /\ calm
      /\ UNCHANGED <<residue, session>>
  BY DEF IInv, TypeInv, TypeOK, Stop
<1>2. calm' => Now' = Now
  BY <1>1, NowStays DEF world
<1> QED
  BY <1>1, <1>2 DEF QuietInv, PassInv, CalmInv, Executing, FirstDone, SecondDone, AfterFirst,
     AfterSecond, AfterTools, Working

LEMMA OthersQuiet ==
  ASSUME QuietInv, Others
  PROVE  QuietInv'
BY DEF QuietInv, PassInv, CalmInv, Others, Executing, SecondDone

LEMMA QuietStep == ~RecordsOnWork /\ IInv /\ QuietInv /\ [Next]_vars => QuietInv'
<1> SUFFICES ASSUME ~RecordsOnWork, IInv, QuietInv, [Next]_vars PROVE QuietInv'
  OBVIOUS
<1>1. CASE Collect
  BY <1>1, InspectQuiet, RefuseQuiet, GoQuiet, NotesQuiet, ProbeQuiet, DecideQuiet, IssueQuiet,
     ConsumeQuiet, StopQuiet DEF Collect
<1>2. CASE ChangeHost \/ SessionBegins \/ SessionEnds \/ \E x \in Residues : Adds(x) \/ Removes(x)
  BY <1>2, OthersQuiet DEF ChangeHost, SessionBegins, SessionEnds, Adds, Removes
<1>3. CASE UNCHANGED vars
  <2>1. UNCHANGED <<host, at, step, first, second, seen, grant, calm>> /\ Now' = Now
    BY <1>3, NowStays DEF vars, world, history
  <2> QED
    BY <2>1 DEF QuietInv, PassInv, CalmInv, FirstDone, SecondDone, Executing
<1> QED
  BY <1>1, <1>2, <1>3 DEF Next

\* With the records on another filesystem planning does not disturb itself: a grant
\* is revoked only if somebody else did something.
THEOREM PlanningIsQuiet == ~RecordsOnWork => (Spec => []UndisturbedNotRevoked)
<1> SUFFICES ASSUME ~RecordsOnWork PROVE Spec => []UndisturbedNotRevoked
  OBVIOUS
<1>1. Init => QuietInv
  BY DEF Init, QuietInv, PassInv, CalmInv, Executing, SecondDone, AfterSecond
<1>2. QuietInv => UndisturbedNotRevoked
  BY DEF QuietInv, CalmInv, UndisturbedNotRevoked
<1>3. IInv /\ QuietInv /\ [Next]_vars => QuietInv'
  BY QuietStep
<1> QED
  BY <1>1, <1>2, <1>3, Invariance, PTL DEF Spec
=================================================================================
