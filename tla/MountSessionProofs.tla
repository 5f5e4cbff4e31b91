-------------------------- MODULE MountSessionProofs --------------------------
(***************************************************************************)
(* Proofs about MountSession for any number of requests, any of them       *)
(* recursive, any directories missing, any kinds of sessions, and any      *)
(* number of deaths, failed calls and changes by the host.                 *)
(***************************************************************************)
EXTENDS MountSession, FiniteSetTheorems, SequenceTheorems, WellFoundedInduction, TLAPS

USE ConstantsAssumption

\* The types, with finite sets of mounts: a new identity is one more than a
\* finite number of old ones.
FinMounts   == {S \in SUBSET Mount : IsFiniteSet(S)}
OwnedStages == {"owned", "unmounting", "removed"}
OwnedType   == UNION {[S -> OwnedStages] : S \in FinMounts}
PlanType    == [stage : PlanStages, before : FinMounts, seen : FinMounts,
                owned : OwnedType, inferred : FinMounts]
Phases      == {"none", "torn", "active", "cleaning", "complete"}
StateType   == [phase : Phases, mounts : Seq(PlanType),
                dirs : [Places -> [stage : DirStages, renamed : BOOLEAN]],
                art : ArtStages,
                x : [stage : XStages, before : {"none", "off", "absent", "present"}]]
Typed(j)    == j \in StateType /\ Len(j.mounts) <= NumRequests

MountSites == {"mount.check", "mount.run", "mount.after"}

DiskType ==
  /\ table \in FinMounts
  /\ dirs \in [Places -> {"host", "none", "private", "staging", "final"}]
  /\ file \in {"none", "empty", "partial", "whole"}
  /\ xs \in {"off", "absent", "present", "granted"}
RecordType == Typed(journal) /\ Typed(pending) /\ Typed(mem) /\ Typed(persisted)
LoopType ==
  /\ kind \in Kinds \cup {"none"} /\ after \in {"end", "fresh"}
  /\ todo \subseteq Mount /\ cur \in 0..(NumRequests + 1) /\ snap \subseteq Mount
  /\ ok \in BOOLEAN /\ failed \in BOOLEAN
BoundType == crashes \in 0..MaxCrashes /\ faults \in 0..MaxFaults /\ host \in 0..MaxHost
ControlType ==
  /\ pc \in Sites /\ io \in {"idle", "write", "replace"}
  /\ pc \in MountSites => Place > 0
  /\ pc # "idle" => kind \in Kinds
TypeInv == DiskType /\ RecordType /\ LoopType /\ BoundType /\ ControlType

--------------------------------------------------------------------------------
(* Finite sets of mounts, and records of what is owned *)

\* A finite set of mounts, and what is made of finite sets of mounts.
LEMMA FinIs == \A S : S \in FinMounts <=> S \subseteq Mount /\ IsFiniteSet(S)
  BY DEF FinMounts

LEMMA FinEmpty == {} \in FinMounts
  BY FS_EmptySet, FinIs

LEMMA FinSubset ==
  ASSUME NEW S \in FinMounts, NEW T, T \subseteq S
  PROVE  T \in FinMounts
  BY FS_Subset, FinIs

LEMMA FinUnion ==
  ASSUME NEW S \in FinMounts, NEW T \in FinMounts
  PROVE  S \cup T \in FinMounts
  <1>1. IsFiniteSet(S \cup T)
    BY FS_Union, FinIs
  <1> QED  BY <1>1, FinIs

LEMMA FinSingle == \A m \in Mount : {m} \in FinMounts
  BY FS_Singleton, FinIs

\* What an acquisition record owns: a function on a finite set of mounts.
LEMMA OwnedIs ==
  ASSUME NEW f
  PROVE  f \in OwnedType <=> \E S \in FinMounts : f \in [S -> OwnedStages]
  BY DEF OwnedType

LEMMA OwnedHas ==
  ASSUME NEW f \in OwnedType
  PROVE  /\ DOMAIN f \in FinMounts
         /\ f \in [DOMAIN f -> OwnedStages]
  BY OwnedIs

LEMMA NothingOwned == << >> \in OwnedType
  <1>1. << >> \in [{} -> OwnedStages]
    OBVIOUS
  <1> QED  BY <1>1, FinEmpty, OwnedIs

\* A plan that _acquire_mount adds has the type of a plan.
LEMMA PlanIs ==
  ASSUME NEW s \in PlanStages, NEW S \in FinMounts, NEW T \in FinMounts
  PROVE  Plan(s, S, T) \in PlanType
  BY NothingOwned, FinEmpty DEF PlanType, Plan

\* What the type of a plan says of its fields.
LEMMA PlanHas ==
  ASSUME NEW p \in PlanType
  PROVE  /\ p.stage \in PlanStages /\ p.before \in FinMounts /\ p.seen \in FinMounts
         /\ p.owned \in OwnedType /\ p.inferred \in FinMounts
         /\ Owned(p) \in FinMounts /\ Owned(p) \subseteq Mount
         /\ \A m \in Owned(p) : p.owned[m] \in OwnedStages
         /\ Live(p) \subseteq Owned(p)
  <1>1. p.owned \in OwnedType
    BY DEF PlanType
  <1>2. Owned(p) \in FinMounts /\ \A m \in Owned(p) : p.owned[m] \in OwnedStages
    BY <1>1, OwnedHas DEF Owned
  <1>3. Owned(p) \subseteq Mount
    BY <1>2, FinIs
  <1> QED  BY <1>1, <1>2, <1>3 DEF PlanType, Live

--------------------------------------------------------------------------------
(* Journals *)

\* What the type of a journal says of its fields.
LEMMA StateHas ==
  ASSUME NEW j \in StateType
  PROVE  /\ j.phase \in Phases /\ j.mounts \in Seq(PlanType)
         /\ j.dirs \in [Places -> [stage : DirStages, renamed : BOOLEAN]]
         /\ j.art \in ArtStages
         /\ j.x \in [stage : XStages, before : {"none", "off", "absent", "present"}]
         /\ Len(j.mounts) \in Nat /\ DOMAIN j.mounts = 1..Len(j.mounts)
         /\ \A i \in DOMAIN j.mounts : j.mounts[i] \in PlanType
  <1>1. j.mounts \in Seq(PlanType)
    BY DEF StateType
  <1>2. Len(j.mounts) \in Nat /\ DOMAIN j.mounts = 1..Len(j.mounts)
    BY <1>1, LenProperties
  <1>3. \A i \in DOMAIN j.mounts : j.mounts[i] \in PlanType
    BY <1>1, <1>2, ElementOfSeq
  <1> QED  BY <1>1, <1>2, <1>3 DEF StateType

\* A journal that has just been begun, and the two that are none.
LEMMA InitialTyped ==
  ASSUME NEW s \in Phases
  PROVE  Typed(State(s))
  <1> DEFINE ds == [k \in Places |-> NoDir]
             q == [stage |-> "unexamined", before |-> "none"]
  <1>1. << >> \in Seq(PlanType) /\ Len(<< >>) = 0
    BY EmptySeq
  <1>2. ds \in [Places -> [stage : DirStages, renamed : BOOLEAN]]
    BY DEF NoDir, DirStages
  <1>3. q \in [stage : XStages, before : {"none", "off", "absent", "present"}]
    BY DEF XStages
  <1> HIDE DEF ds, q
  <1>4. State(s) = [phase |-> s, mounts |-> << >>, dirs |-> ds, art |-> "none", x |-> q]
    BY Zenon DEF State, ds, q
  <1>5. State(s) \in StateType
    BY <1>1, <1>2, <1>3, <1>4 DEF StateType, ArtStages
  <1>6. State(s).mounts = << >>
    BY <1>4
  <1> QED  BY <1>1, <1>5, <1>6 DEF Typed

LEMMA FreshTyped == Typed(Fresh) /\ Typed(NoJournal) /\ Typed(Torn)
  BY InitialTyped DEF Fresh, NoJournal, Torn, Phases

\* One field is replaced.
LEMMA PutFields ==
  ASSUME NEW j, Typed(j)
  PROVE  /\ \A s \in Phases : Typed([j EXCEPT !.phase = s])
         /\ \A s \in ArtStages : Typed([j EXCEPT !.art = s])
  BY DEF Typed, StateType

\* The X access is replaced, or its stage alone.
LEMMA PutXTyped ==
  ASSUME NEW j, Typed(j)
  PROVE  /\ \A s \in XStages : Typed([j EXCEPT !.x.stage = s])
         /\ \A q \in [stage : XStages, before : {"none", "off", "absent", "present"}] :
              Typed([j EXCEPT !.x = q])
  BY DEF Typed, StateType

\* A directory is replaced, or its stage alone.
LEMMA PutDirTyped ==
  ASSUME NEW j, Typed(j), NEW k
  PROVE  /\ \A d \in [stage : DirStages, renamed : BOOLEAN] : Typed([j EXCEPT !.dirs[k] = d])
         /\ \A s \in DirStages : Typed([j EXCEPT !.dirs[k].stage = s])
  BY SMTT(30) DEF Typed, StateType

\* The plans are replaced.
LEMMA PutMounts ==
  ASSUME NEW j, Typed(j), NEW ms \in Seq(PlanType), Len(ms) <= NumRequests
  PROVE  Typed([j EXCEPT !.mounts = ms])
  BY DEF Typed, StateType

--------------------------------------------------------------------------------
(* The plans of a journal *)

\* Sequences and functions.
LEMMA SeqIs ==
  ASSUME NEW S, NEW s
  PROVE  /\ s \in Seq(S) => Len(s) \in Nat /\ s \in [1..Len(s) -> S]
         /\ \A n \in Nat : s \in [1..n -> S] => s \in Seq(S) /\ Len(s) = n
  <1>1. s \in Seq(S) => Len(s) \in Nat /\ s \in [1..Len(s) -> S]
    BY LenProperties
  <1>2. ASSUME NEW n \in Nat, s \in [1..n -> S]  PROVE s \in Seq(S) /\ Len(s) = n
    <2>1. s \in Seq(S)
      BY <1>2, SeqDef
    <2> QED  BY <1>2, <2>1
  <1> QED  BY <1>1, <1>2

\* One plan is replaced.
LEMMA PutPlanTyped ==
  ASSUME NEW j, Typed(j), NEW k, NEW p \in PlanType
  PROVE  /\ Typed([j EXCEPT !.mounts[k] = p])
         /\ [j EXCEPT !.mounts[k] = p].mounts = [j.mounts EXCEPT ![k] = p]
  <1> DEFINE n == Len(j.mounts)
             ms == [j.mounts EXCEPT ![k] = p]
  <1>1. n \in Nat /\ j.mounts \in [1..n -> PlanType] /\ n <= NumRequests
    BY StateHas, SeqIs DEF Typed
  <1>2. ms \in [1..n -> PlanType]
    BY <1>1
  <1>3. ms \in Seq(PlanType) /\ Len(ms) = n
    BY <1>1, <1>2, SeqIs
  <1>4. [j EXCEPT !.mounts[k] = p] = [j EXCEPT !.mounts = ms]
    OBVIOUS
  <1>5. Typed([j EXCEPT !.mounts = ms]) /\ [j EXCEPT !.mounts = ms].mounts = ms
    <2>1. Typed([j EXCEPT !.mounts = ms])
      BY <1>1, <1>3, PutMounts
    <2>2. j \in StateType
      BY DEF Typed
    <2>3. [j EXCEPT !.mounts = ms].mounts = ms
      BY <2>2 DEF StateType
    <2> QED  BY <2>1, <2>3
  <1> QED  BY <1>4, <1>5

\* One owned mount is given another stage.
LEMMA PutStageTyped ==
  ASSUME NEW p \in PlanType, NEW m, NEW s \in OwnedStages
  PROVE  /\ [p EXCEPT !.owned[m] = s] \in PlanType
         /\ Owned([p EXCEPT !.owned[m] = s]) = Owned(p)
  <1> DEFINE f == p.owned
             g == [f EXCEPT ![m] = s]
  <1>1. f \in OwnedType
    BY PlanHas
  <1>2. DOMAIN f \in FinMounts /\ f \in [DOMAIN f -> OwnedStages]
    BY <1>1, OwnedHas
  <1>3. g \in [DOMAIN f -> OwnedStages]
    BY <1>2
  <1>4. g \in OwnedType /\ DOMAIN g = DOMAIN f
    BY <1>2, <1>3, OwnedIs
  <1>5. [p EXCEPT !.owned[m] = s] = [p EXCEPT !.owned = g]
    OBVIOUS
  <1> HIDE DEF g
  <1>6. [p EXCEPT !.owned = g] \in PlanType /\ [p EXCEPT !.owned = g].owned = g
    BY <1>4 DEF PlanType
  <1> QED  BY <1>4, <1>5, <1>6 DEF Owned

\* The same inside a journal, where the other plans stay as they are.
LEMMA PutOwnedTyped ==
  ASSUME NEW j, Typed(j), NEW k, NEW m, NEW s \in OwnedStages
  PROVE  /\ Typed([j EXCEPT !.mounts[k].owned[m] = s])
         /\ DOMAIN [j EXCEPT !.mounts[k].owned[m] = s].mounts = DOMAIN j.mounts
         /\ \A i \in DOMAIN j.mounts :
              [j EXCEPT !.mounts[k].owned[m] = s].mounts[i]
                = IF i = k THEN [j.mounts[i] EXCEPT !.owned[m] = s] ELSE j.mounts[i]
  <1> DEFINE n == Len(j.mounts)
             ms == [j.mounts EXCEPT ![k] = [@ EXCEPT !.owned[m] = s]]
  <1>1. /\ n \in Nat /\ j.mounts \in [1..n -> PlanType] /\ n <= NumRequests
        /\ DOMAIN j.mounts = 1..n
    BY StateHas, SeqIs DEF Typed
  <1>2. k \in 1..n => [j.mounts[k] EXCEPT !.owned[m] = s] \in PlanType
    BY <1>1, PutStageTyped
  <1>3. ms \in [1..n -> PlanType]
    BY <1>1, <1>2
  <1>4. ms \in Seq(PlanType) /\ Len(ms) = n
    BY <1>1, <1>3, SeqIs
  <1>5. [j EXCEPT !.mounts[k].owned[m] = s] = [j EXCEPT !.mounts = ms]
    OBVIOUS
  <1>6. \A i \in DOMAIN j.mounts :
          ms[i] = IF i = k THEN [j.mounts[i] EXCEPT !.owned[m] = s] ELSE j.mounts[i]
    BY <1>1
  <1>7. DOMAIN ms = DOMAIN j.mounts
    BY <1>1
  <1> HIDE DEF ms
  <1>8. Typed([j EXCEPT !.mounts = ms]) /\ [j EXCEPT !.mounts = ms].mounts = ms
    <2>1. Typed([j EXCEPT !.mounts = ms])
      BY <1>1, <1>4, PutMounts
    <2>2. j \in StateType
      BY DEF Typed
    <2>3. [j EXCEPT !.mounts = ms].mounts = ms
      BY <2>2 DEF StateType
    <2> QED  BY <2>1, <2>3
  <1> QED  BY <1>5, <1>6, <1>7, <1>8

\* A plan is added behind the others, which stay as they are.
LEMMA AppendTyped ==
  ASSUME NEW j, Typed(j), NEW p \in PlanType, Len(j.mounts) < NumRequests
  PROVE  LET new == [j EXCEPT !.mounts = Append(@, p)] IN
         /\ Typed(new)
         /\ Len(new.mounts) = Len(j.mounts) + 1
         /\ DOMAIN new.mounts = DOMAIN j.mounts \cup {Len(j.mounts) + 1}
         /\ new.mounts[Len(j.mounts) + 1] = p
         /\ \A i \in DOMAIN j.mounts : new.mounts[i] = j.mounts[i]
  <1> DEFINE n == Len(j.mounts)
             ms == Append(j.mounts, p)
  <1>1. n \in Nat /\ j.mounts \in Seq(PlanType) /\ DOMAIN j.mounts = 1..n /\ j \in StateType
    BY StateHas DEF Typed
  <1>2. /\ ms \in Seq(PlanType) /\ Len(ms) = n + 1 /\ ms[n + 1] = p
        /\ \A i \in 1..n : ms[i] = j.mounts[i]
    BY <1>1
  <1>3. DOMAIN ms = 1..(n + 1)
    BY <1>2, LenProperties
  <1> HIDE DEF ms
  <1>4. Typed([j EXCEPT !.mounts = ms]) /\ [j EXCEPT !.mounts = ms].mounts = ms
    <2>1. n + 1 <= NumRequests
      BY <1>1
    <2>2. Typed([j EXCEPT !.mounts = ms])
      BY <1>2, <2>1, PutMounts
    <2>3. [j EXCEPT !.mounts = ms].mounts = ms
      BY <1>1 DEF StateType
    <2> QED  BY <2>2, <2>3
  <1>5. [j EXCEPT !.mounts = Append(@, p)] = [j EXCEPT !.mounts = ms]
    BY Zenon DEF ms
  <1>6. 1..(n + 1) = 1..n \cup {n + 1}
    BY <1>1
  <1> QED  BY <1>1, <1>2, <1>3, <1>4, <1>5, <1>6

--------------------------------------------------------------------------------
(* New identities *)

\* A finite union of finite sets of mounts.
LEMMA UnionFin ==
  ASSUME NEW n \in Nat, NEW f, DOMAIN f = 1..n, \A i \in 1..n : f[i] \in FinMounts
  PROVE  UNION {f[i] : i \in 1..n} \in FinMounts
  <1> DEFINE T == {f[i] : i \in 1..n}
             g == [i \in 1..n |-> f[i]]
  <1>1. g \in Surjection(1..n, T)
    BY DEF Surjection
  <1>2. IsFiniteSet(1..n)
    BY FS_Interval
  <1>3. IsFiniteSet(T)
    BY <1>1, <1>2, FS_Surjection
  <1>4. \A S \in T : S \subseteq Mount /\ IsFiniteSet(S)
    BY FinIs
  <1>5. IsFiniteSet(UNION T)
    BY <1>3, <1>4, FS_UNION
  <1>6. UNION T \subseteq Mount
    BY <1>4
  <1> HIDE DEF T
  <1>7. UNION T \in FinMounts
    BY <1>5, <1>6, FinIs
  <1> QED  BY <1>7 DEF T

\* What a journal owns, and what its plans have seen, is finite.
LEMMA AllOwnedFin ==
  ASSUME NEW j, Typed(j)
  PROVE  /\ AllOwned(j) \in FinMounts
         /\ UNION {j.mounts[i].before : i \in DOMAIN j.mounts} \in FinMounts
  <1> DEFINE n == Len(j.mounts)
             f == [i \in 1..n |-> Owned(j.mounts[i])]
             g == [i \in 1..n |-> j.mounts[i].before]
  <1>1. n \in Nat /\ DOMAIN j.mounts = 1..n /\ \A i \in 1..n : j.mounts[i] \in PlanType
    BY StateHas DEF Typed
  <1>2. \A i \in 1..n : f[i] \in FinMounts /\ g[i] \in FinMounts
    BY <1>1, PlanHas
  <1>3. UNION {f[i] : i \in 1..n} \in FinMounts
    BY <1>1, <1>2, UnionFin
  <1>4. UNION {g[i] : i \in 1..n} \in FinMounts
    BY <1>1, <1>2, UnionFin
  <1>5. AllOwned(j) = UNION {f[i] : i \in 1..n}
    BY <1>1 DEF AllOwned
  <1>6. UNION {j.mounts[i].before : i \in DOMAIN j.mounts} = UNION {g[i] : i \in 1..n}
    BY <1>1
  <1> QED  BY <1>3, <1>4, <1>5, <1>6

\* A finite set leaves out one of the numbers up to one more than its size.
LEMMA Pigeonhole ==
  ASSUME NEW S, IsFiniteSet(S), NEW k \in Nat, Cardinality(S) < k
  PROVE  \E n \in 1..k : n \notin S
  <1> SUFFICES ASSUME \A n \in 1..k : n \in S  PROVE FALSE
    OBVIOUS
  <1>1. 1..k \in SUBSET S
    OBVIOUS
  <1>2. Cardinality(1..k) <= Cardinality(S)
    BY <1>1, FS_Subset
  <1>3. Cardinality(1..k) = k
    BY FS_Interval
  <1>4. Cardinality(S) \in Nat
    BY FS_CardinalityType
  <1> QED  BY <1>2, <1>3, <1>4

\* The identities in use are finitely many ...
LEMMA IdsFinite ==
  ASSUME TypeInv
  PROVE  IsFiniteSet(Ids)
  <1> DEFINE D == UNION {mem.mounts[i].before : i \in DOMAIN mem.mounts}
             E == UNION {journal.mounts[i].before : i \in DOMAIN journal.mounts}
             U == table \cup AllOwned(mem) \cup AllOwned(journal) \cup AllOwned(pending) \cup D \cup E
             f == [m \in U |-> m.id]
             T == {m.id : m \in U}
  <1>1. Ids = T
    BY DEF Ids
  <1>2. table \in FinMounts /\ Typed(mem) /\ Typed(journal) /\ Typed(pending)
    BY DEF TypeInv, DiskType, RecordType
  <1>3. /\ AllOwned(mem) \in FinMounts /\ AllOwned(journal) \in FinMounts
        /\ AllOwned(pending) \in FinMounts /\ D \in FinMounts /\ E \in FinMounts
    BY <1>2, AllOwnedFin
  <1> HIDE DEF D, E
  <1>4. U \in FinMounts
    BY <1>2, <1>3, FinUnion
  <1> HIDE DEF U
  <1>5. IsFiniteSet(U)
    BY <1>4, FinIs
  <1>6. f \in Surjection(U, T)
    BY DEF Surjection
  <1>7. IsFiniteSet(T)
    BY <1>5, <1>6, FS_Surjection
  <1> QED  BY <1>1, <1>7

\* ... so that there are others.
LEMMA NewIds ==
  ASSUME TypeInv
  PROVE  NewId \in Nat /\ NextId \in Nat /\ NewId \notin Ids /\ NextId \notin Ids
  <1> DEFINE c == Cardinality(Ids)
             S == Ids \cup {NewId}
  <1>1. IsFiniteSet(Ids) /\ c \in Nat
    BY IdsFinite, FS_CardinalityType
  <1>2. \E n \in 1..(c + 1) : n \notin Ids
    BY <1>1, Pigeonhole
  <1>3. NewId \in 1..(c + 1) /\ NewId \notin Ids
    BY <1>2 DEF NewId
  <1>4. IsFiniteSet(S) /\ Cardinality(S) <= c + 1
    BY <1>1, FS_AddElement
  <1>5. Cardinality(S) \in Nat
    BY <1>4, FS_CardinalityType
  <1>6. \E n \in 1..(c + 2) : n \notin S
    BY <1>1, <1>4, <1>5, Pigeonhole
  <1>7. NextId \in 1..(c + 2) /\ NextId \notin S
    BY <1>6 DEF NextId
  <1> QED  BY <1>1, <1>3, <1>7

\* The mounts at a path are finitely many.
LEMMA AtPathFinite ==
  ASSUME table \in FinMounts, NEW r, NEW a
  PROVE  IsFiniteSet(AtPath(r, a)) /\ Cardinality(AtPath(r, a)) \in Nat
  <1>1. AtPath(r, a) \subseteq table
    BY DEF AtPath
  <1> QED  BY <1>1, FinSubset, FinIs, FS_CardinalityType

\* What is mounted under a new identity is a mount.
LEMMA NewMountTyped ==
  ASSUME TypeInv, NEW r \in Requests, NEW a \in {"root", "sub"}, NEW b \in {"session", "host"},
         NEW l \in BOOLEAN
  PROVE  /\ NewMount(NewId, r, a, b, l) \in Mount
         /\ NewMount(NextId, r, a, b, l) \in Mount
  <1>1. Cardinality(AtPath(r, a)) \in Nat
    BY AtPathFinite DEF TypeInv, DiskType
  <1> QED  BY <1>1, NewIds DEF NewMount, Mount

\* What mount(8) adds belongs to the request.
LEMMA BoundTyped ==
  ASSUME TypeInv, NEW r \in Requests
  PROVE  /\ Bound(r) \in FinMounts
         /\ \A m \in Bound(r) : m.req = r
  <1> DEFINE a == NewMount(NewId, r, "root", "session", TRUE)
             b == NewMount(NextId, r, "sub", "session", TRUE)
  <1>1. a \in Mount /\ b \in Mount
    BY NewMountTyped
  <1>2. a.req = r /\ b.req = r
    BY DEF NewMount
  <1>3. Bound(r) = {a} \cup (IF r \in Recursive THEN {b} ELSE {})
    BY DEF Bound
  <1> HIDE DEF a, b
  <1>4. {a} \in FinMounts /\ {b} \in FinMounts
    BY <1>1, FinSingle
  <1>5. Bound(r) \in FinMounts
    BY <1>3, <1>4, FinUnion, FinEmpty
  <1> QED  BY <1>2, <1>3, <1>5

--------------------------------------------------------------------------------
(* The preflight *)

\* What a preflight makes of a plan, of a directory, of the X access, of the file.
LEMMA NewPlanTyped ==
  ASSUME table \in FinMounts, NEW p \in PlanType, NEW r
  PROVE  NewPlan(p, r) \in PlanType
  <1> DEFINE S == Scope(r)
             X == Extras(p, r)
             f == [m \in S |-> "owned"]
             g == [m \in Owned(p) \cup X |->
                     IF m \notin Owned(p) THEN "owned"
                     ELSE IF p.owned[m] = "unmounting" /\ m \notin table THEN "removed"
                     ELSE p.owned[m]]
  <1>1. S \in FinMounts /\ X \in FinMounts
    <2>1. S \subseteq table /\ X \subseteq table
      BY DEF Scope, Extras
    <2> QED  BY <2>1, FinSubset
  <1>2. f \in OwnedType
    <2>1. f \in [S -> OwnedStages]
      BY DEF OwnedStages
    <2> QED  BY <1>1, <2>1, OwnedIs
  <1>3. g \in OwnedType
    <2>1. \A m \in Owned(p) : p.owned[m] \in OwnedStages
      BY PlanHas
    <2>2. g \in [Owned(p) \cup X -> OwnedStages]
      BY <2>1 DEF OwnedStages
    <2>3. Owned(p) \cup X \in FinMounts
      BY <1>1, PlanHas, FinUnion
    <2> QED  BY <2>2, <2>3, OwnedIs
  <1>4. p.inferred \cup X \in FinMounts
    BY <1>1, PlanHas, FinUnion
  <1>5. p.stage \in PlanStages
    BY PlanHas
  <1>6. /\ p.stage \in {"planned", "ambiguous"} => NewPlan(p, r) = [p EXCEPT !.stage = "failed"]
        /\ p.stage = "command-started" =>
             NewPlan(p, r) = IF S = p.before THEN [p EXCEPT !.stage = "failed"]
                             ELSE [p EXCEPT !.stage = "owned", !.seen = S, !.inferred = S,
                                            !.owned = f]
        /\ p.stage = "owned" =>
             NewPlan(p, r) = [p EXCEPT !.inferred = p.inferred \cup X, !.owned = g]
        /\ p.stage \notin {"planned", "ambiguous", "command-started", "owned"} =>
             NewPlan(p, r) = p
    BY DEF NewPlan
  <1> HIDE DEF S, X, f, g
  <1>7. /\ [p EXCEPT !.stage = "failed"] \in PlanType
        /\ [p EXCEPT !.stage = "owned", !.seen = S, !.inferred = S, !.owned = f] \in PlanType
        /\ [p EXCEPT !.inferred = p.inferred \cup X, !.owned = g] \in PlanType
    BY <1>1, <1>2, <1>3, <1>4 DEF PlanType, PlanStages
  <1> QED  BY <1>5, <1>6, <1>7

LEMMA NewDirTyped ==
  ASSUME NEW d \in [stage : DirStages, renamed : BOOLEAN], NEW where
  PROVE  NewDir(d, where) \in [stage : DirStages, renamed : BOOLEAN]
  <1>1. /\ \A s \in DirStages : [d EXCEPT !.stage = s] \in [stage : DirStages, renamed : BOOLEAN]
        /\ [stage |-> "created", renamed |-> TRUE] \in [stage : DirStages, renamed : BOOLEAN]
    BY DEF DirStages
  <1> QED  BY <1>1 DEF NewDir, DirStages

LEMMA NewXTyped ==
  ASSUME NEW q \in [stage : XStages, before : {"none", "off", "absent", "present"}]
  PROVE  NewX(q) \in [stage : XStages, before : {"none", "off", "absent", "present"}]
  <1>1. \A s \in XStages :
          [q EXCEPT !.stage = s] \in [stage : XStages, before : {"none", "off", "absent", "present"}]
    OBVIOUS
  <1> QED  BY <1>1 DEF NewX, XStages

LEMMA NewArtTyped ==
  ASSUME NEW a \in ArtStages
  PROVE  NewArt(a) \in ArtStages
  BY DEF NewArt, ArtStages

\* What a preflight makes of a journal, field by field.
LEMMA PreflightedHas ==
  ASSUME NEW j, Typed(j), table \in FinMounts
  PROVE  /\ Typed(Preflighted(j))
         /\ Preflighted(j).phase = j.phase
         /\ DOMAIN Preflighted(j).mounts = DOMAIN j.mounts
         /\ \A i \in DOMAIN j.mounts : Preflighted(j).mounts[i] = NewPlan(j.mounts[i], i)
         /\ \A k \in Places : Preflighted(j).dirs[k] = NewDir(j.dirs[k], dirs[k])
         /\ Preflighted(j).art = NewArt(j.art)
         /\ Preflighted(j).x = NewX(j.x)
  <1> DEFINE n == Len(j.mounts)
             ms == [i \in DOMAIN j.mounts |-> NewPlan(j.mounts[i], i)]
             ds == [k \in Places |-> NewDir(j.dirs[k], dirs[k])]
             new == [phase |-> j.phase, mounts |-> ms, dirs |-> ds,
                     art |-> NewArt(j.art), x |-> NewX(j.x)]
  <1>1. /\ n \in Nat /\ n <= NumRequests /\ DOMAIN j.mounts = 1..n
        /\ \A i \in 1..n : j.mounts[i] \in PlanType
        /\ j.phase \in Phases /\ j.art \in ArtStages
        /\ j.dirs \in [Places -> [stage : DirStages, renamed : BOOLEAN]]
        /\ j.x \in [stage : XStages, before : {"none", "off", "absent", "present"}]
    BY StateHas DEF Typed
  <1>2. ms \in [1..n -> PlanType]
    BY <1>1, NewPlanTyped
  <1>3. ms \in Seq(PlanType) /\ Len(ms) = n
    BY <1>1, <1>2, SeqIs
  <1>4. ds \in [Places -> [stage : DirStages, renamed : BOOLEAN]]
    BY <1>1, NewDirTyped
  <1>5. NewArt(j.art) \in ArtStages
    BY <1>1, NewArtTyped
  <1>6. NewX(j.x) \in [stage : XStages, before : {"none", "off", "absent", "present"}]
    BY <1>1, NewXTyped
  <1>7. Preflighted(j) = new
    BY Zenon DEF Preflighted
  <1>8. /\ DOMAIN ms = DOMAIN j.mounts
        /\ \A i \in DOMAIN j.mounts : ms[i] = NewPlan(j.mounts[i], i)
        /\ \A k \in Places : ds[k] = NewDir(j.dirs[k], dirs[k])
    OBVIOUS
  <1> HIDE DEF ms, ds
  <1>9. /\ new \in StateType
        /\ new.phase = j.phase /\ new.mounts = ms /\ new.dirs = ds
        /\ new.art = NewArt(j.art) /\ new.x = NewX(j.x)
    BY <1>1, <1>3, <1>4, <1>5, <1>6 DEF StateType
  <1> HIDE DEF new
  <1> QED  BY <1>1, <1>3, <1>7, <1>8, <1>9 DEF Typed

--------------------------------------------------------------------------------
(* Type correctness *)

\* The sites of the control.
LEMMA SitesAre ==
  /\ EnterSites \cup BodySites \cup DirSites \cup MountCleanSites \cup CleanSites \cup {"idle"} = Sites
  /\ MountSites \subseteq BodySites
  /\ Sites \cap MountSites = MountSites
  BY DEF Sites, MountSites, BodySites

\* A step that moves on.
LEMMA StepTyped ==
  ASSUME TypeInv, pc # "idle", UNCHANGED <<store, persisted, kind>>,
         DiskType', LoopType', BoundType', Typed(mem'), pc' \in Sites, io' \in {"idle", "write"},
         pc' \in MountSites => Place' > 0
  PROVE  TypeInv'
  BY DEF TypeInv, RecordType, ControlType, store, Typed, StateType, Place

\* What is left alone keeps its type.
LEMMA SameLoop ==
  ASSUME TypeInv, UNCHANGED <<kind, after, loop, bounds>>
  PROVE  LoopType' /\ BoundType'
  BY DEF TypeInv, LoopType, BoundType, loop, bounds

LEMMA SameDisk ==
  ASSUME TypeInv, UNCHANGED disk
  PROVE  DiskType'
  BY DEF TypeInv, DiskType, disk

\* A step that changes at most the record.
LEMMA QuietTyped ==
  ASSUME TypeInv, Quiet, pc # "idle", Typed(mem'), pc' \in Sites, io' \in {"idle", "write"},
         pc' \in MountSites => Place' > 0
  PROVE  TypeInv'
  BY StepTyped, SameLoop, SameDisk DEF Quiet

\* Where an exception leads, and what it leaves of the loop.
LEMMA RaiseIs ==
  ASSUME RaiseFrom(pc)
  PROVE  /\ io' = "idle" /\ pc' \in {"idle"} \cup CleanSites \cup MountCleanSites
         /\ \/ Exit
            \/ /\ pc # "idle" /\ UNCHANGED <<mem, persisted, kind, after>>
               /\ todo' \in SUBSET todo /\ snap' \in {snap, {}} /\ ok' \in {ok, TRUE}
               /\ failed' \in {failed, TRUE}
               /\ cur' = cur \/ (cur' = IF cur > 0 THEN cur - 1 ELSE 0)
  <1>1. CASE pc \in BodySites \cup DirSites
    <2>1. Goto("clean.preflight") /\ UNCHANGED <<mem, persisted, kind, after, loop>>
      BY <1>1 DEF RaiseFrom, BodySites, DirSites, MountCleanSites
    <2>2. UNCHANGED <<todo, cur, snap, ok, failed>>
      BY <2>1 DEF loop
    <2>3. todo' = todo /\ cur' = cur /\ snap' = snap /\ ok' = ok /\ failed' = failed
      BY <2>2
    <2>4. ok' \in {ok, TRUE} /\ failed' \in {failed, TRUE}
      BY <2>3, Zenon
    <2>5. pc # "idle"
      BY <1>1 DEF BodySites, DirSites
    <2> QED  BY <2>1, <2>3, <2>4, <2>5 DEF Goto, CleanSites
  <1>2. CASE pc \in MountCleanSites
    BY <1>2 DEF RaiseFrom, Goto, CleanSites, MountCleanSites, BodySites, DirSites
  <1>3. CASE pc \in {"clean.file", "clean.unlink"}
    BY <1>3 DEF RaiseFrom, Goto, CleanSites, MountCleanSites, BodySites, DirSites
  <1>4. CASE pc \in {"clean.dir", "clean.rmdir"}
    BY <1>4 DEF RaiseFrom, Goto, CleanSites, MountCleanSites, BodySites, DirSites
  <1>5. CASE pc \in {"clean.x", "clean.xrun", "clean.xverify"}
    BY <1>5 DEF RaiseFrom, Goto, CleanSites, MountCleanSites, BodySites, DirSites
  <1>6. CASE pc \notin BodySites \cup DirSites \cup MountCleanSites
                \cup {"clean.file", "clean.unlink", "clean.dir", "clean.rmdir",
                      "clean.x", "clean.xrun", "clean.xverify"}
    BY <1>6 DEF RaiseFrom, Exit, Goto
  <1> QED  BY <1>1, <1>2, <1>3, <1>4, <1>5, <1>6

\* An exception keeps the types.
LEMMA RaiseFromTyped ==
  ASSUME TypeInv, RaiseFrom(pc), Typed(journal'), Typed(pending'), UNCHANGED disk, BoundType'
  PROVE  TypeInv'
  <1>0. Typed(NoJournal)
    BY FreshTyped
  <1>1. pc' \in Sites \ MountSites /\ io' = "idle"
    BY RaiseIs DEF Sites, MountSites, MountCleanSites, CleanSites
  <1>2. Exit => Typed(mem') /\ Typed(persisted') /\ LoopType' /\ pc' = "idle"
    <2> HAVE Exit
    <2>1. Typed(mem') /\ Typed(persisted')
      BY <1>0 DEF Exit
    <2>2. LoopType'
      <3>1. ok' \in BOOLEAN /\ failed' \in BOOLEAN
        BY Zenon DEF Exit
      <3>2. /\ kind' = "none" /\ after' = "end" /\ todo' = {} /\ cur' = 0 /\ snap' = {}
        BY Zenon DEF Exit
      <3> QED  BY <3>1, <3>2 DEF LoopType
    <2>3. pc' = "idle"
      BY Zenon DEF Exit, Goto
    <2> QED  BY <2>1, <2>2, <2>3
  <1>3. ~Exit => Typed(mem') /\ Typed(persisted') /\ LoopType' /\ kind' \in Kinds
    <2> HAVE ~Exit
    <2>1. /\ pc # "idle" /\ UNCHANGED <<mem, persisted, kind, after>>
          /\ todo' \in SUBSET todo /\ snap' \in {snap, {}} /\ ok' \in {ok, TRUE}
          /\ failed' \in {failed, TRUE}
          /\ cur' = cur \/ (cur' = IF cur > 0 THEN cur - 1 ELSE 0)
      BY RaiseIs
    <2>2. Typed(mem') /\ Typed(persisted')
      BY <2>1 DEF TypeInv, RecordType
    <2>3. LoopType'
      <3>1. ok' \in BOOLEAN /\ failed' \in BOOLEAN
        BY <2>1, Zenon DEF TypeInv, LoopType
      <3> QED  BY <2>1, <3>1 DEF TypeInv, LoopType
    <2>4. kind' \in Kinds
      BY <2>1 DEF TypeInv, ControlType
    <2> QED  BY <2>2, <2>3, <2>4
  <1>4. DiskType'
    BY DEF disk, TypeInv, DiskType
  <1>5. ControlType' /\ RecordType'
    BY <1>1, <1>2, <1>3 DEF ControlType, RecordType
  <1>6. LoopType'
    BY <1>2, <1>3
  <1> QED  BY <1>4, <1>5, <1>6 DEF TypeInv

LEMMA RaiseTyped ==
  ASSUME TypeInv, Raise
  PROVE  TypeInv'
  <1>1. Typed(journal') /\ Typed(pending') /\ UNCHANGED disk /\ BoundType' /\ RaiseFrom(pc)
    BY DEF Raise, store, bounds, TypeInv, RecordType, BoundType
  <1> QED  BY <1>1, RaiseFromTyped

\* __enter__, and the three ways of making something.
LEMMA EnterTyped ==
  ASSUME TypeInv, Enter \/ (\E k \in Kinds : Start(k))
  PROVE  TypeInv'
  <1>0. Typed(Fresh) /\ Typed(journal) /\ Typed(pending) /\ Typed(mem) /\ Typed(NoJournal)
    BY FreshTyped DEF TypeInv, RecordType
  <1>1. CASE \E k \in Kinds : Start(k)
    BY <1>1 DEF Start, Sites, EnterSites, MountSites, TypeInv, DiskType, RecordType, LoopType,
         BoundType, ControlType, disk, store, loop, bounds, Typed, StateType, Place
  <1>2. CASE EnterReconcile
    <2>0. pc # "idle" /\ kind \in Kinds
      BY <1>2 DEF EnterReconcile, At, TypeInv, ControlType
    <2>1. CASE pending = NoJournal /\ Goto("enter.load") /\ UNCHANGED mem /\ Quiet
      BY <2>0, <2>1, <1>0, QuietTyped DEF Goto, Sites, EnterSites, MountSites
    <2>2. CASE /\ journal' = pending /\ pending' = NoJournal /\ Goto("enter.load")
               /\ UNCHANGED <<disk, mem, persisted, kind, after, loop, bounds>>
      BY <2>0, <2>2, <1>0 DEF Goto, Sites, EnterSites, MountSites, TypeInv, DiskType, RecordType, LoopType,
         BoundType, ControlType, disk, loop, bounds
    <2>3. CASE Raise
      BY <2>3, RaiseTyped
    <2> QED  BY <1>2, <2>1, <2>2, <2>3 DEF EnterReconcile
  <1>3. CASE EnterLoad
    <2>0. kind' \in Kinds
      BY <1>3 DEF EnterLoad, At, TypeInv, ControlType
    <2>1. CASE mem' = Fresh /\ persisted' = NoJournal /\ Save("body") /\ UNCHANGED after
      BY <2>0, <1>0, <1>3, <2>1 DEF EnterLoad, Save, Sites, EnterSites, MountSites, TypeInv, DiskType,
         RecordType, LoopType, BoundType, ControlType, disk, store, loop, bounds
    <2>2. CASE mem' = journal /\ persisted' = journal /\ after' = "fresh" /\ Goto("clean.preflight")
      BY <2>0, <1>0, <1>3, <2>2 DEF EnterLoad, Goto, Sites, CleanSites, MountSites, TypeInv, DiskType,
         RecordType, LoopType, BoundType, ControlType, disk, store, loop, bounds
    <2> QED  BY <1>3, <2>1, <2>2 DEF EnterLoad
  <1>4. CASE Body
    <2>1. pc = "body" /\ kind \in {"hook", "shell", "clean"}
      BY <1>4 DEF Body, At, TypeInv, ControlType
    <2>2. pc' \in {"stage.dir", "mount.plan", "clean.preflight"} /\ io' = "idle"
      BY <1>4, <2>1 DEF Body, Goto
    <2> QED  BY <1>4, <2>1, <2>2, <1>0, QuietTyped DEF Body, Sites, BodySites, CleanSites, MountSites
  <1>5. CASE Abort
    BY <1>5, RaiseTyped DEF Abort
  <1> QED  BY <1>1, <1>2, <1>3, <1>4, <1>5 DEF Enter

\* What moves on, and where to.
LEMMA GoesOn ==
  /\ \A s \in Sites : Goto(s) \/ Save(s) => pc' \in Sites /\ io' \in {"idle", "write"}
  /\ \A s \in Sites \ MountSites : Goto(s) \/ Save(s) => pc' \notin MountSites
  /\ \A s : At(s) => pc = s /\ io = "idle"
  BY DEF Goto, Save, At

\* The records.
LEMMA MemTyped == TypeInv => Typed(mem) /\ Typed(journal) /\ Typed(pending) /\ Typed(persisted)
  BY DEF TypeInv, RecordType

\* Where a directory goes, and what mem says of it.
LEMMA MoveDirTyped ==
  ASSUME TypeInv, NEW to \in {"host", "none", "private", "staging", "final"}, MoveDir(to)
  PROVE  DiskType' /\ LoopType' /\ BoundType' /\ Typed(mem') /\ UNCHANGED <<store, persisted, kind>>
  <1>1. DiskType'
    BY DEF TypeInv, DiskType, MoveDir
  <1>2. LoopType' /\ BoundType'
    BY SameLoop DEF MoveDir
  <1>3. mem' = mem /\ UNCHANGED <<store, persisted, kind>>
    BY DEF MoveDir
  <1> QED  BY <1>1, <1>2, <1>3, MemTyped

\* The staged file is changed.
LEMMA PutFileTyped ==
  ASSUME TypeInv, NEW f \in {"none", "empty", "partial", "whole"}, PutFile(f)
  PROVE  DiskType' /\ LoopType' /\ BoundType' /\ UNCHANGED <<store, persisted, kind>>
  <1>1. DiskType'
    BY DEF TypeInv, DiskType, PutFile
  <1>2. LoopType' /\ BoundType'
    BY SameLoop DEF PutFile
  <1>3. UNCHANGED <<store, persisted, kind>>
    BY DEF PutFile
  <1> QED  BY <1>1, <1>2, <1>3

\* The directory of the current place is recorded.
LEMMA PutDirIs ==
  ASSUME TypeInv
  PROVE  /\ \A s \in DirStages : PutDirStage(s) => Typed(mem') /\ mem'.mounts = mem.mounts
         /\ \A d \in [stage : DirStages, renamed : BOOLEAN] :
              PutDir(d) => Typed(mem') /\ mem'.mounts = mem.mounts
  <1>1. Typed(mem) /\ mem \in StateType
    BY MemTyped DEF Typed
  <1>2. ASSUME NEW d \in [stage : DirStages, renamed : BOOLEAN], PutDir(d)
        PROVE  Typed(mem') /\ mem'.mounts = mem.mounts
    <2>1. Typed([mem EXCEPT !.dirs[Place] = d])
      BY <1>1, PutDirTyped
    <2>2. [mem EXCEPT !.dirs[Place] = d].mounts = mem.mounts
      BY <1>1 DEF StateType
    <2> QED  BY <1>2, <2>1, <2>2 DEF PutDir
  <1>3. Place \in Places
    BY <1>1, StateHas DEF Typed, Place, Places
  <1>4. ASSUME NEW s \in DirStages, PutDirStage(s)
        PROVE  Typed(mem') /\ mem'.mounts = mem.mounts
    <2>1. mem.dirs[Place] \in [stage : DirStages, renamed : BOOLEAN]
      BY <1>1, <1>3, StateHas
    <2>2. [mem.dirs[Place] EXCEPT !.stage = s] \in [stage : DirStages, renamed : BOOLEAN]
      BY <2>1
    <2> QED  BY <1>2, <1>4, <2>2 DEF PutDirStage
  <1> QED  BY <1>2, <1>4

\* Each operation of the body keeps the types.
LEMMA EnsureDirectoryTyped ==
  ASSUME TypeInv, EnsureDirectory
  PROVE  TypeInv'
  <1>0. Typed(mem)
    BY MemTyped
  <1>1. CASE StageDir
    <2>1. pc # "idle" /\ mem' = mem /\ Quiet /\ Goto("dir.plan")
      BY <1>1, GoesOn DEF StageDir
    <2>2. "dir.plan" \in Sites \ MountSites
      BY DEF Sites, DirSites, MountSites
    <2> QED  BY <1>0, <2>1, <2>2, GoesOn, QuietTyped
  <1>2. CASE DirPlan
    <2>1. pc = "dir.plan" /\ Quiet
      BY <1>2, GoesOn DEF DirPlan
    <2>2. CASE dirs[Place] \in {"host", "final"}
      <3>1. Goto(AfterDir) /\ UNCHANGED mem
        BY <1>2, <2>2 DEF DirPlan
      <3>2. Place' = Place /\ Place \in Nat
        BY <1>0, <3>1, StateHas DEF Place, Typed
      <3>3. AfterDir \in Sites /\ (AfterDir \in MountSites => Place > 0)
        BY <3>2 DEF AfterDir, Sites, BodySites, MountSites
      <3>4. pc' = AfterDir /\ io' = "idle"
        BY <3>1 DEF Goto
      <3> QED  BY <1>0, <2>1, <3>1, <3>2, <3>3, <3>4, QuietTyped
    <2>3. CASE dirs[Place] \notin {"host", "final"}
      <3>1. PutDirStage("planned") /\ Save("dir.make")
        BY <1>2, <2>3 DEF DirPlan
      <3>2. Typed(mem')
        BY <3>1, PutDirIs DEF DirStages
      <3>3. "dir.make" \in Sites \ MountSites
        BY DEF Sites, DirSites, MountSites
      <3> QED  BY <2>1, <3>1, <3>2, <3>3, GoesOn, QuietTyped
    <2> QED  BY <2>2, <2>3
  <1>3. CASE DirMake
    <2>1. pc = "dir.make" /\ MoveDir("private") /\ Goto("dir.mode")
      BY <1>3, GoesOn DEF DirMake
    <2>2. "dir.mode" \in Sites \ MountSites
      BY DEF Sites, DirSites, MountSites
    <2> QED  BY <2>1, <2>2, GoesOn, MoveDirTyped, StepTyped
  <1>4. CASE DirMode
    <2>1. pc = "dir.mode" /\ MoveDir("staging") /\ Goto("dir.staged")
      BY <1>4, GoesOn DEF DirMode
    <2>2. "dir.staged" \in Sites \ MountSites
      BY DEF Sites, DirSites, MountSites
    <2> QED  BY <2>1, <2>2, GoesOn, MoveDirTyped, StepTyped
  <1>5. CASE DirStaged
    <2>1. pc = "dir.staged" /\ PutDirStage("staged") /\ Save("dir.rename") /\ Quiet
      BY <1>5, GoesOn DEF DirStaged
    <2>2. "dir.rename" \in Sites \ MountSites /\ "staged" \in DirStages
      BY DEF Sites, DirSites, MountSites, DirStages
    <2> QED  BY <2>1, <2>2, GoesOn, PutDirIs, QuietTyped
  <1>6. CASE DirRename
    <2>1. pc = "dir.rename" /\ PutDirStage("rename-planned") /\ Save("dir.move") /\ Quiet
      BY <1>6, GoesOn DEF DirRename
    <2>2. "dir.move" \in Sites \ MountSites /\ "rename-planned" \in DirStages
      BY DEF Sites, DirSites, MountSites, DirStages
    <2> QED  BY <2>1, <2>2, GoesOn, PutDirIs, QuietTyped
  <1>7. CASE DirMove
    <2>1. pc = "dir.move" /\ MoveDir("final") /\ Goto("dir.done")
      BY <1>7, GoesOn DEF DirMove
    <2>2. "dir.done" \in Sites \ MountSites
      BY DEF Sites, DirSites, MountSites
    <2> QED  BY <2>1, <2>2, GoesOn, MoveDirTyped, StepTyped
  <1>8. CASE DirDone
    <2>1. pc = "dir.done" /\ PutDir([stage |-> "created", renamed |-> TRUE]) /\ Save(AfterDir) /\ Quiet
      BY <1>8, GoesOn DEF DirDone
    <2>2. [stage |-> "created", renamed |-> TRUE] \in [stage : DirStages, renamed : BOOLEAN]
      BY DEF DirStages
    <2>3. Typed(mem') /\ mem'.mounts = mem.mounts
      BY <2>1, <2>2, PutDirIs
    <2>4. Place' = Place /\ Place \in Nat
      BY <1>0, <2>3, StateHas DEF Place, Typed
    <2>5. AfterDir \in Sites /\ (AfterDir \in MountSites => Place > 0)
      BY <2>4 DEF AfterDir, Sites, BodySites, MountSites
    <2>6. pc' = AfterDir /\ io' = "write"
      BY <2>1 DEF Save
    <2> QED  BY <2>1, <2>3, <2>4, <2>5, <2>6, QuietTyped
  <1> QED  BY <1>1, <1>2, <1>3, <1>4, <1>5, <1>6, <1>7, <1>8 DEF EnsureDirectory

LEMMA StageFileTyped ==
  ASSUME TypeInv, StageFile
  PROVE  TypeInv'
  <1>0. /\ Typed(mem)
        /\ {"planned", "writing", "active"} \subseteq ArtStages
        /\ {"stage.create", "stage.record", "stage.copy", "stage.rest", "x.query"} \subseteq Sites \ MountSites
    BY MemTyped DEF ArtStages, Sites, BodySites, MountSites
  <1>1. CASE StagePlan
    BY <1>0, <1>1, GoesOn, PutFields, QuietTyped DEF StagePlan, PutArt
  <1>2. CASE StageCreate
    <2>1. pc = "stage.create" /\ PutFile("empty") /\ Goto("stage.record") /\ mem' = mem
      BY <1>2, GoesOn DEF StageCreate
    <2> QED  BY <1>0, <2>1, GoesOn, PutFileTyped, StepTyped
  <1>3. CASE StageRecord
    BY <1>0, <1>3, GoesOn, PutFields, QuietTyped DEF StageRecord, PutArt
  <1>4. CASE StageCopy
    <2>1. pc = "stage.copy" /\ PutFile("partial") /\ Goto("stage.rest") /\ mem' = mem
      BY <1>4, GoesOn DEF StageCopy
    <2> QED  BY <1>0, <2>1, GoesOn, PutFileTyped, StepTyped
  <1>5. CASE StageRest
    <2>1. pc = "stage.rest" /\ PutFile("whole") /\ Save("x.query") /\ Typed(mem')
      BY <1>0, <1>5, GoesOn, PutFields DEF StageRest, PutArt
    <2> QED  BY <1>0, <2>1, GoesOn, PutFileTyped, StepTyped
  <1> QED  BY <1>1, <1>2, <1>3, <1>4, <1>5 DEF StageFile

\* What a command leaves.
LEMMA CommandTyped ==
  ASSUME TypeInv
  PROVE  /\ \A T : Command(table' = T, UNCHANGED table) =>
                  ok' \in BOOLEAN /\ BoundType' /\ table' \in {T, table}
         /\ \A v : Command(xs' = v, UNCHANGED xs) =>
                  ok' \in BOOLEAN /\ BoundType' /\ xs' \in {v, xs}
  <1>1. ASSUME NEW T, Command(table' = T, UNCHANGED table)
        PROVE  ok' \in BOOLEAN /\ BoundType' /\ table' \in {T, table}
    <2>1. ok' \in BOOLEAN
      BY <1>1, Zenon DEF Command
    <2>2. table' = T \/ table' = table
      BY <1>1, Zenon DEF Command
    <2>3. UNCHANGED bounds \/ (faults < MaxFaults /\ faults' = faults + 1 /\ UNCHANGED <<crashes, host>>)
      BY <1>1, Zenon DEF Command
    <2>4. BoundType'
      BY <2>3 DEF TypeInv, BoundType, bounds
    <2> QED  BY <2>1, <2>2, <2>4
  <1>2. ASSUME NEW v, Command(xs' = v, UNCHANGED xs)
        PROVE  ok' \in BOOLEAN /\ BoundType' /\ xs' \in {v, xs}
    <2>1. ok' \in BOOLEAN
      BY <1>2, Zenon DEF Command
    <2>2. xs' = v \/ xs' = xs
      BY <1>2, Zenon DEF Command
    <2>3. UNCHANGED bounds \/ (faults < MaxFaults /\ faults' = faults + 1 /\ UNCHANGED <<crashes, host>>)
      BY <1>2, Zenon DEF Command
    <2>4. BoundType'
      BY <2>3 DEF TypeInv, BoundType, bounds
    <2> QED  BY <2>1, <2>2, <2>4
  <1> QED  BY <1>1, <1>2

LEMMA GrantXTyped ==
  ASSUME TypeInv, GrantX
  PROVE  TypeInv'
  <1>0. Typed(mem) /\ {"x.mutate", "x.verify", "mount.plan", "abort"} \subseteq Sites \ MountSites
    BY MemTyped DEF Sites, BodySites, MountSites
  <1>1. CASE XQuery
    <2>1. pc = "x.query" /\ Quiet
      BY <1>1, GoesOn DEF XQuery
    <2>2. \E q \in [stage : XStages, before : {"none", "off", "absent", "present"}] :
            mem' = [mem EXCEPT !.x = q] /\ (Save("x.mutate") \/ Save("mount.plan"))
      <3>1. CASE xs = "absent"
        <4>1. [stage |-> "grant-planned", before |-> "absent"]
                \in [stage : XStages, before : {"none", "off", "absent", "present"}]
          BY DEF XStages
        <4> QED  BY <1>1, <3>1, <4>1 DEF XQuery
      <3>2. CASE xs # "absent"
        <4>1. [stage |-> "no-change", before |-> IF Local THEN "present" ELSE "off"]
                \in [stage : XStages, before : {"none", "off", "absent", "present"}]
          BY DEF XStages
        <4> QED  BY <1>1, <3>2, <4>1 DEF XQuery
      <3> QED  BY <3>1, <3>2
    <2>3. Typed(mem')
      BY <1>0, <2>2, PutXTyped
    <2> QED  BY <1>0, <2>1, <2>2, <2>3, GoesOn, QuietTyped
  <1>2. CASE XMutate
    <2>1. CASE Raise
      BY <2>1, RaiseTyped
    <2>2. CASE ~Raise
      <3>1. /\ Command(xs' = "granted", UNCHANGED xs) /\ Goto("x.verify") /\ pc = "x.mutate"
            /\ UNCHANGED <<table, dirs, file, store, mem, persisted, kind, after, todo, cur, snap, failed>>
        BY <1>2, <2>2, GoesOn DEF XMutate
      <3>2. ok' \in BOOLEAN /\ BoundType' /\ xs' \in {"granted", xs}
        BY <3>1, CommandTyped
      <3>3. DiskType'
        BY <3>1, <3>2 DEF TypeInv, DiskType
      <3>4. LoopType'
        BY <3>1, <3>2 DEF TypeInv, LoopType
      <3> QED  BY <1>0, <3>1, <3>2, <3>3, <3>4, GoesOn, StepTyped
    <2> QED  BY <2>1, <2>2
  <1>3. CASE XVerify
    <2>1. CASE Raise
      BY <2>1, RaiseTyped
    <2>2. CASE ~Raise
      <3>1. /\ PutX(IF Local THEN "owned" ELSE "failed") /\ ok' = TRUE /\ pc = "x.verify"
            /\ Save("mount.plan") \/ Save("abort")
            /\ UNCHANGED <<disk, store, persisted, kind, after, todo, cur, snap, failed, bounds>>
        BY <1>3, <2>2, GoesOn DEF XVerify
      <3>2. Typed(mem')
        <4>1. (IF Local THEN "owned" ELSE "failed") \in XStages
          BY DEF XStages
        <4> QED  BY <1>0, <3>1, <4>1, PutXTyped DEF PutX
      <3>3. ok' \in BOOLEAN
        BY <3>1, Zenon
      <3>4. LoopType' /\ BoundType'
        BY <3>1, <3>3 DEF TypeInv, LoopType, BoundType, bounds
      <3> QED  BY <1>0, <3>1, <3>2, <3>4, GoesOn, SameDisk, StepTyped
    <2> QED  BY <2>1, <2>2
  <1> QED  BY <1>1, <1>2, <1>3 DEF GrantX

\* What is mounted for a request.
LEMMA ScopeFin == TypeInv => \A r : Scope(r) \in FinMounts
  <1> SUFFICES ASSUME TypeInv, NEW r  PROVE Scope(r) \in FinMounts
    OBVIOUS
  <1>1. Scope(r) \subseteq table /\ table \in FinMounts
    BY DEF Scope, TypeInv, DiskType
  <1> QED  BY <1>1, FinSubset

\* The plan of the current request.
LEMMA CurrentTyped ==
  ASSUME TypeInv, Place > 0
  PROVE  /\ Place \in Requests /\ Place \in DOMAIN mem.mounts /\ Current \in PlanType
         /\ \A p \in PlanType : PutPlan(p) =>
              /\ Typed(mem') /\ mem'.mounts = [mem.mounts EXCEPT ![Place] = p]
              /\ Place' = Place
  <1>1. Typed(mem) /\ Place \in Nat /\ Place <= NumRequests /\ DOMAIN mem.mounts = 1..Place
        /\ \A i \in DOMAIN mem.mounts : mem.mounts[i] \in PlanType
    BY MemTyped, StateHas DEF Typed, Place
  <1>2. Place \in Requests /\ Place \in DOMAIN mem.mounts
    BY <1>1 DEF Requests
  <1>3. ASSUME NEW p \in PlanType, PutPlan(p)
        PROVE  /\ Typed(mem') /\ mem'.mounts = [mem.mounts EXCEPT ![Place] = p]
               /\ Place' = Place
    <2>1. Typed(mem') /\ mem'.mounts = [mem.mounts EXCEPT ![Place] = p]
      BY <1>1, <1>3, PutPlanTyped DEF PutPlan
    <2>2. mem'.mounts \in [1..Place -> PlanType]
      <3>1. mem.mounts \in [1..Place -> PlanType]
        BY <1>1, SeqIs, StateHas DEF Place, Typed
      <3> QED  BY <2>1, <3>1
    <2>3. Len(mem'.mounts) = Place
      BY <1>1, <2>2, SeqIs
    <2> QED  BY <2>1, <2>3 DEF Place
  <1> QED  BY <1>1, <1>2, <1>3 DEF Current

\* The plans that _acquire_mount writes after the command.
LEMMA PutStages ==
  ASSUME NEW p \in PlanType, NEW S \in FinMounts
  PROVE  /\ \A s \in PlanStages : [p EXCEPT !.stage = s] \in PlanType
         /\ \A s \in PlanStages : [p EXCEPT !.stage = s, !.seen = S] \in PlanType
         /\ \A s \in PlanStages : [[p EXCEPT !.seen = S] EXCEPT !.stage = s] \in PlanType
         /\ \A s \in PlanStages :
              [[p EXCEPT !.seen = S] EXCEPT !.stage = s, !.owned = [m \in S |-> "owned"]] \in PlanType
  <1>1. /\ \A s \in PlanStages : [p EXCEPT !.stage = s] \in PlanType
        /\ \A s \in PlanStages : [p EXCEPT !.stage = s, !.seen = S] \in PlanType
        /\ \A s \in PlanStages : [[p EXCEPT !.seen = S] EXCEPT !.stage = s] \in PlanType
    BY DEF PlanType
  <1> DEFINE f == [m \in S |-> "owned"]
  <1>2. f \in OwnedType
    <2>1. f \in [S -> OwnedStages]
      BY DEF OwnedStages
    <2> QED  BY <2>1, OwnedIs
  <1> HIDE DEF f
  <1>3. \A s \in PlanStages :
          [[p EXCEPT !.seen = S] EXCEPT !.stage = s, !.owned = f] \in PlanType
    BY <1>2 DEF PlanType
  <1> QED  BY <1>1, <1>3 DEF f

LEMMA AcquireMountTyped ==
  ASSUME TypeInv, AcquireMount
  PROVE  TypeInv'
  <1>0. /\ Typed(mem)
        /\ {"mount.plan", "dir.plan", "work", "abort"} \subseteq Sites \ MountSites
        /\ {"mount.run", "mount.after"} \subseteq Sites
    BY MemTyped DEF Sites, BodySites, DirSites, MountSites
  <1>p. {"planned", "already-present", "command-started", "ambiguous", "failed", "owned"} \subseteq PlanStages
    BY DEF PlanStages
  <1>1. CASE MountPlan
    <2>1. CASE Raise
      BY <2>1, RaiseTyped
    <2>2. CASE ~Raise
      <3>1. pc = "mount.plan" /\ Place < NumRequests /\ Quiet
        BY <1>1, <2>2, GoesOn DEF MountPlan
      <3>2. \E p \in PlanType :
              /\ mem' = [mem EXCEPT !.mounts = Append(@, p)]
              /\ Save("mount.plan") \/ Save("dir.plan")
        <4>1. Scope(Place + 1) \in FinMounts /\ {} \in FinMounts
          BY ScopeFin, FinEmpty
        <4>2. Plan("already-present", Scope(Place + 1), Scope(Place + 1)) \in PlanType
              /\ Plan("planned", {}, {}) \in PlanType
          BY <1>p, <4>1, PlanIs
        <4>3. \/ /\ mem' = [mem EXCEPT !.mounts =
                               Append(@, Plan("already-present", Scope(Place + 1), Scope(Place + 1)))]
                 /\ Save("mount.plan")
              \/ mem' = [mem EXCEPT !.mounts = Append(@, Plan("planned", {}, {}))] /\ Save("dir.plan")
          BY <1>1, <2>2, Zenon DEF MountPlan
        <4> QED  BY <4>2, <4>3
      <3>3. Typed(mem')
        BY <1>0, <3>1, <3>2, AppendTyped DEF Place
      <3> QED  BY <1>0, <3>1, <3>2, <3>3, GoesOn, QuietTyped
    <2> QED  BY <2>1, <2>2
  <1>2. CASE MountsDone
    <2>1. pc = "mount.plan" /\ Goto("work") /\ mem' = mem /\ Quiet
      BY <1>2, GoesOn DEF MountsDone
    <2> QED  BY <1>0, <2>1, GoesOn, QuietTyped
  <1>3. CASE MountCheck
    <2>1. pc = "mount.check" /\ Quiet
      BY <1>3, GoesOn DEF MountCheck
    <2>2. Place > 0
      BY <2>1 DEF TypeInv, ControlType, MountSites
    <2>3. \E p \in PlanType : PutPlan(p) /\ (Save("mount.run") \/ Save("abort"))
      <3>1. /\ [Current EXCEPT !.stage = "command-started"] \in PlanType
            /\ [Current EXCEPT !.stage = "ambiguous", !.seen = Scope(Place)] \in PlanType
        BY <1>p, <2>2, CurrentTyped, ScopeFin, PutStages
      <3> QED  BY <1>3, <3>1 DEF MountCheck
    <2>4. Typed(mem') /\ Place' > 0
      BY <2>2, <2>3, CurrentTyped
    <2> QED  BY <1>0, <2>1, <2>3, <2>4, GoesOn, QuietTyped
  <1>4. CASE MountRun
    <2>1. /\ pc = "mount.run" /\ Goto("mount.after")
          /\ Command(table' = table \cup Bound(Place), UNCHANGED table)
          /\ UNCHANGED <<dirs, file, xs, store, mem, persisted, kind, after, todo, cur, snap, failed>>
      BY <1>4, GoesOn DEF MountRun
    <2>2. Place > 0
      BY <2>1 DEF TypeInv, ControlType, MountSites
    <2>3. ok' \in BOOLEAN /\ BoundType' /\ table' \in {table \cup Bound(Place), table}
      BY <2>1, CommandTyped
    <2>4. table \cup Bound(Place) \in FinMounts /\ table \in FinMounts
      BY <2>2, CurrentTyped, BoundTyped, FinUnion DEF TypeInv, DiskType
    <2>5. DiskType'
      BY <2>1, <2>3, <2>4 DEF TypeInv, DiskType
    <2>6. LoopType'
      BY <2>1, <2>3 DEF TypeInv, LoopType
    <2>7. Place' = Place /\ Typed(mem')
      BY <1>0, <2>1 DEF Place
    <2> QED  BY <1>0, <2>1, <2>2, <2>3, <2>5, <2>6, <2>7, GoesOn, StepTyped
  <1>5. CASE MountAfter
    <2>1. /\ pc = "mount.after" /\ ok' = TRUE
          /\ UNCHANGED <<disk, store, persisted, kind, after, todo, cur, snap, failed, bounds>>
      BY <1>5, GoesOn DEF MountAfter
    <2>2. Place > 0
      BY <2>1 DEF TypeInv, ControlType, MountSites
    <2>3. \E p \in PlanType : PutPlan(p) /\ (Save("abort") \/ Save("mount.plan"))
      <3> DEFINE q == [Current EXCEPT !.seen = Scope(Place)]
      <3>1. /\ [q EXCEPT !.stage = "failed"] \in PlanType
            /\ [q EXCEPT !.stage = "ambiguous"] \in PlanType
            /\ [q EXCEPT !.stage = "owned", !.owned = [m \in Scope(Place) |-> "owned"]] \in PlanType
        BY <1>p, <2>2, CurrentTyped, ScopeFin, PutStages
      <3>2. \/ PutPlan([q EXCEPT !.stage = "failed"]) /\ Save("abort")
            \/ PutPlan([q EXCEPT !.stage = "ambiguous"]) /\ Save("abort")
            \/ /\ PutPlan([q EXCEPT !.stage = "owned", !.owned = [m \in Scope(Place) |-> "owned"]])
               /\ Save("mount.plan")
        <4> HIDE DEF q
        <4>1. CASE ~ok
          BY <1>5, <4>1, Zenon DEF MountAfter, q
        <4>2. CASE ok /\ ~Attributable(Place)
          BY <1>5, <4>2, Zenon DEF MountAfter, q
        <4>3. CASE ok /\ Attributable(Place)
          BY <1>5, <4>3, Zenon DEF MountAfter, q
        <4> QED  BY <4>1, <4>2, <4>3
      <3> HIDE DEF q
      <3> QED  BY <3>1, <3>2
    <2>4. Typed(mem')
      BY <2>2, <2>3, CurrentTyped
    <2>5. ok' \in BOOLEAN
      BY <2>1, Zenon
    <2>6. LoopType' /\ BoundType'
      BY <2>1, <2>5 DEF TypeInv, LoopType, BoundType, bounds
    <2> QED  BY <1>0, <2>1, <2>3, <2>4, <2>6, GoesOn, SameDisk, StepTyped
  <1> QED  BY <1>1, <1>2, <1>3, <1>4, <1>5 DEF AcquireMount

LEMMA WorkTyped ==
  ASSUME TypeInv, Work
  PROVE  TypeInv'
  <1>1. pc = "work" /\ Goto("clean.preflight") /\ mem' = mem
    BY GoesOn DEF Work
  <1>2. "clean.preflight" \in Sites \ MountSites
    BY DEF Sites, CleanSites, MountSites
  <1>3. CASE kind = "hook"
    <2>1. PutFile("none")
      BY <1>3 DEF Work
    <2> QED  BY <1>1, <1>2, <2>1, GoesOn, MemTyped, PutFileTyped, StepTyped
  <1>4. CASE kind # "hook"
    <2>1. Quiet
      BY <1>4 DEF Work
    <2> QED  BY <1>1, <1>2, <2>1, GoesOn, MemTyped, QuietTyped
  <1> QED  BY <1>3, <1>4

\* The cleanup.
LEMMA CleaningSites ==
  /\ CleanSites \cup MountCleanSites \subseteq Sites \ MountSites
  /\ {"clean.preflight", "clean.mark", "clean.file", "clean.unlink", "clean.dir",
      "clean.rmdir", "clean.x", "clean.xrun", "clean.xverify", "clean.final",
      "clean.remove", "clean.mount", "clean.umount", "clean.umounted", "body"} \subseteq Sites \ MountSites
  BY DEF Sites, EnterSites, CleanSites, MountCleanSites, MountSites

\* The end of a session, and the operations of its cleanup.
LEMMA ExitTyped ==
  ASSUME TypeInv, Exit, Typed(journal'), Typed(pending'), DiskType', BoundType'
  PROVE  TypeInv'
  <1>1. Typed(mem') /\ Typed(persisted')
    BY FreshTyped DEF Exit
  <1>2. ok' \in BOOLEAN /\ failed' \in BOOLEAN
    BY Zenon DEF Exit
  <1>3. /\ kind' = "none" /\ after' = "end" /\ todo' = {} /\ cur' = 0 /\ snap' = {}
        /\ pc' = "idle" /\ io' = "idle"
    BY Zenon DEF Exit, Goto
  <1>4. LoopType'
    BY <1>2, <1>3 DEF LoopType
  <1>5. ControlType'
    BY <1>3 DEF ControlType, Sites, MountSites
  <1> QED  BY <1>1, <1>4, <1>5 DEF TypeInv, RecordType

\* What a preflight does to the directories.
LEMMA NormalisedTyped ==
  ASSUME TypeInv, NEW j
  PROVE  Normalised(j) \in [Places -> {"host", "none", "private", "staging", "final"}]
  BY DEF Normalised, TypeInv, DiskType

LEMMA CleanPreflightTyped ==
  ASSUME TypeInv, CleanPreflight
  PROVE  TypeInv'
  <1>1. CASE PreflightOK(mem)
    <2>1. /\ mem' = Preflighted(mem) /\ dirs' = Normalised(mem) /\ pc = "clean.preflight"
          /\ Goto("clean.mark") \/ Save("clean.mark")
          /\ UNCHANGED <<table, file, xs, store, persisted, kind, after, loop, bounds>>
      BY <1>1, GoesOn DEF CleanPreflight
    <2>2. Typed(mem')
      <3>1. table \in FinMounts
        BY DEF TypeInv, DiskType
      <3> QED  BY <2>1, <3>1, MemTyped, PreflightedHas
    <2>3. DiskType'
      BY <2>1, NormalisedTyped DEF TypeInv, DiskType
    <2> QED  BY <2>1, <2>2, <2>3, CleaningSites, GoesOn, SameLoop, StepTyped
  <1>2. CASE ~PreflightOK(mem)
    <2>1. /\ dirs' = Normalised(mem) \/ dirs' = dirs
          /\ Exit /\ UNCHANGED <<table, file, xs, store, bounds>>
      BY <1>2 DEF CleanPreflight
    <2>2. DiskType'
      BY <2>1, NormalisedTyped DEF TypeInv, DiskType
    <2>3. Typed(journal') /\ Typed(pending') /\ BoundType'
      BY <2>1, MemTyped DEF store, bounds, TypeInv, BoundType
    <2> QED  BY <2>1, <2>2, <2>3, ExitTyped
  <1> QED  BY <1>1, <1>2

\* The stage of an owned mount is written.
LEMMA PutOwnedIs ==
  ASSUME TypeInv, NEW m, NEW s \in OwnedStages, PutOwned(m, s)
  PROVE  Typed(mem')
  BY MemTyped, PutOwnedTyped DEF PutOwned

\* A step of a loop over the resources.
LEMMA LoopTyped ==
  ASSUME TypeInv, pc # "idle", UNCHANGED <<store, persisted, kind, after, failed>>,
         DiskType', BoundType', todo' \subseteq Mount, cur' \in 0..(NumRequests + 1),
         snap' \subseteq Mount, ok' \in BOOLEAN, Typed(mem'),
         NEW s \in Sites \ MountSites, Goto(s) \/ Save(s)
  PROVE  TypeInv'
  <1>1. LoopType'
    <2>1. failed' \in BOOLEAN
      BY Zenon DEF TypeInv, LoopType
    <2> QED  BY <2>1 DEF TypeInv, LoopType
  <1> QED  BY <1>1, GoesOn, StepTyped

LEMMA CleanMarkTyped ==
  ASSUME TypeInv, CleanMark
  PROVE  TypeInv'
  <1>1. pc = "clean.mark"
    BY GoesOn DEF CleanMark
  <1>2. CASE mem.phase # "cleaning"
    <2>1. mem' = [mem EXCEPT !.phase = "cleaning"] /\ Save("clean.mark") /\ Quiet
      BY <1>2 DEF CleanMark
    <2>2. Typed(mem')
      BY <2>1, MemTyped, PutFields DEF Phases
    <2> QED  BY <1>1, <2>1, <2>2, CleaningSites, GoesOn, QuietTyped
  <1>3. CASE mem.phase = "cleaning"
    <2>1. /\ todo' = AllOwned(mem) /\ cur' = NumRequests + 1 /\ Goto("clean.mount")
          /\ UNCHANGED <<disk, store, mem, persisted, kind, after, snap, ok, failed, bounds>>
      BY <1>3 DEF CleanMark
    <2>2. todo' \subseteq Mount /\ cur' \in 0..(NumRequests + 1)
      <3>1. AllOwned(mem) \subseteq Mount
        BY MemTyped, AllOwnedFin, FinIs
      <3> QED  BY <2>1, <3>1
    <2>3. ok' \in BOOLEAN /\ failed' = failed
      BY <2>1, Zenon DEF TypeInv, LoopType
    <2>4. snap' \subseteq Mount /\ BoundType'
      BY <2>1 DEF TypeInv, LoopType, BoundType, bounds
    <2> QED  BY <1>1, <2>1, <2>2, <2>3, <2>4, CleaningSites, MemTyped, SameDisk, LoopTyped
  <1> QED  BY <1>2, <1>3

LEMMA CleanMountTyped ==
  ASSUME TypeInv, CleanMount \/ MountsCleaned
  PROVE  TypeInv'
  <1>0. {"removed", "unmounting"} \subseteq OwnedStages
    BY DEF OwnedStages
  <1>1. CASE MountsCleaned
    <2>1. pc = "clean.mount" /\ Goto("clean.file") /\ mem' = mem /\ Quiet
      BY <1>1, GoesOn DEF MountsCleaned
    <2> QED  BY <2>1, CleaningSites, GoesOn, MemTyped, QuietTyped
  <1>2. CASE CleanMount
    <2>0. pc = "clean.mount"
      BY <1>2, GoesOn DEF CleanMount
    <2>1. CASE /\ todo' = todo \ {Target} /\ Goto("clean.mount")
               /\ UNCHANGED <<disk, store, mem, persisted, kind, after, cur, snap, ok, failed, bounds>>
      <3>1. todo' \subseteq Mount /\ cur' \in 0..(NumRequests + 1) /\ snap' \subseteq Mount /\ BoundType'
        BY <2>1 DEF TypeInv, LoopType, BoundType, bounds
      <3>2. ok' \in BOOLEAN /\ failed' = failed
        BY <2>1, Zenon DEF TypeInv, LoopType
      <3> QED  BY <2>0, <2>1, <3>1, <3>2, CleaningSites, MemTyped, SameDisk, LoopTyped
    <2>2. CASE PutOwned(Target, "removed") /\ Save("clean.mount") /\ Quiet
      BY <1>0, <2>0, <2>2, CleaningSites, GoesOn, PutOwnedIs, QuietTyped
    <2>3. CASE PutOwned(Target, "unmounting") /\ Save("clean.umount") /\ Quiet
      BY <1>0, <2>0, <2>3, CleaningSites, GoesOn, PutOwnedIs, QuietTyped
    <2>4. CASE Raise
      BY <2>4, RaiseTyped
    <2> QED  BY <1>2, <2>1, <2>2, <2>3, <2>4, Zenon DEF CleanMount
  <1> QED  BY <1>1, <1>2

LEMMA CleanUmountTyped ==
  ASSUME TypeInv, CleanUmount \/ CleanUmounted
  PROVE  TypeInv'
  <1>1. CASE Raise
    BY <1>1, RaiseTyped
  <1>2. CASE CleanUmount /\ ~Raise
    <2>1. /\ pc = "clean.umount" /\ snap' = table /\ Goto("clean.umounted")
          /\ Command(table' = Unmounted(Target), UNCHANGED table)
          /\ UNCHANGED <<dirs, file, xs, store, mem, persisted, kind, after, todo, cur, failed>>
      BY <1>2, GoesOn DEF CleanUmount, Umount
    <2>2. ok' \in BOOLEAN /\ BoundType' /\ table' \in {Unmounted(Target), table}
      BY <2>1, CommandTyped
    <2>3. table \in FinMounts /\ table \subseteq Mount
      BY FinIs DEF TypeInv, DiskType
    <2>4. Unmounted(Target) \in FinMounts
      <3>1. Unmounted(Target) \subseteq table
        BY DEF Unmounted
      <3> QED  BY <2>3, <3>1, FinSubset
    <2>5. DiskType'
      BY <2>1, <2>2, <2>3, <2>4 DEF TypeInv, DiskType
    <2>6. todo' \subseteq Mount /\ cur' \in 0..(NumRequests + 1) /\ snap' \subseteq Mount
      BY <2>1, <2>3 DEF TypeInv, LoopType
    <2>7. Typed(mem')
      BY <2>1, MemTyped
    <2> QED  BY <2>1, <2>2, <2>5, <2>6, <2>7, CleaningSites, LoopTyped
  <1>3. CASE CleanUmounted /\ ~Raise
    <2>1. /\ pc = "clean.umounted" /\ PutOwned(Target, "removed") /\ Save("clean.mount") /\ snap' = {}
          /\ UNCHANGED <<disk, store, persisted, kind, after, todo, cur, ok, failed, bounds>>
      BY <1>3, GoesOn DEF CleanUmounted
    <2>2. Typed(mem')
      BY <2>1, PutOwnedIs DEF OwnedStages
    <2>3. ok' \in BOOLEAN /\ failed' = failed
      BY <2>1, Zenon DEF TypeInv, LoopType
    <2>4. todo' \subseteq Mount /\ cur' \in 0..(NumRequests + 1) /\ snap' \subseteq Mount /\ BoundType'
      BY <2>1 DEF TypeInv, LoopType, BoundType, bounds
    <2> QED  BY <2>1, <2>2, <2>3, <2>4, CleaningSites, SameDisk, LoopTyped
  <1> QED  BY <1>1, <1>2, <1>3

LEMMA CleanFileTyped ==
  ASSUME TypeInv, CleanFile \/ CleanUnlink
  PROVE  TypeInv'
  <1>0. {"removed", "removing"} \subseteq ArtStages
    BY DEF ArtStages
  <1>1. CASE CleanFile
    <2>1. pc = "clean.file" /\ Quiet
      BY <1>1, GoesOn DEF CleanFile
    <2>2. \/ Goto("clean.dir") /\ mem' = mem
          \/ PutArt("removed") /\ Save("clean.file")
          \/ PutArt("removing") /\ Save("clean.unlink")
      BY <1>1 DEF CleanFile
    <2>3. Typed(mem')
      BY <1>0, <2>2, MemTyped, PutFields DEF PutArt
    <2> QED  BY <2>1, <2>2, <2>3, CleaningSites, GoesOn, QuietTyped
  <1>2. CASE CleanUnlink
    <2>1. pc = "clean.unlink" /\ PutFile("none") /\ PutArt("removed") /\ Save("clean.file")
      BY <1>2, GoesOn DEF CleanUnlink
    <2>2. Typed(mem')
      BY <1>0, <2>1, MemTyped, PutFields DEF PutArt
    <2> QED  BY <2>1, <2>2, CleaningSites, GoesOn, PutFileTyped, StepTyped
  <1> QED  BY <1>1, <1>2

\* The stage of a directory is written.
LEMMA PutSlotIs ==
  ASSUME TypeInv
  PROVE  \A s \in DirStages : PutSlot(s) => Typed(mem')
  BY MemTyped, PutDirTyped DEF PutSlot

LEMMA CleanDirTyped ==
  ASSUME TypeInv, CleanDir \/ CleanDirSkip \/ DirsCleaned \/ CleanRmdir
  PROVE  TypeInv'
  <1>0. {"removed", "removing"} \subseteq DirStages
    BY DEF DirStages
  <1>1. CASE DirsCleaned
    <2>1. pc = "clean.dir" /\ Goto("clean.x") /\ mem' = mem /\ Quiet
      BY <1>1, GoesOn DEF DirsCleaned
    <2> QED  BY <2>1, CleaningSites, GoesOn, MemTyped, QuietTyped
  <1>2. CASE CleanDirSkip
    <2>1. /\ pc = "clean.dir" /\ cur > 0 /\ cur' = cur - 1 /\ Goto("clean.dir")
          /\ UNCHANGED <<disk, store, mem, persisted, kind, after, todo, snap, ok, failed, bounds>>
      BY <1>2, GoesOn DEF CleanDirSkip
    <2>2. todo' \subseteq Mount /\ cur' \in 0..(NumRequests + 1) /\ snap' \subseteq Mount /\ BoundType'
      BY <2>1 DEF TypeInv, LoopType, BoundType, bounds
    <2>3. ok' \in BOOLEAN /\ failed' = failed
      BY <2>1, Zenon DEF TypeInv, LoopType
    <2> QED  BY <2>1, <2>2, <2>3, CleaningSites, MemTyped, SameDisk, LoopTyped
  <1>3. CASE CleanDir
    <2>1. pc = "clean.dir" /\ Quiet
      BY <1>3, GoesOn DEF CleanDir
    <2>2. \/ PutSlot("removed") /\ Save("clean.dir")
          \/ PutSlot("removing") /\ Save("clean.rmdir")
      BY <1>3 DEF CleanDir
    <2>3. Typed(mem')
      BY <1>0, <2>2, PutSlotIs
    <2> QED  BY <2>1, <2>2, <2>3, CleaningSites, GoesOn, QuietTyped
  <1>4. CASE CleanRmdir
    <2>1. CASE Raise
      BY <2>1, RaiseTyped
    <2>2. CASE ~Raise
      <3>1. /\ pc = "clean.rmdir" /\ dirs' = [dirs EXCEPT ![Slot] = "none"]
            /\ PutSlot("removed") /\ Save("clean.dir")
            /\ UNCHANGED <<table, file, xs, store, persisted, kind, after, loop, bounds>>
        BY <1>4, <2>2, GoesOn DEF CleanRmdir
      <3>2. Typed(mem')
        BY <1>0, <3>1, PutSlotIs
      <3>3. DiskType'
        BY <3>1 DEF TypeInv, DiskType
      <3> QED  BY <3>1, <3>2, <3>3, CleaningSites, GoesOn, SameLoop, StepTyped
    <2> QED  BY <2>1, <2>2
  <1> QED  BY <1>1, <1>2, <1>3, <1>4

LEMMA CleanXTyped ==
  ASSUME TypeInv, CleanX \/ CleanXRun \/ CleanXVerify
  PROVE  TypeInv'
  <1>0. {"revoking", "restored"} \subseteq XStages
    BY DEF XStages
  <1>r. CASE Raise
    BY <1>r, RaiseTyped
  <1>1. CASE CleanX
    <2>1. pc = "clean.x" /\ Quiet
      BY <1>1, GoesOn DEF CleanX
    <2>2. \/ PutX("revoking") /\ Save("clean.xrun")
          \/ mem' = mem /\ (Goto("clean.xrun") \/ Goto("clean.final"))
      BY <1>1 DEF CleanX
    <2>3. Typed(mem')
      BY <1>0, <2>2, MemTyped, PutXTyped DEF PutX
    <2> QED  BY <2>1, <2>2, <2>3, CleaningSites, GoesOn, QuietTyped
  <1>2. CASE CleanXRun /\ ~Raise
    <2>1. /\ pc = "clean.xrun" /\ Command(xs' = "absent", UNCHANGED xs) /\ Goto("clean.xverify")
          /\ UNCHANGED <<table, dirs, file, store, mem, persisted, kind, after, todo, cur, snap, failed>>
      BY <1>2, GoesOn DEF CleanXRun
    <2>2. ok' \in BOOLEAN /\ BoundType' /\ xs' \in {"absent", xs}
      BY <2>1, CommandTyped
    <2>3. DiskType'
      BY <2>1, <2>2 DEF TypeInv, DiskType
    <2>4. todo' \subseteq Mount /\ cur' \in 0..(NumRequests + 1) /\ snap' \subseteq Mount
      BY <2>1 DEF TypeInv, LoopType
    <2> QED  BY <2>1, <2>2, <2>3, <2>4, CleaningSites, MemTyped, LoopTyped
  <1>3. CASE CleanXVerify /\ ~Raise
    <2>1. pc = "clean.xverify" /\ PutX("restored") /\ Save("clean.x") /\ Quiet
      BY <1>3, GoesOn DEF CleanXVerify
    <2>2. Typed(mem')
      BY <1>0, <2>1, MemTyped, PutXTyped DEF PutX
    <2> QED  BY <2>1, <2>2, CleaningSites, GoesOn, QuietTyped
  <1> QED  BY <1>r, <1>1, <1>2, <1>3

LEMMA CleanFinalTyped ==
  ASSUME TypeInv, CleanFinal \/ RemoveJournal
  PROVE  TypeInv'
  <1>0. Typed(NoJournal) /\ Typed(Fresh)
    BY FreshTyped
  <1>1. CASE CleanFinal
    <2>1. CASE Exit /\ UNCHANGED <<disk, store, bounds>>
      <3>1. Typed(journal') /\ Typed(pending') /\ BoundType'
        BY <2>1, MemTyped DEF store, bounds, TypeInv, BoundType
      <3> QED  BY <2>1, <3>1, SameDisk, ExitTyped
    <2>2. CASE mem' = [mem EXCEPT !.phase = "complete"] /\ Save("clean.remove") /\ Quiet
      <3>1. Typed(mem')
        BY <2>2, MemTyped, PutFields DEF Phases
      <3>2. pc = "clean.final"
        BY <1>1, GoesOn DEF CleanFinal
      <3> QED  BY <2>2, <3>1, <3>2, CleaningSites, GoesOn, QuietTyped
    <2> QED  BY <1>1, <2>1, <2>2 DEF CleanFinal
  <1>2. CASE RemoveJournal
    <2>1. /\ pc = "clean.remove" /\ journal' = NoJournal /\ UNCHANGED <<disk, pending, bounds>>
      BY <1>2, GoesOn DEF RemoveJournal
    <2>2. Typed(journal') /\ Typed(pending') /\ BoundType' /\ DiskType'
      BY <1>0, <2>1, MemTyped, SameDisk DEF bounds, TypeInv, BoundType
    <2>3. CASE after = "end"
      <3>1. Exit
        BY <1>2, <2>3 DEF RemoveJournal
      <3> QED  BY <2>2, <3>1, ExitTyped
    <2>4. CASE after # "end"
      <3>1. /\ mem' = Fresh /\ persisted' = NoJournal /\ Save("body") /\ after' = "end"
            /\ UNCHANGED <<kind, loop>>
        BY <1>2, <2>4 DEF RemoveJournal
      <3>2. LoopType'
        <4>1. UNCHANGED <<todo, cur, snap, ok, failed>>
          BY <3>1 DEF loop
        <4>2. ok' \in BOOLEAN /\ failed' \in BOOLEAN
          BY <4>1, Zenon DEF TypeInv, LoopType
        <4> QED  BY <3>1, <4>1, <4>2 DEF TypeInv, LoopType
      <3>3. ControlType'
        <4>1. pc' \in Sites \ MountSites /\ io' \in {"idle", "write"}
          BY <3>1, CleaningSites, GoesOn
        <4>2. kind' \in Kinds
          BY <2>1, <3>1 DEF TypeInv, ControlType
        <4> QED  BY <4>1, <4>2 DEF ControlType
      <3> QED  BY <1>0, <2>2, <3>1, <3>2, <3>3 DEF TypeInv, RecordType
    <2> QED  BY <2>3, <2>4
  <1> QED  BY <1>1, <1>2

\* The journal, failures, and the rest of the host.
LEMMA PersistTyped ==
  ASSUME TypeInv, WritePending \/ ReplaceJournal
  PROVE  TypeInv'
  <1>1. CASE Raise
    BY <1>1, RaiseTyped
  <1>2. CASE WritePending /\ ~Raise
    <2>1. /\ pending' = mem /\ io' = "replace"
          /\ UNCHANGED <<disk, journal, mem, persisted, pc, kind, after, loop, bounds>>
      BY <1>2 DEF WritePending
    <2>2. RecordType'
      BY <2>1, MemTyped DEF RecordType
    <2>3. ControlType'
      BY <2>1 DEF TypeInv, ControlType, Place
    <2> QED  BY <2>1, <2>2, <2>3, SameLoop, SameDisk DEF TypeInv
  <1>3. CASE ReplaceJournal
    <2>1. /\ journal' = pending /\ pending' = NoJournal /\ persisted' = mem /\ io' = "idle"
          /\ UNCHANGED <<disk, mem, pc, kind, after, loop, bounds>>
      BY <1>3 DEF ReplaceJournal
    <2>2. RecordType'
      BY <2>1, MemTyped, FreshTyped DEF RecordType
    <2>3. ControlType'
      BY <2>1 DEF TypeInv, ControlType, Place
    <2> QED  BY <2>1, <2>2, <2>3, SameLoop, SameDisk DEF TypeInv
  <1> QED  BY <1>1, <1>2, <1>3

\* Failures, deaths and the rest of the host keep the types.
LEMMA FaultTyped ==
  ASSUME TypeInv, Fault
  PROVE  TypeInv'
  <1>1. /\ RaiseFrom(pc) /\ UNCHANGED disk /\ journal' \in {journal, pending}
        /\ pending' \in {pending, Torn, NoJournal}
    BY DEF Fault, store
  <1>2. BoundType'
    BY DEF Fault, TypeInv, BoundType
  <1>3. Typed(journal') /\ Typed(pending')
    BY <1>1, MemTyped, FreshTyped
  <1> QED  BY <1>1, <1>2, <1>3, RaiseFromTyped

LEMMA CrashTyped ==
  ASSUME TypeInv, Crash
  PROVE  TypeInv'
  <1>1. Exit /\ UNCHANGED disk /\ journal' = journal /\ pending' \in {pending, Torn}
    BY DEF Crash
  <1>2. BoundType'
    BY DEF Crash, TypeInv, BoundType
  <1>3. Typed(journal') /\ Typed(pending')
    BY <1>1, MemTyped, FreshTyped
  <1> QED  BY <1>1, <1>2, <1>3, SameDisk, ExitTyped

LEMMA HostTyped ==
  ASSUME TypeInv, Host
  PROVE  TypeInv'
  <1>1. /\ host < MaxHost /\ host' = host + 1
        /\ UNCHANGED <<dirs, file, store, mem, persisted, pc, io, kind, after, loop, crashes, faults>>
    BY DEF Host
  <1>2. BoundType'
    BY <1>1 DEF TypeInv, BoundType
  <1>3. table' \in FinMounts /\ xs' \in {"off", "absent", "present", "granted"}
    <2>0. table \in FinMounts /\ xs \in {"off", "absent", "present", "granted"}
      BY DEF TypeInv, DiskType
    <2>1. CASE \E r \in Requests, a \in {"root", "sub"}, like \in BOOLEAN : HostMounts(r, a, like)
      <3>1. PICK r \in Requests, a \in {"root", "sub"}, like \in BOOLEAN : HostMounts(r, a, like)
        BY <2>1
      <3>2. table' = table \cup {NewMount(NewId, r, a, "host", like)} /\ xs' = xs
        BY <3>1 DEF HostMounts
      <3>3. {NewMount(NewId, r, a, "host", like)} \in FinMounts
        BY NewMountTyped, FinSingle
      <3> QED  BY <2>0, <3>2, <3>3, FinUnion
    <2>2. CASE \E m \in table : HostUnmounts(m)
      <3>1. table' \subseteq table /\ xs' = xs
        BY <2>2 DEF HostUnmounts
      <3> QED  BY <2>0, <3>1, FinSubset
    <2>3. CASE \E s \in {"off", "absent", "present"} : HostX(s)
      BY <2>0, <2>3 DEF HostX
    <2> QED  BY <2>1, <2>2, <2>3 DEF Host
  <1>4. DiskType'
    BY <1>1, <1>3 DEF TypeInv, DiskType
  <1>5. RecordType'
    BY <1>1, MemTyped DEF RecordType, store
  <1>6. LoopType'
    <2>1. UNCHANGED <<todo, cur, snap, ok, failed>>
      BY <1>1 DEF loop
    <2>2. ok' \in BOOLEAN /\ failed' \in BOOLEAN
      BY <2>1, Zenon DEF TypeInv, LoopType
    <2> QED  BY <1>1, <2>1, <2>2 DEF TypeInv, LoopType
  <1>7. ControlType'
    BY <1>1 DEF TypeInv, ControlType, Place
  <1> QED  BY <1>2, <1>4, <1>5, <1>6, <1>7 DEF TypeInv

\* The types hold at the beginning, and every step keeps them.
LEMMA TypeInitially == Init => TypeInv
  <1> SUFFICES ASSUME Init  PROVE TypeInv
    OBVIOUS
  <1>1. DiskType
    BY FinEmpty DEF Init, DiskType
  <1>2. RecordType
    BY FreshTyped DEF Init, RecordType
  <1>3. LoopType
    <2>1. ok \in BOOLEAN /\ failed \in BOOLEAN
      BY Zenon DEF Init
    <2> QED  BY <2>1 DEF Init, LoopType
  <1>4. BoundType /\ ControlType
    BY DEF Init, BoundType, ControlType, Sites, MountSites
  <1> QED  BY <1>1, <1>2, <1>3, <1>4 DEF TypeInv

LEMMA TypeInductive == TypeInv /\ [Next]_vars => TypeInv'
  <1> SUFFICES ASSUME TypeInv, [Next]_vars  PROVE TypeInv'
    OBVIOUS
  <1>1. CASE UNCHANGED vars
    <2>1. UNCHANGED <<disk, store, mem, persisted, pc, io, kind, after, loop, bounds>>
      BY <1>1 DEF vars
    <2>2. RecordType' /\ ControlType'
      BY <2>1 DEF TypeInv, RecordType, ControlType, store, Place
    <2> QED  BY <2>1, <2>2, SameLoop, SameDisk DEF TypeInv
  <1>2. CASE Cleanup
    BY <1>2, CleanPreflightTyped, CleanMarkTyped, CleanMountTyped, CleanUmountTyped, CleanFileTyped,
       CleanDirTyped, CleanXTyped, CleanFinalTyped DEF Cleanup
  <1>3. CASE Step /\ ~Cleanup
    BY <1>3, EnterTyped, EnsureDirectoryTyped, StageFileTyped, GrantXTyped, AcquireMountTyped,
       WorkTyped, PersistTyped DEF Step
  <1>4. CASE \E k \in Kinds : Start(k)
    BY <1>4, EnterTyped
  <1> QED  BY <1>1, <1>2, <1>3, <1>4, FaultTyped, CrashTyped, HostTyped DEF Next

LEMMA TypeAlways == Spec => []TypeInv
  BY TypeInitially, TypeInductive, PTL DEF Spec

\* The finite types imply the types.
LEMMA TypeInvTypes == TypeInv => TypeOK
  <1> SUFFICES ASSUME TypeInv  PROVE TypeOK
    OBVIOUS
  <1>1. /\ table \subseteq Mount /\ todo \subseteq Mount /\ snap \subseteq Mount
        /\ dirs \in [Places -> {"host", "none", "private", "staging", "final"}]
        /\ file \in {"none", "empty", "partial", "whole"}
        /\ xs \in {"off", "absent", "present", "granted"}
    BY FinIs DEF TypeInv, DiskType, LoopType
  <1>2. ASSUME NEW j \in {journal, pending, mem, persisted}
        PROVE  /\ j.phase \in {"none", "torn", "active", "cleaning", "complete"}
               /\ Len(j.mounts) <= NumRequests
               /\ \A i \in DOMAIN j.mounts :
                    /\ j.mounts[i].stage \in PlanStages
                    /\ j.mounts[i].before \cup j.mounts[i].seen \cup j.mounts[i].inferred \subseteq Mount
                    /\ Owned(j.mounts[i]) \subseteq Mount
                    /\ \A m \in Owned(j.mounts[i]) :
                         j.mounts[i].owned[m] \in {"owned", "unmounting", "removed"}
               /\ j.dirs \in [Places -> [stage : DirStages, renamed : BOOLEAN]]
               /\ j.art \in ArtStages
               /\ j.x \in [stage : XStages, before : {"none", "off", "absent", "present"}]
    <2>1. j \in StateType /\ Len(j.mounts) <= NumRequests
      BY MemTyped DEF Typed
    <2>2. ASSUME NEW i \in DOMAIN j.mounts
          PROVE  /\ j.mounts[i].stage \in PlanStages
                 /\ j.mounts[i].before \cup j.mounts[i].seen \cup j.mounts[i].inferred \subseteq Mount
                 /\ Owned(j.mounts[i]) \subseteq Mount
                 /\ \A m \in Owned(j.mounts[i]) :
                      j.mounts[i].owned[m] \in {"owned", "unmounting", "removed"}
      <3>1. j.mounts[i] \in PlanType
        BY <2>1, StateHas
      <3> QED  BY <3>1, PlanHas, FinIs DEF OwnedStages
    <2> QED  BY <2>1, <2>2, StateHas DEF Phases
  <1>3. pc \in Sites /\ io \in {"idle", "write", "replace"}
    BY DEF TypeInv, ControlType
  <1>4. kind \in Kinds \cup {"none"} /\ after \in {"end", "fresh"} /\ cur \in 0..(NumRequests + 1)
    BY DEF TypeInv, LoopType
  <1>5. {ok, failed} \subseteq BOOLEAN
    BY Zenon DEF TypeInv, LoopType
  <1>6. crashes \in 0..MaxCrashes /\ faults \in 0..MaxFaults /\ host \in 0..MaxHost
    BY DEF TypeInv, BoundType
  <1> QED  BY <1>1, <1>2, <1>3, <1>4, <1>5, <1>6, Zenon DEF TypeOK

\* Every variable keeps its type.
THEOREM MountTypeCorrect == Spec => []TypeOK
  BY TypeAlways, TypeInvTypes, PTL

--------------------------------------------------------------------------------
(***************************************************************************)
(* What a session has made is named.                                       *)
(***************************************************************************)

Making   == {"dir.make", "dir.mode", "dir.staged", "dir.rename", "dir.move", "dir.done"}
Staging  == {"stage.create", "stage.record", "stage.copy", "stage.rest"}
XOpen    == {"body", "stage.dir", "stage.plan", "x.query"} \cup Staging
Opened   == {"body"} \cup BodySites \cup DirSites
Settling == MountCleanSites \cup (CleanSites \ {"clean.preflight", "clean.remove"})
Loaded   == Opened \cup Settling \cup {"clean.preflight", "clean.remove"}

\* What the disk holds of a session's, and where a record says so.
Gone == {"none", "removed"}
Claims(T, ms) == \A m \in T : m.by = "session" => m.req \in DOMAIN ms /\ m \in Live(ms[m.req])
NamesMounts(T, ms) ==
  \A m \in T : m.by = "session" =>
    /\ m.req \in DOMAIN ms
    /\ ms[m.req].stage \in {"command-started", "failed", "ambiguous"} \/ m \in Live(ms[m.req])
NamesDirs(D, ds) == \A k \in Missing : D[k] # "none" => ds[k].stage \notin Gone
NamesFile(f, a)  == f # "none" => a \notin Gone
NamesX(v, q)     == v = "granted" => q.stage \in {"grant-planned", "owned", "revoking"}
NamesIn(T, D, f, v, j) ==
  NamesMounts(T, j.mounts) /\ NamesDirs(D, j.dirs) /\ NamesFile(f, j.art) /\ NamesX(v, j.x)
Names(j) == NamesIn(table, dirs, file, xs, j)

\* Whichever record is read next names all that is there.
StoreInv == Names(journal) /\ (Whole(pending) \/ io = "replace" => Names(pending))
\* So does the session's own.  Past the preflight it names a mount by its identity.
MemInv ==
  /\ pc \in Loaded => Names(mem)
  /\ pc \in Settling => Claims(table, mem.mounts)
  /\ pc = "clean.remove" => Names(NoJournal)

\* Before its own request a session has seen only mounts of the host.
HostBefore(ms) == \A i \in DOMAIN ms : \A m \in ms[i].before : m.by = "host"
BeforeInv == HostBefore(journal.mounts) /\ HostBefore(pending.mounts) /\ HostBefore(mem.mounts)

\* In the body a session has written what it knows before it acts.
SyncInv ==
  /\ pc \in Opened => /\ persisted = journal
                      /\ io = "idle" => mem = journal
                      /\ io # "replace" => pending = NoJournal
                      /\ io = "replace" => pending = mem
  /\ pc = "enter.load" => pending = NoJournal

\* What the record says at the places that make something.
SiteInv ==
  /\ pc \in Making => mem.dirs[Place].stage \in {"planned", "staged", "rename-planned"}
  /\ pc \in Staging => mem.art \in {"planned", "writing"}
  /\ pc = "mount.run" => Current.stage = "command-started"
  /\ pc \in XOpen \/ (pc \in DirSites /\ Place = 0) => mem.x.stage = "unexamined"
  /\ pc = "x.mutate" => mem.x.stage = "grant-planned"
  /\ io # "idle" => pc \in Loaded

NamedInv == StoreInv /\ MemInv /\ BeforeInv /\ SyncInv /\ SiteInv

\* What is there becomes no more.
Shrinks == /\ \A m \in table' : m.by = "session" => m \in table
           /\ \A k \in Missing : dirs'[k] # "none" => dirs[k] # "none"
           /\ file' # "none" => file # "none"
           /\ xs' = "granted" => xs = "granted"

\* Where no more is there, a record names it as well as before.
LEMMA ShrinkNames ==
  ASSUME Shrinks
  PROVE  /\ \A j : NamesIn(table, dirs, file, xs, j) => NamesIn(table', dirs', file', xs', j)
         /\ \A ms : Claims(table, ms) => Claims(table', ms)
  BY DEF Shrinks, NamesIn, NamesMounts, NamesDirs, NamesFile, NamesX, Claims

LEMMA SameShrinks == UNCHANGED disk => Shrinks
  BY DEF Shrinks, disk

\* The naming of a record in the next state, without its prime.
LEMMA PrimeNames ==
  /\ Names(journal)' <=> NamesIn(table', dirs', file', xs', journal')
  /\ Names(pending)' <=> NamesIn(table', dirs', file', xs', pending')
  /\ Names(mem)' <=> NamesIn(table', dirs', file', xs', mem')
  /\ Names(NoJournal)' <=> NamesIn(table', dirs', file', xs', NoJournal)
  BY DEF Names, NoJournal, State, NoDir

\* The journals are left alone and nothing is made.
LEMMA StoreKept ==
  ASSUME StoreInv, Shrinks, UNCHANGED store, io' # "replace"
  PROVE  StoreInv'
  <1>1. journal' = journal /\ pending' = pending
    BY DEF store
  <1>2. Names(journal)'
    BY <1>1, ShrinkNames, PrimeNames DEF StoreInv, Names
  <1>3. Whole(pending) => Names(pending)'
    BY <1>1, ShrinkNames, PrimeNames DEF StoreInv, Names
  <1>4. Whole(pending)' <=> Whole(pending)
    BY <1>1 DEF Whole, NoJournal, Torn, State, NoDir
  <1> QED  BY <1>2, <1>3, <1>4 DEF StoreInv

\* The record is left alone and nothing is made.
LEMMA MemKept ==
  ASSUME MemInv, Shrinks, mem' = mem, pc \in Loaded, pc' \in Loaded,
         pc' \in Settling => pc \in Settling, pc' # "clean.remove"
  PROVE  MemInv'
  <1>1. Names(mem)'
    BY ShrinkNames, PrimeNames DEF MemInv, Names
  <1>2. pc' \in Settling => Claims(table, mem.mounts)'
    BY ShrinkNames DEF MemInv
  <1> QED  BY <1>1, <1>2 DEF MemInv

\* In the body, what the record names the journal names too.
LEMMA BodyNamed ==
  ASSUME SyncInv, pc \in Opened, io = "idle", UNCHANGED store, io' # "replace",
         pc' \in Loaded \ (Settling \cup {"clean.remove"}),
         NamesIn(table', dirs', file', xs', mem), NamesIn(table', dirs', file', xs', mem')
  PROVE  StoreInv' /\ MemInv'
  <1>1. journal' = mem /\ pending' = NoJournal
    BY DEF SyncInv, store
  <1>2. ~Whole(pending')
    BY <1>1 DEF Whole
  <1>3. Names(journal)' /\ Names(mem)'
    BY <1>1, PrimeNames
  <1>4. Whole(pending)' <=> Whole(pending')
    BY DEF Whole, NoJournal, Torn, State, NoDir
  <1> QED  BY <1>2, <1>3, <1>4 DEF StoreInv, MemInv

\* A step of the body that writes the record, or leaves it alone, keeps it in step.
LEMMA SyncStep ==
  ASSUME SyncInv, pc \in Opened, io = "idle", UNCHANGED <<store, persisted>>,
         io' = "write" \/ (io' = "idle" /\ mem' = mem), pc' # "enter.load"
  PROVE  SyncInv'
  <1>1. journal' = journal /\ pending' = pending /\ persisted' = persisted
    BY DEF store
  <1>2. NoJournal' = NoJournal
    BY DEF NoJournal, State, NoDir
  <1> QED  BY <1>1, <1>2 DEF SyncInv

\* Outside the body nothing is made.
LEMMA OutOfBody ==
  ASSUME pc' \in MountCleanSites \cup CleanSites \cup {"idle"}, io' # "idle" => pc' # "idle"
  PROVE  SyncInv' /\ SiteInv'
  <1>1. pc' \notin Opened \cup {"enter.load"} \cup Making \cup Staging \cup XOpen \cup DirSites
                    \cup {"mount.run", "x.mutate"}
    BY DEF Opened, Making, Staging, XOpen, DirSites, BodySites, MountCleanSites, CleanSites
  <1>2. pc' # "idle" => pc' \in Loaded
    BY DEF Loaded, Settling
  <1> QED  BY <1>1, <1>2 DEF SyncInv, SiteInv

\* What was seen before a request stays seen.
LEMMA BeforeKept ==
  ASSUME BeforeInv, UNCHANGED store, HostBefore(mem'.mounts)
  PROVE  BeforeInv'
  <1>1. journal' = journal /\ pending' = pending
    BY DEF store
  <1> QED  BY <1>1 DEF BeforeInv, HostBefore

\* An exception leads out of the body, on in the cleanup, or out of the session.
LEMMA RaiseGoes ==
  ASSUME RaiseFrom(pc)
  PROVE  \/ Exit
         \/ /\ UNCHANGED <<mem, kind>> /\ io' = "idle"
            /\ \/ pc \in BodySites \cup DirSites /\ pc' = "clean.preflight"
               \/ pc \in Settling /\ pc' \in Settling
  <1>1. CASE pc \in BodySites \cup DirSites
    <2>1. Goto("clean.preflight") /\ UNCHANGED <<mem, persisted, kind, after, loop>>
      BY <1>1 DEF RaiseFrom, BodySites, DirSites, MountCleanSites
    <2> QED  BY <1>1, <2>1 DEF Goto
  <1>2. CASE pc \in MountCleanSites
    BY <1>2 DEF RaiseFrom, Goto, Settling, CleanSites, MountCleanSites, BodySites, DirSites
  <1>3. CASE pc \in {"clean.file", "clean.unlink", "clean.dir", "clean.rmdir",
                     "clean.x", "clean.xrun", "clean.xverify"}
    BY <1>3 DEF RaiseFrom, Goto, Settling, CleanSites, MountCleanSites, BodySites, DirSites
  <1>4. CASE pc \notin BodySites \cup DirSites \cup MountCleanSites
                \cup {"clean.file", "clean.unlink", "clean.dir", "clean.rmdir",
                      "clean.x", "clean.xrun", "clean.xverify"}
    BY <1>4 DEF RaiseFrom
  <1> QED  BY <1>1, <1>2, <1>3, <1>4

\* The end of a session forgets its record, and the journals still name everything.
LEMMA ExitNamed ==
  ASSUME BeforeInv, Exit, StoreInv', HostBefore(journal'.mounts), HostBefore(pending'.mounts)
  PROVE  NamedInv'
  <1>1. pc' = "idle" /\ io' = "idle" /\ mem' = NoJournal
    BY DEF Exit, Goto
  <1>2. MemInv'
    BY <1>1 DEF MemInv, Loaded, Opened, Settling, BodySites, DirSites, MountCleanSites, CleanSites
  <1>3. HostBefore(NoJournal.mounts)
    BY DEF HostBefore, NoJournal, State
  <1>4. BeforeInv'
    BY <1>1, <1>3 DEF BeforeInv, HostBefore
  <1> QED  BY <1>1, <1>2, <1>4, OutOfBody DEF NamedInv

\* So does an exception.
LEMMA RaiseFromNamed ==
  ASSUME NamedInv, RaiseFrom(pc), UNCHANGED disk, StoreInv',
         HostBefore(journal'.mounts), HostBefore(pending'.mounts)
  PROVE  NamedInv'
  <1>1. CASE Exit
    BY <1>1, ExitNamed DEF NamedInv
  <1>2. CASE ~Exit
    <2>1. /\ UNCHANGED <<mem, kind>> /\ io' = "idle"
          /\ \/ pc \in BodySites \cup DirSites /\ pc' = "clean.preflight"
             \/ pc \in Settling /\ pc' \in Settling
      BY <1>2, RaiseGoes
    <2>2. /\ pc \in Loaded /\ pc' \in Loaded /\ pc' # "clean.remove"
          /\ pc' \in Settling => pc \in Settling
          /\ pc' \in MountCleanSites \cup CleanSites
      BY <2>1 DEF Loaded, Opened, Settling, MountCleanSites, CleanSites
    <2>3. MemInv'
      BY <2>1, <2>2, MemKept, SameShrinks DEF NamedInv
    <2>4. BeforeInv'
      <3>1. HostBefore(mem'.mounts)
        BY <2>1 DEF NamedInv, BeforeInv
      <3> QED  BY <3>1 DEF BeforeInv, HostBefore
    <2> QED  BY <2>1, <2>2, <2>3, <2>4, OutOfBody DEF NamedInv
  <1> QED  BY <1>1, <1>2

LEMMA RaiseNamed ==
  ASSUME NamedInv, Raise
  PROVE  NamedInv'
  <1>1. RaiseFrom(pc) /\ UNCHANGED disk /\ UNCHANGED store
    BY DEF Raise
  <1>2. journal' = journal /\ pending' = pending
    BY <1>1 DEF store
  <1>3. io' # "replace"
    BY <1>1, RaiseIs
  <1>4. StoreInv'
    BY <1>1, <1>3, StoreKept, SameShrinks DEF NamedInv
  <1> QED  BY <1>1, <1>2, <1>4, RaiseFromNamed DEF NamedInv, BeforeInv

\* What is no journal has no plans.
LEMMA TornIs ==
  /\ ~Whole(Torn) /\ ~Whole(NoJournal) /\ NoJournal # Torn
  /\ HostBefore(Torn.mounts) /\ HostBefore(NoJournal.mounts) /\ HostBefore(Fresh.mounts)
  /\ \A j : NamesIn(table, dirs, file, xs, NoJournal) => NamesIn(table, dirs, file, xs, Fresh)
  <1>1. ~Whole(Torn) /\ ~Whole(NoJournal)
    BY DEF Whole
  <1>2. Torn.phase = "torn" /\ NoJournal.phase = "none"
    BY DEF Torn, NoJournal, State
  <1>3. /\ Torn.mounts = << >> /\ NoJournal.mounts = << >> /\ Fresh.mounts = << >>
        /\ Fresh.dirs = NoJournal.dirs /\ Fresh.art = NoJournal.art /\ Fresh.x = NoJournal.x
    BY DEF Torn, NoJournal, Fresh, State
  <1>4. HostBefore(<< >>)
    BY DEF HostBefore
  <1> QED  BY <1>1, <1>2, <1>3, <1>4 DEF NamesIn

LEMMA WholePrime == Whole(pending)' <=> Whole(pending')
  BY DEF Whole, NoJournal, Torn, State, NoDir

\* The journals after a failure or a death.
LEMMA CutOff ==
  ASSUME NamedInv, UNCHANGED disk, io' = "idle",
         \/ UNCHANGED store
         \/ pending' = Torn /\ journal' = journal
         \/ io = "replace" /\ journal' = pending /\ pending' = NoJournal
  PROVE  StoreInv' /\ HostBefore(journal'.mounts) /\ HostBefore(pending'.mounts)
  <1>0. \A j : Names(j) => NamesIn(table', dirs', file', xs', j)
    BY SameShrinks, ShrinkNames DEF Names
  <1>1. CASE UNCHANGED store
    <2>1. journal' = journal /\ pending' = pending
      BY <1>1 DEF store
    <2> QED  BY <1>1, <2>1, StoreKept, SameShrinks DEF NamedInv, BeforeInv
  <1>2. CASE pending' = Torn /\ journal' = journal
    BY <1>0, <1>2, TornIs, PrimeNames, WholePrime DEF NamedInv, BeforeInv, StoreInv
  <1>3. CASE io = "replace" /\ journal' = pending /\ pending' = NoJournal
    BY <1>0, <1>3, TornIs, PrimeNames, WholePrime DEF NamedInv, BeforeInv, StoreInv
  <1> QED  BY <1>1, <1>2, <1>3

\* Failed calls, deaths, the rest of the host and the journal write itself.
LEMMA FaultNamed ==
  ASSUME NamedInv, Fault
  PROVE  NamedInv'
  <1>1. /\ RaiseFrom(pc) /\ UNCHANGED disk
        /\ \/ UNCHANGED store
           \/ pending' = Torn /\ journal' = journal
           \/ io = "replace" /\ journal' = pending /\ pending' = NoJournal
    BY DEF Fault
  <1>2. io' = "idle"
    BY <1>1, RaiseIs
  <1> QED  BY <1>1, <1>2, CutOff, RaiseFromNamed

LEMMA CrashNamed ==
  ASSUME NamedInv, Crash
  PROVE  NamedInv'
  <1>1. /\ Exit /\ UNCHANGED disk /\ journal' = journal
        /\ pending' = pending \/ pending' = Torn
    BY DEF Crash
  <1>2. io' = "idle"
    BY <1>1 DEF Exit, Goto
  <1>3. UNCHANGED store \/ (pending' = Torn /\ journal' = journal)
    BY <1>1 DEF store
  <1> QED  BY <1>1, <1>2, <1>3, CutOff, ExitNamed DEF NamedInv

LEMMA HostNamed ==
  ASSUME NamedInv, Host
  PROVE  NamedInv'
  <1>1. UNCHANGED <<dirs, file, store, mem, persisted, pc, io, kind, after, loop, crashes, faults>>
    BY DEF Host
  <1>2. Shrinks
    <2>1. CASE \E r \in Requests, a \in {"root", "sub"}, like \in BOOLEAN : HostMounts(r, a, like)
      <3>1. PICK r \in Requests, a \in {"root", "sub"}, like \in BOOLEAN : HostMounts(r, a, like)
        BY <2>1
      <3>2. table' = table \cup {NewMount(NewId, r, a, "host", like)} /\ xs' = xs
        BY <3>1 DEF HostMounts
      <3>3. NewMount(NewId, r, a, "host", like).by = "host"
        BY DEF NewMount
      <3> QED  BY <1>1, <3>2, <3>3 DEF Shrinks
    <2>2. CASE \E m \in table : HostUnmounts(m)
      BY <1>1, <2>2 DEF HostUnmounts, Shrinks
    <2>3. CASE \E s \in {"off", "absent", "present"} : HostX(s)
      BY <1>1, <2>3 DEF HostX, Shrinks
    <2> QED  BY <2>1, <2>2, <2>3 DEF Host
  <1>3. /\ mem' = mem /\ pc' = pc /\ io' = io /\ persisted' = persisted
        /\ journal' = journal /\ pending' = pending
    BY <1>1 DEF store
  <1>4. StoreInv'
    BY <1>2, <1>3, ShrinkNames, PrimeNames, WholePrime DEF NamedInv, StoreInv, Names
  <1>5. MemInv'
    BY <1>2, <1>3, ShrinkNames, PrimeNames DEF NamedInv, MemInv, Names
  <1>6. BeforeInv' /\ SyncInv' /\ SiteInv'
    BY <1>3 DEF NamedInv, BeforeInv, HostBefore, SyncInv, SiteInv, Current, Place, NoJournal, State, NoDir
  <1> QED  BY <1>4, <1>5, <1>6 DEF NamedInv

LEMMA PersistNamed ==
  ASSUME NamedInv, WritePending \/ ReplaceJournal
  PROVE  NamedInv'
  <1>1. CASE Raise
    BY <1>1, RaiseNamed
  <1>2. CASE WritePending /\ ~Raise
    <2>1. /\ io = "write" /\ PersistOK /\ pending' = mem /\ io' = "replace"
          /\ UNCHANGED <<disk, journal, mem, persisted, pc, kind, after, loop, bounds>>
      BY <1>2 DEF WritePending
    <2>2. pc \in Loaded /\ Names(mem)
      BY <2>1 DEF NamedInv, SiteInv, MemInv
    <2>3. /\ \A j : NamesIn(table, dirs, file, xs, j) => NamesIn(table', dirs', file', xs', j)
          /\ \A ms : Claims(table, ms) => Claims(table', ms)
      BY <2>1, ShrinkNames, SameShrinks
    <2>4. StoreInv'
      BY <2>1, <2>2, <2>3, PrimeNames DEF NamedInv, StoreInv, Names
    <2>5. MemInv'
      BY <2>1, <2>3, PrimeNames DEF NamedInv, MemInv, Names
    <2>6. BeforeInv'
      BY <2>1 DEF NamedInv, BeforeInv, HostBefore
    <2>7. SyncInv'
      <3>1. pc' # "enter.load"
        BY <2>1, <2>2 DEF Loaded, Opened, Settling, BodySites, DirSites, MountCleanSites, CleanSites
      <3> QED  BY <2>1, <3>1 DEF NamedInv, SyncInv
    <2>8. SiteInv'
      BY <2>1, <2>2 DEF NamedInv, SiteInv, Current, Place
    <2> QED  BY <2>4, <2>5, <2>6, <2>7, <2>8 DEF NamedInv
  <1>3. CASE ReplaceJournal
    <2>1. /\ io = "replace" /\ journal' = pending /\ pending' = NoJournal /\ persisted' = mem
          /\ io' = "idle" /\ UNCHANGED <<disk, mem, pc, kind, after, loop, bounds>>
      BY <1>3 DEF ReplaceJournal
    <2>2. StoreInv' /\ HostBefore(journal'.mounts) /\ HostBefore(pending'.mounts)
      BY <2>1, CutOff
    <2>3. /\ \A j : NamesIn(table, dirs, file, xs, j) => NamesIn(table', dirs', file', xs', j)
          /\ \A ms : Claims(table, ms) => Claims(table', ms)
      BY <2>1, ShrinkNames, SameShrinks
    <2>4. MemInv'
      BY <2>1, <2>3, PrimeNames DEF NamedInv, MemInv, Names
    <2>5. BeforeInv'
      BY <2>1, <2>2 DEF NamedInv, BeforeInv, HostBefore
    <2>6. SyncInv'
      <3>1. NoJournal' = NoJournal
        BY DEF NoJournal, State, NoDir
      <3>2. pc \in Opened => pending = mem
        BY <2>1 DEF NamedInv, SyncInv
      <3> QED  BY <2>1, <3>1, <3>2 DEF SyncInv
    <2>7. SiteInv'
      BY <2>1 DEF NamedInv, SiteInv, Current, Place
    <2> QED  BY <2>2, <2>4, <2>5, <2>6, <2>7 DEF NamedInv
  <1> QED  BY <1>1, <1>2, <1>3

\* A session begins.
LEMMA StartNamed ==
  ASSUME NamedInv, NEW k \in Kinds, Start(k)
  PROVE  NamedInv'
  <1>1. /\ pc = "idle" /\ pc' = "enter.pending" /\ io' = io /\ mem' = mem
        /\ UNCHANGED disk /\ UNCHANGED store
    BY DEF Start
  <1>2. pc \notin Loaded /\ pc' \notin Loaded /\ pc' \notin Settling
    BY <1>1 DEF Loaded, Opened, Settling, BodySites, DirSites, MountCleanSites, CleanSites
  <1>3. io' = "idle"
    <2>1. io = "idle"
      BY <1>2 DEF NamedInv, SiteInv
    <2> QED  BY <1>1, <2>1
  <1>4. StoreInv'
    BY <1>1, <1>3, StoreKept, SameShrinks DEF NamedInv
  <1>5. MemInv'
    BY <1>1, <1>2 DEF MemInv
  <1>6. BeforeInv'
    <2>1. HostBefore(mem'.mounts)
      BY <1>1 DEF NamedInv, BeforeInv
    <2> QED  BY <1>1, <2>1, BeforeKept DEF NamedInv
  <1>7. SyncInv' /\ SiteInv'
    BY <1>1, <1>3 DEF SyncInv, SiteInv, Opened, Making, Staging, XOpen, BodySites, DirSites
  <1> QED  BY <1>4, <1>5, <1>6, <1>7 DEF NamedInv

\* A step in the body that makes nothing and names no less.
LEMMA RecordNamed ==
  ASSUME NamedInv, pc \in Opened, io = "idle", Quiet,
         io' = "write" \/ (io' = "idle" /\ mem' = mem),
         pc' \in Loaded \ (Settling \cup {"clean.remove"}),
         NamesIn(table, dirs, file, xs, mem'), HostBefore(mem'.mounts), SiteInv'
  PROVE  NamedInv'
  <1>1. UNCHANGED disk /\ UNCHANGED store /\ persisted' = persisted
    BY DEF Quiet
  <1>2. pc \in Loaded
    BY DEF Loaded
  <1>3. NamesIn(table', dirs', file', xs', mem) /\ NamesIn(table', dirs', file', xs', mem')
    BY <1>1, <1>2, ShrinkNames, SameShrinks DEF NamedInv, MemInv, Names
  <1>4. io' # "replace" /\ pc' # "enter.load"
    BY DEF Loaded, Opened, Settling, BodySites, DirSites, MountCleanSites, CleanSites
  <1>5. StoreInv' /\ MemInv'
    BY <1>1, <1>3, <1>4, BodyNamed DEF NamedInv
  <1>6. SyncInv'
    BY <1>1, <1>4, SyncStep DEF NamedInv
  <1>7. BeforeInv'
    BY <1>1, BeforeKept DEF NamedInv
  <1> QED  BY <1>5, <1>6, <1>7 DEF NamedInv

\* A step in the body that makes something the record names.
LEMMA MakingNamed ==
  ASSUME NamedInv, pc \in Opened, io = "idle", UNCHANGED <<store, persisted>>,
         io' = "write" \/ (io' = "idle" /\ mem' = mem),
         pc' \in Loaded \ (Settling \cup {"clean.remove"}),
         NamesIn(table', dirs', file', xs', mem), NamesIn(table', dirs', file', xs', mem'),
         HostBefore(mem'.mounts), SiteInv'
  PROVE  NamedInv'
  <1>1. UNCHANGED store /\ persisted' = persisted
    OBVIOUS
  <1>2. io' # "replace" /\ pc' # "enter.load"
    BY DEF Loaded, Opened, Settling, BodySites, DirSites, MountCleanSites, CleanSites
  <1>3. StoreInv' /\ MemInv'
    BY <1>1, <1>2, BodyNamed DEF NamedInv
  <1>4. SyncInv'
    BY <1>1, <1>2, SyncStep DEF NamedInv
  <1>5. BeforeInv'
    BY <1>1, BeforeKept DEF NamedInv
  <1> QED  BY <1>3, <1>4, <1>5 DEF NamedInv

\* A step of the cleanup: what it makes is less.
LEMMA CleaningNamed ==
  ASSUME NamedInv, Shrinks, UNCHANGED store, io' \in {"idle", "write"}, pc' \in Settling,
         NamesIn(table', dirs', file', xs', mem'), Claims(table', mem'.mounts),
         HostBefore(mem'.mounts)
  PROVE  NamedInv'
  <1>1. StoreInv'
    BY StoreKept DEF NamedInv
  <1>2. MemInv'
    <2>1. pc' # "clean.remove"
      BY DEF Settling, MountCleanSites
    <2> QED  BY <2>1, PrimeNames DEF MemInv
  <1>3. BeforeInv'
    BY BeforeKept DEF NamedInv
  <1>4. SyncInv' /\ SiteInv'
    <2>1. pc' \in MountCleanSites \cup CleanSites \cup {"idle"} /\ pc' # "idle"
      BY DEF Settling, MountCleanSites, CleanSites
    <2> QED  BY <2>1, OutOfBody
  <1> QED  BY <1>1, <1>2, <1>3, <1>4 DEF NamedInv

\* A session reads the journals: either the one that is there or the pending one.
LEMMA EnterNamed ==
  ASSUME TypeInv, NamedInv, Enter
  PROVE  NamedInv'
  <1>r. CASE Raise
    BY <1>r, RaiseNamed
  <1>1. CASE EnterReconcile /\ ~Raise
    <2>1. /\ pc = "enter.pending" /\ pc' = "enter.load" /\ io' = "idle" /\ mem' = mem
          /\ UNCHANGED disk
          /\ \/ pending = NoJournal /\ journal' = journal /\ pending' = pending
             \/ Whole(pending) /\ journal' = pending /\ pending' = NoJournal
      BY <1>1 DEF EnterReconcile, At, Goto, Quiet, store
    <2>2. /\ Names(journal) /\ (Whole(pending) => Names(pending))
          /\ HostBefore(journal.mounts) /\ HostBefore(pending.mounts) /\ HostBefore(mem.mounts)
      BY DEF NamedInv, StoreInv, BeforeInv
    <2>3. pending' = NoJournal
      BY <2>1
    <2>4. Names(journal)'
      BY <2>1, <2>2, SameShrinks, ShrinkNames, PrimeNames DEF Names
    <2>5. StoreInv'
      BY <2>1, <2>3, <2>4, TornIs, WholePrime DEF StoreInv
    <2>6. MemInv'
      BY <2>1 DEF MemInv, Loaded, Opened, Settling, BodySites, DirSites, MountCleanSites, CleanSites
    <2>7. BeforeInv'
      BY <2>1, <2>2, TornIs DEF BeforeInv, HostBefore
    <2>8. SyncInv'
      <3>1. NoJournal' = NoJournal
        BY DEF NoJournal, State, NoDir
      <3> QED  BY <2>1, <2>3, <3>1 DEF SyncInv, Opened, BodySites, DirSites
    <2>9. SiteInv'
      BY <2>1 DEF SiteInv, Making, Staging, XOpen, DirSites
    <2> QED  BY <2>5, <2>6, <2>7, <2>8, <2>9 DEF NamedInv
  <1>2. CASE EnterLoad
    <2>1. /\ pc = "enter.load" /\ UNCHANGED disk /\ UNCHANGED store
          /\ \/ journal = NoJournal /\ mem' = Fresh /\ persisted' = NoJournal /\ pc' = "body" /\ io' = "write"
             \/ mem' = journal /\ persisted' = journal /\ pc' = "clean.preflight" /\ io' = "idle"
      BY <1>2 DEF EnterLoad, At, Goto, Save
    <2>2. journal' = journal /\ pending' = NoJournal /\ pending' = pending
      BY <2>1 DEF NamedInv, SyncInv, store
    <2>3. Names(journal) /\ HostBefore(journal.mounts)
      BY DEF NamedInv, StoreInv, BeforeInv
    <2>4. StoreInv'
      BY <2>1, StoreKept, SameShrinks DEF NamedInv
    <2>5. NamesIn(table', dirs', file', xs', mem')
      BY <2>1, <2>3, SameShrinks, ShrinkNames, TornIs DEF Names
    <2>6. pc' \notin Settling /\ pc' # "clean.remove"
      BY <2>1 DEF Settling, MountCleanSites, CleanSites
    <2>7. MemInv'
      BY <2>5, <2>6, PrimeNames DEF MemInv
    <2>8. HostBefore(mem'.mounts)
      BY <2>1, <2>3, TornIs
    <2>9. BeforeInv'
      BY <2>1, <2>8, BeforeKept DEF NamedInv
    <2>10. SyncInv' /\ SiteInv'
      <3>1. CASE pc' = "body"
        <4>1. NoJournal' = NoJournal
          BY DEF NoJournal, State, NoDir
        <4>2. SyncInv'
          BY <2>1, <2>2, <3>1, <4>1 DEF SyncInv
        <4>3. Fresh.x.stage = "unexamined"
          BY DEF Fresh, State
        <4>4. SiteInv'
          BY <2>1, <3>1, <4>3 DEF SiteInv, Making, Staging, DirSites, Loaded, Opened
        <4> QED  BY <4>2, <4>4
      <3>2. CASE pc' = "clean.preflight"
        BY <3>2, OutOfBody DEF CleanSites
      <3> QED  BY <2>1, <3>1, <3>2
    <2> QED  BY <2>4, <2>7, <2>9, <2>10 DEF NamedInv
  <1>3. CASE Body
    <2>1. pc = "body" /\ io = "idle" /\ mem' = mem /\ Quiet /\ kind \in {"hook", "shell", "clean"}
      BY <1>3 DEF Body, At, TypeInv, ControlType
    <2>2. pc' \in {"stage.dir", "mount.plan", "clean.preflight"} /\ io' = "idle"
      BY <1>3, <2>1 DEF Body, Goto
    <2>3. pc \in Opened /\ pc \in Loaded /\ pc' \in Loaded \ (Settling \cup {"clean.remove"})
      BY <2>1, <2>2 DEF Loaded, Opened, Settling, BodySites, MountCleanSites, CleanSites
    <2>4. NamesIn(table, dirs, file, xs, mem') /\ HostBefore(mem'.mounts)
      BY <2>1, <2>3 DEF NamedInv, MemInv, Names, BeforeInv
    <2>5. mem.x.stage = "unexamined"
      BY <2>1 DEF NamedInv, SiteInv, XOpen
    <2>6. SiteInv'
      BY <2>1, <2>2, <2>5 DEF SiteInv, Making, Staging, DirSites
    <2> QED  BY <2>1, <2>2, <2>3, <2>4, <2>6, RecordNamed
  <1>4. CASE Abort
    BY <1>4, RaiseNamed DEF Abort
  <1> QED  BY <1>r, <1>1, <1>2, <1>3, <1>4 DEF Enter

\* What the body changes in the record.
LEMMA PutDirIn ==
  ASSUME TypeInv, NEW d, PutDir(d)
  PROVE  /\ mem'.mounts = mem.mounts /\ mem'.art = mem.art /\ mem'.x = mem.x
         /\ Place \in Places /\ Place' = Place /\ mem'.dirs[Place] = d
         /\ \A k \in Places : k # Place => mem'.dirs[k] = mem.dirs[k]
  <1>1. mem \in StateType /\ Typed(mem)
    BY MemTyped DEF Typed
  <1>2. Place \in Places
    BY <1>1, StateHas DEF Typed, Place, Places
  <1>3. /\ mem'.mounts = mem.mounts /\ mem'.art = mem.art /\ mem'.x = mem.x
        /\ mem'.dirs = [mem.dirs EXCEPT ![Place] = d]
    BY <1>1 DEF PutDir, StateType
  <1>4. mem.dirs \in [Places -> [stage : DirStages, renamed : BOOLEAN]]
    BY <1>1, StateHas
  <1> QED  BY <1>2, <1>3, <1>4 DEF Place

\* A directory is recorded.
LEMMA PutDirNames ==
  ASSUME TypeInv, NEW d, PutDir(d), d.stage \notin Gone, Names(mem)
  PROVE  NamesIn(table, dirs, file, xs, mem')
  <1>1. NamesDirs(dirs, mem'.dirs)
    <2>1. NamesDirs(dirs, mem.dirs) /\ Missing \subseteq Places
      BY DEF Names, NamesIn
    <2> QED  BY <2>1, PutDirIn DEF NamesDirs
  <1> QED  BY <1>1, PutDirIn DEF Names, NamesIn

\* A directory is made, or renamed, while the record says so.
LEMMA MoveDirNames ==
  ASSUME TypeInv, NEW to, MoveDir(to), Names(mem), mem.dirs[Place].stage \notin Gone
  PROVE  mem' = mem /\ NamesIn(table', dirs', file', xs', mem)
  <1>1. /\ dirs' = [dirs EXCEPT ![Place] = to] /\ table' = table /\ file' = file /\ xs' = xs
        /\ mem' = mem
    BY DEF MoveDir
  <1>2. dirs \in [Places -> {"host", "none", "private", "staging", "final"}]
    BY DEF TypeInv, DiskType
  <1>3. NamesDirs(dirs', mem.dirs)
    BY <1>1, <1>2 DEF NamesDirs, Names, NamesIn
  <1> QED  BY <1>1, <1>3 DEF Names, NamesIn

\* The sites of the body.
LEMMA DirSitesLoaded ==
  /\ DirSites \subseteq Opened /\ Opened \subseteq Loaded
  /\ DirSites \cup BodySites \subseteq Loaded \ (Settling \cup {"clean.remove"})
  /\ Making \subseteq DirSites
  BY DEF Loaded, Opened, Settling, BodySites, DirSites, MountCleanSites, CleanSites, Making

\* _ensure_directory: planned before mkdir, and named until it is final.
LEMMA EnsureDirectoryNamed ==
  ASSUME TypeInv, NamedInv, EnsureDirectory
  PROVE  NamedInv'
  <1>0. pc \in DirSites \cup {"stage.dir"} /\ pc \in Opened /\ pc \in Loaded /\ io = "idle" /\ Names(mem)
        /\ HostBefore(mem.mounts)
    <2>1. pc \in DirSites \cup {"stage.dir"} /\ io = "idle"
      BY DEF EnsureDirectory, StageDir, DirPlan, DirMake, DirMode, DirStaged, DirRename, DirMove,
           DirDone, At, DirSites
    <2>2. pc \in Opened /\ pc \in Loaded
      BY <2>1 DEF Opened, Loaded, BodySites
    <2> QED  BY <2>1, <2>2 DEF NamedInv, MemInv, BeforeInv
  <1>x. pc = "stage.dir" \/ Place = 0 => mem.x.stage = "unexamined"
    BY <1>0 DEF NamedInv, SiteInv, XOpen
  <1>m. pc \in Making => mem.dirs[Place].stage \in {"planned", "staged", "rename-planned"}
    BY DEF NamedInv, SiteInv
  <1>1. ASSUME NEW s \in DirSites, NEW d, PutDir(d), d.stage \in {"planned", "staged", "rename-planned"},
               pc \in DirSites, Save(s), Quiet
        PROVE  NamedInv'
    <2>1. NamesIn(table, dirs, file, xs, mem')
      BY <1>0, <1>1, PutDirNames DEF Gone
    <2>2. HostBefore(mem'.mounts)
      BY <1>0, <1>1, PutDirIn
    <2>3. pc' = s /\ io' = "write"
      BY <1>1 DEF Save
    <2>4. /\ mem'.dirs[Place'].stage \in {"planned", "staged", "rename-planned"}
          /\ mem'.x = mem.x /\ Place' = Place
      BY <1>1, PutDirIn
    <2>5. SiteInv'
      BY <1>0, <1>1, <1>x, <2>3, <2>4, DirSitesLoaded DEF SiteInv, DirSites, Staging, XOpen
    <2> QED  BY <1>0, <1>1, <2>1, <2>2, <2>3, <2>5, DirSitesLoaded, RecordNamed
  <1>2. ASSUME NEW s \in DirSites, NEW to, MoveDir(to), pc \in Making, Goto(s)
        PROVE  NamedInv'
    <2>1. mem' = mem /\ NamesIn(table', dirs', file', xs', mem)
      BY <1>0, <1>2, <1>m, MoveDirNames DEF Gone
    <2>2. pc' = s /\ io' = "idle" /\ Place' = Place
      BY <1>2, <2>1 DEF Goto, Place
    <2>3. SiteInv'
      BY <1>2, <1>m, <1>x, <2>1, <2>2 DEF SiteInv, DirSites, Staging, XOpen
    <2>4. UNCHANGED <<store, persisted>>
      BY <1>2 DEF MoveDir
    <2> QED  BY <1>0, <1>2, <2>1, <2>2, <2>3, <2>4, DirSitesLoaded, MakingNamed
  <1>3. ASSUME NEW s, s \in DirSites \cup {"stage.plan", "mount.check"}, mem' = mem, Quiet, Goto(s),
               s \notin Making, s \in DirSites \cup {"stage.plan"} => pc = "stage.dir" \/ Place = 0
        PROVE  NamedInv'
    <2>1. pc' = s /\ io' = "idle" /\ Place' = Place
      BY <1>3 DEF Goto, Place
    <2>2. SiteInv'
      BY <1>3, <1>x, <2>1 DEF SiteInv, Staging, XOpen, DirSites
    <2>3. NamesIn(table, dirs, file, xs, mem') /\ HostBefore(mem'.mounts)
      BY <1>0, <1>3 DEF Names
    <2>4. pc' \in Loaded \ (Settling \cup {"clean.remove"})
      BY <1>3, <2>1, DirSitesLoaded DEF BodySites
    <2> QED  BY <1>0, <1>3, <2>1, <2>2, <2>3, <2>4, RecordNamed
  <1>4. CASE StageDir
    <2>1. pc = "stage.dir" /\ mem' = mem /\ Quiet /\ Goto("dir.plan")
      BY <1>4 DEF StageDir, At
    <2> QED  BY <1>3, <2>1 DEF DirSites, Making
  <1>5. CASE DirPlan
    <2>1. pc = "dir.plan" /\ Quiet
      BY <1>5 DEF DirPlan, At
    <2>2. CASE dirs[Place] \in {"host", "final"}
      <3>1. Goto(AfterDir) /\ mem' = mem
        BY <1>5, <2>2 DEF DirPlan
      <3>2. AfterDir \in {"stage.plan", "mount.check"} /\ (AfterDir = "stage.plan" => Place = 0)
        BY DEF AfterDir
      <3>3. AfterDir \notin Making \cup DirSites
        BY <3>2 DEF Making, DirSites
      <3> QED  BY <1>3, <2>1, <3>1, <3>2, <3>3
    <2>3. CASE dirs[Place] \notin {"host", "final"}
      <3>1. PutDir([mem.dirs[Place] EXCEPT !.stage = "planned"]) /\ Save("dir.make")
        BY <1>5, <2>3 DEF DirPlan, PutDirStage
      <3> QED
        <4>1. [mem.dirs[Place] EXCEPT !.stage = "planned"].stage = "planned"
          <5>1. mem.dirs[Place] \in [stage : DirStages, renamed : BOOLEAN]
            BY <3>1, PutDirIn, MemTyped, StateHas DEF Typed
          <5> QED  BY <5>1
        <4> QED  BY <1>1, <2>1, <3>1, <4>1 DEF DirSites
    <2> QED  BY <2>2, <2>3
  <1>6. CASE DirMake
    BY <1>2, <1>6 DEF DirMake, At, DirSites, Making
  <1>7. CASE DirMode
    BY <1>2, <1>7 DEF DirMode, At, DirSites, Making
  <1>8. CASE DirStaged
    <2>1. pc = "dir.staged" /\ PutDir([mem.dirs[Place] EXCEPT !.stage = "staged"])
          /\ Save("dir.rename") /\ Quiet
      BY <1>8 DEF DirStaged, At, PutDirStage
    <2>2. [mem.dirs[Place] EXCEPT !.stage = "staged"].stage = "staged"
      <3>1. mem.dirs[Place] \in [stage : DirStages, renamed : BOOLEAN]
        BY <2>1, PutDirIn, MemTyped, StateHas DEF Typed
      <3> QED  BY <3>1
    <2> QED  BY <1>1, <2>1, <2>2 DEF DirSites
  <1>9. CASE DirRename
    <2>1. pc = "dir.rename" /\ PutDir([mem.dirs[Place] EXCEPT !.stage = "rename-planned"])
          /\ Save("dir.move") /\ Quiet
      BY <1>9 DEF DirRename, At, PutDirStage
    <2>2. [mem.dirs[Place] EXCEPT !.stage = "rename-planned"].stage = "rename-planned"
      <3>1. mem.dirs[Place] \in [stage : DirStages, renamed : BOOLEAN]
        BY <2>1, PutDirIn, MemTyped, StateHas DEF Typed
      <3> QED  BY <3>1
    <2> QED  BY <1>1, <2>1, <2>2 DEF DirSites
  <1>10. CASE DirMove
    BY <1>2, <1>10 DEF DirMove, At, DirSites, Making
  <1>11. CASE DirDone
    <2> DEFINE d == [stage |-> "created", renamed |-> TRUE]
    <2>1. pc = "dir.done" /\ PutDir(d) /\ Save(AfterDir) /\ Quiet
      BY <1>11 DEF DirDone, At
    <2>2. d.stage = "created" /\ d.stage \notin Gone
      BY DEF Gone
    <2> HIDE DEF d
    <2>3. NamesIn(table, dirs, file, xs, mem') /\ mem'.x = mem.x /\ Place' = Place
          /\ mem'.mounts = mem.mounts
      BY <1>0, <2>1, <2>2, PutDirNames, PutDirIn
    <2>4. pc' \in {"stage.plan", "mount.check"} /\ (pc' = "stage.plan" => Place = 0) /\ io' = "write"
      BY <2>1 DEF AfterDir, Save
    <2>5. pc' \in Loaded \ (Settling \cup {"clean.remove"})
      BY <2>4, DirSitesLoaded DEF BodySites
    <2>6. SiteInv'
      BY <1>x, <2>3, <2>4, <2>5 DEF SiteInv, Staging, XOpen, DirSites, Making
    <2> QED  BY <1>0, <2>1, <2>3, <2>4, <2>5, <2>6, RecordNamed
  <1> QED  BY <1>4, <1>5, <1>6, <1>7, <1>8, <1>9, <1>10, <1>11 DEF EnsureDirectory

\* stage_file: planned before the file is created.
LEMMA StageFileNamed ==
  ASSUME TypeInv, NamedInv, StageFile
  PROVE  NamedInv'
  <1>0. /\ pc \in {"stage.plan"} \cup Staging /\ pc \in Opened /\ pc \in Loaded /\ io = "idle"
        /\ Names(mem) /\ HostBefore(mem.mounts) /\ mem.x.stage = "unexamined"
        /\ mem \in StateType
    <2>1. pc \in {"stage.plan"} \cup Staging /\ io = "idle"
      BY DEF StageFile, StagePlan, StageCreate, StageRecord, StageCopy, StageRest, At, Staging
    <2>2. pc \in Opened /\ pc \in Loaded /\ pc \in XOpen
      BY <2>1 DEF Opened, Loaded, BodySites, Staging, XOpen
    <2> QED  BY <2>1, <2>2, MemTyped DEF NamedInv, MemInv, BeforeInv, SiteInv, Typed
  <1>m. pc \in Staging => mem.art \in {"planned", "writing"}
    BY DEF NamedInv, SiteInv
  <1>s. Staging \cup {"x.query"} \subseteq Loaded \ (Settling \cup {"clean.remove"})
    BY DirSitesLoaded DEF Staging, BodySites
  <1>p. ASSUME NEW a, PutArt(a)
        PROVE  /\ mem'.mounts = mem.mounts /\ mem'.dirs = mem.dirs /\ mem'.x = mem.x /\ mem'.art = a
    BY <1>0, <1>p DEF PutArt, StateType
  <1>1. ASSUME NEW a \in {"planned", "writing"}, PutArt(a), NEW s \in Staging, Save(s), Quiet
        PROVE  NamedInv'
    <2>1. NamesIn(table, dirs, file, xs, mem')
      BY <1>0, <1>1, <1>p DEF Names, NamesIn, NamesFile, Gone
    <2>2. pc' = s /\ io' = "write"
      BY <1>1 DEF Save
    <2>3. SiteInv'
      BY <1>0, <1>1, <1>p, <1>s, <2>2 DEF SiteInv, Staging, Making, DirSites
    <2> QED  BY <1>0, <1>1, <1>p, <1>s, <2>1, <2>2, <2>3, RecordNamed
  <1>2. ASSUME NEW f, PutFile(f), pc \in Staging, NEW s \in Staging, Goto(s), mem' = mem
        PROVE  NamedInv'
    <2>1. NamesIn(table', dirs', file', xs', mem)
      BY <1>0, <1>2, <1>m DEF Names, NamesIn, NamesFile, Gone, PutFile
    <2>2. pc' = s /\ io' = "idle"
      BY <1>2 DEF Goto
    <2>3. SiteInv'
      BY <1>0, <1>2, <1>m, <2>2 DEF SiteInv, Staging, Making, DirSites
    <2>4. UNCHANGED <<store, persisted>>
      BY <1>2 DEF PutFile
    <2> QED  BY <1>0, <1>2, <1>s, <2>1, <2>2, <2>3, <2>4, MakingNamed
  <1>3. CASE StagePlan
    BY <1>1, <1>3 DEF StagePlan, Staging
  <1>4. CASE StageCreate
    BY <1>2, <1>4 DEF StageCreate, At, Staging
  <1>5. CASE StageRecord
    BY <1>1, <1>5 DEF StageRecord, Staging
  <1>6. CASE StageCopy
    BY <1>2, <1>6 DEF StageCopy, At, Staging
  <1>7. CASE StageRest
    <2>1. pc \in Staging /\ PutFile("whole") /\ PutArt("active") /\ Save("x.query")
      BY <1>7 DEF StageRest, At, Staging
    <2>2. /\ NamesIn(table', dirs', file', xs', mem) /\ NamesIn(table', dirs', file', xs', mem')
      BY <1>0, <1>m, <1>p, <2>1 DEF Names, NamesIn, NamesFile, Gone, PutFile
    <2>3. pc' = "x.query" /\ io' = "write"
      BY <2>1 DEF Save
    <2>4. SiteInv'
      BY <1>0, <1>p, <1>s, <2>1, <2>3 DEF SiteInv, Staging, Making, DirSites
    <2>5. UNCHANGED <<store, persisted>>
      BY <2>1 DEF PutFile
    <2> QED  BY <1>0, <1>p, <1>s, <2>1, <2>2, <2>3, <2>4, <2>5, MakingNamed
  <1> QED  BY <1>3, <1>4, <1>5, <1>6, <1>7 DEF StageFile

\* allow_local_x_access: planned before xhost, only where nothing was granted before.
LEMMA GrantXNamed ==
  ASSUME TypeInv, NamedInv, GrantX
  PROVE  NamedInv'
  <1>0. /\ pc \in {"x.query", "x.mutate", "x.verify"} /\ pc \in Opened /\ pc \in Loaded /\ io = "idle"
        /\ Names(mem) /\ HostBefore(mem.mounts) /\ mem \in StateType
    <2>1. pc \in {"x.query", "x.mutate", "x.verify"} /\ io = "idle"
      BY DEF GrantX, XQuery, XMutate, XVerify, At
    <2>2. pc \in Opened /\ pc \in Loaded
      BY <2>1 DEF Opened, Loaded, BodySites
    <2> QED  BY <2>1, <2>2, MemTyped DEF NamedInv, MemInv, BeforeInv, SiteInv, Typed
  <1>s. {"x.mutate", "x.verify", "mount.plan", "abort"} \subseteq Loaded \ (Settling \cup {"clean.remove"})
    BY DirSitesLoaded DEF BodySites
  <1>1. ASSUME NEW q, mem' = [mem EXCEPT !.x = q], NamesX(xs, q), Quiet,
               NEW s \in {"x.mutate", "mount.plan", "abort"}, Save(s),
               s = "x.mutate" => q.stage = "grant-planned"
        PROVE  NamedInv'
    <2>1. mem'.mounts = mem.mounts /\ mem'.dirs = mem.dirs /\ mem'.art = mem.art /\ mem'.x = q
      BY <1>0, <1>1 DEF StateType
    <2>2. NamesIn(table, dirs, file, xs, mem')
      BY <1>0, <1>1, <2>1 DEF Names, NamesIn
    <2>3. pc' = s /\ io' = "write"
      BY <1>1 DEF Save
    <2>4. SiteInv'
      BY <1>1, <1>s, <2>1, <2>3 DEF SiteInv, Staging, Making, DirSites, XOpen
    <2> QED  BY <1>0, <1>1, <1>s, <2>1, <2>2, <2>3, <2>4, RecordNamed
  <1>r. CASE Raise
    BY <1>r, RaiseNamed
  <1>2. CASE XQuery
    <2>1. xs # "granted"
      <3>1. mem.x.stage = "unexamined"
        BY <1>2 DEF XQuery, At, NamedInv, SiteInv, XOpen
      <3> QED  BY <1>0, <3>1 DEF Names, NamesIn, NamesX
    <2>2. Quiet
      BY <1>2 DEF XQuery
    <2>3. CASE xs = "absent"
      <3> DEFINE q == [stage |-> "grant-planned", before |-> "absent"]
      <3>1. mem' = [mem EXCEPT !.x = q] /\ Save("x.mutate")
        BY <1>2, <2>3 DEF XQuery
      <3>2. q.stage = "grant-planned" /\ NamesX(xs, q)
        BY <2>1 DEF NamesX
      <3> HIDE DEF q
      <3> QED  BY <1>1, <2>2, <3>1, <3>2
    <2>4. CASE xs # "absent"
      <3> DEFINE q == [stage |-> "no-change", before |-> IF Local THEN "present" ELSE "off"]
      <3>1. mem' = [mem EXCEPT !.x = q] /\ Save("mount.plan")
        BY <1>2, <2>4 DEF XQuery
      <3>2. NamesX(xs, q)
        BY <2>1 DEF NamesX
      <3> HIDE DEF q
      <3> QED  BY <1>1, <2>2, <3>1, <3>2
    <2> QED  BY <2>3, <2>4
  <1>3. CASE XMutate /\ ~Raise
    <2>1. /\ pc = "x.mutate" /\ Goto("x.verify")
          /\ UNCHANGED <<table, dirs, file, store, mem, persisted, kind, after, todo, cur, snap, failed>>
      BY <1>3 DEF XMutate, At
    <2>2. mem.x.stage = "grant-planned"
      BY <2>1 DEF NamedInv, SiteInv
    <2>3. NamesIn(table', dirs', file', xs', mem)
      BY <1>0, <2>1, <2>2 DEF Names, NamesIn, NamesX
    <2>4. pc' = "x.verify" /\ io' = "idle" /\ mem' = mem
      BY <2>1 DEF Goto
    <2>5. SiteInv'
      BY <2>4 DEF SiteInv, Staging, Making, DirSites, XOpen
    <2> QED  BY <1>0, <1>s, <2>1, <2>3, <2>4, <2>5, MakingNamed
  <1>4. CASE XVerify /\ ~Raise
    <2> DEFINE s == IF Local THEN "owned" ELSE "failed"
    <2>1. /\ PutX(s)
          /\ Save("mount.plan") \/ Save("abort")
          /\ UNCHANGED <<disk, store, persisted, kind, after, todo, cur, snap, failed, bounds>>
      BY <1>4 DEF XVerify
    <2>2. /\ mem'.mounts = mem.mounts /\ mem'.dirs = mem.dirs /\ mem'.art = mem.art
          /\ mem'.x.stage = s
      BY <1>0, <1>4 DEF XVerify, PutX, StateType
    <2>3. xs = "granted" => s = "owned"
      BY DEF Local
    <2> HIDE DEF s
    <2>4. NamesIn(table, dirs, file, xs, mem')
      BY <1>0, <2>2, <2>3 DEF Names, NamesIn, NamesX
    <2>5. pc' \in {"mount.plan", "abort"} /\ io' = "write"
      BY <1>4 DEF XVerify, Save
    <2>6. SiteInv'
      BY <1>s, <2>5 DEF SiteInv, Staging, Making, DirSites, XOpen
    <2>7. /\ table' = table /\ dirs' = dirs /\ file' = file /\ xs' = xs
      BY <1>4 DEF XVerify, disk
    <2>8. UNCHANGED <<store, persisted>>
      BY <1>4 DEF XVerify
    <2> QED  BY <1>0, <1>s, <2>2, <2>4, <2>5, <2>6, <2>7, <2>8, MakingNamed DEF Names
  <1> QED  BY <1>r, <1>2, <1>3, <1>4 DEF GrantX

\* The plan of the current request is replaced by one that names its mounts.
LEMMA PutPlanNames ==
  ASSUME TypeInv, Place > 0, Names(mem), HostBefore(mem.mounts), NEW p \in PlanType, PutPlan(p),
         p.before = Current.before,
         p.stage \in {"command-started", "failed", "ambiguous"} \/ Scope(Place) \subseteq Live(p)
  PROVE  /\ NamesIn(table, dirs, file, xs, mem') /\ HostBefore(mem'.mounts)
         /\ mem'.x = mem.x /\ mem'.dirs = mem.dirs /\ mem'.art = mem.art
         /\ Place' = Place /\ Current' = p
  <1>1. /\ Place \in DOMAIN mem.mounts /\ mem'.mounts = [mem.mounts EXCEPT ![Place] = p]
        /\ Place' = Place
    BY CurrentTyped
  <1>2. mem'.x = mem.x /\ mem'.dirs = mem.dirs /\ mem'.art = mem.art
    BY MemTyped DEF PutPlan, Typed, StateType
  <1>3. /\ DOMAIN mem'.mounts = DOMAIN mem.mounts /\ mem'.mounts[Place] = p
        /\ \A i \in DOMAIN mem.mounts : i # Place => mem'.mounts[i] = mem.mounts[i]
    BY <1>1
  <1>4. \A m \in table : m.req = Place => m \in Scope(Place)
    BY DEF Scope
  <1>5. NamesMounts(table, mem'.mounts)
    BY <1>3, <1>4 DEF NamesMounts, Names, NamesIn
  <1>6. HostBefore(mem'.mounts)
    BY <1>1, <1>3 DEF HostBefore, Current
  <1>7. Current' = p
    BY <1>1, <1>3 DEF Current
  <1> QED  BY <1>1, <1>2, <1>5, <1>6, <1>7 DEF Names, NamesIn

\* A plan is added before anything of the session's is there.
LEMMA AddPlanNames ==
  ASSUME TypeInv, Place < NumRequests, Names(mem), HostBefore(mem.mounts), NEW p \in PlanType,
         mem' = [mem EXCEPT !.mounts = Append(@, p)], p.before \subseteq Scope(Place + 1)
  PROVE  /\ NamesIn(table, dirs, file, xs, mem') /\ HostBefore(mem'.mounts)
         /\ mem'.x = mem.x /\ Place' > 0
  <1>1. /\ Typed(mem) /\ Place \in Nat /\ DOMAIN mem.mounts = 1..Place
    BY MemTyped, StateHas DEF Typed, Place
  <1>2. /\ Place' = Place + 1 /\ DOMAIN mem'.mounts = DOMAIN mem.mounts \cup {Place + 1}
        /\ mem'.mounts[Place + 1] = p
        /\ \A i \in DOMAIN mem.mounts : mem'.mounts[i] = mem.mounts[i]
    BY <1>1, AppendTyped DEF Place
  <1>3. mem'.x = mem.x /\ mem'.dirs = mem.dirs /\ mem'.art = mem.art
    BY <1>1 DEF Typed, StateType
  <1>4. NamesMounts(table, mem'.mounts)
    BY <1>2 DEF NamesMounts, Names, NamesIn
  <1>5. \A m \in p.before : m.by = "host"
    <2> SUFFICES ASSUME NEW m \in p.before  PROVE m.by = "host"
      OBVIOUS
    <2>1. m \in table /\ m.req = Place + 1
      BY DEF Scope
    <2>2. m \in Mount
      BY <2>1, FinIs DEF TypeInv, DiskType
    <2>3. m.by \in {"session", "host"}
      BY <2>2 DEF Mount
    <2>4. m.by # "session"
      BY <1>1, <2>1 DEF Names, NamesIn, NamesMounts
    <2> QED  BY <2>3, <2>4
  <1>6. HostBefore(mem'.mounts)
    BY <1>2, <1>5 DEF HostBefore
  <1> QED  BY <1>1, <1>2, <1>3, <1>4, <1>6 DEF Names, NamesIn

\* _acquire_mount: command-started before mount(8), which names whatever it mounts.
LEMMA AcquireMountNamed ==
  ASSUME TypeInv, NamedInv, AcquireMount
  PROVE  NamedInv'
  <1>0. /\ pc \in {"mount.plan"} \cup MountSites /\ pc \in Opened /\ pc \in Loaded /\ io = "idle"
        /\ Names(mem) /\ HostBefore(mem.mounts) /\ Typed(mem)
    <2>1. pc \in {"mount.plan"} \cup MountSites /\ io = "idle"
      BY DEF AcquireMount, MountPlan, MountsDone, MountCheck, MountRun, MountAfter, At, MountSites
    <2>2. pc \in Opened /\ pc \in Loaded
      BY <2>1 DEF Opened, Loaded, BodySites, MountSites
    <2> QED  BY <2>1, <2>2, MemTyped DEF NamedInv, MemInv, BeforeInv
  <1>p. pc \in MountSites => Place > 0
    BY DEF TypeInv, ControlType
  <1>s. {"mount.plan", "dir.plan", "mount.run", "mount.after", "work", "abort"}
          \subseteq Loaded \ (Settling \cup {"clean.remove"})
    BY DirSitesLoaded DEF BodySites, DirSites
  <1>t. {"planned", "already-present", "command-started", "ambiguous", "failed", "owned"} \subseteq PlanStages
    BY DEF PlanStages
  <1>r. CASE Raise
    BY <1>r, RaiseNamed
  <1>1. CASE MountPlan /\ ~Raise
    <2>1. /\ pc = "mount.plan" /\ Place < NumRequests
          /\ \/ /\ mem' = [mem EXCEPT !.mounts =
                             Append(@, Plan("already-present", Scope(Place + 1), Scope(Place + 1)))]
                /\ Save("mount.plan") /\ Quiet
             \/ /\ mem' = [mem EXCEPT !.mounts = Append(@, Plan("planned", {}, {}))]
                /\ Save("dir.plan") /\ Quiet
      BY <1>1 DEF MountPlan, At
    <2>2. PICK p \in PlanType : /\ mem' = [mem EXCEPT !.mounts = Append(@, p)]
                                /\ p.before \subseteq Scope(Place + 1)
      <3>1. Scope(Place + 1) \in FinMounts
        BY ScopeFin
      <3>2. /\ Plan("already-present", Scope(Place + 1), Scope(Place + 1)) \in PlanType
            /\ Plan("planned", {}, {}) \in PlanType
        BY <1>t, <3>1, FinEmpty, PlanIs
      <3>3. /\ Plan("already-present", Scope(Place + 1), Scope(Place + 1)).before = Scope(Place + 1)
            /\ Plan("planned", {}, {}).before = {}
        BY DEF Plan
      <3> QED  BY <2>1, <3>2, <3>3
    <2>3. /\ NamesIn(table, dirs, file, xs, mem') /\ HostBefore(mem'.mounts)
          /\ mem'.x = mem.x /\ Place' > 0
      BY <1>0, <2>1, <2>2, AddPlanNames
    <2>4. pc' \in {"mount.plan", "dir.plan"} /\ io' = "write" /\ Quiet
      BY <2>1 DEF Save
    <2>5. SiteInv'
      BY <1>s, <2>3, <2>4 DEF SiteInv, Making, Staging, XOpen
    <2> QED  BY <1>0, <1>s, <2>3, <2>4, <2>5, RecordNamed
  <1>2. CASE MountsDone
    <2>1. pc' = "work" /\ io' = "idle" /\ mem' = mem /\ Quiet
      BY <1>2 DEF MountsDone, Goto
    <2>2. SiteInv'
      BY <2>1 DEF SiteInv, Making, Staging, XOpen, DirSites
    <2>3. NamesIn(table, dirs, file, xs, mem') /\ HostBefore(mem'.mounts)
      BY <1>0, <2>1 DEF Names
    <2> QED  BY <1>0, <1>s, <2>1, <2>2, <2>3, RecordNamed
  <1>3. CASE MountCheck
    <2>0. pc = "mount.check" /\ Quiet /\ Place > 0
      BY <1>3, <1>p DEF MountCheck, At, MountSites
    <2>1. \/ PutPlan([Current EXCEPT !.stage = "command-started"]) /\ Save("mount.run")
          \/ PutPlan([Current EXCEPT !.stage = "ambiguous", !.seen = Scope(Place)]) /\ Save("abort")
      BY <1>3 DEF MountCheck
    <2>2. PICK p \in PlanType : /\ PutPlan(p) /\ p.before = Current.before
                                /\ p.stage \in {"command-started", "ambiguous"}
                                /\ Save("mount.run") => p.stage = "command-started"
                                /\ Save("mount.run") \/ Save("abort")
      <3>1. Current \in PlanType /\ Scope(Place) \in FinMounts
        BY <2>0, CurrentTyped, ScopeFin
      <3>2. /\ [Current EXCEPT !.stage = "command-started"] \in PlanType
            /\ [Current EXCEPT !.stage = "ambiguous", !.seen = Scope(Place)] \in PlanType
        BY <1>t, <3>1, PutStages
      <3>3. /\ [Current EXCEPT !.stage = "command-started"].before = Current.before
            /\ [Current EXCEPT !.stage = "command-started"].stage = "command-started"
            /\ [Current EXCEPT !.stage = "ambiguous", !.seen = Scope(Place)].before = Current.before
            /\ [Current EXCEPT !.stage = "ambiguous", !.seen = Scope(Place)].stage = "ambiguous"
        BY <3>1 DEF PlanType
      <3>4. ~(Save("abort") /\ Save("mount.run"))
        BY DEF Save
      <3> QED  BY <2>1, <3>2, <3>3, <3>4
    <2>3. /\ NamesIn(table, dirs, file, xs, mem') /\ HostBefore(mem'.mounts)
          /\ Place' = Place /\ Current' = p
      BY <1>0, <2>0, <2>2, PutPlanNames
    <2>4. pc' \in {"mount.run", "abort"} /\ io' = "write" /\ (pc' = "mount.run" => p.stage = "command-started")
      BY <2>2 DEF Save
    <2>5. SiteInv'
      BY <1>s, <2>3, <2>4 DEF SiteInv, Making, Staging, XOpen, DirSites
    <2> QED  BY <1>0, <1>s, <2>0, <2>3, <2>4, <2>5, RecordNamed
  <1>4. CASE MountRun
    <2>0. /\ pc = "mount.run" /\ Place > 0 /\ pc' = "mount.after" /\ io' = "idle"
          /\ Command(table' = table \cup Bound(Place), UNCHANGED table)
          /\ UNCHANGED <<dirs, file, xs, store, mem, persisted, kind, after, todo, cur, snap, failed>>
      BY <1>4, <1>p DEF MountRun, At, MountSites, Goto
    <2>1. Current.stage = "command-started"
      BY <2>0 DEF NamedInv, SiteInv
    <2>2. Place \in Requests /\ Place \in DOMAIN mem.mounts
      BY <2>0, CurrentTyped
    <2>3. \A m \in Bound(Place) : m.req = Place
      BY <2>2, BoundTyped
    <2>4. table' \in {table \cup Bound(Place), table}
      BY <2>0, CommandTyped
    <2>5. NamesMounts(table', mem.mounts)
      BY <1>0, <2>1, <2>2, <2>3, <2>4 DEF NamesMounts, Names, NamesIn, Current
    <2>6. NamesIn(table', dirs', file', xs', mem)
      BY <1>0, <2>0, <2>5 DEF Names, NamesIn
    <2>7. SiteInv'
      BY <2>0 DEF SiteInv, Making, Staging, XOpen, DirSites
    <2> QED  BY <1>0, <1>s, <2>0, <2>6, <2>7, MakingNamed
  <1>5. CASE MountAfter
    <2>0. /\ pc = "mount.after" /\ Place > 0
          /\ UNCHANGED <<disk, store, persisted, kind, after, todo, cur, snap, failed, bounds>>
      BY <1>5, <1>p DEF MountAfter, At, MountSites
    <2> DEFINE q == [Current EXCEPT !.seen = Scope(Place)]
               q1 == [q EXCEPT !.stage = "failed"]
               q2 == [q EXCEPT !.stage = "ambiguous"]
               q3 == [q EXCEPT !.stage = "owned", !.owned = [m \in Scope(Place) |-> "owned"]]
    <2>1. \/ PutPlan(q1) /\ Save("abort")
          \/ PutPlan(q2) /\ Save("abort")
          \/ PutPlan(q3) /\ Save("mount.plan")
      BY <1>5 DEF MountAfter
    <2>2. PICK p \in PlanType : /\ PutPlan(p) /\ p.before = Current.before
                                /\ \/ p.stage \in {"command-started", "failed", "ambiguous"}
                                   \/ Scope(Place) \subseteq Live(p)
      <3>1. Current \in PlanType /\ Scope(Place) \in FinMounts
        BY <2>0, CurrentTyped, ScopeFin
      <3>2. q1 \in PlanType /\ q2 \in PlanType /\ q3 \in PlanType
        BY <1>t, <3>1, PutStages
      <3>3. /\ q1.before = Current.before /\ q2.before = Current.before /\ q3.before = Current.before
            /\ q1.stage = "failed" /\ q2.stage = "ambiguous"
            /\ q3.owned = [m \in Scope(Place) |-> "owned"]
        BY <3>1 DEF PlanType
      <3> HIDE DEF q1, q2, q3
      <3>4. Scope(Place) \subseteq Live(q3)
        BY <3>3 DEF Live, Owned
      <3> QED  BY <2>1, <3>2, <3>3, <3>4
    <2> HIDE DEF q1, q2, q3
    <2>3. NamesIn(table, dirs, file, xs, mem') /\ HostBefore(mem'.mounts)
      BY <1>0, <2>0, <2>2, PutPlanNames
    <2>4. pc' \in {"mount.plan", "abort"} /\ io' = "write"
      BY <2>1 DEF Save
    <2>5. SiteInv'
      BY <1>s, <2>4 DEF SiteInv, Making, Staging, XOpen, DirSites
    <2>6. /\ table' = table /\ dirs' = dirs /\ file' = file /\ xs' = xs
          /\ UNCHANGED <<store, persisted>>
      BY <2>0 DEF disk
    <2> QED  BY <1>0, <1>s, <2>3, <2>4, <2>5, <2>6, MakingNamed DEF Names
  <1> QED  BY <1>r, <1>1, <1>2, <1>3, <1>4, <1>5 DEF AcquireMount

\* chroot_run empties the directory of the staged file.
LEMMA WorkNamed ==
  ASSUME TypeInv, NamedInv, Work
  PROVE  NamedInv'
  <1>1. /\ pc = "work" /\ io = "idle" /\ pc' = "clean.preflight" /\ io' = "idle" /\ mem' = mem
        /\ PutFile("none") \/ Quiet
    BY DEF Work, At, Goto
  <1>2. /\ pc \in Opened /\ pc \in Loaded /\ pc' \in Loaded \ (Settling \cup {"clean.remove"})
        /\ pc' \in CleanSites
    BY <1>1 DEF Opened, Loaded, Settling, BodySites, DirSites, MountCleanSites, CleanSites
  <1>3. UNCHANGED <<store, persisted>> /\ Shrinks
    BY <1>1 DEF PutFile, Quiet, Shrinks, disk
  <1>4. NamesIn(table', dirs', file', xs', mem) /\ HostBefore(mem.mounts)
    BY <1>2, <1>3, ShrinkNames DEF NamedInv, MemInv, BeforeInv, Names
  <1>5. SiteInv'
    BY <1>1, <1>2, OutOfBody
  <1> QED  BY <1>1, <1>2, <1>3, <1>4, <1>5, MakingNamed

\* The preflight claims by identity what a record only named.
LEMMA NewPlanClaims ==
  ASSUME table \in FinMounts, NEW p \in PlanType, NEW r, PlanStateOK(p, r),
         \A m \in p.before : m.by = "host"
  PROVE  /\ NewPlan(p, r).before = p.before
         /\ \A m \in table : m.req = r /\ m.by = "session" => m \in Live(NewPlan(p, r))
  <1> DEFINE S == Scope(r)
             X == Extras(p, r)
             f == [m \in S |-> "owned"]
             g == [m \in Owned(p) \cup X |->
                     IF m \notin Owned(p) THEN "owned"
                     ELSE IF p.owned[m] = "unmounting" /\ m \notin table THEN "removed"
                     ELSE p.owned[m]]
  <1>1. /\ p.stage \in {"planned", "ambiguous"} => NewPlan(p, r) = [p EXCEPT !.stage = "failed"]
        /\ p.stage = "command-started" =>
             NewPlan(p, r) = IF S = p.before THEN [p EXCEPT !.stage = "failed"]
                             ELSE [p EXCEPT !.stage = "owned", !.seen = S, !.inferred = S,
                                            !.owned = f]
        /\ p.stage = "owned" =>
             NewPlan(p, r) = [p EXCEPT !.inferred = p.inferred \cup X, !.owned = g]
        /\ p.stage \notin {"planned", "ambiguous", "command-started", "owned"} =>
             NewPlan(p, r) = p
    BY DEF NewPlan
  <1>2. \A m \in table : m.req = r => m \in S
    BY DEF Scope
  <1>3. \A m \in table : m.req = r /\ m.by = "session" => S # p.before
    BY <1>2
  <1>4. \A m \in S : f[m] = "owned"
    OBVIOUS
  <1>5. DOMAIN f = S /\ DOMAIN g = Owned(p) \cup X
    OBVIOUS
  <1>6. \A m \in table : m.req = r /\ m.by = "session" => m \in Owned(p) \cup X
    BY <1>2 DEF Extras
  <1>7. p.stage = "owned" =>
          \A m \in table : m \in Owned(p) \cup X => g[m] \in {"owned", "unmounting"}
    <2> SUFFICES ASSUME p.stage = "owned", NEW m \in table, m \in Owned(p) \cup X
                 PROVE  g[m] \in {"owned", "unmounting"}
      OBVIOUS
    <2>1. OwnedMountsOK(p, r)
      BY DEF PlanStateOK
    <2>2. m \in There(m)
      BY DEF There, AtPath
    <2>3. m \in Owned(p) => p.owned[m] \in {"owned", "unmounting"}
      <3> HAVE m \in Owned(p)
      <3>1. p.owned[m] \in OwnedStages
        BY PlanHas
      <3>2. p.owned[m] = "removed" => There(m) = {}
        BY <2>1 DEF OwnedMountsOK
      <3> QED  BY <2>2, <3>1, <3>2 DEF OwnedStages
    <2> QED  BY <2>3
  <1> HIDE DEF S, X, f, g
  <1>8. /\ [p EXCEPT !.stage = "failed"].before = p.before
        /\ [p EXCEPT !.stage = "owned", !.seen = S, !.inferred = S, !.owned = f].before = p.before
        /\ [p EXCEPT !.stage = "owned", !.seen = S, !.inferred = S, !.owned = f].owned = f
        /\ [p EXCEPT !.inferred = p.inferred \cup X, !.owned = g].before = p.before
        /\ [p EXCEPT !.inferred = p.inferred \cup X, !.owned = g].owned = g
    BY DEF PlanType
  <1>9. NewPlan(p, r).before = p.before
    BY <1>1, <1>8
  <1>10. ASSUME NEW m \in table, m.req = r, m.by = "session"
         PROVE  m \in Live(NewPlan(p, r))
    <2>1. CASE p.stage = "command-started"
      <3>1. NewPlan(p, r).owned = f
        BY <1>1, <1>3, <1>8, <1>10, <2>1
      <3> QED  BY <1>2, <1>4, <1>5, <1>10, <3>1 DEF Live, Owned
    <2>2. CASE p.stage = "owned"
      <3>1. NewPlan(p, r).owned = g
        BY <1>1, <1>8, <2>2
      <3> QED  BY <1>5, <1>6, <1>7, <1>10, <2>2, <3>1 DEF Live, Owned
    <2>3. CASE p.stage \notin {"command-started", "owned"}
      <3>1. S = p.before
        BY <2>3 DEF PlanStateOK, S
      <3> QED  BY <1>3, <1>10, <3>1
    <2> QED  BY <2>1, <2>2, <2>3
  <1> QED  BY <1>9, <1>10

\* So a preflight that accepts claims every mount of a session by its identity.
LEMMA PreflightNamed ==
  ASSUME TypeInv, Names(mem), HostBefore(mem.mounts), PreflightOK(mem)
  PROVE  /\ Claims(table, Preflighted(mem).mounts)
         /\ HostBefore(Preflighted(mem).mounts)
         /\ Names(Preflighted(mem))
  <1> DEFINE new == Preflighted(mem)
  <1>0. table \in FinMounts /\ Typed(mem)
    BY MemTyped DEF TypeInv, DiskType
  <1>1. /\ DOMAIN new.mounts = DOMAIN mem.mounts
        /\ \A i \in DOMAIN mem.mounts : new.mounts[i] = NewPlan(mem.mounts[i], i)
        /\ \A k \in Places : new.dirs[k] = NewDir(mem.dirs[k], dirs[k])
        /\ new.art = NewArt(mem.art) /\ new.x = NewX(mem.x)
    BY <1>0, PreflightedHas
  <1> HIDE DEF new
  <1>2. /\ \A i \in DOMAIN mem.mounts : mem.mounts[i] \in PlanType
        /\ mem.dirs \in [Places -> [stage : DirStages, renamed : BOOLEAN]]
        /\ mem.x \in [stage : XStages, before : {"none", "off", "absent", "present"}]
    BY <1>0, StateHas DEF Typed
  <1>3. /\ NamesMounts(table, mem.mounts) /\ NamesDirs(dirs, mem.dirs)
        /\ NamesFile(file, mem.art) /\ NamesX(xs, mem.x)
    BY DEF Names, NamesIn
  <1>4. /\ \A i \in DOMAIN mem.mounts : PlanStateOK(mem.mounts[i], i)
        /\ ArtOK(mem.art) /\ XOK(mem.x)
    BY DEF PreflightOK, PlansOK
  <1>5. \A i \in DOMAIN mem.mounts :
          /\ NewPlan(mem.mounts[i], i).before = mem.mounts[i].before
          /\ \A m \in table : m.req = i /\ m.by = "session" => m \in Live(NewPlan(mem.mounts[i], i))
    <2> SUFFICES ASSUME NEW i \in DOMAIN mem.mounts
                 PROVE  /\ NewPlan(mem.mounts[i], i).before = mem.mounts[i].before
                        /\ \A m \in table : m.req = i /\ m.by = "session" =>
                             m \in Live(NewPlan(mem.mounts[i], i))
      OBVIOUS
    <2>1. \A m \in mem.mounts[i].before : m.by = "host"
      BY DEF HostBefore
    <2> QED  BY <1>0, <1>2, <1>4, <2>1, NewPlanClaims
  <1>6. HostBefore(new.mounts)
    BY <1>1, <1>5 DEF HostBefore
  <1>7. Claims(table, new.mounts)
    BY <1>1, <1>3, <1>5 DEF Claims, NamesMounts
  <1>8. NamesMounts(table, new.mounts)
    BY <1>7 DEF Claims, NamesMounts
  <1>9. NamesDirs(dirs, new.dirs)
    <2> SUFFICES ASSUME NEW k \in Missing, dirs[k] # "none"  PROVE new.dirs[k].stage \notin Gone
      BY DEF NamesDirs
    <2>1. /\ k \in Places /\ mem.dirs[k].stage \notin Gone
          /\ mem.dirs[k] \in [stage : DirStages, renamed : BOOLEAN]
      BY <1>2, <1>3 DEF NamesDirs
    <2>2. new.dirs[k] = NewDir(mem.dirs[k], dirs[k])
      BY <1>1, <2>1
    <2>3. [mem.dirs[k] EXCEPT !.stage = "staged"].stage = "staged"
      BY <2>1
    <2>4. new.dirs[k] \in {mem.dirs[k], [mem.dirs[k] EXCEPT !.stage = "staged"],
                          [stage |-> "created", renamed |-> TRUE]}
      BY <2>2 DEF NewDir
    <2> QED  BY <2>1, <2>3, <2>4 DEF Gone
  <1>10. NamesFile(file, new.art)
    BY <1>1, <1>3, <1>4 DEF NamesFile, NewArt, ArtOK, Gone
  <1>11. NamesX(xs, new.x)
    <2>1. xs = "granted" => NewX(mem.x) = mem.x
      BY <1>2, <1>4 DEF NewX, XOK
    <2> QED  BY <1>1, <1>3, <2>1 DEF NamesX
  <1> QED  BY <1>6, <1>7, <1>8, <1>9, <1>10, <1>11 DEF Names, NamesIn, new

\* The preflight, when it accepts and when it refuses.
LEMMA CleanPreflightNamed ==
  ASSUME TypeInv, NamedInv, CleanPreflight
  PROVE  NamedInv'
  <1>0. /\ pc = "clean.preflight" /\ pc \in Loaded /\ Names(mem) /\ HostBefore(mem.mounts)
    <2>1. pc = "clean.preflight"
      BY DEF CleanPreflight, At
    <2> QED  BY <2>1 DEF Loaded, NamedInv, MemInv, BeforeInv
  <1>n. \A k \in Places : Normalised(mem)[k] # "none" => dirs[k] # "none"
    BY DEF Normalised
  <1>1. CASE PreflightOK(mem)
    <2>1. /\ mem' = Preflighted(mem) /\ dirs' = Normalised(mem)
          /\ Goto("clean.mark") \/ Save("clean.mark")
          /\ UNCHANGED <<table, file, xs, store>>
      BY <1>1 DEF CleanPreflight
    <2>2. Shrinks
      BY <1>n, <2>1 DEF Shrinks
    <2>3. NamesIn(table, dirs, file, xs, mem') /\ Claims(table, mem'.mounts) /\ HostBefore(mem'.mounts)
      BY <1>0, <1>1, <2>1, PreflightNamed DEF Names
    <2>4. NamesIn(table', dirs', file', xs', mem') /\ Claims(table', mem'.mounts)
      BY <2>2, <2>3, ShrinkNames
    <2>5. pc' \in Settling /\ io' \in {"idle", "write"}
      BY <2>1 DEF Goto, Save, Settling, CleanSites
    <2> QED  BY <2>1, <2>2, <2>3, <2>4, <2>5, CleaningNamed
  <1>2. CASE ~PreflightOK(mem)
    <2>1. /\ dirs' = Normalised(mem) \/ dirs' = dirs
          /\ Exit /\ UNCHANGED <<table, file, xs, store>>
      BY <1>2 DEF CleanPreflight
    <2>2. Shrinks
      BY <1>n, <2>1 DEF Shrinks
    <2>3. io' = "idle"
      BY <2>1 DEF Exit, Goto
    <2>4. StoreInv'
      BY <2>1, <2>2, <2>3, StoreKept DEF NamedInv
    <2>5. HostBefore(journal'.mounts) /\ HostBefore(pending'.mounts)
      BY <2>1 DEF store, NamedInv, BeforeInv
    <2> QED  BY <2>1, <2>4, <2>5, ExitNamed DEF NamedInv
  <1> QED  BY <1>1, <1>2

\* The cleanup goes on with the same record.
LEMMA SettleSame ==
  ASSUME NamedInv, pc \in Settling, pc' \in Settling, Shrinks, UNCHANGED store,
         io' \in {"idle", "write"}, mem'.mounts = mem.mounts, mem'.dirs = mem.dirs,
         mem'.art = mem.art, mem'.x = mem.x
  PROVE  NamedInv'
  <1>1. NamesIn(table, dirs, file, xs, mem') /\ Claims(table, mem'.mounts) /\ HostBefore(mem'.mounts)
    BY DEF NamedInv, MemInv, BeforeInv, Loaded, Names, NamesIn
  <1>2. NamesIn(table', dirs', file', xs', mem') /\ Claims(table', mem'.mounts)
    BY <1>1, ShrinkNames
  <1> QED  BY <1>1, <1>2, CleaningNamed

\* What is known past the preflight.
LEMMA SettlingHas ==
  ASSUME NamedInv, pc \in Settling
  PROVE  /\ Names(mem) /\ Claims(table, mem.mounts) /\ HostBefore(mem.mounts)
         /\ MountCleanSites \subseteq Settling
         /\ {"clean.mark", "clean.file", "clean.unlink", "clean.dir", "clean.rmdir", "clean.x",
             "clean.xrun", "clean.xverify", "clean.final"} \subseteq Settling
  BY DEF NamedInv, MemInv, BeforeInv, Loaded, Settling, CleanSites

\* The cleanup is recorded as begun.
LEMMA CleanMarkNamed ==
  ASSUME TypeInv, NamedInv, CleanMark
  PROVE  NamedInv'
  <1>1. pc = "clean.mark" /\ pc \in Settling
    BY DEF CleanMark, At, Settling, CleanSites
  <1>2. /\ pc' \in {"clean.mark", "clean.mount"} /\ io' \in {"idle", "write"}
        /\ UNCHANGED disk /\ UNCHANGED store
        /\ mem' = [mem EXCEPT !.phase = "cleaning"] \/ mem' = mem
    BY DEF CleanMark, Save, Goto, Quiet
  <1>3. mem'.mounts = mem.mounts /\ mem'.dirs = mem.dirs /\ mem'.art = mem.art /\ mem'.x = mem.x
    BY <1>2, MemTyped DEF Typed, StateType
  <1>4. pc' \in Settling
    BY <1>2 DEF Settling, MountCleanSites, CleanSites
  <1> QED  BY <1>1, <1>2, <1>3, <1>4, SameShrinks, SettleSame

\* The stage of an owned mount; "removed" is written once it is gone.
LEMMA PutOwnedNamed ==
  ASSUME TypeInv, NamedInv, pc \in Settling, pc' \in Settling, UNCHANGED <<disk, store>>,
         io' \in {"idle", "write"}, NEW t, NEW s \in OwnedStages, PutOwned(t, s),
         s = "removed" => t \notin table
  PROVE  NamedInv'
  <1>0. Typed(mem) /\ mem' = [mem EXCEPT !.mounts[t.req].owned[t] = s]
    BY MemTyped DEF PutOwned
  <1>1. /\ DOMAIN mem'.mounts = DOMAIN mem.mounts
        /\ \A i \in DOMAIN mem.mounts :
             mem'.mounts[i] = IF i = t.req THEN [mem.mounts[i] EXCEPT !.owned[t] = s] ELSE mem.mounts[i]
    BY <1>0, PutOwnedTyped
  <1>2. mem'.dirs = mem.dirs /\ mem'.art = mem.art /\ mem'.x = mem.x
    BY <1>0 DEF Typed, StateType
  <1>3. \A i \in DOMAIN mem.mounts : mem.mounts[i] \in PlanType
    BY <1>0, StateHas DEF Typed
  <1>4. \A p \in PlanType :
          /\ [p EXCEPT !.owned[t] = s].before = p.before
          /\ [p EXCEPT !.owned[t] = s].owned = [p.owned EXCEPT ![t] = s]
    BY DEF PlanType
  <1>5. HostBefore(mem'.mounts)
    <2>1. HostBefore(mem.mounts)
      BY SettlingHas
    <2>2. \A i \in DOMAIN mem.mounts : mem'.mounts[i].before = mem.mounts[i].before
      BY <1>1, <1>3, <1>4
    <2> QED  BY <1>1, <2>1, <2>2 DEF HostBefore
  <1>6. \A p \in PlanType, m \in table :
          m \in Live(p) => m \in Live([p EXCEPT !.owned[t] = s])
    <2> SUFFICES ASSUME NEW p \in PlanType, NEW m \in table, m \in Live(p)
                 PROVE  m \in Live([p EXCEPT !.owned[t] = s])
      OBVIOUS
    <2> DEFINE g == [p.owned EXCEPT ![t] = s]
    <2>1. m \in DOMAIN p.owned /\ p.owned[m] \in {"owned", "unmounting"}
      BY DEF Live, Owned
    <2>2. DOMAIN g = DOMAIN p.owned
      OBVIOUS
    <2>3. m # t => g[m] = p.owned[m]
      OBVIOUS
    <2>4. m = t => g[m] = s /\ s \in {"owned", "unmounting"}
      BY <2>1 DEF OwnedStages
    <2>5. m \in DOMAIN g /\ g[m] \in {"owned", "unmounting"}
      BY <2>1, <2>2, <2>3, <2>4
    <2> HIDE DEF g
    <2>6. [p EXCEPT !.owned[t] = s].owned = g
      BY <1>4 DEF g
    <2> QED  BY <2>5, <2>6 DEF Live, Owned
  <1>7. Claims(table, mem'.mounts)
    <2> SUFFICES ASSUME NEW m \in table, m.by = "session"
                 PROVE  m.req \in DOMAIN mem'.mounts /\ m \in Live(mem'.mounts[m.req])
      BY DEF Claims
    <2>1. m.req \in DOMAIN mem.mounts /\ m \in Live(mem.mounts[m.req])
      BY SettlingHas DEF Claims
    <2>2. m \in Live([mem.mounts[m.req] EXCEPT !.owned[t] = s])
      BY <1>3, <1>6, <2>1
    <2> QED  BY <1>1, <2>1, <2>2
  <1>8. NamesIn(table, dirs, file, xs, mem')
    BY <1>2, <1>7, SettlingHas DEF Claims, Names, NamesIn, NamesMounts
  <1>9. Shrinks
    BY SameShrinks
  <1>10. NamesIn(table', dirs', file', xs', mem') /\ Claims(table', mem'.mounts)
    BY <1>7, <1>8, <1>9, ShrinkNames
  <1> QED  BY <1>5, <1>9, <1>10, CleaningNamed

\* _cleanup_owned_mount: "removed" is written only for a mount that is not there.
LEMMA CleanMountsNamed ==
  ASSUME TypeInv, NamedInv, MountsCleaned \/ CleanMount \/ CleanUmount \/ CleanUmounted
  PROVE  NamedInv'
  <1>0. pc \in MountCleanSites /\ pc \in Settling
    BY DEF MountsCleaned, CleanMount, CleanUmount, CleanUmounted, At, Settling, MountCleanSites
  <1>s. MountCleanSites \cup {"clean.file"} \subseteq Settling
    BY <1>0, SettlingHas
  <1>o. {"removed", "unmounting"} \subseteq OwnedStages
    BY DEF OwnedStages
  <1>r. CASE Raise
    BY <1>r, RaiseNamed
  <1>1. CASE MountsCleaned
    <2>1. pc' = "clean.file" /\ io' = "idle" /\ mem' = mem /\ UNCHANGED disk /\ UNCHANGED store
      BY <1>1 DEF MountsCleaned, Goto, Quiet
    <2> QED  BY <1>0, <1>s, <2>1, SameShrinks, SettleSame
  <1>2. CASE CleanMount /\ ~Raise
    <2>1. CASE Goto("clean.mount") /\ UNCHANGED <<disk, store, mem>>
      <3>1. pc' = "clean.mount" /\ io' = "idle" /\ mem' = mem /\ UNCHANGED disk /\ UNCHANGED store
        BY <2>1 DEF Goto
      <3> QED  BY <1>0, <1>s, <3>1, SameShrinks, SettleSame DEF MountCleanSites
    <2>2. CASE Target \notin table /\ PutOwned(Target, "removed") /\ Save("clean.mount") /\ Quiet
      <3>1. pc' = "clean.mount" /\ io' = "write" /\ UNCHANGED <<disk, store>>
        BY <2>2 DEF Save, Quiet
      <3> QED  BY <1>0, <1>s, <1>o, <2>2, <3>1, PutOwnedNamed DEF MountCleanSites
    <2>3. CASE PutOwned(Target, "unmounting") /\ Save("clean.umount") /\ Quiet
      <3>1. pc' = "clean.umount" /\ io' = "write" /\ UNCHANGED <<disk, store>>
        BY <2>3 DEF Save, Quiet
      <3> QED  BY <1>0, <1>s, <1>o, <2>3, <3>1, PutOwnedNamed DEF MountCleanSites
    <2> QED  BY <1>2, <2>1, <2>2, <2>3 DEF CleanMount
  <1>3. CASE CleanUmount /\ ~Raise
    <2>1. /\ Goto("clean.umounted") /\ Command(table' = Unmounted(Target), UNCHANGED table)
          /\ UNCHANGED <<dirs, file, xs, store, mem>>
      BY <1>3 DEF CleanUmount, Umount
    <2>2. table' \in {Unmounted(Target), table}
      BY <2>1, CommandTyped
    <2>3. Shrinks
      <3>1. table' \subseteq table
        BY <2>2 DEF Unmounted
      <3> QED  BY <2>1, <3>1 DEF Shrinks
    <2>4. pc' = "clean.umounted" /\ io' = "idle" /\ UNCHANGED store /\ mem' = mem
      BY <2>1 DEF Goto
    <2> QED  BY <1>0, <1>s, <2>3, <2>4, SettleSame DEF MountCleanSites
  <1>4. CASE CleanUmounted /\ ~Raise
    <2>1. /\ There(Target) = {} /\ PutOwned(Target, "removed") /\ Save("clean.mount")
          /\ UNCHANGED <<disk, store>>
      BY <1>4 DEF CleanUmounted
    <2>2. Target \notin table
      BY <2>1 DEF There, AtPath
    <2>3. pc' = "clean.mount" /\ io' = "write"
      BY <2>1 DEF Save
    <2> QED  BY <1>0, <1>s, <1>o, <2>1, <2>2, <2>3, PutOwnedNamed DEF MountCleanSites
  <1> QED  BY <1>r, <1>1, <1>2, <1>3, <1>4

\* _cleanup_artifact: the same for the file.
LEMMA CleanFileNamed ==
  ASSUME TypeInv, NamedInv, CleanFile \/ CleanUnlink
  PROVE  NamedInv'
  <1>0. pc \in Settling
    BY DEF CleanFile, CleanUnlink, At, Settling, CleanSites
  <1>s. {"clean.file", "clean.unlink", "clean.dir"} \subseteq Settling
    BY <1>0, SettlingHas
  <1>1. ASSUME NEW a, PutArt(a), a \notin Gone \/ file' = "none", Shrinks, UNCHANGED store,
               NEW s \in {"clean.file", "clean.unlink"}, Save(s)
        PROVE  NamedInv'
    <2>1. mem'.mounts = mem.mounts /\ mem'.dirs = mem.dirs /\ mem'.x = mem.x /\ mem'.art = a
      BY <1>1, MemTyped DEF PutArt, Typed, StateType
    <2>2. NamesIn(table', dirs', file', xs', mem) /\ Claims(table', mem.mounts) /\ HostBefore(mem.mounts)
      BY <1>0, <1>1, SettlingHas, ShrinkNames DEF Names
    <2>3. NamesIn(table', dirs', file', xs', mem') /\ Claims(table', mem'.mounts) /\ HostBefore(mem'.mounts)
      BY <1>1, <2>1, <2>2 DEF NamesIn, NamesFile
    <2>4. pc' = s /\ io' = "write"
      BY <1>1 DEF Save
    <2> QED  BY <1>1, <1>s, <2>3, <2>4, CleaningNamed
  <1>2. CASE CleanFile
    <2>0. UNCHANGED disk /\ UNCHANGED store /\ Shrinks
      BY <1>2, SameShrinks DEF CleanFile, Quiet
    <2>1. CASE mem.art \in {"none", "removed"}
      <3>1. pc' = "clean.dir" /\ io' = "idle" /\ mem' = mem
        BY <1>2, <2>1 DEF CleanFile, Goto
      <3> QED  BY <1>0, <1>s, <2>0, <3>1, SettleSame
    <2>2. CASE mem.art = "removing" /\ file = "none"
      <3>1. PutArt("removed") /\ Save("clean.file") /\ file' = "none"
        BY <1>2, <2>0, <2>2 DEF CleanFile, disk
      <3> QED  BY <1>1, <2>0, <3>1
    <2>3. CASE mem.art \notin {"none", "removed"} /\ ~(mem.art = "removing" /\ file = "none")
      <3>1. PutArt("removing") /\ Save("clean.unlink")
        BY <1>2, <2>3 DEF CleanFile
      <3> QED  BY <1>1, <2>0, <3>1 DEF Gone
    <2> QED  BY <2>1, <2>2, <2>3
  <1>3. CASE CleanUnlink
    <2>1. PutFile("none") /\ PutArt("removed") /\ Save("clean.file")
      BY <1>3 DEF CleanUnlink
    <2>2. file' = "none" /\ UNCHANGED store /\ Shrinks
      BY <2>1 DEF PutFile, Shrinks
    <2> QED  BY <1>1, <2>1, <2>2
  <1> QED  BY <1>2, <1>3

\* _cleanup_directory: the same for a directory.
LEMMA CleanDirNamed ==
  ASSUME TypeInv, NamedInv, DirsCleaned \/ CleanDirSkip \/ CleanDir \/ CleanRmdir
  PROVE  NamedInv'
  <1>0. pc \in Settling
    BY DEF DirsCleaned, CleanDirSkip, CleanDir, CleanRmdir, At, Settling, CleanSites
  <1>s. {"clean.dir", "clean.rmdir", "clean.x"} \subseteq Settling
    BY <1>0, SettlingHas
  <1>r. CASE Raise
    BY <1>r, RaiseNamed
  <1>1. ASSUME NEW a, PutSlot(a), a \notin Gone \/ dirs'[Slot] = "none", Shrinks, UNCHANGED store,
               NEW s \in {"clean.dir", "clean.rmdir"}, Save(s)
        PROVE  NamedInv'
    <2>0. mem \in StateType /\ mem.dirs \in [Places -> [stage : DirStages, renamed : BOOLEAN]]
      BY MemTyped, StateHas DEF Typed
    <2>1. mem'.mounts = mem.mounts /\ mem'.art = mem.art /\ mem'.x = mem.x
      BY <1>1, <2>0 DEF PutSlot, StateType
    <2>2. mem'.dirs = [mem.dirs EXCEPT ![Slot].stage = a]
      BY <1>1, <2>0 DEF PutSlot, StateType
    <2>3. NamesIn(table', dirs', file', xs', mem) /\ Claims(table', mem.mounts) /\ HostBefore(mem.mounts)
      BY <1>0, <1>1, SettlingHas, ShrinkNames DEF Names
    <2>4. NamesDirs(dirs', mem'.dirs)
      <3> SUFFICES ASSUME NEW k \in Missing, dirs'[k] # "none"  PROVE mem'.dirs[k].stage \notin Gone
        BY DEF NamesDirs
      <3>1. k \in Places /\ mem.dirs[k].stage \notin Gone
        BY <2>3 DEF NamesIn, NamesDirs
      <3>2. mem'.dirs[k].stage = IF k = Slot THEN a ELSE mem.dirs[k].stage
        BY <2>0, <2>2, <3>1
      <3> QED  BY <1>1, <3>1, <3>2
    <2>5. NamesIn(table', dirs', file', xs', mem') /\ Claims(table', mem'.mounts) /\ HostBefore(mem'.mounts)
      BY <2>1, <2>3, <2>4 DEF NamesIn
    <2>6. pc' = s /\ io' = "write"
      BY <1>1 DEF Save
    <2> QED  BY <1>1, <1>s, <2>5, <2>6, CleaningNamed
  <1>2. CASE DirsCleaned
    <2>1. pc' = "clean.x" /\ io' = "idle" /\ mem' = mem /\ UNCHANGED disk /\ UNCHANGED store
      BY <1>2 DEF DirsCleaned, Goto, Quiet
    <2> QED  BY <1>0, <1>s, <2>1, SameShrinks, SettleSame
  <1>3. CASE CleanDirSkip
    <2>1. pc' = "clean.dir" /\ io' = "idle" /\ mem' = mem /\ UNCHANGED disk /\ UNCHANGED store
      BY <1>3 DEF CleanDirSkip, Goto
    <2> QED  BY <1>0, <1>s, <2>1, SameShrinks, SettleSame
  <1>4. CASE CleanDir
    <2>0. UNCHANGED disk /\ UNCHANGED store /\ Shrinks
      BY <1>4, SameShrinks DEF CleanDir, Quiet
    <2>1. CASE mem.dirs[Slot].stage = "removing" /\ dirs[Slot] = "none"
      <3>1. PutSlot("removed") /\ Save("clean.dir") /\ dirs'[Slot] = "none"
        BY <1>4, <2>0, <2>1 DEF CleanDir, disk
      <3> QED  BY <1>1, <2>0, <3>1
    <2>2. CASE ~(mem.dirs[Slot].stage = "removing" /\ dirs[Slot] = "none")
      <3>1. PutSlot("removing") /\ Save("clean.rmdir")
        BY <1>4, <2>2 DEF CleanDir
      <3> QED  BY <1>1, <2>0, <3>1 DEF Gone
    <2> QED  BY <2>1, <2>2
  <1>5. CASE CleanRmdir /\ ~Raise
    <2>1. /\ dirs' = [dirs EXCEPT ![Slot] = "none"] /\ PutSlot("removed") /\ Save("clean.dir")
          /\ UNCHANGED <<table, file, xs, store>> /\ dirs[Slot] = SlotPath
      BY <1>5 DEF CleanRmdir
    <2>2. Missing \subseteq Places /\ dirs \in [Places -> {"host", "none", "private", "staging", "final"}]
      BY DEF TypeInv, DiskType
    <2>3. \A k \in Places : dirs'[k] = IF k = Slot THEN "none" ELSE dirs[k]
      BY <2>1, <2>2
    <2>4. Shrinks
      BY <2>1, <2>2, <2>3 DEF Shrinks
    <2>5. UNCHANGED store
      BY <2>1
    <2>6. CASE Slot \in Places
      BY <1>1, <2>1, <2>3, <2>4, <2>5, <2>6
    <2>7. CASE Slot \notin Places
      <3>0. mem \in StateType /\ mem.dirs \in [Places -> [stage : DirStages, renamed : BOOLEAN]]
        BY MemTyped, StateHas DEF Typed
      <3>1. mem'.mounts = mem.mounts /\ mem'.art = mem.art /\ mem'.x = mem.x
            /\ mem'.dirs = [mem.dirs EXCEPT ![Slot].stage = "removed"]
        BY <2>1, <3>0 DEF PutSlot, StateType
      <3>2. mem'.dirs = mem.dirs
        BY <2>7, <3>0, <3>1
      <3>3. pc' = "clean.dir" /\ io' = "write"
        BY <2>1 DEF Save
      <3> QED  BY <1>0, <1>s, <2>4, <2>5, <3>1, <3>2, <3>3, SettleSame
    <2> QED  BY <2>6, <2>7
  <1> QED  BY <1>r, <1>2, <1>3, <1>4, <1>5

\* _cleanup_x_access: "restored" is written only once nothing is granted.
LEMMA CleanXNamed ==
  ASSUME TypeInv, NamedInv, CleanX \/ CleanXRun \/ CleanXVerify
  PROVE  NamedInv'
  <1>0. pc \in Settling
    BY DEF CleanX, CleanXRun, CleanXVerify, At, Settling, CleanSites
  <1>s. {"clean.x", "clean.xrun", "clean.xverify", "clean.final"} \subseteq Settling
    BY <1>0, SettlingHas
  <1>r. CASE Raise
    BY <1>r, RaiseNamed
  <1>1. ASSUME NEW a, PutX(a), a = "revoking" \/ xs # "granted", Quiet,
               NEW s \in {"clean.x", "clean.xrun"}, Save(s)
        PROVE  NamedInv'
    <2>1. mem'.mounts = mem.mounts /\ mem'.dirs = mem.dirs /\ mem'.art = mem.art /\ mem'.x.stage = a
      BY <1>1, MemTyped DEF PutX, Typed, StateType
    <2>2. NamesIn(table, dirs, file, xs, mem') /\ Claims(table, mem'.mounts) /\ HostBefore(mem'.mounts)
      BY <1>0, <1>1, <2>1, SettlingHas DEF Names, NamesIn, NamesX
    <2>3. UNCHANGED disk /\ UNCHANGED store /\ Shrinks
      BY <1>1, SameShrinks DEF Quiet
    <2>4. NamesIn(table', dirs', file', xs', mem') /\ Claims(table', mem'.mounts)
      BY <2>2, <2>3, ShrinkNames
    <2>5. pc' = s /\ io' = "write"
      BY <1>1 DEF Save
    <2> QED  BY <1>s, <2>2, <2>3, <2>4, <2>5, CleaningNamed
  <1>2. CASE CleanX
    <2>1. CASE mem.x.stage = "owned"
      <3>1. PutX("revoking") /\ Save("clean.xrun") /\ Quiet
        BY <1>2, <2>1 DEF CleanX
      <3> QED  BY <1>1, <3>1
    <2>2. CASE mem.x.stage # "owned"
      <3>1. pc' \in {"clean.xrun", "clean.final"} /\ io' = "idle" /\ mem' = mem
            /\ UNCHANGED disk /\ UNCHANGED store
        BY <1>2, <2>2 DEF CleanX, Goto, Quiet
      <3> QED  BY <1>0, <1>s, <3>1, SameShrinks, SettleSame
    <2> QED  BY <2>1, <2>2
  <1>3. CASE CleanXRun /\ ~Raise
    <2>1. /\ Command(xs' = "absent", UNCHANGED xs) /\ Goto("clean.xverify")
          /\ UNCHANGED <<table, dirs, file, store, mem>>
      BY <1>3 DEF CleanXRun
    <2>2. xs' \in {"absent", xs}
      BY <2>1, CommandTyped
    <2>3. Shrinks
      BY <2>1, <2>2 DEF Shrinks
    <2>4. pc' = "clean.xverify" /\ io' = "idle" /\ UNCHANGED store /\ mem' = mem
      BY <2>1 DEF Goto
    <2> QED  BY <1>0, <1>s, <2>3, <2>4, SettleSame
  <1>4. CASE CleanXVerify /\ ~Raise
    <2>1. xs = mem.x.before /\ PutX("restored") /\ Save("clean.x") /\ Quiet
      BY <1>4 DEF CleanXVerify
    <2>2. xs # "granted"
      BY <2>1, MemTyped, StateHas DEF Typed
    <2> QED  BY <1>1, <2>1, <2>2
  <1> QED  BY <1>r, <1>2, <1>3, <1>4

\* The journal is removed once nothing is left that it would have to name.
LEMMA CleanFinalNamed ==
  ASSUME TypeInv, NamedInv, CleanFinal
  PROVE  NamedInv'
  <1>0. pc = "clean.final" /\ pc \in Settling
    BY DEF CleanFinal, At, Settling, CleanSites
  <1>1. CASE Exit /\ UNCHANGED <<disk, store, bounds>>
    <2>1. UNCHANGED disk /\ UNCHANGED store /\ io' = "idle"
      BY <1>1 DEF Exit, Goto
    <2>2. StoreInv'
      BY <2>1, StoreKept, SameShrinks DEF NamedInv
    <2>3. HostBefore(journal'.mounts) /\ HostBefore(pending'.mounts)
      BY <2>1 DEF store, NamedInv, BeforeInv
    <2> QED  BY <1>1, <2>2, <2>3, ExitNamed DEF NamedInv
  <1>2. CASE ~Active(mem) /\ mem' = [mem EXCEPT !.phase = "complete"] /\ Save("clean.remove") /\ Quiet
    <2>1. mem'.mounts = mem.mounts /\ mem'.dirs = mem.dirs /\ mem'.art = mem.art /\ mem'.x = mem.x
      BY <1>2, MemTyped DEF Typed, StateType
    <2>2. Names(mem) /\ Claims(table, mem.mounts) /\ HostBefore(mem.mounts)
      BY <1>0, SettlingHas
    <2>3. Missing \subseteq Places
      OBVIOUS
    <2>4. /\ \A m \in table : m.by # "session"
          /\ \A k \in Missing : dirs[k] = "none"
          /\ file = "none" /\ xs # "granted"
      BY <1>2, <2>2, <2>3 DEF Active, Claims, Names, NamesIn, NamesDirs, NamesFile, NamesX, Gone
    <2>5. NamesIn(table, dirs, file, xs, NoJournal)
      BY <2>4 DEF NamesIn, NamesMounts, NamesDirs, NamesFile, NamesX
    <2>6. NamesIn(table, dirs, file, xs, mem')
      BY <2>1, <2>2 DEF Names, NamesIn
    <2>7. UNCHANGED disk /\ UNCHANGED store /\ pc' = "clean.remove" /\ io' = "write"
      BY <1>2 DEF Quiet, Save
    <2>8. StoreInv'
      BY <2>7, StoreKept, SameShrinks DEF NamedInv
    <2>9. MemInv'
      <3>1. Names(mem)' /\ Names(NoJournal)'
        BY <2>5, <2>6, <2>7, SameShrinks, ShrinkNames, PrimeNames
      <3>2. pc' \notin Settling
        BY <2>7 DEF Settling, MountCleanSites
      <3> QED  BY <3>1, <3>2 DEF MemInv
    <2>10. BeforeInv'
      BY <2>1, <2>2, <2>7, BeforeKept DEF NamedInv
    <2>11. SyncInv' /\ SiteInv'
      BY <2>7, OutOfBody DEF CleanSites
    <2> QED  BY <2>8, <2>9, <2>10, <2>11 DEF NamedInv
  <1> QED  BY <1>1, <1>2 DEF CleanFinal

\* The journal is removed, and a recovery begins another one.
LEMMA RemoveJournalNamed ==
  ASSUME TypeInv, NamedInv, RemoveJournal
  PROVE  NamedInv'
  <1>1. /\ pc = "clean.remove" /\ pending = NoJournal /\ pending' = NoJournal /\ journal' = NoJournal
        /\ UNCHANGED disk
    BY DEF RemoveJournal, At
  <1>2. NamesIn(table', dirs', file', xs', NoJournal)
    BY <1>1, SameShrinks, ShrinkNames DEF NamedInv, MemInv, Names
  <1>3. Names(journal)' /\ Names(pending)'
    BY <1>1, <1>2, PrimeNames
  <1>4. StoreInv'
    BY <1>3 DEF StoreInv
  <1>5. HostBefore(journal'.mounts) /\ HostBefore(pending'.mounts)
    BY <1>1, TornIs
  <1>6. CASE after = "end"
    <2>1. Exit
      BY <1>6 DEF RemoveJournal
    <2> QED  BY <1>4, <1>5, <2>1, ExitNamed DEF NamedInv
  <1>7. CASE after # "end"
    <2>1. mem' = Fresh /\ persisted' = NoJournal /\ pc' = "body" /\ io' = "write"
      BY <1>7 DEF RemoveJournal, Save
    <2>2. Names(mem)'
      <3>1. Fresh.mounts = NoJournal.mounts /\ Fresh.dirs = NoJournal.dirs
            /\ Fresh.art = NoJournal.art /\ Fresh.x = NoJournal.x
        BY DEF Fresh, NoJournal, State
      <3> QED  BY <1>2, <2>1, <3>1, PrimeNames DEF NamesIn
    <2>3. MemInv'
      <3>1. pc' \notin Settling /\ pc' # "clean.remove"
        BY <2>1 DEF Settling, MountCleanSites, CleanSites
      <3> QED  BY <2>2, <3>1 DEF MemInv
    <2>4. BeforeInv'
      BY <1>5, <2>1, TornIs DEF BeforeInv, HostBefore
    <2>5. SyncInv'
      <3>1. NoJournal' = NoJournal
        BY DEF NoJournal, State, NoDir
      <3> QED  BY <1>1, <2>1, <3>1 DEF SyncInv
    <2>6. Fresh.x.stage = "unexamined"
      BY DEF Fresh, State
    <2>7. SiteInv'
      BY <2>1, <2>6 DEF SiteInv, Making, Staging, DirSites, Loaded, Opened
    <2> QED  BY <1>4, <2>3, <2>4, <2>5, <2>7 DEF NamedInv
  <1> QED  BY <1>6, <1>7

\* At the beginning nothing of a session's is there, and nothing is recorded.
LEMMA NamedInitially == Init => NamedInv
  <1> SUFFICES ASSUME Init  PROVE NamedInv
    OBVIOUS
  <1>1. /\ table = {} /\ file = "none" /\ xs # "granted" /\ pc = "idle" /\ io = "idle"
        /\ journal = NoJournal /\ pending = NoJournal /\ mem = NoJournal
    BY DEF Init
  <1>2. \A k \in Missing : dirs[k] = "none"
    BY DEF Init
  <1>3. Names(NoJournal)
    BY <1>1, <1>2 DEF Names, NamesIn, NamesMounts, NamesDirs, NamesFile, NamesX
  <1>4. StoreInv
    BY <1>1, <1>3 DEF StoreInv
  <1>5. pc \notin Loaded \cup {"enter.load"}
    BY <1>1 DEF Loaded, Opened, Settling, BodySites, DirSites, MountCleanSites, CleanSites
  <1>6. MemInv /\ SyncInv
    BY <1>5 DEF MemInv, SyncInv, Loaded
  <1>7. BeforeInv
    BY <1>1, TornIs DEF BeforeInv
  <1>8. SiteInv
    BY <1>1 DEF SiteInv, Making, Staging, XOpen, DirSites
  <1> QED  BY <1>4, <1>6, <1>7, <1>8 DEF NamedInv

\* Every step keeps what is named.
LEMMA NamedInductive == TypeInv /\ NamedInv /\ [Next]_vars => NamedInv'
  <1> SUFFICES ASSUME TypeInv, NamedInv, [Next]_vars  PROVE NamedInv'
    OBVIOUS
  <1>1. CASE UNCHANGED vars
    <2>1. /\ table' = table /\ dirs' = dirs /\ file' = file /\ xs' = xs
          /\ journal' = journal /\ pending' = pending /\ mem' = mem /\ persisted' = persisted
          /\ pc' = pc /\ io' = io
      BY <1>1 DEF vars, disk, store
    <2>2. StoreInv' /\ MemInv'
      BY <2>1, PrimeNames, WholePrime DEF NamedInv, StoreInv, MemInv, Names
    <2>3. BeforeInv' /\ SyncInv' /\ SiteInv'
      BY <2>1 DEF NamedInv, BeforeInv, HostBefore, SyncInv, SiteInv, Current, Place, NoJournal, State, NoDir
    <2> QED  BY <2>2, <2>3 DEF NamedInv
  <1>2. CASE \E k \in Kinds : Start(k)
    BY <1>2, StartNamed
  <1>3. CASE Enter
    BY <1>3, EnterNamed
  <1>4. CASE EnsureDirectory
    BY <1>4, EnsureDirectoryNamed
  <1>5. CASE StageFile
    BY <1>5, StageFileNamed
  <1>6. CASE GrantX
    BY <1>6, GrantXNamed
  <1>7. CASE AcquireMount
    BY <1>7, AcquireMountNamed
  <1>8. CASE Work
    BY <1>8, WorkNamed
  <1>9. CASE Cleanup
    BY <1>9, CleanPreflightNamed, CleanMarkNamed, CleanMountsNamed, CleanFileNamed,
       CleanDirNamed, CleanXNamed, CleanFinalNamed, RemoveJournalNamed DEF Cleanup
  <1>10. CASE WritePending \/ ReplaceJournal
    BY <1>10, PersistNamed
  <1>11. CASE Fault
    BY <1>11, FaultNamed
  <1>12. CASE Crash
    BY <1>12, CrashNamed
  <1>13. CASE Host
    BY <1>13, HostNamed
  <1> QED  BY <1>1, <1>2, <1>3, <1>4, <1>5, <1>6, <1>7, <1>8, <1>9, <1>10, <1>11, <1>12,
              <1>13 DEF Next, Step

\* What the invariant says of the journal is the property.
LEMMA NamedGives == NamedInv => ResourcesNamed
  BY DEF NamedInv, StoreInv, Names, NamesIn, NamesMounts, NamesDirs, NamesFile, NamesX, Gone,
     ResourcesNamed, MountNamed

\* Whatever a session has made, the journal on disk names: before it is made
\* and until it is gone, over every failure, death, recovery and change by the
\* host, however many there are.
THEOREM ResourcesAreNamed == Spec => []ResourcesNamed
  <1>1. Init => TypeInv /\ NamedInv
    BY TypeInitially, NamedInitially
  <1>2. TypeInv /\ NamedInv /\ [Next]_vars => (TypeInv /\ NamedInv)'
    BY TypeInductive, NamedInductive
  <1>3. TypeInv /\ NamedInv => ResourcesNamed
    BY NamedGives
  <1> QED  BY <1>1, <1>2, <1>3, PTL DEF Spec

--------------------------------------------------------------------------------
(***************************************************************************)
(* A session unmounts what is its own.                                     *)
(***************************************************************************)

\* A mount is the session's own, or hangs below one that is; there is nothing
\* at a destination, or what is lowest there is a session's.
OursIn(T, m) ==
  m.by = "session" \/ (m.at = "sub" /\ \E n \in T : n.req = m.req /\ n.at = "root" /\ n.by = "session")
Founded(T, r) ==
  \/ \A m \in T : m.req # r
  \/ \E m \in T : m.req = r /\ m.at = "root" /\ m.depth = 1 /\ m.by = "session"

\* What a record owns and is there is the session's own.
PlanSound(T, p, r) ==
  /\ \A m \in Owned(p) : m.req = r /\ (m \in T => OursIn(T, m))
  /\ p.stage \in {"planned", "command-started"} => p.before = {}
  /\ p.stage = "command-started" => Founded(T, r)
Sound(T, ms) == \A i \in DOMAIN ms : PlanSound(T, ms[i], i)

\* The mounts at one path lie on one another.
PathIn(T, r, a) == {m \in T : m.req = r /\ m.at = a}
Stacked(T) ==
  /\ \A m, n \in T : m.req = n.req /\ m.at = n.at /\ m.depth = n.depth => m = n
  /\ \A m \in T : m.depth \in 1..Cardinality(PathIn(T, m.req, m.at))

\* A request is planned before its directory is made and its command is run.
RunInv ==
  /\ pc \in {"body", "stage.dir"} => mem.mounts = << >>
  /\ pc \in DirSites \cup {"mount.check"} /\ Place > 0 => Current.stage = "planned"
  /\ pc \in {"mount.run", "mount.after"} => Current.stage = "command-started"
  /\ pc = "mount.run" => Scope(Place) = {}
TodoInv ==
  /\ pc \in MountCleanSites => todo \subseteq AllOwned(mem)
  /\ pc = "clean.umount" => todo # {}

OwnInv ==
  /\ Sound(table, journal.mounts) /\ Sound(table, pending.mounts) /\ Sound(table, mem.mounts)
  /\ Stacked(table) /\ RunInv /\ TodoInv

\* The places where the session mounts or unmounts, or is about to.
Delicate == {"body", "stage.dir", "mount.check", "mount.run", "mount.after"}
              \cup DirSites \cup MountCleanSites

\* A step after which no record owns more, and the session comes to no new place
\* of these with it.
Calm ==
  /\ table' = table
  /\ journal'.mounts \in {journal.mounts, pending.mounts, << >>}
  /\ pending'.mounts \in {pending.mounts, mem.mounts, << >>}
  /\ mem'.mounts \in {mem.mounts, journal.mounts, << >>}
  /\ \/ pc' \notin Delicate
     \/ pc' \in {"body", "stage.dir", "dir.plan"} /\ mem'.mounts = << >>
     \/ pc \in DirSites /\ pc' \in DirSites \cup {"mount.check"} /\ mem'.mounts = mem.mounts
     \/ UNCHANGED <<pc, mem, todo>>
     \/ /\ pc \in MountCleanSites /\ pc' = "clean.mount" /\ mem' = mem
        /\ todo' \subseteq todo

\* What is no journal owns nothing.
LEMMA NothingSound ==
  /\ \A T : Sound(T, << >>)
  /\ Fresh.mounts = << >> /\ NoJournal.mounts = << >> /\ Torn.mounts = << >>
  BY DEF Sound, Fresh, NoJournal, Torn, State

\* Such a step keeps the invariant.
LEMMA CalmOwn ==
  ASSUME OwnInv, Calm
  PROVE  OwnInv'
  <1>1. /\ Sound(table', journal'.mounts) /\ Sound(table', pending'.mounts)
        /\ Sound(table', mem'.mounts) /\ Stacked(table')
    BY NothingSound DEF OwnInv, Calm
  <1>2. CASE pc' \notin Delicate
    <2>1. RunInv' /\ TodoInv'
      BY <1>2 DEF RunInv, TodoInv, Delicate, MountCleanSites
    <2> QED  BY <1>1, <2>1 DEF OwnInv
  <1>5. CASE pc' \in {"body", "stage.dir", "dir.plan"} /\ mem'.mounts = << >>
    <2>1. Place' = 0
      BY <1>5 DEF Place
    <2>2. RunInv' /\ TodoInv'
      BY <1>5, <2>1 DEF RunInv, TodoInv, MountCleanSites
    <2> QED  BY <1>1, <2>2 DEF OwnInv
  <1>6. CASE pc \in DirSites /\ pc' \in DirSites \cup {"mount.check"} /\ mem'.mounts = mem.mounts
    <2>1. Place' = Place /\ Current' = Current
      BY <1>6 DEF Place, Current
    <2>2. RunInv' /\ TodoInv'
      BY <1>6, <2>1 DEF OwnInv, RunInv, TodoInv, DirSites, MountCleanSites
    <2> QED  BY <1>1, <2>2 DEF OwnInv
  <1>3. CASE UNCHANGED <<pc, mem, todo>>
    <2>1. RunInv' /\ TodoInv'
      BY <1>3 DEF OwnInv, Calm, RunInv, TodoInv, Current, Place, Scope, AllOwned
    <2> QED  BY <1>1, <2>1 DEF OwnInv
  <1>4. CASE pc \in MountCleanSites /\ pc' = "clean.mount" /\ mem' = mem /\ todo' \subseteq todo
    <2>1. RunInv' /\ TodoInv'
      BY <1>4 DEF OwnInv, RunInv, TodoInv, AllOwned, DirSites
    <2> QED  BY <1>1, <2>1 DEF OwnInv
  <1> QED  BY <1>2, <1>3, <1>4, <1>5, <1>6 DEF Calm

\* A step that leaves the mounts, the journals and the record's plans alone.
LEMMA SameCalm ==
  ASSUME table' = table, journal' = journal, pending' = pending, mem'.mounts = mem.mounts,
         pc' \notin Delicate
  PROVE  Calm
  BY DEF Calm

\* An exception.
LEMMA RaiseFromCalm ==
  ASSUME RaiseFrom(pc)
  PROVE  /\ mem' = mem \/ mem' = NoJournal
         /\ \/ pc' \notin Delicate
            \/ /\ pc \in MountCleanSites /\ pc' = "clean.mount" /\ mem' = mem
               /\ todo' \subseteq todo
  <1>1. CASE pc \in MountCleanSites
    BY <1>1 DEF RaiseFrom, Goto, MountCleanSites, BodySites, DirSites
  <1>2. CASE pc \notin MountCleanSites
    <2>1. \/ Exit
          \/ mem' = mem /\ pc' \in {"clean.preflight", "clean.dir", "clean.final"}
      BY <1>2 DEF RaiseFrom, Goto
    <2> QED  BY <2>1 DEF Exit, Goto, Delicate, DirSites, MountCleanSites
  <1> QED  BY <1>1, <1>2

\* An exception that leaves the journals alone.
LEMMA RaiseCalm == Raise => Calm
  BY RaiseFromCalm, NothingSound DEF Raise, Calm, disk, store

\* Failed calls, deaths, and the journal write itself.
LEMMA FailureCalm ==
  ASSUME Fault \/ Crash \/ WritePending \/ ReplaceJournal
  PROVE  Calm
  <1>1. CASE Fault
    <2>1. /\ RaiseFrom(pc) /\ table' = table
          /\ \/ journal' = journal /\ pending' = pending
             \/ journal' = journal /\ pending' = Torn
             \/ journal' = pending /\ pending' = NoJournal
      BY <1>1 DEF Fault, disk, store
    <2> QED  BY <2>1, RaiseFromCalm, NothingSound DEF Calm
  <1>2. CASE Crash
    <2>1. /\ pc' = "idle" /\ mem' = NoJournal /\ table' = table /\ journal' = journal
          /\ pending' = pending \/ pending' = Torn
      BY <1>2 DEF Crash, Exit, Goto, disk
    <2> QED  BY <2>1, NothingSound DEF Calm, Delicate, DirSites, MountCleanSites
  <1>3. CASE WritePending
    <2>1. \/ Raise
          \/ /\ pending' = mem /\ table' = table /\ journal' = journal
             /\ mem' = mem /\ pc' = pc /\ todo' = todo
      BY <1>3 DEF WritePending, disk, loop
    <2> QED  BY <2>1, RaiseCalm DEF Calm
  <1>4. CASE ReplaceJournal
    <2>1. /\ journal' = pending /\ pending' = NoJournal /\ table' = table
          /\ mem' = mem /\ pc' = pc /\ todo' = todo
      BY <1>4 DEF ReplaceJournal, disk, loop
    <2> QED  BY <2>1, NothingSound DEF Calm
  <1> QED  BY <1>1, <1>2, <1>3, <1>4

\* The beginning of a session.
LEMMA EnterCalm ==
  ASSUME TypeInv, OwnInv, Enter \/ \E k \in Kinds : Start(k)
  PROVE  Calm
  <1>1. CASE \E k \in Kinds : Start(k)
    BY <1>1, SameCalm DEF Start, disk, store, Delicate, DirSites, MountCleanSites
  <1>2. CASE EnterReconcile /\ ~Raise
    <2>1. /\ pc' = "enter.load" /\ table' = table /\ mem' = mem
          /\ \/ journal' = journal /\ pending' = pending
             \/ journal' = pending /\ pending' = NoJournal
      BY <1>2 DEF EnterReconcile, Goto, Quiet, disk, store
    <2> QED  BY <2>1, NothingSound DEF Calm, Delicate, DirSites, MountCleanSites
  <1>3. CASE EnterLoad
    <2>1. /\ table' = table
          /\ \/ pc' = "body" /\ mem' = Fresh
             \/ pc' = "clean.preflight" /\ mem' = journal
          /\ journal' = journal /\ pending' = pending
      BY <1>3 DEF EnterLoad, Goto, Save, disk, store
    <2> QED  BY <2>1, NothingSound DEF Calm, Delicate, DirSites, MountCleanSites
  <1>4. CASE Body
    <2>1. kind \in {"hook", "shell", "clean"}
      BY <1>4 DEF Body, At, TypeInv, ControlType
    <2>2. /\ pc' \in {"stage.dir", "mount.plan", "clean.preflight"}
          /\ table' = table /\ mem' = mem /\ journal' = journal /\ pending' = pending
      BY <1>4, <2>1 DEF Body, Goto, Quiet, disk, store
    <2>3. mem.mounts = << >>
      BY <1>4 DEF Body, At, OwnInv, RunInv
    <2> QED  BY <2>2, <2>3 DEF Calm, Delicate, DirSites, MountCleanSites
  <1> QED  BY <1>1, <1>2, <1>3, <1>4, RaiseCalm DEF Enter, Abort

\* Directories, the staged file and the X access.
LEMMA MakeCalm ==
  ASSUME TypeInv, OwnInv, EnsureDirectory \/ StageFile \/ GrantX \/ MountsDone \/ Work
  PROVE  Calm
  <1>0. mem \in StateType
    BY MemTyped DEF Typed
  <1>1. CASE EnsureDirectory
    <2>1. table' = table /\ journal' = journal /\ pending' = pending
      BY <1>1 DEF EnsureDirectory, StageDir, DirPlan, DirMake, DirMode, DirStaged, DirRename, DirMove,
           DirDone, MoveDir, Quiet, disk, store
    <2>2. \/ pc = "stage.dir" /\ pc' = "dir.plan"
          \/ pc \in DirSites /\ pc' \in DirSites \cup {"mount.check", "stage.plan"}
      BY <1>1 DEF EnsureDirectory, StageDir, DirPlan, DirMake, DirMode, DirStaged, DirRename, DirMove,
           DirDone, At, Goto, Save, AfterDir, DirSites
    <2>3. mem'.mounts = mem.mounts
      <3>1. \/ mem' = mem
            \/ \E s \in {"planned", "staged", "rename-planned"} : PutDirStage(s)
            \/ PutDir([stage |-> "created", renamed |-> TRUE])
        BY <1>1 DEF EnsureDirectory, StageDir, DirPlan, DirMake, DirMode, DirStaged, DirRename, DirMove,
             DirDone, MoveDir
      <3>2. {"planned", "staged", "rename-planned", "created"} \subseteq DirStages
        BY DEF DirStages
      <3> QED  BY <3>1, <3>2, PutDirIs
    <2>4. pc = "stage.dir" => mem.mounts = << >>
      BY DEF OwnInv, RunInv
    <2> QED  BY <2>1, <2>2, <2>3, <2>4 DEF Calm, Delicate, DirSites, MountCleanSites
  <1>2. CASE StageFile
    <2>1. table' = table /\ journal' = journal /\ pending' = pending
      BY <1>2 DEF StageFile, StagePlan, StageCreate, StageRecord, StageCopy, StageRest, PutFile, Quiet,
           disk, store
    <2>2. pc' \in {"stage.create", "stage.record", "stage.copy", "stage.rest", "x.query"}
      BY <1>2 DEF StageFile, StagePlan, StageCreate, StageRecord, StageCopy, StageRest, Goto, Save
    <2>3. mem' = mem \/ \E s \in {"planned", "writing", "active"} : PutArt(s)
      BY <1>2 DEF StageFile, StagePlan, StageCreate, StageRecord, StageCopy, StageRest
    <2>4. mem'.mounts = mem.mounts
      BY <1>0, <2>3 DEF PutArt, StateType
    <2> QED  BY <2>1, <2>2, <2>4, SameCalm DEF Delicate, DirSites, MountCleanSites
  <1>3. CASE GrantX /\ ~Raise
    <2>1. table' = table /\ journal' = journal /\ pending' = pending
      BY <1>3 DEF GrantX, XQuery, XMutate, XVerify, Quiet, disk, store
    <2>2. pc' \in {"x.mutate", "x.verify", "mount.plan", "abort"}
      BY <1>3 DEF GrantX, XQuery, XMutate, XVerify, Goto, Save
    <2>3. mem' = mem \/ (\E s : PutX(s)) \/ (\E q : mem' = [mem EXCEPT !.x = q])
      BY <1>3 DEF GrantX, XQuery, XMutate, XVerify
    <2>4. mem'.mounts = mem.mounts
      BY <1>0, <2>3 DEF PutX, StateType
    <2> QED  BY <2>1, <2>2, <2>4, SameCalm DEF Delicate, DirSites, MountCleanSites
  <1>4. CASE MountsDone \/ Work
    <2>1. /\ table' = table /\ journal' = journal /\ pending' = pending /\ mem' = mem
          /\ pc' \in {"work", "clean.preflight"}
      BY <1>4 DEF MountsDone, Work, PutFile, Quiet, Goto, disk, store
    <2> QED  BY <2>1, SameCalm DEF Delicate, DirSites, MountCleanSites
  <1> QED  BY <1>1, <1>2, <1>3, <1>4, RaiseCalm

\* What cleanup does apart from the mounts.
LEMMA CleanCalm ==
  ASSUME TypeInv, MountsCleaned \/ CleanFile \/ CleanUnlink \/ DirsCleaned \/ CleanDirSkip \/ CleanDir
                  \/ CleanRmdir \/ CleanX \/ CleanXRun \/ CleanXVerify \/ CleanFinal
  PROVE  Calm
  <1>0. mem \in StateType
    BY MemTyped DEF Typed
  <1>1. CASE MountsCleaned \/ CleanFile \/ CleanUnlink
    <2>1. table' = table /\ journal' = journal /\ pending' = pending
      BY <1>1 DEF MountsCleaned, CleanFile, CleanUnlink, PutFile, Quiet, disk, store
    <2>2. pc' \in {"clean.file", "clean.unlink", "clean.dir"}
      BY <1>1 DEF MountsCleaned, CleanFile, CleanUnlink, Goto, Save
    <2>3. mem' = mem \/ \E s : PutArt(s)
      BY <1>1 DEF MountsCleaned, CleanFile, CleanUnlink
    <2>4. mem'.mounts = mem.mounts
      BY <1>0, <2>3 DEF PutArt, StateType
    <2> QED  BY <2>1, <2>2, <2>4, SameCalm DEF Delicate, DirSites, MountCleanSites
  <1>2. CASE (DirsCleaned \/ CleanDirSkip \/ CleanDir \/ CleanRmdir) /\ ~Raise
    <2>1. table' = table /\ journal' = journal /\ pending' = pending
      BY <1>2 DEF DirsCleaned, CleanDirSkip, CleanDir, CleanRmdir, Quiet, disk, store
    <2>2. pc' \in {"clean.dir", "clean.rmdir", "clean.x"}
      BY <1>2 DEF DirsCleaned, CleanDirSkip, CleanDir, CleanRmdir, Goto, Save
    <2>3. mem' = mem \/ \E s : PutSlot(s)
      BY <1>2 DEF DirsCleaned, CleanDirSkip, CleanDir, CleanRmdir
    <2>4. mem'.mounts = mem.mounts
      BY <1>0, <2>3 DEF PutSlot, StateType
    <2> QED  BY <2>1, <2>2, <2>4, SameCalm DEF Delicate, DirSites, MountCleanSites
  <1>3. CASE (CleanX \/ CleanXRun \/ CleanXVerify) /\ ~Raise
    <2>1. table' = table /\ journal' = journal /\ pending' = pending
      BY <1>3 DEF CleanX, CleanXRun, CleanXVerify, Quiet, disk, store
    <2>2. pc' \in {"clean.x", "clean.xrun", "clean.xverify", "clean.final"}
      BY <1>3 DEF CleanX, CleanXRun, CleanXVerify, Goto, Save
    <2>3. mem' = mem \/ \E s : PutX(s)
      BY <1>3 DEF CleanX, CleanXRun, CleanXVerify
    <2>4. mem'.mounts = mem.mounts
      BY <1>0, <2>3 DEF PutX, StateType
    <2> QED  BY <2>1, <2>2, <2>4, SameCalm DEF Delicate, DirSites, MountCleanSites
  <1>4. CASE CleanFinal
    <2>1. /\ table' = table /\ journal' = journal /\ pending' = pending
          /\ pc' \in {"idle", "clean.remove"}
          /\ mem' = NoJournal \/ mem' = [mem EXCEPT !.phase = "complete"]
      BY <1>4 DEF CleanFinal, Exit, Goto, Save, Quiet, disk, store
    <2>2. mem'.mounts = mem.mounts \/ mem'.mounts = << >>
      BY <1>0, <2>1, NothingSound DEF StateType
    <2> QED  BY <2>1, <2>2 DEF Calm, Delicate, DirSites, MountCleanSites
  <1> QED  BY <1>1, <1>2, <1>3, <1>4, RaiseCalm

\* The journal is removed, and a recovery goes on with the next.
LEMMA RemoveCalm == RemoveJournal => Calm
  <1> SUFFICES ASSUME RemoveJournal  PROVE Calm
    OBVIOUS
  <1>1. /\ table' = table /\ journal' = NoJournal /\ pending' = pending
        /\ \/ pc' = "idle" /\ mem' = NoJournal
           \/ pc' = "body" /\ mem' = Fresh
    BY DEF RemoveJournal, Exit, Goto, Save, disk
  <1> QED  BY <1>1, NothingSound DEF Calm, Delicate, DirSites, MountCleanSites

--------------------------------------------------------------------------------
(* Mounts that come and go *)

\* What is mounted anew is owned by no record.
LEMMA GrowSound ==
  ASSUME NEW T, NEW N, NEW ms, Sound(T, ms),
         \A i \in DOMAIN ms : \A m \in Owned(ms[i]) : m \notin N,
         \A i \in DOMAIN ms : ms[i].stage = "command-started" => Founded(T \cup N, i)
  PROVE  Sound(T \cup N, ms)
  <1>1. \A m \in T : OursIn(T, m) => OursIn(T \cup N, m)
    BY DEF OursIn
  <1> QED  BY <1>1 DEF Sound, PlanSound

\* A mount goes, and what hangs below it goes with it.
LEMMA DropSound ==
  ASSUME NEW T, T \subseteq Mount, NEW m \in T, NEW D,
         m \in D, \A n \in D : n # m => n.req = m.req /\ n.at = "sub",
         m.at = "root" => \A n \in T : n.req = m.req /\ n.at = "sub" => n \in D,
         m.at = "root" /\ m.depth = 1 => \A n \in T : n.req = m.req /\ n.at = "root" => n = m,
         NEW ms, Sound(T, ms)
  PROVE  Sound(T \ D, ms)
  <1>1. ASSUME NEW n \in T \ D, OursIn(T, n)  PROVE OursIn(T \ D, n)
    <2>1. CASE n.by = "session"
      BY <2>1 DEF OursIn
    <2>2. CASE n.by # "session"
      <3>1. n.at = "sub"
        BY <1>1, <2>2 DEF OursIn
      <3>2. PICK k \in T : k.req = n.req /\ k.at = "root" /\ k.by = "session"
        BY <1>1, <2>2 DEF OursIn
      <3>3. k \notin D
        BY <1>1, <3>1, <3>2
      <3> QED  BY <3>1, <3>2, <3>3 DEF OursIn
    <2> QED  BY <2>1, <2>2
  <1>2. ASSUME NEW r, Founded(T, r)  PROVE Founded(T \ D, r)
    <2>1. CASE \A n \in T : n.req # r
      BY <2>1 DEF Founded
    <2>2. CASE \E n \in T : n.req = r /\ n.at = "root" /\ n.depth = 1 /\ n.by = "session"
      <3>1. PICK n \in T : n.req = r /\ n.at = "root" /\ n.depth = 1 /\ n.by = "session"
        BY <2>2
      <3>2. CASE n \notin D
        BY <3>1, <3>2 DEF Founded
      <3>3. CASE n \in D
        <4>1. n = m
          BY <3>1, <3>3
        <4>2. \A k \in T : k.at = "root" \/ k.at = "sub"
          BY DEF Mount
        <4>3. \A k \in T \ D : k.req # r
          BY <3>1, <4>1, <4>2
        <4> QED  BY <4>3 DEF Founded
      <3> QED  BY <3>2, <3>3
    <2> QED  BY <1>2, <2>1, <2>2 DEF Founded
  <1> QED  BY <1>1, <1>2 DEF Sound, PlanSound

\* There are finitely many at a path.
LEMMA PathFinite ==
  ASSUME NEW T, IsFiniteSet(T), NEW r, NEW a
  PROVE  IsFiniteSet(PathIn(T, r, a)) /\ Cardinality(PathIn(T, r, a)) \in Nat
  <1>1. PathIn(T, r, a) \subseteq T
    BY DEF PathIn
  <1> QED  BY <1>1, FS_Subset, FS_CardinalityType

\* A mount is laid on top of its path.
LEMMA StackAdd ==
  ASSUME NEW T, IsFiniteSet(T), Stacked(T), NEW x,
         x.depth = Cardinality(PathIn(T, x.req, x.at)) + 1
  PROVE  Stacked(T \cup {x})
  <1> DEFINE c == Cardinality(PathIn(T, x.req, x.at))
  <1>1. c \in Nat
    BY PathFinite
  <1>2. \A m \in T : /\ Cardinality(PathIn(T, m.req, m.at)) \in Nat
                     /\ m.depth \in 1..Cardinality(PathIn(T, m.req, m.at))
    BY PathFinite DEF Stacked
  <1>3. x \notin T
    BY <1>1, <1>2
  <1>4. \A m \in T : m.req = x.req /\ m.at = x.at => m.depth # x.depth
    BY <1>1, <1>2
  <1>5. \A m, n \in T \cup {x} : m.req = n.req /\ m.at = n.at /\ m.depth = n.depth => m = n
    BY <1>4 DEF Stacked
  <1>6. Cardinality(PathIn(T \cup {x}, x.req, x.at)) = c + 1
    <2>1. PathIn(T \cup {x}, x.req, x.at) = PathIn(T, x.req, x.at) \cup {x}
      BY DEF PathIn
    <2>2. x \notin PathIn(T, x.req, x.at)
      BY <1>3 DEF PathIn
    <2> QED  BY <2>1, <2>2, PathFinite, FS_AddElement
  <1>7. ASSUME NEW m \in T \cup {x}
        PROVE  m.depth \in 1..Cardinality(PathIn(T \cup {x}, m.req, m.at))
    <2>1. CASE m.req = x.req /\ m.at = x.at
      <3>1. m.depth \in 1..(c + 1)
        BY <1>1, <1>2, <2>1
      <3> QED  BY <1>6, <2>1, <3>1
    <2>2. CASE ~(m.req = x.req /\ m.at = x.at)
      <3>1. m \in T /\ PathIn(T \cup {x}, m.req, m.at) = PathIn(T, m.req, m.at)
        BY <2>2 DEF PathIn
      <3> QED  BY <1>2, <3>1
    <2> QED  BY <2>1, <2>2
  <1> QED  BY <1>5, <1>7 DEF Stacked

\* The one on top is taken away.
LEMMA StackTop ==
  ASSUME NEW T, IsFiniteSet(T), Stacked(T), NEW x \in T, \A m \in T : m.depth \in Nat,
         \A m \in PathIn(T, x.req, x.at) : m.depth <= x.depth
  PROVE  Stacked(T \ {x})
  <1> DEFINE c == Cardinality(PathIn(T, x.req, x.at))
  <1>0. x \in PathIn(T, x.req, x.at)
    BY DEF PathIn
  <1>1. IsFiniteSet(PathIn(T, x.req, x.at)) /\ c \in Nat
    BY PathFinite
  <1>2. \A m \in T : /\ Cardinality(PathIn(T, m.req, m.at)) \in Nat
                     /\ m.depth \in 1..Cardinality(PathIn(T, m.req, m.at))
    BY PathFinite DEF Stacked
  <1>3. Cardinality(PathIn(T \ {x}, x.req, x.at)) = c - 1
    <2>1. PathIn(T \ {x}, x.req, x.at) = PathIn(T, x.req, x.at) \ {x}
      BY DEF PathIn
    <2>2. Cardinality(PathIn(T, x.req, x.at) \ {x}) = c - 1
      BY <1>0, <1>1, FS_RemoveElement
    <2> QED  BY <2>1, <2>2
  <1>4. ASSUME NEW m \in T \ {x}
        PROVE  m.depth \in 1..Cardinality(PathIn(T \ {x}, m.req, m.at))
    <2>1. CASE m.req = x.req /\ m.at = x.at
      <3>1. m.depth # x.depth /\ m.depth <= x.depth
        BY <2>1 DEF Stacked, PathIn
      <3>2. x.depth <= c /\ m.depth \in 1..c /\ x.depth \in Nat
        BY <1>2, <2>1
      <3>3. m.depth \in 1..(c - 1)
        BY <1>1, <3>1, <3>2
      <3> QED  BY <1>3, <2>1, <3>3
    <2>2. CASE ~(m.req = x.req /\ m.at = x.at)
      <3>1. PathIn(T \ {x}, m.req, m.at) = PathIn(T, m.req, m.at)
        BY <2>2 DEF PathIn
      <3> QED  BY <1>2, <3>1
    <2> QED  BY <2>1, <2>2
  <1> QED  BY <1>4 DEF Stacked

\* All of them are taken away.
LEMMA StackPath ==
  ASSUME NEW T, Stacked(T), NEW r, NEW a
  PROVE  Stacked(T \ PathIn(T, r, a))
  <1> DEFINE U == T \ PathIn(T, r, a)
  <1>1. \A m \in U : PathIn(U, m.req, m.at) = PathIn(T, m.req, m.at)
    BY DEF PathIn
  <1>2. \A m \in U : m.depth \in 1..Cardinality(PathIn(U, m.req, m.at))
    BY <1>1 DEF Stacked
  <1> QED  BY <1>2 DEF Stacked

\* There is a first of the owned mounts that cleanup visits, and none lies deeper.
LEMMA FirstIn ==
  ASSUME NEW S, S \subseteq Mount, S # {}
  PROVE  First(S) \in S /\ \A n \in S : ~Deeper(n, First(S))
  <1> DEFINE rank(m) == 2 * (NumRequests - m.req) + (IF m.at = "sub" THEN 0 ELSE 1)
             R == {rank(m) : m \in S}
             Less == OpToRel(<, Nat)
  <1>1. \A m \in S : m.req \in 1..NumRequests /\ m.at \in {"root", "sub"}
    BY DEF Mount, Requests
  <1>2. NumRequests \in Nat
    OBVIOUS
  <1>3. \A m \in S : rank(m) \in Nat
    BY <1>1, <1>2
  <1>4. R \subseteq Nat /\ R # {}
    BY <1>3
  <1>5. \A x, y \in Nat : y < x => <<y, x>> \in Less
    BY DEF OpToRel
  <1> HIDE DEF R, Less
  <1>6. IsWellFoundedOn(Less, Nat)
    BY NatLessThanWellFounded DEF Less
  <1>7. PICK x \in R : \A y \in R : ~(<<y, x>> \in Less)
    BY <1>4, <1>6, WFMin, Zenon
  <1>8. \A y \in R : ~(y < x)
    BY <1>4, <1>5, <1>7
  <1>9. PICK m \in S : x = rank(m)
    BY <1>7 DEF R
  <1>10. \A n \in S : ~(rank(n) < rank(m))
    BY <1>8, <1>9 DEF R
  <1>11. \A n \in S : ~Deeper(n, m)
    <2> SUFFICES ASSUME NEW n \in S, Deeper(n, m)  PROVE FALSE
      OBVIOUS
    <2>1. rank(n) < rank(m)
      BY <1>1, <1>2 DEF Deeper
    <2> QED  BY <1>10, <2>1
  <1> QED  BY <1>11 DEF First

--------------------------------------------------------------------------------
(* What a record comes to own *)

\* A step that changes at most the record's plans.
LEMMA RecordOwn ==
  ASSUME OwnInv, table' = table, journal' = journal, pending' = pending,
         Sound(table, mem'.mounts), RunInv', TodoInv'
  PROVE  OwnInv'
  BY DEF OwnInv

\* The identities of what a record owns are in use.
LEMMA OwnedIds ==
  ASSUME NEW j \in {journal, pending, mem}, NEW i \in DOMAIN j.mounts, NEW m \in Owned(j.mounts[i])
  PROVE  m.id \in Ids
  <1>1. m \in AllOwned(j)
    BY DEF AllOwned
  <1> QED  BY <1>1 DEF Ids

\* Where one mount lies at a destination whose lowest is a session's, all that
\* is there is the session's own.
LEMMA FoundedOwn ==
  ASSUME table \in FinMounts, NEW r, Founded(table, r), NEW m, AtPath(r, "root") = {m}
  PROVE  \A n \in Scope(r) : n.req = r /\ OursIn(table, n)
  <1>1. m \in table /\ m.req = r
    BY DEF AtPath
  <1>2. PICK k \in table : k.req = r /\ k.at = "root" /\ k.depth = 1 /\ k.by = "session"
    BY <1>1 DEF Founded
  <1>3. \A n \in Scope(r) : n.at = "root" => n = k
    BY <1>2 DEF AtPath, Scope
  <1>4. \A n \in Scope(r) : n.at = "root" \/ n.at = "sub"
    BY DEF Scope, FinMounts, Mount
  <1> QED  BY <1>2, <1>3, <1>4 DEF OursIn, Scope

\* A preflight that accepts a plan gives it only what is the session's own.
LEMMA NewPlanSound ==
  ASSUME table \in FinMounts, NEW p \in PlanType, NEW r, PlanStateOK(p, r), PlanSound(table, p, r)
  PROVE  PlanSound(table, NewPlan(p, r), r)
  <1> DEFINE S == Scope(r)
             X == Extras(p, r)
             f == [m \in S |-> "owned"]
             g == [m \in Owned(p) \cup X |->
                     IF m \notin Owned(p) THEN "owned"
                     ELSE IF p.owned[m] = "unmounting" /\ m \notin table THEN "removed"
                     ELSE p.owned[m]]
  <1>1. /\ p.stage \in {"planned", "ambiguous"} => NewPlan(p, r) = [p EXCEPT !.stage = "failed"]
        /\ p.stage = "command-started" =>
             NewPlan(p, r) = IF S = p.before THEN [p EXCEPT !.stage = "failed"]
                             ELSE [p EXCEPT !.stage = "owned", !.seen = S, !.inferred = S,
                                            !.owned = f]
        /\ p.stage = "owned" =>
             NewPlan(p, r) = [p EXCEPT !.inferred = p.inferred \cup X, !.owned = g]
        /\ p.stage \notin {"planned", "ambiguous", "command-started", "owned"} =>
             NewPlan(p, r) = p
    BY DEF NewPlan
  <1>2. DOMAIN f = S /\ DOMAIN g = Owned(p) \cup X
    OBVIOUS
  <1>3. p.stage = "command-started" /\ S # p.before => \A m \in S : m.req = r /\ OursIn(table, m)
    <2> SUFFICES ASSUME p.stage = "command-started", S # p.before
                 PROVE  \A m \in S : m.req = r /\ OursIn(table, m)
      OBVIOUS
    <2>1. Equivalent(r) /\ Founded(table, r)
      BY DEF PlanStateOK, PlanSound
    <2>2. PICK m \in table : AtPath(r, "root") = {m}
      BY <2>1 DEF Equivalent
    <2> QED  BY <2>1, <2>2, FoundedOwn
  <1>4. p.stage = "owned" => \A m \in X : m.req = r /\ OursIn(table, m)
    <2> SUFFICES ASSUME p.stage = "owned", NEW m \in X  PROVE m.req = r /\ OursIn(table, m)
      OBVIOUS
    <2>1. /\ m.at = "sub"
          /\ \E n \in Live(p) : n.at = "root" /\ n \in table
      BY DEF PlanStateOK, OwnedMountsOK
    <2>2. PICK n \in Live(p) : n.at = "root" /\ n \in table
      BY <2>1
    <2>3. n.req = r /\ n.by = "session"
      BY <2>2 DEF Live, PlanSound, OursIn
    <2>4. m.req = r
      BY DEF Extras, Scope
    <2> QED  BY <2>1, <2>2, <2>3, <2>4 DEF OursIn
  <1> HIDE DEF S, X, f, g
  <1>5. /\ [p EXCEPT !.stage = "failed"].stage = "failed"
        /\ [p EXCEPT !.stage = "failed"].owned = p.owned
        /\ [p EXCEPT !.stage = "owned", !.seen = S, !.inferred = S, !.owned = f].stage = "owned"
        /\ [p EXCEPT !.stage = "owned", !.seen = S, !.inferred = S, !.owned = f].owned = f
        /\ [p EXCEPT !.inferred = p.inferred \cup X, !.owned = g].stage = p.stage
        /\ [p EXCEPT !.inferred = p.inferred \cup X, !.owned = g].owned = g
    BY DEF PlanType
  <1>6. CASE p.stage = "command-started" /\ S # p.before
    <2>1. NewPlan(p, r).owned = f /\ NewPlan(p, r).stage = "owned"
      BY <1>1, <1>5, <1>6
    <2> QED  BY <1>2, <1>3, <1>6, <2>1 DEF PlanSound, Owned
  <1>7. CASE p.stage = "owned"
    <2>1. NewPlan(p, r).owned = g /\ NewPlan(p, r).stage = "owned"
      BY <1>1, <1>5, <1>7
    <2> QED  BY <1>2, <1>4, <1>7, <2>1 DEF PlanSound, Owned
  <1>8. CASE p.stage \notin {"owned"} /\ ~(p.stage = "command-started" /\ S # p.before)
    <2>1. \/ NewPlan(p, r) = p
          \/ NewPlan(p, r).owned = p.owned /\ NewPlan(p, r).stage = "failed"
      BY <1>1, <1>5, <1>8
    <2> QED  BY <2>1 DEF PlanSound, Owned
  <1> QED  BY <1>6, <1>7, <1>8

\* The preflight, when it accepts and when it refuses.
LEMMA PreflightOwn ==
  ASSUME TypeInv, OwnInv, CleanPreflight
  PROVE  OwnInv'
  <1>1. CASE PreflightOK(mem)
    <2>1. /\ mem' = Preflighted(mem) /\ pc' = "clean.mark" /\ table' = table
          /\ journal' = journal /\ pending' = pending
      BY <1>1 DEF CleanPreflight, Goto, Save, store
    <2>2. Typed(mem) /\ table \in FinMounts
      BY MemTyped DEF TypeInv, DiskType
    <2>3. /\ DOMAIN mem'.mounts = DOMAIN mem.mounts
          /\ \A i \in DOMAIN mem.mounts : mem'.mounts[i] = NewPlan(mem.mounts[i], i)
      BY <2>1, <2>2, PreflightedHas
    <2>4. \A i \in DOMAIN mem.mounts : /\ mem.mounts[i] \in PlanType
                                       /\ PlanStateOK(mem.mounts[i], i)
                                       /\ PlanSound(table, mem.mounts[i], i)
      BY <1>1, <2>2, StateHas DEF Typed, PreflightOK, PlansOK, OwnInv, Sound
    <2>5. Sound(table, mem'.mounts)
      BY <2>2, <2>3, <2>4, NewPlanSound DEF Sound
    <2>6. RunInv' /\ TodoInv'
      BY <2>1 DEF RunInv, TodoInv, DirSites, MountCleanSites
    <2> QED  BY <2>1, <2>5, <2>6, RecordOwn
  <1>2. CASE ~PreflightOK(mem)
    <2>1. /\ pc' = "idle" /\ mem' = NoJournal /\ table' = table
          /\ journal' = journal /\ pending' = pending
      BY <1>2 DEF CleanPreflight, Exit, Goto, store
    <2>2. Calm
      BY <2>1, NothingSound DEF Calm, Delicate, DirSites, MountCleanSites
    <2> QED  BY <2>2, CalmOwn
  <1> QED  BY <1>1, <1>2

\* The plan of the current request is replaced.
LEMMA PutPlanOwn ==
  ASSUME TypeInv, OwnInv, Place > 0, NEW p \in PlanType, PutPlan(p), PlanSound(table, p, Place)
  PROVE  /\ Sound(table, mem'.mounts) /\ Place' = Place /\ Current' = p
  <1>1. /\ Place \in DOMAIN mem.mounts /\ Place' = Place
        /\ mem'.mounts = [mem.mounts EXCEPT ![Place] = p]
    BY CurrentTyped
  <1>2. mem'.mounts[Place] = p /\ Current' = p
    BY <1>1 DEF Current
  <1>3. Sound(table, mem'.mounts)
    BY <1>1, <1>2 DEF OwnInv, Sound
  <1> QED  BY <1>1, <1>2, <1>3

\* _acquire_mount: a request is planned where nothing is mounted, and what is
\* found after the command lies on what the command has mounted.
LEMMA MountPlanOwn ==
  ASSUME TypeInv, OwnInv, MountPlan
  PROVE  OwnInv'
  <1>1. CASE Raise
    BY <1>1, RaiseCalm, CalmOwn
  <1>2. CASE ~Raise
    <2>1. /\ Place < NumRequests /\ Quiet
          /\ \/ /\ pc' = "mount.plan"
                /\ mem' = [mem EXCEPT !.mounts =
                             Append(@, Plan("already-present", Scope(Place + 1), Scope(Place + 1)))]
             \/ /\ pc' = "dir.plan"
                /\ mem' = [mem EXCEPT !.mounts = Append(@, Plan("planned", {}, {}))]
      BY <1>2 DEF MountPlan, Save
    <2>2. PICK p \in PlanType : /\ mem' = [mem EXCEPT !.mounts = Append(@, p)]
                                /\ PlanSound(table, p, Place + 1)
                                /\ \/ pc' = "mount.plan"
                                   \/ pc' = "dir.plan" /\ p.stage = "planned"
      <3>1. Scope(Place + 1) \in FinMounts /\ {"planned", "already-present"} \subseteq PlanStages
        BY ScopeFin DEF PlanStages
      <3>2. /\ Plan("already-present", Scope(Place + 1), Scope(Place + 1)) \in PlanType
            /\ Plan("planned", {}, {}) \in PlanType
        BY <3>1, FinEmpty, PlanIs
      <3>3. /\ PlanSound(table, Plan("already-present", Scope(Place + 1), Scope(Place + 1)), Place + 1)
            /\ PlanSound(table, Plan("planned", {}, {}), Place + 1)
        BY DEF Plan, PlanSound, Owned
      <3>4. Plan("planned", {}, {}).stage = "planned"
        BY DEF Plan
      <3> QED  BY <2>1, <3>2, <3>3, <3>4
    <2>3. Typed(mem) /\ Len(mem.mounts) < NumRequests
      BY <2>1, MemTyped DEF Place
    <2>4. /\ DOMAIN mem'.mounts = DOMAIN mem.mounts \cup {Place + 1}
          /\ mem'.mounts[Place + 1] = p /\ Place' = Place + 1
          /\ \A i \in DOMAIN mem.mounts : mem'.mounts[i] = mem.mounts[i]
      BY <2>2, <2>3, AppendTyped DEF Place
    <2>5. Sound(table, mem'.mounts)
      BY <2>2, <2>4 DEF OwnInv, Sound
    <2>6. RunInv' /\ TodoInv'
      BY <2>2, <2>4 DEF RunInv, TodoInv, Current, MountCleanSites, DirSites
    <2>7. table' = table /\ journal' = journal /\ pending' = pending
      BY <2>1 DEF Quiet, disk, store
    <2> QED  BY <2>5, <2>6, <2>7, RecordOwn
  <1> QED  BY <1>1, <1>2

\* The command is started where nothing is mounted.
LEMMA MountCheckOwn ==
  ASSUME TypeInv, OwnInv, MountCheck
  PROVE  OwnInv'
  <1>0. /\ pc = "mount.check" /\ Place > 0
        /\ table' = table /\ journal' = journal /\ pending' = pending
    BY DEF MountCheck, At, TypeInv, ControlType, MountSites, Quiet, disk, store
  <1>1. /\ Current \in PlanType /\ Scope(Place) \in FinMounts
        /\ PlanSound(table, Current, Place)
    BY <1>0, CurrentTyped, ScopeFin DEF OwnInv, Sound, Current
  <1>2. CASE Scope(Place) = Current.before
    <2> DEFINE p == [Current EXCEPT !.stage = "command-started"]
    <2>1. PutPlan(p) /\ pc' = "mount.run"
      BY <1>2 DEF MountCheck, Save
    <2>2. /\ p \in PlanType /\ p.owned = Current.owned /\ p.before = Current.before
          /\ p.stage = "command-started"
      BY <1>1 DEF PlanType, PlanStages
    <2> HIDE DEF p
    <2>3. Current.before = {}
      BY <1>0, <1>1 DEF OwnInv, RunInv, PlanSound
    <2>4. PlanSound(table, p, Place)
      BY <1>1, <1>2, <2>2, <2>3 DEF PlanSound, Owned, Founded, Scope
    <2>5. Sound(table, mem'.mounts) /\ Place' = Place /\ Current' = p
      BY <1>0, <2>1, <2>2, <2>4, PutPlanOwn
    <2>6. Scope(Place)' = {}
      BY <1>0, <1>2, <2>3, <2>5 DEF Scope
    <2>7. RunInv' /\ TodoInv'
      BY <2>1, <2>2, <2>5, <2>6 DEF RunInv, TodoInv, DirSites, MountCleanSites
    <2> QED  BY <1>0, <2>5, <2>7, RecordOwn
  <1>3. CASE Scope(Place) # Current.before
    <2> DEFINE p == [Current EXCEPT !.stage = "ambiguous", !.seen = Scope(Place)]
    <2>1. PutPlan(p) /\ pc' = "abort"
      BY <1>3 DEF MountCheck, Save
    <2>2. p \in PlanType /\ p.owned = Current.owned /\ p.stage = "ambiguous"
      BY <1>1 DEF PlanType, PlanStages
    <2> HIDE DEF p
    <2>3. PlanSound(table, p, Place)
      BY <1>1, <2>2 DEF PlanSound, Owned
    <2>4. Sound(table, mem'.mounts)
      BY <1>0, <2>1, <2>2, <2>3, PutPlanOwn
    <2>5. RunInv' /\ TodoInv'
      BY <2>1 DEF RunInv, TodoInv, DirSites, MountCleanSites
    <2> QED  BY <1>0, <2>4, <2>5, RecordOwn
  <1> QED  BY <1>2, <1>3

\* mount(8) lays the session's own mount lowest.
LEMMA MountRunOwn ==
  ASSUME TypeInv, OwnInv, MountRun
  PROVE  OwnInv'
  <1>0. /\ pc = "mount.run" /\ pc' = "mount.after" /\ Place > 0
        /\ Command(table' = table \cup Bound(Place), UNCHANGED table)
        /\ journal' = journal /\ pending' = pending /\ mem' = mem
    BY DEF MountRun, At, Goto, TypeInv, ControlType, MountSites, store
  <1>1. table' = table \cup Bound(Place) \/ table' = table
    BY <1>0, CommandTyped
  <1>2. RunInv' /\ TodoInv'
    BY <1>0 DEF OwnInv, RunInv, TodoInv, Current, Place, MountCleanSites, DirSites
  <1>3. CASE table' = table
    BY <1>0, <1>2, <1>3 DEF OwnInv
  <1>4. CASE table' = table \cup Bound(Place)
    <2> DEFINE a == NewMount(NewId, Place, "root", "session", TRUE)
               b == NewMount(NextId, Place, "sub", "session", TRUE)
    <2>1. Place \in Requests /\ table \in FinMounts /\ IsFiniteSet(table)
      BY <1>0, CurrentTyped, FinIs DEF TypeInv, DiskType
    <2>2. /\ a.req = Place /\ a.at = "root" /\ a.by = "session" /\ a.id = NewId
          /\ a.depth = Cardinality(AtPath(Place, "root")) + 1
          /\ b.req = Place /\ b.at = "sub" /\ b.by = "session" /\ b.id = NextId
          /\ b.depth = Cardinality(AtPath(Place, "sub")) + 1
      BY DEF NewMount
    <2>3. Bound(Place) = {a} \cup (IF Place \in Recursive THEN {b} ELSE {})
      BY DEF Bound
    <2> HIDE DEF a, b
    <2>4. AtPath(Place, "root") = PathIn(table, Place, "root")
          /\ AtPath(Place, "sub") = PathIn(table, Place, "sub")
      BY DEF AtPath, PathIn
    <2>5. Stacked(table \cup {a}) /\ IsFiniteSet(table \cup {a})
      BY <2>1, <2>2, <2>4, StackAdd, FS_AddElement DEF OwnInv
    <2>6. PathIn(table \cup {a}, Place, "sub") = PathIn(table, Place, "sub")
      BY <2>2 DEF PathIn
    <2>7. Stacked((table \cup {a}) \cup {b})
      BY <2>2, <2>4, <2>5, <2>6, StackAdd
    <2>8. Stacked(table')
      <3>1. table' = table \cup {a} \/ table' = (table \cup {a}) \cup {b}
        BY <1>4, <2>3
      <3> QED  BY <2>5, <2>7, <3>1
    <2>9. a.depth = 1
      <3>1. AtPath(Place, "root") = {}
        BY <1>0 DEF OwnInv, RunInv, AtPath, Scope
      <3> QED  BY <2>2, <3>1, FS_EmptySet
    <2>10. \A r : Founded(table, r) => Founded(table', r)
      BY <1>4, <2>2, <2>3, <2>9 DEF Founded
    <2>11. \A m \in Bound(Place) : m.id \notin Ids
      BY <2>2, <2>3, NewIds
    <2>12. ASSUME NEW j \in {journal, pending, mem}, Sound(table, j.mounts)
           PROVE  Sound(table', j.mounts)
      <3>1. \A i \in DOMAIN j.mounts : \A m \in Owned(j.mounts[i]) : m \notin Bound(Place)
        BY <2>11, OwnedIds
      <3>2. \A i \in DOMAIN j.mounts : j.mounts[i].stage = "command-started" => Founded(table', i)
        BY <2>10, <2>12 DEF Sound, PlanSound
      <3> QED  BY <1>4, <2>12, <3>1, <3>2, GrowSound
    <2> QED  BY <1>0, <1>2, <2>8, <2>12 DEF OwnInv
  <1> QED  BY <1>1, <1>3, <1>4

\* What is attributed to the command lies on its mount.
LEMMA MountAfterOwn ==
  ASSUME TypeInv, OwnInv, MountAfter
  PROVE  OwnInv'
  <1>0. /\ pc = "mount.after" /\ Place > 0 /\ pc' \in {"abort", "mount.plan"}
        /\ table' = table /\ journal' = journal /\ pending' = pending
    BY DEF MountAfter, At, Save, TypeInv, ControlType, MountSites, disk, store
  <1>1. /\ Current \in PlanType /\ Scope(Place) \in FinMounts /\ table \in FinMounts
        /\ PlanSound(table, Current, Place) /\ Current.stage = "command-started"
    BY <1>0, CurrentTyped, ScopeFin DEF OwnInv, Sound, Current, RunInv, TypeInv, DiskType
  <1> DEFINE S == Scope(Place)
             f == [m \in S |-> "owned"]
             q == [Current EXCEPT !.seen = S]
             q1 == [q EXCEPT !.stage = "failed"]
             q2 == [q EXCEPT !.stage = "ambiguous"]
             q3 == [q EXCEPT !.stage = "owned", !.owned = f]
  <1>2. \/ PutPlan(q1) \/ PutPlan(q2)
        \/ PutPlan(q3) /\ Attributable(Place)
    BY DEF MountAfter
  <1>3. q1 \in PlanType /\ q2 \in PlanType /\ q3 \in PlanType
    <2>1. {"failed", "ambiguous", "owned"} \subseteq PlanStages
      BY DEF PlanStages
    <2> QED  BY <1>1, <2>1, PutStages
  <1>4. DOMAIN f = S
    OBVIOUS
  <1> HIDE DEF f, S
  <1>5. /\ q1.owned = Current.owned /\ q1.stage = "failed"
        /\ q2.owned = Current.owned /\ q2.stage = "ambiguous"
        /\ q3.owned = f /\ q3.stage = "owned"
    BY <1>1 DEF PlanType
  <1> HIDE DEF q, q1, q2, q3
  <1>6. PlanSound(table, q1, Place) /\ PlanSound(table, q2, Place)
    BY <1>1, <1>5 DEF PlanSound, Owned
  <1>7. Attributable(Place) => PlanSound(table, q3, Place)
    <2> HAVE Attributable(Place)
    <2>1. IsFiniteSet(AtPath(Place, "root")) /\ Cardinality(AtPath(Place, "root")) = 1
      BY <1>1, AtPathFinite DEF Attributable
    <2>2. PICK m : AtPath(Place, "root") = {m}
      BY <2>1, FS_Singleton
    <2>3. \A n \in S : n.req = Place /\ OursIn(table, n)
      BY <1>1, <2>2, FoundedOwn DEF PlanSound, S
    <2> QED  BY <1>4, <1>5, <2>3 DEF PlanSound, Owned
  <1>8. Sound(table, mem'.mounts)
    BY <1>0, <1>2, <1>3, <1>6, <1>7, PutPlanOwn
  <1>9. RunInv' /\ TodoInv'
    BY <1>0 DEF RunInv, TodoInv, DirSites, MountCleanSites
  <1> QED  BY <1>0, <1>8, <1>9, RecordOwn

--------------------------------------------------------------------------------
(* What a session unmounts *)

\* Cleanup sets out to visit what the record owns.
LEMMA CleanMarkOwn ==
  ASSUME TypeInv, OwnInv, CleanMark
  PROVE  OwnInv'
  <1>1. CASE mem.phase # "cleaning"
    <2>1. /\ table' = table /\ journal' = journal /\ pending' = pending /\ pc' = "clean.mark"
          /\ mem' = [mem EXCEPT !.phase = "cleaning"] /\ mem \in StateType
      BY <1>1, MemTyped DEF CleanMark, Save, Quiet, disk, store, Typed
    <2>2. mem'.mounts = mem.mounts
      BY <2>1 DEF StateType
    <2>3. Calm
      BY <2>1, <2>2, SameCalm DEF Delicate, DirSites, MountCleanSites
    <2> QED  BY <2>3, CalmOwn
  <1>2. CASE mem.phase = "cleaning"
    <2>1. /\ table' = table /\ journal' = journal /\ pending' = pending /\ mem' = mem
          /\ todo' = AllOwned(mem) /\ pc' = "clean.mount"
      BY <1>2 DEF CleanMark, Goto, disk, store
    <2>2. RunInv' /\ TodoInv'
      BY <2>1 DEF RunInv, TodoInv, AllOwned, DirSites
    <2> QED  BY <2>1, <2>2, RecordOwn DEF OwnInv
  <1> QED  BY <1>1, <1>2

\* Another stage of an owned mount changes nothing of what is owned.
LEMMA PutOwnedOwn ==
  ASSUME TypeInv, OwnInv, UNCHANGED <<disk, store, todo>>, pc \in MountCleanSites,
         pc' \in MountCleanSites, pc' = "clean.umount" => todo # {}, NEW t, NEW s \in OwnedStages, PutOwned(t, s)
  PROVE  OwnInv'
  <1>0. /\ Typed(mem) /\ mem' = [mem EXCEPT !.mounts[t.req].owned[t] = s]
        /\ table' = table /\ journal' = journal /\ pending' = pending /\ todo' = todo
    BY MemTyped DEF PutOwned, disk, store
  <1>1. /\ DOMAIN mem'.mounts = DOMAIN mem.mounts
        /\ \A i \in DOMAIN mem.mounts :
             mem'.mounts[i] = IF i = t.req THEN [mem.mounts[i] EXCEPT !.owned[t] = s] ELSE mem.mounts[i]
    BY <1>0, PutOwnedTyped
  <1>2. \A i \in DOMAIN mem.mounts : mem.mounts[i] \in PlanType
    BY <1>0, StateHas DEF Typed
  <1>3. \A p \in PlanType : /\ [p EXCEPT !.owned[t] = s].stage = p.stage
                            /\ [p EXCEPT !.owned[t] = s].before = p.before
                            /\ Owned([p EXCEPT !.owned[t] = s]) = Owned(p)
    BY PutStageTyped DEF PlanType
  <1>4. \A i \in DOMAIN mem.mounts : /\ mem'.mounts[i].stage = mem.mounts[i].stage
                                     /\ mem'.mounts[i].before = mem.mounts[i].before
                                     /\ Owned(mem'.mounts[i]) = Owned(mem.mounts[i])
    BY <1>1, <1>2, <1>3
  <1>5. Sound(table, mem'.mounts)
    BY <1>1, <1>4 DEF OwnInv, Sound, PlanSound
  <1>6. AllOwned(mem') = AllOwned(mem)
    BY <1>1, <1>4 DEF AllOwned
  <1>7. RunInv' /\ TodoInv'
    BY <1>0, <1>6 DEF OwnInv, RunInv, TodoInv, DirSites, MountCleanSites
  <1> QED  BY <1>0, <1>5, <1>7, RecordOwn

\* What cleanup is about to unmount and finds alone at its path is its own.
LEMMA TargetOwn ==
  ASSUME TypeInv, OwnInv, pc \in MountCleanSites, todo # {}, There(Target) = {Target}
  PROVE  Target \in table /\ OursIn(table, Target)
  <1>1. Target \in todo
    BY FirstIn DEF Target, TypeInv, LoopType
  <1>2. PICK i \in DOMAIN mem.mounts : Target \in Owned(mem.mounts[i])
    BY <1>1 DEF OwnInv, TodoInv, AllOwned
  <1>3. Target \in table
    BY DEF There, AtPath
  <1> QED  BY <1>2, <1>3 DEF OwnInv, Sound, PlanSound

\* umount(8) takes the target and what hangs below it.
LEMMA CleanUmountOwn ==
  ASSUME TypeInv, OwnInv, CleanUmount
  PROVE  /\ OwnInv'
         /\ \A m \in table \ table' : Ours(m)
  <1>0. CASE Raise
    BY <1>0, RaiseCalm, CalmOwn DEF Calm
  <1>1. CASE ~Raise
    <2>1. /\ There(Target) = {Target} /\ pc = "clean.umount" /\ pc' = "clean.umounted"
          /\ Command(table' = Unmounted(Target), UNCHANGED table)
          /\ journal' = journal /\ pending' = pending /\ mem' = mem /\ todo' = todo
      BY <1>1 DEF CleanUmount, Umount, At, Goto, store
    <2>2. pc \in MountCleanSites /\ todo # {}
      BY <2>1 DEF OwnInv, TodoInv, MountCleanSites
    <2>3. Target \in table /\ OursIn(table, Target)
      BY <2>1, <2>2, TargetOwn
    <2>4. table' = Unmounted(Target) \/ table' = table
      BY <2>1, CommandTyped
    <2>5. RunInv' /\ TodoInv'
      BY <2>1, <2>2 DEF OwnInv, RunInv, TodoInv, AllOwned, DirSites, MountCleanSites
    <2> DEFINE t == Target
               D == {t} \cup IF t.at = "root" THEN AtPath(t.req, "sub") ELSE {}
    <2>6. CASE table' = table
      BY <2>1, <2>5, <2>6 DEF OwnInv
    <2>7. CASE table' = Unmounted(t)
      <3>1. table' = table \ D
        BY <2>7 DEF Unmounted
      <3>2. /\ t \in D /\ \A n \in D : n # t => n.req = t.req /\ n.at = "sub" /\ t.at = "root"
            /\ t.at = "root" => \A n \in table : n.req = t.req /\ n.at = "sub" => n \in D
        BY DEF AtPath
      <3>3. \A n \in table : n.req = t.req /\ n.at = t.at => n = t
        BY <2>1 DEF There, AtPath
      <3>4. table \subseteq Mount
        BY DEF TypeInv, DiskType, FinMounts
      <3>5. \A ms : Sound(table, ms) => Sound(table', ms)
        <4> HIDE DEF D, t
        <4> QED  BY <2>3, <3>1, <3>2, <3>3, <3>4, DropSound DEF t
      <3>6. Stacked(table')
        <4> DEFINE U == table \ PathIn(table, t.req, t.at)
        <4>1. PathIn(table, t.req, t.at) = {t}
          BY <2>3, <3>3 DEF PathIn
        <4>2. Stacked(U) /\ Stacked(U \ PathIn(U, t.req, "sub"))
          BY StackPath DEF OwnInv
        <4>3. t.at = "root" => PathIn(U, t.req, "sub") = AtPath(t.req, "sub")
          BY <4>1 DEF PathIn, AtPath
        <4>4. table' = U \/ table' = U \ PathIn(U, t.req, "sub")
          BY <3>1, <4>1, <4>3
        <4> QED  BY <4>2, <4>4
      <3>7. \A m \in table \ table' : Ours(m)
        <4> SUFFICES ASSUME NEW m \in table \ table'  PROVE Ours(m)
          OBVIOUS
        <4>1. m \in D
          BY <3>1
        <4>2. CASE m = t
          BY <2>3, <4>2 DEF OursIn, Ours
        <4>3. CASE m # t
          <5>1. m.req = t.req /\ m.at = "sub" /\ t.at = "root"
            BY <3>2, <4>1, <4>3
          <5>2. t.by = "session"
            BY <2>3, <5>1 DEF OursIn
          <5> QED  BY <2>3, <5>1, <5>2 DEF Ours
        <4> QED  BY <4>2, <4>3
      <3> QED  BY <2>1, <2>5, <3>5, <3>6, <3>7 DEF OwnInv
    <2> QED  BY <2>4, <2>6, <2>7
  <1> QED  BY <1>0, <1>1

\* Before and after it only the stage of the target is written.
LEMMA CleanMountOwn ==
  ASSUME TypeInv, OwnInv, CleanMount \/ CleanUmounted
  PROVE  OwnInv'
  <1>o. {"removed", "unmounting"} \subseteq OwnedStages
    BY DEF OwnedStages
  <1>r. CASE Raise
    BY <1>r, RaiseCalm, CalmOwn
  <1>1. CASE CleanMount /\ ~Raise
    <2>0. pc \in MountCleanSites /\ todo # {}
      BY <1>1 DEF CleanMount, At, MountCleanSites
    <2>1. CASE todo' = todo \ {Target} /\ Goto("clean.mount") /\ UNCHANGED <<disk, store, mem>>
      <3>1. /\ table' = table /\ journal' = journal /\ pending' = pending /\ mem' = mem
            /\ pc' = "clean.mount" /\ todo' \subseteq todo
        BY <2>1 DEF Goto, disk, store
      <3>2. Calm
        BY <2>0, <3>1 DEF Calm
      <3> QED  BY <3>2, CalmOwn
    <2>2. CASE \E s \in {"removed", "unmounting"} : PutOwned(Target, s) /\ Quiet /\ pc' \in MountCleanSites
      <3>1. PICK s \in {"removed", "unmounting"} : PutOwned(Target, s) /\ Quiet /\ pc' \in MountCleanSites
        BY <2>2
      <3>2. UNCHANGED <<disk, store, todo>>
        BY <3>1 DEF Quiet, loop
      <3> QED  BY <1>o, <2>0, <3>1, <3>2, PutOwnedOwn
    <2> QED  BY <1>1, <2>1, <2>2 DEF CleanMount, Save, MountCleanSites
  <1>2. CASE CleanUmounted /\ ~Raise
    <2>1. /\ PutOwned(Target, "removed") /\ pc = "clean.umounted" /\ pc' = "clean.mount"
          /\ UNCHANGED <<disk, store, todo>>
      BY <1>2 DEF CleanUmounted, At, Save
    <2> QED  BY <1>o, <2>1, PutOwnedOwn DEF MountCleanSites
  <1> QED  BY <1>r, <1>1, <1>2

\* The host mounts on top, and unmounts from the top.
LEMMA HostOwn ==
  ASSUME TypeInv, OwnInv, Host
  PROVE  OwnInv'
  <1>0. /\ journal' = journal /\ pending' = pending /\ mem' = mem /\ pc' = pc /\ todo' = todo
    BY DEF Host, store, loop
  <1>1. table \in FinMounts /\ table \subseteq Mount /\ IsFiniteSet(table)
    BY FinIs DEF TypeInv, DiskType
  <1>2. TodoInv'
    BY <1>0 DEF OwnInv, TodoInv, AllOwned
  <1>3. CASE table' = table
    BY <1>0, <1>2, <1>3 DEF OwnInv, RunInv, Current, Place, Scope
  <1>4. CASE \E r \in Requests, a \in {"root", "sub"}, like \in BOOLEAN : HostMounts(r, a, like)
    <2>1. PICK r \in Requests, a \in {"root", "sub"}, like \in BOOLEAN : HostMounts(r, a, like)
      BY <1>4
    <2> DEFINE x == NewMount(NewId, r, a, "host", like)
    <2>2. /\ table' = table \cup {x}
          /\ InProgress(r) => AtPath(r, "root") # {}
      BY <2>1 DEF HostMounts
    <2>3. /\ x.req = r /\ x.at = a /\ x.id = NewId /\ x.depth = Cardinality(PathIn(table, r, a)) + 1
      BY DEF NewMount, AtPath, PathIn
    <2> HIDE DEF x
    <2>4. Stacked(table')
      BY <1>1, <2>2, <2>3, StackAdd DEF OwnInv
    <2>5. ASSUME NEW j \in {journal, pending, mem}, NEW i \in DOMAIN j.mounts,
                 j.mounts[i].stage = "command-started", Founded(table, i)
          PROVE  Founded(table', i)
      <3>1. CASE i # r
        BY <2>2, <2>3, <2>5, <3>1 DEF Founded
      <3>2. CASE i = r
        <4>1. AtPath(r, "root") # {}
          BY <2>2, <2>5, <3>2 DEF InProgress
        <4>2. ~\A m \in table : m.req # i
          BY <3>2, <4>1 DEF AtPath
        <4> QED  BY <2>2, <2>5, <4>2 DEF Founded
      <3> QED  BY <3>1, <3>2
    <2>6. ASSUME NEW j \in {journal, pending, mem}, Sound(table, j.mounts)
          PROVE  Sound(table', j.mounts)
      <3>1. \A i \in DOMAIN j.mounts : \A m \in Owned(j.mounts[i]) : m \notin {x}
        BY <2>3, NewIds, OwnedIds
      <3>2. \A i \in DOMAIN j.mounts : j.mounts[i].stage = "command-started" => Founded(table', i)
        BY <2>5, <2>6 DEF Sound, PlanSound
      <3> QED  BY <2>2, <2>6, <3>1, <3>2, GrowSound
    <2>7. pc = "mount.run" => r # Place
      <3> SUFFICES ASSUME pc = "mount.run", r = Place  PROVE FALSE
        OBVIOUS
      <3>1. Place > 0
        BY DEF TypeInv, ControlType, MountSites
      <3>2. Place \in DOMAIN mem.mounts /\ Current.stage = "command-started" /\ Scope(Place) = {}
        BY <3>1, CurrentTyped DEF OwnInv, RunInv
      <3>3. InProgress(r)
        BY <3>2 DEF InProgress, Current
      <3> QED  BY <2>2, <3>2, <3>3 DEF AtPath, Scope
    <2>8. RunInv'
      BY <1>0, <2>2, <2>3, <2>7 DEF OwnInv, RunInv, Current, Place, Scope
    <2> QED  BY <1>0, <1>2, <2>4, <2>6, <2>8 DEF OwnInv
  <1>5. CASE \E m \in table : HostUnmounts(m)
    <2>1. PICK m \in table : HostUnmounts(m)
      BY <1>5
    <2>2. /\ \A n \in PathIn(table, m.req, m.at) : n.depth <= m.depth
          /\ m.at = "root" => \A n \in table : ~(n.req = m.req /\ n.at = "sub")
          /\ table' = table \ {m}
      BY <2>1 DEF HostUnmounts, There, AtPath, PathIn
    <2>3. \A n \in table : n.depth \in Nat
      BY <1>1 DEF Mount
    <2>4. Stacked(table')
      BY <1>1, <2>2, <2>3, StackTop DEF OwnInv
    <2>5. m.depth = 1 => \A n \in table : n.req = m.req /\ n.at = m.at => n = m
      <3> SUFFICES ASSUME m.depth = 1, NEW n \in table, n.req = m.req, n.at = m.at
                   PROVE  n.depth = m.depth
        BY DEF OwnInv, Stacked
      <3>1. n.depth <= 1
        BY <2>2 DEF PathIn
      <3>2. n.depth >= 1
        <4>1. Cardinality(PathIn(table, n.req, n.at)) \in Nat
          BY <1>1, PathFinite
        <4> QED  BY <4>1 DEF OwnInv, Stacked
      <3> QED  BY <2>3, <3>1, <3>2
    <2>6. \A ms : Sound(table, ms) => Sound(table', ms)
      <3> DEFINE D == {m}
      <3>1. /\ m \in D /\ \A n \in D : n # m => n.req = m.req /\ n.at = "sub"
            /\ m.at = "root" => \A n \in table : n.req = m.req /\ n.at = "sub" => n \in D
            /\ m.at = "root" /\ m.depth = 1 => \A n \in table : n.req = m.req /\ n.at = "root" => n = m
            /\ table' = table \ D
        BY <2>2, <2>5
      <3> HIDE DEF D
      <3> QED  BY <1>1, <3>1, DropSound
    <2>7. RunInv'
      BY <1>0, <2>2 DEF OwnInv, RunInv, Current, Place, Scope
    <2> QED  BY <1>0, <1>2, <2>4, <2>6, <2>7 DEF OwnInv
  <1> QED  BY <1>3, <1>4, <1>5 DEF Host, HostX

\* At the beginning nothing is mounted and nothing is recorded.
LEMMA OwnInitially == Init => OwnInv
  <1> SUFFICES ASSUME Init  PROVE OwnInv
    OBVIOUS
  <1>1. /\ table = {} /\ pc = "idle" /\ journal = NoJournal /\ pending = NoJournal /\ mem = NoJournal
    BY DEF Init
  <1>2. Stacked(table)
    BY <1>1 DEF Stacked
  <1>3. RunInv /\ TodoInv
    BY <1>1 DEF RunInv, TodoInv, DirSites, MountCleanSites
  <1> QED  BY <1>1, <1>2, <1>3, NothingSound DEF OwnInv

\* Every step keeps what is owned the session's own.
LEMMA OwnInductive == TypeInv /\ OwnInv /\ [Next]_vars => OwnInv'
  <1> SUFFICES ASSUME TypeInv, OwnInv, [Next]_vars  PROVE OwnInv'
    OBVIOUS
  <1>1. CASE UNCHANGED vars
    <2>1. Calm
      BY <1>1 DEF vars, disk, store, loop, Calm
    <2> QED  BY <2>1, CalmOwn
  <1>2. CASE Enter \/ \E k \in Kinds : Start(k)
    BY <1>2, EnterCalm, CalmOwn
  <1>3. CASE EnsureDirectory \/ StageFile \/ GrantX \/ MountsDone \/ Work
    BY <1>3, MakeCalm, CalmOwn
  <1>4. CASE AcquireMount /\ ~MountsDone
    BY <1>4, MountPlanOwn, MountCheckOwn, MountRunOwn, MountAfterOwn DEF AcquireMount
  <1>5. CASE Cleanup
    <2>1. CASE RemoveJournal
      BY <2>1, RemoveCalm, CalmOwn
    <2>2. CASE ~RemoveJournal
      BY <1>5, <2>2, PreflightOwn, CleanMarkOwn, CleanMountOwn, CleanUmountOwn, CleanCalm, CalmOwn
         DEF Cleanup
    <2> QED  BY <2>1, <2>2
  <1>6. CASE Fault \/ Crash \/ WritePending \/ ReplaceJournal
    BY <1>6, FailureCalm, CalmOwn
  <1>7. CASE Host
    BY <1>7, HostOwn
  <1> QED  BY <1>1, <1>2, <1>3, <1>4, <1>5, <1>6, <1>7 DEF Next, Step

\* Only umount(8) takes the session from the one place to the other.
LEMMA UmountOnly ==
  ASSUME TypeInv, OwnInv, [Next]_vars, pc = "clean.umount", pc' = "clean.umounted"
  PROVE  table' = table \/ CleanUmount
  <1>1. CASE UNCHANGED vars
    BY <1>1 DEF vars, disk
  <1>2. CASE Enter \/ \E k \in Kinds : Start(k)
    BY <1>2, EnterCalm DEF Calm
  <1>3. CASE EnsureDirectory \/ StageFile \/ GrantX \/ MountsDone \/ Work
    BY <1>3, MakeCalm DEF Calm
  <1>4. CASE AcquireMount
    BY <1>4 DEF AcquireMount, MountPlan, MountsDone, MountCheck, MountRun, MountAfter, At
  <1>5. CASE Cleanup /\ ~CleanUmount
    <2>1. CASE CleanPreflight \/ CleanMark \/ CleanMount \/ CleanUmounted \/ RemoveJournal
      BY <2>1 DEF CleanPreflight, CleanMark, CleanMount, CleanUmounted, RemoveJournal, At
    <2>2. CASE ~(CleanPreflight \/ CleanMark \/ CleanMount \/ CleanUmounted \/ RemoveJournal)
      BY <1>5, <2>2, CleanCalm DEF Cleanup, Calm
    <2> QED  BY <2>1, <2>2
  <1>6. CASE Fault \/ Crash \/ WritePending \/ ReplaceJournal
    BY <1>6, FailureCalm DEF Calm
  <1>7. CASE Host
    BY <1>7 DEF Host
  <1> QED  BY <1>1, <1>2, <1>3, <1>4, <1>5, <1>6, <1>7 DEF Next, Step

\* The session's umount(8) takes no mount that was there before it, or that
\* somebody put over or in the place of its own, whatever records it recovered
\* its knowledge from.
THEOREM UnmountsItsOwn == Spec => OnlyOwnUnmounted
  <1>1. Init => TypeInv /\ OwnInv
    BY TypeInitially, OwnInitially
  <1>2. TypeInv /\ OwnInv /\ [Next]_vars => (TypeInv /\ OwnInv)'
    BY TypeInductive, OwnInductive
  <1>3. TypeInv /\ OwnInv /\ [Next]_vars =>
          [pc = "clean.umount" /\ pc' = "clean.umounted" => \A m \in table \ table' : Ours(m)]_vars
    <2> SUFFICES ASSUME TypeInv, OwnInv, [Next]_vars, pc = "clean.umount", pc' = "clean.umounted"
                 PROVE  \A m \in table \ table' : Ours(m)
      OBVIOUS
    <2> QED  BY UmountOnly, CleanUmountOwn
  <1> QED  BY <1>1, <1>2, <1>3, PTL DEF Spec, OnlyOwnUnmounted
================================================================================
