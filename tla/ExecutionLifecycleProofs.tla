---------------------- MODULE ExecutionLifecycleProofs ----------------------
(***************************************************************************)
(* Proofs about ExecutionLifecycle: the slots are accounted for and the    *)
(* limits respected, rows that say RUNNING are explained and final         *)
(* statuses stay, for any executions, projects and numbers of slots, and   *)
(* any number of cancellations and crashes.                                *)
(*                                                                         *)
(* SlotsCounted is inductive next to the types; the argument is that of    *)
(* the number of members of a set of executions when one of them moves.    *)
(* The rows need to know who may still write to them (RowsInv).            *)
(***************************************************************************)
EXTENDS ExecutionLifecycle, FiniteSetTheorems, TLAPS

Places == {"new"} \union Waiting \union Holding \union Gone
GlobalHands == Holding \union {"project"} \union Lost
ProjectHands == Holding \union {"vanished"}
Bit(b) == IF b THEN 1 ELSE 0

\* A run that is being saved has an outcome.
OutcomeKnown == \A e \in Executions : place[e] = "persisting" => ending[e] \in Endings

IInv == LifecycleTypeOK /\ OutcomeKnown /\ SlotsCounted

\* What a row may say at each place: nothing before the commit of run(), nor
\* when run() gave up before it; a final status once the run is saved.
RowsByPlace ==
    \A e \in Executions :
        /\ place[e] \in {"new", "global", "project", "preflight", "refused", "abandoned"}
             => row[e] = "none"
        /\ place[e] \in {"notifying", "over"} => row[e] \in Final

\* A background execution that is still at work is in the registry, so that its
\* row is fresh and nobody but itself has written to it.
WorkIsRegistered ==
    \A e \in Executions \ Awaited :
        place[e] \in {"created", "running", "persisting"} =>
            e \in registered /\ row[e] = "RUNNING" /\ e \notin stale

\* Nobody is at work in a process that is down, and a row that is not there
\* does not age.
WorkNeedsProcess ==
    \A e \in Executions :
        /\ place[e] \in Waiting \union Holding => up
        /\ row[e] = "none" => e \notin stale

RowsInv == RowsByPlace /\ WorkIsRegistered /\ WorkNeedsProcess

-----------------------------------------------------------------------------
(* Counting *)

\* When x moves from one place to another, the number of members of W that are
\* in the places A changes by what x brings and takes.
LEMMA CountMoves ==
  ASSUME NEW W \in SUBSET Executions, NEW A,
         NEW f \in [Executions -> Places], NEW x \in Executions, NEW to,
         NEW g, g = [f EXCEPT ![x] = to]
  PROVE  /\ Cardinality({y \in W : f[y] \in A}) \in Nat
         /\ Cardinality({y \in W : g[y] \in A}) \in Nat
         /\ Cardinality({y \in W : g[y] \in A}) =
              Cardinality({y \in W : f[y] \in A})
                + Bit(x \in W /\ to \in A) - Bit(x \in W /\ f[x] \in A)
<1> DEFINE S == {y \in W : f[y] \in A}
           T == {y \in W : g[y] \in A}
<1>1. IsFiniteSet(S) /\ IsFiniteSet(T)
  <2>1. S \in SUBSET Executions /\ T \in SUBSET Executions
    OBVIOUS
  <2>2. QED  BY <2>1, FS_Subset, FiniteAssumption
<1>2. Cardinality(S) \in Nat /\ Cardinality(T) \in Nat
  BY <1>1, FS_CardinalityType
<1>3. \A y \in W : y # x => g[y] = f[y]
  OBVIOUS
<1>4. g[x] = to
  OBVIOUS
<1>5. x \in S <=> x \in W /\ f[x] \in A
  OBVIOUS
<1>6. x \in T <=> x \in W /\ to \in A
  BY <1>4
<1>7. T \union {x} = S \union {x}
  BY <1>3
<1>8. /\ Cardinality(S \union {x}) = IF x \in S THEN Cardinality(S) ELSE Cardinality(S) + 1
      /\ Cardinality(T \union {x}) = IF x \in T THEN Cardinality(T) ELSE Cardinality(T) + 1
  BY <1>1, FS_AddElement
<1> DEFINE s == Cardinality(S)
           t == Cardinality(T)
<1> HIDE DEF S, T
<1>9. t = s + Bit(x \in T) - Bit(x \in S)
  <2>1. s \in Nat /\ t \in Nat
    BY <1>2
  <2>2. (IF x \in T THEN t ELSE t + 1) = (IF x \in S THEN s ELSE s + 1)
    BY <1>7, <1>8
  <2> HIDE DEF s, t
  <2>3. CASE x \in T /\ x \in S
    BY <2>1, <2>2, <2>3 DEF Bit
  <2>4. CASE x \in T /\ x \notin S
    BY <2>1, <2>2, <2>4 DEF Bit
  <2>5. CASE x \notin T /\ x \in S
    BY <2>1, <2>2, <2>5 DEF Bit
  <2>6. CASE x \notin T /\ x \notin S
    BY <2>1, <2>2, <2>6 DEF Bit
  <2>7. QED  BY <2>3, <2>4, <2>5, <2>6
<1>10. Bit(x \in T) = Bit(x \in W /\ to \in A) /\ Bit(x \in S) = Bit(x \in W /\ f[x] \in A)
  BY <1>5, <1>6 DEF Bit
<1>11. QED  BY <1>2, <1>9, <1>10 DEF S, T

\* The same about the sets that SlotsCounted counts.
LEMMA HandsMove ==
  ASSUME LifecycleTypeOK, NEW e \in Executions, NEW to, Goes(e, to)
  PROVE  /\ Cardinality(In(GlobalHands)) \in Nat
         /\ Cardinality(In(GlobalHands)') \in Nat
         /\ Cardinality(In(GlobalHands)') =
              Cardinality(In(GlobalHands)) + Bit(to \in GlobalHands) - Bit(place[e] \in GlobalHands)
         /\ \A p \in Projects :
              /\ Cardinality(InOf(p, ProjectHands)) \in Nat
              /\ Cardinality(InOf(p, ProjectHands)') \in Nat
              /\ Cardinality(InOf(p, ProjectHands)') =
                   Cardinality(InOf(p, ProjectHands))
                     + Bit(ProjectOf[e] = p /\ to \in ProjectHands)
                     - Bit(ProjectOf[e] = p /\ place[e] \in ProjectHands)
<1>1. place \in [Executions -> Places] /\ place' = [place EXCEPT ![e] = to]
  BY DEF LifecycleTypeOK, Places, Goes
<1>2. /\ In(GlobalHands) = {y \in Executions : place[y] \in GlobalHands}
      /\ In(GlobalHands)' = {y \in Executions : place'[y] \in GlobalHands}
  BY DEF In
<1>3. /\ Cardinality({y \in Executions : place[y] \in GlobalHands}) \in Nat
      /\ Cardinality({y \in Executions : place'[y] \in GlobalHands}) \in Nat
      /\ Cardinality({y \in Executions : place'[y] \in GlobalHands}) =
           Cardinality({y \in Executions : place[y] \in GlobalHands})
             + Bit(e \in Executions /\ to \in GlobalHands)
             - Bit(e \in Executions /\ place[e] \in GlobalHands)
  BY <1>1, CountMoves
<1>4. ASSUME NEW p \in Projects
      PROVE  /\ Cardinality(InOf(p, ProjectHands)) \in Nat
             /\ Cardinality(InOf(p, ProjectHands)') \in Nat
             /\ Cardinality(InOf(p, ProjectHands)') =
                   Cardinality(InOf(p, ProjectHands))
                     + Bit(ProjectOf[e] = p /\ to \in ProjectHands)
                     - Bit(ProjectOf[e] = p /\ place[e] \in ProjectHands)
  <2> DEFINE W == {y \in Executions : ProjectOf[y] = p}
  <2>1. /\ InOf(p, ProjectHands) = {y \in W : place[y] \in ProjectHands}
        /\ InOf(p, ProjectHands)' = {y \in W : place'[y] \in ProjectHands}
    BY DEF InOf, In
  <2>2. W \in SUBSET Executions
    OBVIOUS
  <2>3. e \in W <=> ProjectOf[e] = p
    OBVIOUS
  <2> HIDE DEF W
  <2>4. /\ Cardinality({y \in W : place[y] \in ProjectHands}) \in Nat
        /\ Cardinality({y \in W : place'[y] \in ProjectHands}) \in Nat
        /\ Cardinality({y \in W : place'[y] \in ProjectHands}) =
             Cardinality({y \in W : place[y] \in ProjectHands})
               + Bit(e \in W /\ to \in ProjectHands) - Bit(e \in W /\ place[e] \in ProjectHands)
    BY <1>1, <2>2, CountMoves
  <2>5. QED  BY <2>1, <2>3, <2>4
<1>5. QED  BY <1>2, <1>3, <1>4

\* What a semaphore must do when e moves, so that the slots stay accounted for.
LEMMA SlotStep ==
  ASSUME LifecycleTypeOK, SlotsCounted, NEW e \in Executions, NEW to, Goes(e, to),
         globalFree' = globalFree - Bit(to \in GlobalHands) + Bit(place[e] \in GlobalHands),
         globalFree' >= 0,
         \A p \in Projects :
            /\ projectFree'[p] = projectFree[p] - Bit(ProjectOf[e] = p /\ to \in ProjectHands)
                                   + Bit(ProjectOf[e] = p /\ place[e] \in ProjectHands)
            /\ projectFree'[p] >= 0
  PROVE  /\ SlotsCounted'
         /\ globalFree' \in 0..GlobalSlots
         /\ \A p \in Projects : projectFree'[p] \in 0..ProjectSlots
<1>1. globalFree = GlobalSlots - Cardinality(In(GlobalHands))
  BY DEF SlotsCounted, GlobalHands
<1>2. \A p \in Projects : projectFree[p] = ProjectSlots - Cardinality(InOf(p, ProjectHands))
  BY DEF SlotsCounted, ProjectHands
<1>3. GlobalSlots \in Nat /\ ProjectSlots \in Nat
  BY SlotsAssumption
<1>4. \A b : Bit(b) \in {0, 1}
  BY DEF Bit
<1>5. /\ Cardinality(In(GlobalHands)) \in Nat
      /\ Cardinality(In(GlobalHands)') \in Nat
      /\ Cardinality(In(GlobalHands)') =
           Cardinality(In(GlobalHands)) + Bit(to \in GlobalHands) - Bit(place[e] \in GlobalHands)
  BY HandsMove
<1>6. globalFree' = GlobalSlots - Cardinality(In(GlobalHands)')
  <2> DEFINE c == Cardinality(In(GlobalHands))
             d == Cardinality(In(GlobalHands)')
             x == Bit(to \in GlobalHands)
             y == Bit(place[e] \in GlobalHands)
  <2>1. /\ c \in Nat /\ d \in Nat /\ d = c + x - y
        /\ x \in {0, 1} /\ y \in {0, 1}
        /\ globalFree = GlobalSlots - c
        /\ globalFree' = globalFree - x + y
    BY <1>1, <1>4, <1>5
  <2> HIDE DEF c, d, x, y
  <2>2. globalFree' = GlobalSlots - d
    BY <2>1, <1>3
  <2>3. QED  BY <2>2 DEF d
<1>7. globalFree' \in 0..GlobalSlots
  BY <1>3, <1>5, <1>6
<1>8. ASSUME NEW p \in Projects
      PROVE  /\ projectFree'[p] = ProjectSlots - Cardinality(InOf(p, ProjectHands)')
             /\ projectFree'[p] \in 0..ProjectSlots
  <2> DEFINE c == Cardinality(InOf(p, ProjectHands))
             d == Cardinality(InOf(p, ProjectHands)')
             x == Bit(ProjectOf[e] = p /\ to \in ProjectHands)
             y == Bit(ProjectOf[e] = p /\ place[e] \in ProjectHands)
  <2>1. c \in Nat /\ d = c + x - y
    BY HandsMove
  <2>2. x \in {0, 1} /\ y \in {0, 1}
    BY <1>4
  <2>3. projectFree[p] = ProjectSlots - c
    BY <1>2
  <2>4. projectFree'[p] = projectFree[p] - x + y /\ projectFree'[p] >= 0
    OBVIOUS
  <2>5. d \in Nat
    BY HandsMove
  <2> HIDE DEF c, d, x, y
  <2>6. projectFree'[p] = ProjectSlots - d /\ projectFree'[p] \in 0..ProjectSlots
    BY <2>1, <2>2, <2>3, <2>4, <2>5, <1>3
  <2>7. QED  BY <2>6 DEF d
<1>9. QED  BY <1>6, <1>7, <1>8 DEF SlotsCounted, GlobalHands, ProjectHands

\* A step that neither takes nor returns a slot.
LEMMA KeepsSlots ==
  ASSUME LifecycleTypeOK, SlotsCounted, NEW e \in Executions, NEW to, Goes(e, to), UNCHANGED slotVars,
         to \in GlobalHands <=> place[e] \in GlobalHands,
         to \in ProjectHands <=> place[e] \in ProjectHands
  PROVE  SlotsCounted'
<1>1. Bit(to \in GlobalHands) = Bit(place[e] \in GlobalHands)
  BY DEF Bit
<1>2. \A p \in Projects : Bit(ProjectOf[e] = p /\ to \in ProjectHands) =
                            Bit(ProjectOf[e] = p /\ place[e] \in ProjectHands)
  BY DEF Bit
<1>3. \A b : Bit(b) \in {0, 1}
  BY DEF Bit
<1>4. globalFree \in Nat /\ \A p \in Projects : projectFree[p] \in Nat
  BY SlotsAssumption DEF LifecycleTypeOK
<1>5. globalFree' = globalFree /\ projectFree' = projectFree
  BY DEF slotVars
<1>6. /\ globalFree' = globalFree - Bit(to \in GlobalHands) + Bit(place[e] \in GlobalHands)
      /\ globalFree' >= 0
  BY <1>1, <1>3, <1>4, <1>5
<1>7. ASSUME NEW p \in Projects
      PROVE  /\ projectFree'[p] = projectFree[p] - Bit(ProjectOf[e] = p /\ to \in ProjectHands)
                                     + Bit(ProjectOf[e] = p /\ place[e] \in ProjectHands)
             /\ projectFree'[p] >= 0
  <2>1. Bit(ProjectOf[e] = p /\ place[e] \in ProjectHands) \in {0, 1}
    BY <1>3
  <2>2. QED  BY <2>1, <1>2, <1>4, <1>5
<1>8. QED  BY <1>6, <1>7, SlotStep

\* Release from any place where the execution holds both its slots.
LEMMA GivesBack ==
  ASSUME LifecycleTypeOK, SlotsCounted, NEW e \in Executions, NEW to, Goes(e, to), Release(e),
         place[e] \in Holding, to \notin GlobalHands, to \notin ProjectHands
  PROVE  /\ SlotsCounted'
         /\ globalFree' \in 0..GlobalSlots
         /\ projectFree' \in [Projects -> 0..ProjectSlots]
<1>1. place[e] \in GlobalHands /\ place[e] \in ProjectHands
  BY DEF GlobalHands, ProjectHands
<1>2. globalFree \in Nat /\ \A p \in Projects : projectFree[p] \in Nat
  BY SlotsAssumption DEF LifecycleTypeOK
<1>3. Bit(to \in GlobalHands) = 0 /\ Bit(place[e] \in GlobalHands) = 1
  BY <1>1 DEF Bit
<1>4. /\ globalFree' = globalFree - Bit(to \in GlobalHands) + Bit(place[e] \in GlobalHands)
      /\ globalFree' >= 0
  BY <1>2, <1>3 DEF Release
<1>5. ASSUME NEW p \in Projects
      PROVE  /\ projectFree'[p] = projectFree[p] - Bit(ProjectOf[e] = p /\ to \in ProjectHands)
                                     + Bit(ProjectOf[e] = p /\ place[e] \in ProjectHands)
             /\ projectFree'[p] >= 0
  <2>1. Bit(ProjectOf[e] = p /\ to \in ProjectHands) = 0
    BY DEF Bit
  <2>2. Bit(ProjectOf[e] = p /\ place[e] \in ProjectHands) = IF ProjectOf[e] = p THEN 1 ELSE 0
    BY <1>1 DEF Bit
  <2>3. projectFree'[p] = projectFree[p] + (IF ProjectOf[e] = p THEN 1 ELSE 0)
    BY <1>2, ProjectAssumption DEF Release, HasProject, LifecycleTypeOK
  <2>4. QED  BY <2>1, <2>2, <2>3, <1>2
<1>6. /\ SlotsCounted' /\ globalFree' \in 0..GlobalSlots
      /\ \A p \in Projects : projectFree'[p] \in 0..ProjectSlots
  BY <1>4, <1>5, SlotStep
<1>7. projectFree' \in [Projects -> Int]
  <2>1. projectFree \in [Projects -> Int]
    BY SlotsAssumption DEF LifecycleTypeOK
  <2>2. HasProject(e) => ProjectOf[e] \in Projects
    BY ProjectAssumption DEF HasProject
  <2>3. QED  BY <2>1, <2>2 DEF Release
<1>8. QED  BY <1>6, <1>7

\* A step to "preflight", which takes a slot of the project, with a global slot
\* taken by the same step or already in hand.
LEMMA TakesBoth ==
  ASSUME LifecycleTypeOK, SlotsCounted, NEW e \in Executions, Goes(e, "preflight"),
         ProjectHasRoom(e), TakesProject(e), place[e] \notin ProjectHands,
         globalFree' = globalFree - 1 + Bit(place[e] \in GlobalHands), globalFree' >= 0
  PROVE  /\ SlotsCounted'
         /\ globalFree' \in 0..GlobalSlots
         /\ projectFree' \in [Projects -> 0..ProjectSlots]
<1>1. "preflight" \in GlobalHands /\ "preflight" \in ProjectHands
  BY DEF GlobalHands, ProjectHands, Holding
<1>2. Bit("preflight" \in GlobalHands) = 1
  BY <1>1 DEF Bit
<1>3. \A p \in Projects : projectFree[p] \in Nat
  BY SlotsAssumption DEF LifecycleTypeOK
<1>4. globalFree' = globalFree - Bit("preflight" \in GlobalHands) + Bit(place[e] \in GlobalHands)
  BY <1>2
<1>5. ASSUME NEW p \in Projects
      PROVE  /\ projectFree'[p] = projectFree[p]
                                     - Bit(ProjectOf[e] = p /\ "preflight" \in ProjectHands)
                                     + Bit(ProjectOf[e] = p /\ place[e] \in ProjectHands)
             /\ projectFree'[p] >= 0
  <2>1. Bit(ProjectOf[e] = p /\ place[e] \in ProjectHands) = 0
    BY DEF Bit
  <2>2. Bit(ProjectOf[e] = p /\ "preflight" \in ProjectHands) =
          IF ProjectOf[e] = p THEN 1 ELSE 0
    BY <1>1 DEF Bit
  <2>3. CASE ProjectOf[e] = p
    <3>1. projectFree[p] > 0 /\ projectFree'[p] = projectFree[p] - 1
      BY <2>3, ProjectAssumption DEF TakesProject, ProjectHasRoom, HasProject, LifecycleTypeOK
    <3>2. QED  BY <2>1, <2>2, <2>3, <3>1, <1>3
  <2>4. CASE ProjectOf[e] # p
    <3>1. projectFree'[p] = projectFree[p]
      BY <2>4 DEF TakesProject, LifecycleTypeOK
    <3>2. QED  BY <2>1, <2>2, <2>4, <3>1, <1>3
  <2>5. QED  BY <2>3, <2>4
<1>6. /\ SlotsCounted' /\ globalFree' \in 0..GlobalSlots
      /\ \A p \in Projects : projectFree'[p] \in 0..ProjectSlots
  BY <1>4, <1>5, SlotStep
<1>7. projectFree' \in [Projects -> Int]
  <2>1. projectFree \in [Projects -> Int]
    BY SlotsAssumption DEF LifecycleTypeOK
  <2>2. HasProject(e) => ProjectOf[e] \in Projects
    BY ProjectAssumption DEF HasProject
  <2>3. QED  BY <2>1, <2>2 DEF TakesProject
<1>8. QED  BY <1>6, <1>7

\* A step that only takes or gives back a global slot.
LEMMA GlobalOnly ==
  ASSUME LifecycleTypeOK, SlotsCounted, NEW e \in Executions, NEW to, Goes(e, to),
         globalFree' = globalFree - Bit(to \in GlobalHands) + Bit(place[e] \in GlobalHands),
         globalFree' >= 0, UNCHANGED projectFree,
         to \notin ProjectHands, place[e] \notin ProjectHands
  PROVE  SlotsCounted' /\ globalFree' \in 0..GlobalSlots
<1>1. \A p \in Projects : projectFree[p] \in Nat
  BY SlotsAssumption DEF LifecycleTypeOK
<1>2. ASSUME NEW p \in Projects
      PROVE  /\ projectFree'[p] = projectFree[p] - Bit(ProjectOf[e] = p /\ to \in ProjectHands)
                                     + Bit(ProjectOf[e] = p /\ place[e] \in ProjectHands)
             /\ projectFree'[p] >= 0
  <2>1. /\ Bit(ProjectOf[e] = p /\ to \in ProjectHands) = 0
        /\ Bit(ProjectOf[e] = p /\ place[e] \in ProjectHands) = 0
    BY DEF Bit
  <2>2. QED  BY <2>1, <1>1
<1>3. QED  BY <1>2, SlotStep

-----------------------------------------------------------------------------
(* The inductive invariant *)

\* It holds at the start: all slots are free and nobody holds one.
LEMMA InitIInv == LifecycleInit => IInv
<1> SUFFICES ASSUME LifecycleInit PROVE IInv
  OBVIOUS
<1>1. LifecycleTypeOK
  BY SlotsAssumption DEF LifecycleInit, LifecycleTypeOK, slotVars
<1>2. OutcomeKnown
  BY DEF LifecycleInit, OutcomeKnown
<1>3. In(GlobalHands) = {} /\ \A p : InOf(p, ProjectHands) = {}
  BY DEF LifecycleInit, In, InOf, GlobalHands, ProjectHands, Holding, Lost
<1>4. SlotsCounted
  <2>1. Cardinality(In(GlobalHands)) = 0 /\ \A p : Cardinality(InOf(p, ProjectHands)) = 0
    BY <1>3, FS_EmptySet
  <2>2. globalFree = GlobalSlots - 0
    BY SlotsAssumption DEF LifecycleInit
  <2>3. \A p \in Projects : projectFree[p] = ProjectSlots - 0
    BY SlotsAssumption DEF LifecycleInit
  <2>4. QED  BY <2>1, <2>2, <2>3 DEF SlotsCounted, GlobalHands, ProjectHands
<1>5. QED  BY <1>1, <1>2, <1>4 DEF IInv

\* A step that moves no execution and touches no slot.
LEMMA NobodyMoves ==
  ASSUME LifecycleTypeOK, SlotsCounted, UNCHANGED <<place, slotVars>>
  PROVE  SlotsCounted'
<1>1. \A A : In(A)' = In(A) /\ \A p : InOf(p, A)' = InOf(p, A)
  BY DEF In, InOf
<1>2. QED  BY <1>1 DEF SlotsCounted, slotVars

\* Every action of an execution preserves it.
LEMMA ExecutionStep ==
  ASSUME IInv, NEW e \in Executions,
         \/ RefusedAtOnce(e) \/ WaitsForGlobal(e) \/ Progress(e) \/ GetsCancelled(e) \/ Ages(e)
  PROVE  IInv'
<1> USE DEF IInv
<1>1. CASE RefusedAtOnce(e)
  <2>1. /\ Goes(e, "refused") /\ UNCHANGED slotVars
        /\ "refused" \in GlobalHands <=> place[e] \in GlobalHands
        /\ "refused" \in ProjectHands <=> place[e] \in ProjectHands
    BY <1>1 DEF RefusedAtOnce, LifecycleTypeOK, GlobalHands, ProjectHands, Waiting, Holding, Lost
  <2>2. SlotsCounted'
    BY <2>1, KeepsSlots
  <2>3. LifecycleTypeOK'
    BY <1>1 DEF RefusedAtOnce, OutcomeKnown, LifecycleTypeOK, Waiting, Holding, Gone, Lost, Endings, Final, slotVars, rowVars, Goes
  <2>4. OutcomeKnown'
    BY <1>1 DEF RefusedAtOnce, OutcomeKnown, LifecycleTypeOK, Waiting, Holding, Gone, Lost, Endings, Final, slotVars, rowVars, Goes
  <2>5. QED  BY <2>2, <2>3, <2>4
<1>2. CASE WaitsForGlobal(e)
  <2>1. /\ Goes(e, "global") /\ UNCHANGED slotVars
        /\ "global" \in GlobalHands <=> place[e] \in GlobalHands
        /\ "global" \in ProjectHands <=> place[e] \in ProjectHands
    BY <1>2 DEF WaitsForGlobal, LifecycleTypeOK, GlobalHands, ProjectHands, Waiting, Holding, Lost
  <2>2. SlotsCounted'
    BY <2>1, KeepsSlots
  <2>3. LifecycleTypeOK'
    BY <1>2 DEF WaitsForGlobal, OutcomeKnown, LifecycleTypeOK, Waiting, Holding, Gone, Lost, Endings, Final, slotVars, rowVars, Goes
  <2>4. OutcomeKnown'
    BY <1>2 DEF WaitsForGlobal, OutcomeKnown, LifecycleTypeOK, Waiting, Holding, Gone, Lost, Endings, Final, slotVars, rowVars, Goes
  <2>5. QED  BY <2>2, <2>3, <2>4
<1>3. CASE GlobalTimesOut(e)
  <2>1. /\ Goes(e, "refused") /\ UNCHANGED slotVars
        /\ "refused" \in GlobalHands <=> place[e] \in GlobalHands
        /\ "refused" \in ProjectHands <=> place[e] \in ProjectHands
    BY <1>3 DEF GlobalTimesOut, LifecycleTypeOK, GlobalHands, ProjectHands, Waiting, Holding, Lost
  <2>2. SlotsCounted'
    BY <2>1, KeepsSlots
  <2>3. LifecycleTypeOK'
    BY <1>3 DEF GlobalTimesOut, OutcomeKnown, LifecycleTypeOK, Waiting, Holding, Gone, Lost, Endings, Final, slotVars, rowVars, Goes
  <2>4. OutcomeKnown'
    BY <1>3 DEF GlobalTimesOut, OutcomeKnown, LifecycleTypeOK, Waiting, Holding, Gone, Lost, Endings, Final, slotVars, rowVars, Goes
  <2>5. QED  BY <2>2, <2>3, <2>4
<1>4. CASE Begins(e)
  <2>1. /\ Goes(e, "running") /\ UNCHANGED slotVars
        /\ "running" \in GlobalHands <=> place[e] \in GlobalHands
        /\ "running" \in ProjectHands <=> place[e] \in ProjectHands
    BY <1>4 DEF Begins, LifecycleTypeOK, GlobalHands, ProjectHands, Waiting, Holding, Lost
  <2>2. SlotsCounted'
    BY <2>1, KeepsSlots
  <2>3. LifecycleTypeOK'
    BY <1>4 DEF Begins, OutcomeKnown, LifecycleTypeOK, Waiting, Holding, Gone, Lost, Endings, Final, slotVars, rowVars, Goes
  <2>4. OutcomeKnown'
    BY <1>4 DEF Begins, OutcomeKnown, LifecycleTypeOK, Waiting, Holding, Gone, Lost, Endings, Final, slotVars, rowVars, Goes
  <2>5. QED  BY <2>2, <2>3, <2>4
<1>5. CASE Finishes(e)
  <2>1. /\ Goes(e, "persisting") /\ UNCHANGED slotVars
        /\ "persisting" \in GlobalHands <=> place[e] \in GlobalHands
        /\ "persisting" \in ProjectHands <=> place[e] \in ProjectHands
    BY <1>5 DEF Finishes, EndsAs, LifecycleTypeOK, GlobalHands, ProjectHands, Waiting, Holding, Lost
  <2>2. SlotsCounted'
    BY <2>1, KeepsSlots
  <2>3. LifecycleTypeOK'
    BY <1>5 DEF Finishes, EndsAs, OutcomeKnown, LifecycleTypeOK, Waiting, Holding, Gone, Lost, Endings, Final, slotVars, rowVars, Goes
  <2>4. OutcomeKnown'
    BY <1>5 DEF Finishes, EndsAs, OutcomeKnown, LifecycleTypeOK, Waiting, Holding, Gone, Lost, Endings, Final, slotVars, rowVars, Goes
  <2>5. QED  BY <2>2, <2>3, <2>4
<1>6. CASE Persists(e)
  <2>1. /\ Goes(e, "notifying") /\ UNCHANGED slotVars
        /\ "notifying" \in GlobalHands <=> place[e] \in GlobalHands
        /\ "notifying" \in ProjectHands <=> place[e] \in ProjectHands
    BY <1>6 DEF Persists, Saved, StatusOf, LifecycleTypeOK, GlobalHands, ProjectHands, Waiting, Holding, Lost
  <2>2. SlotsCounted'
    BY <2>1, KeepsSlots
  <2>3. LifecycleTypeOK'
    BY <1>6 DEF Persists, Saved, StatusOf, OutcomeKnown, LifecycleTypeOK, Waiting, Holding, Gone, Lost, Endings, Final, slotVars, rowVars, Goes
  <2>4. OutcomeKnown'
    BY <1>6 DEF Persists, Saved, StatusOf, OutcomeKnown, LifecycleTypeOK, Waiting, Holding, Gone, Lost, Endings, Final, slotVars, rowVars, Goes
  <2>5. QED  BY <2>2, <2>3, <2>4
<1>7. CASE CancelledWaitingGlobal(e)
  <2>1. /\ Goes(e, "refused") /\ UNCHANGED slotVars
        /\ "refused" \in GlobalHands <=> place[e] \in GlobalHands
        /\ "refused" \in ProjectHands <=> place[e] \in ProjectHands
    BY <1>7 DEF CancelledWaitingGlobal, Cancelling, LifecycleTypeOK, GlobalHands, ProjectHands, Waiting, Holding, Lost
  <2>2. SlotsCounted'
    BY <2>1, KeepsSlots
  <2>3. LifecycleTypeOK'
    BY <1>7 DEF CancelledWaitingGlobal, Cancelling, OutcomeKnown, LifecycleTypeOK, Waiting, Holding, Gone, Lost, Endings, Final, slotVars, rowVars, Goes
  <2>4. OutcomeKnown'
    BY <1>7 DEF CancelledWaitingGlobal, Cancelling, OutcomeKnown, LifecycleTypeOK, Waiting, Holding, Gone, Lost, Endings, Final, slotVars, rowVars, Goes
  <2>5. QED  BY <2>2, <2>3, <2>4
<1>8. CASE CancelledWaitingProject(e)
  <2>1. /\ Goes(e, "abandoned") /\ UNCHANGED slotVars
        /\ "abandoned" \in GlobalHands <=> place[e] \in GlobalHands
        /\ "abandoned" \in ProjectHands <=> place[e] \in ProjectHands
    BY <1>8 DEF CancelledWaitingProject, Cancelling, LifecycleTypeOK, GlobalHands, ProjectHands, Waiting, Holding, Lost
  <2>2. SlotsCounted'
    BY <2>1, KeepsSlots
  <2>3. LifecycleTypeOK'
    BY <1>8 DEF CancelledWaitingProject, Cancelling, OutcomeKnown, LifecycleTypeOK, Waiting, Holding, Gone, Lost, Endings, Final, slotVars, rowVars, Goes
  <2>4. OutcomeKnown'
    BY <1>8 DEF CancelledWaitingProject, Cancelling, OutcomeKnown, LifecycleTypeOK, Waiting, Holding, Gone, Lost, Endings, Final, slotVars, rowVars, Goes
  <2>5. QED  BY <2>2, <2>3, <2>4
<1>9. CASE CancelledBeforeFirstStep(e)
  <2>1. /\ Goes(e, "vanished") /\ UNCHANGED slotVars
        /\ "vanished" \in GlobalHands <=> place[e] \in GlobalHands
        /\ "vanished" \in ProjectHands <=> place[e] \in ProjectHands
    BY <1>9 DEF CancelledBeforeFirstStep, Cancelling, LifecycleTypeOK, GlobalHands, ProjectHands, Waiting, Holding, Lost
  <2>2. SlotsCounted'
    BY <2>1, KeepsSlots
  <2>3. LifecycleTypeOK'
    BY <1>9 DEF CancelledBeforeFirstStep, Cancelling, OutcomeKnown, LifecycleTypeOK, Waiting, Holding, Gone, Lost, Endings, Final, slotVars, rowVars, Goes
  <2>4. OutcomeKnown'
    BY <1>9 DEF CancelledBeforeFirstStep, Cancelling, OutcomeKnown, LifecycleTypeOK, Waiting, Holding, Gone, Lost, Endings, Final, slotVars, rowVars, Goes
  <2>5. QED  BY <2>2, <2>3, <2>4
<1>10. CASE CancelledRunning(e)
  <2>1. /\ Goes(e, "persisting") /\ UNCHANGED slotVars
        /\ "persisting" \in GlobalHands <=> place[e] \in GlobalHands
        /\ "persisting" \in ProjectHands <=> place[e] \in ProjectHands
    BY <1>10 DEF CancelledRunning, EndsAs, Cancelling, RegistryAfterCancel, LifecycleTypeOK, GlobalHands, ProjectHands, Waiting, Holding, Lost
  <2>2. SlotsCounted'
    BY <2>1, KeepsSlots
  <2>3. LifecycleTypeOK'
    BY <1>10 DEF CancelledRunning, EndsAs, Cancelling, RegistryAfterCancel, OutcomeKnown, LifecycleTypeOK, Waiting, Holding, Gone, Lost, Endings, Final, slotVars, rowVars, Goes
  <2>4. OutcomeKnown'
    BY <1>10 DEF CancelledRunning, EndsAs, Cancelling, RegistryAfterCancel, OutcomeKnown, LifecycleTypeOK, Waiting, Holding, Gone, Lost, Endings, Final, slotVars, rowVars, Goes
  <2>5. QED  BY <2>2, <2>3, <2>4
<1>11. CASE Launches(e)
  <2> DEFINE to == IF e \in Awaited THEN "running" ELSE "created"
  <2>1. Goes(e, to) /\ UNCHANGED slotVars
    BY <1>11 DEF Launches
  <2>2. /\ to \in GlobalHands <=> place[e] \in GlobalHands
        /\ to \in ProjectHands <=> place[e] \in ProjectHands
    BY <1>11 DEF Launches, GlobalHands, ProjectHands, Waiting, Holding, Lost
  <2>3. SlotsCounted'
    BY <2>1, <2>2, KeepsSlots
  <2>4. LifecycleTypeOK'
    BY <1>11, <2>1 DEF Launches, LifecycleTypeOK, Waiting, Holding, Gone, Lost, Endings, Final, slotVars, rowVars, Goes
  <2>5. OutcomeKnown'
    BY <1>11, <2>1 DEF Launches, OutcomeKnown, LifecycleTypeOK, Waiting, Holding, Gone, Lost, Endings, Final, slotVars, rowVars, Goes
  <2>6. QED  BY <2>3, <2>4, <2>5
<1>12. CASE PreflightFails(e)
  <2>1. /\ Goes(e, "refused") /\ Release(e)
        /\ place[e] \in Holding /\ "refused" \notin GlobalHands /\ "refused" \notin ProjectHands
    BY <1>12 DEF PreflightFails, GlobalHands, ProjectHands, Waiting, Holding, Lost
  <2>2. /\ SlotsCounted'
        /\ globalFree' \in 0..GlobalSlots
        /\ projectFree' \in [Projects -> 0..ProjectSlots]
    BY <2>1, GivesBack
  <2>3. LifecycleTypeOK'
    BY <1>12, <2>2 DEF PreflightFails, OutcomeKnown, LifecycleTypeOK, Waiting, Holding, Gone, Lost, Endings, Final, slotVars, rowVars, Goes
  <2>4. OutcomeKnown'
    BY <1>12 DEF PreflightFails, OutcomeKnown, LifecycleTypeOK, Waiting, Holding, Gone, Lost, Endings, Final, slotVars, rowVars, Goes
  <2>5. QED  BY <2>2, <2>3, <2>4
<1>13. CASE PersistFails(e)
  <2>1. /\ Goes(e, "interrupted") /\ Release(e)
        /\ place[e] \in Holding /\ "interrupted" \notin GlobalHands /\ "interrupted" \notin ProjectHands
    BY <1>13 DEF PersistFails, GlobalHands, ProjectHands, Waiting, Holding, Lost
  <2>2. /\ SlotsCounted'
        /\ globalFree' \in 0..GlobalSlots
        /\ projectFree' \in [Projects -> 0..ProjectSlots]
    BY <2>1, GivesBack
  <2>3. LifecycleTypeOK'
    BY <1>13, <2>2 DEF PersistFails, OutcomeKnown, LifecycleTypeOK, Waiting, Holding, Gone, Lost, Endings, Final, slotVars, rowVars, Goes
  <2>4. OutcomeKnown'
    BY <1>13 DEF PersistFails, OutcomeKnown, LifecycleTypeOK, Waiting, Holding, Gone, Lost, Endings, Final, slotVars, rowVars, Goes
  <2>5. QED  BY <2>2, <2>3, <2>4
<1>14. CASE Leaves(e)
  <2>1. /\ Goes(e, "over") /\ Release(e)
        /\ place[e] \in Holding /\ "over" \notin GlobalHands /\ "over" \notin ProjectHands
    BY <1>14 DEF Leaves, GlobalHands, ProjectHands, Waiting, Holding, Lost
  <2>2. /\ SlotsCounted'
        /\ globalFree' \in 0..GlobalSlots
        /\ projectFree' \in [Projects -> 0..ProjectSlots]
    BY <2>1, GivesBack
  <2>3. LifecycleTypeOK'
    BY <1>14, <2>2 DEF Leaves, OutcomeKnown, LifecycleTypeOK, Waiting, Holding, Gone, Lost, Endings, Final, slotVars, rowVars, Goes
  <2>4. OutcomeKnown'
    BY <1>14 DEF Leaves, OutcomeKnown, LifecycleTypeOK, Waiting, Holding, Gone, Lost, Endings, Final, slotVars, rowVars, Goes
  <2>5. QED  BY <2>2, <2>3, <2>4
<1>15. CASE CancelledInPreflight(e)
  <2>1. /\ Goes(e, "interrupted") /\ Release(e)
        /\ place[e] \in Holding /\ "interrupted" \notin GlobalHands /\ "interrupted" \notin ProjectHands
    BY <1>15 DEF CancelledInPreflight, Cancelling, GlobalHands, ProjectHands, Waiting, Holding, Lost
  <2>2. /\ SlotsCounted'
        /\ globalFree' \in 0..GlobalSlots
        /\ projectFree' \in [Projects -> 0..ProjectSlots]
    BY <2>1, GivesBack
  <2>3. LifecycleTypeOK'
    BY <1>15, <2>2 DEF CancelledInPreflight, Cancelling, OutcomeKnown, LifecycleTypeOK, Waiting, Holding, Gone, Lost, Endings, Final, slotVars, rowVars, Goes
  <2>4. OutcomeKnown'
    BY <1>15 DEF CancelledInPreflight, Cancelling, OutcomeKnown, LifecycleTypeOK, Waiting, Holding, Gone, Lost, Endings, Final, slotVars, rowVars, Goes
  <2>5. QED  BY <2>2, <2>3, <2>4
<1>16. CASE CancelledPersisting(e)
  <2>1. /\ Goes(e, "interrupted") /\ Release(e)
        /\ place[e] \in Holding /\ "interrupted" \notin GlobalHands /\ "interrupted" \notin ProjectHands
    BY <1>16 DEF CancelledPersisting, Cancelling, Saved, StatusOf, GlobalHands, ProjectHands, Waiting, Holding, Lost
  <2>2. /\ SlotsCounted'
        /\ globalFree' \in 0..GlobalSlots
        /\ projectFree' \in [Projects -> 0..ProjectSlots]
    BY <2>1, GivesBack
  <2>3. LifecycleTypeOK'
    BY <1>16, <2>2 DEF CancelledPersisting, Cancelling, Saved, StatusOf, OutcomeKnown, LifecycleTypeOK, Waiting, Holding, Gone, Lost, Endings, Final, slotVars, rowVars, Goes
  <2>4. OutcomeKnown'
    BY <1>16 DEF CancelledPersisting, Cancelling, Saved, StatusOf, OutcomeKnown, LifecycleTypeOK, Waiting, Holding, Gone, Lost, Endings, Final, slotVars, rowVars, Goes
  <2>5. QED  BY <2>2, <2>3, <2>4
<1>17. CASE CancelledNotifying(e)
  <2>1. /\ Goes(e, "over") /\ Release(e)
        /\ place[e] \in Holding /\ "over" \notin GlobalHands /\ "over" \notin ProjectHands
    BY <1>17 DEF CancelledNotifying, Cancelling, GlobalHands, ProjectHands, Waiting, Holding, Lost
  <2>2. /\ SlotsCounted'
        /\ globalFree' \in 0..GlobalSlots
        /\ projectFree' \in [Projects -> 0..ProjectSlots]
    BY <2>1, GivesBack
  <2>3. LifecycleTypeOK'
    BY <1>17, <2>2 DEF CancelledNotifying, Cancelling, OutcomeKnown, LifecycleTypeOK, Waiting, Holding, Gone, Lost, Endings, Final, slotVars, rowVars, Goes
  <2>4. OutcomeKnown'
    BY <1>17 DEF CancelledNotifying, Cancelling, OutcomeKnown, LifecycleTypeOK, Waiting, Holding, Gone, Lost, Endings, Final, slotVars, rowVars, Goes
  <2>5. QED  BY <2>2, <2>3, <2>4
<1>18. CASE TakesGlobal(e)
  <2>1. globalFree > 0 /\ globalFree \in Nat /\ globalFree' = globalFree - 1
    BY <1>18, SlotsAssumption DEF TakesGlobal, LifecycleTypeOK
  <2>2. place[e] \notin GlobalHands /\ place[e] \notin ProjectHands
    BY <1>18 DEF TakesGlobal, GlobalHands, ProjectHands, Waiting, Holding, Lost
  <2>3. Bit(place[e] \in GlobalHands) = 0
    BY <2>2 DEF Bit
  <2>4. CASE ProjectHasRoom(e)
    <3>1. Goes(e, "preflight") /\ TakesProject(e)
      BY <1>18, <2>4 DEF TakesGlobal
    <3>2. globalFree' = globalFree - 1 + Bit(place[e] \in GlobalHands) /\ globalFree' >= 0
      BY <2>1, <2>3
    <3>3. /\ SlotsCounted'
          /\ globalFree' \in 0..GlobalSlots
          /\ projectFree' \in [Projects -> 0..ProjectSlots]
      BY <2>2, <2>4, <3>1, <3>2, TakesBoth
    <3>4. LifecycleTypeOK'
      BY <1>18, <3>1, <3>3 DEF TakesGlobal, LifecycleTypeOK, Waiting, Holding, Gone, Lost, Endings, Final, slotVars, rowVars, Goes
    <3>5. OutcomeKnown'
      BY <1>18, <3>1 DEF TakesGlobal, OutcomeKnown, LifecycleTypeOK, Waiting, Holding, Gone, Lost, Endings, Final, slotVars, rowVars, Goes
    <3>6. QED  BY <3>3, <3>4, <3>5
  <2>5. CASE ~ProjectHasRoom(e)
    <3>1. Goes(e, "project") /\ UNCHANGED projectFree
      BY <1>18, <2>5 DEF TakesGlobal
    <3>2. "project" \in GlobalHands /\ "project" \notin ProjectHands
      BY DEF GlobalHands, ProjectHands, Waiting, Holding, Lost
    <3>3. Bit("project" \in GlobalHands) = 1
      BY <3>2 DEF Bit
    <3>4. /\ globalFree' = globalFree - Bit("project" \in GlobalHands)
                             + Bit(place[e] \in GlobalHands)
          /\ globalFree' >= 0
      BY <2>1, <2>3, <3>3
    <3>5. SlotsCounted' /\ globalFree' \in 0..GlobalSlots
      BY <2>2, <3>1, <3>2, <3>4, GlobalOnly
    <3>6. LifecycleTypeOK'
      BY <1>18, <3>1, <3>5 DEF TakesGlobal, LifecycleTypeOK, Waiting, Holding, Gone, Lost, Endings, Final, slotVars, rowVars, Goes
    <3>7. OutcomeKnown'
      BY <1>18, <3>1 DEF TakesGlobal, OutcomeKnown, LifecycleTypeOK, Waiting, Holding, Gone, Lost, Endings, Final, slotVars, rowVars, Goes
    <3>8. QED  BY <3>5, <3>6, <3>7
  <2>6. QED  BY <2>4, <2>5
<1>19. CASE GetsProject(e)
  <2>1. /\ Goes(e, "preflight") /\ TakesProject(e) /\ ProjectHasRoom(e)
        /\ place[e] \in GlobalHands /\ place[e] \notin ProjectHands
        /\ globalFree' = globalFree /\ globalFree \in Nat
    BY <1>19, SlotsAssumption DEF GetsProject, ProjectSlotReady, LifecycleTypeOK, GlobalHands, ProjectHands, Waiting, Holding, Lost
  <2>2. Bit(place[e] \in GlobalHands) = 1
    BY <2>1 DEF Bit
  <2>3. globalFree' = globalFree - 1 + Bit(place[e] \in GlobalHands) /\ globalFree' >= 0
    BY <2>1, <2>2
  <2>4. /\ SlotsCounted'
        /\ globalFree' \in 0..GlobalSlots
        /\ projectFree' \in [Projects -> 0..ProjectSlots]
    BY <2>1, <2>3, TakesBoth
  <2>5. LifecycleTypeOK'
    BY <1>19, <2>4 DEF GetsProject, LifecycleTypeOK, Waiting, Holding, Gone, Lost, Endings, Final, slotVars, rowVars, Goes
  <2>6. OutcomeKnown'
    BY <1>19 DEF GetsProject, OutcomeKnown, LifecycleTypeOK, Waiting, Holding, Gone, Lost, Endings, Final, slotVars, rowVars, Goes
  <2>7. QED  BY <2>4, <2>5, <2>6
<1>20. CASE ProjectTimesOut(e)
  <2>1. /\ Goes(e, "refused") /\ UNCHANGED projectFree
        /\ place[e] \in GlobalHands /\ place[e] \notin ProjectHands
        /\ "refused" \notin GlobalHands /\ "refused" \notin ProjectHands
        /\ globalFree' = globalFree + 1 /\ globalFree \in Nat
    BY <1>20, SlotsAssumption DEF ProjectTimesOut, LifecycleTypeOK, GlobalHands, ProjectHands, Waiting, Holding, Lost
  <2>2. Bit(place[e] \in GlobalHands) = 1 /\ Bit("refused" \in GlobalHands) = 0
    BY <2>1 DEF Bit
  <2>3. /\ globalFree' = globalFree - Bit("refused" \in GlobalHands)
                           + Bit(place[e] \in GlobalHands)
        /\ globalFree' >= 0
    BY <2>1, <2>2
  <2>4. SlotsCounted' /\ globalFree' \in 0..GlobalSlots
    BY <2>1, <2>3, GlobalOnly
  <2>5. LifecycleTypeOK'
    BY <1>20, <2>4 DEF ProjectTimesOut, LifecycleTypeOK, Waiting, Holding, Gone, Lost, Endings, Final, slotVars, rowVars, Goes
  <2>6. OutcomeKnown'
    BY <1>20 DEF ProjectTimesOut, OutcomeKnown, LifecycleTypeOK, Waiting, Holding, Gone, Lost, Endings, Final, slotVars, rowVars, Goes
  <2>7. QED  BY <2>4, <2>5, <2>6
<1>21. CASE Unregisters(e)
  <2>1. SlotsCounted'
    BY <1>21, NobodyMoves DEF Unregisters
  <2>2. LifecycleTypeOK'
    BY <1>21 DEF Unregisters, LifecycleTypeOK, Waiting, Holding, Gone, Lost, Endings, Final, slotVars, rowVars, Goes
  <2>3. OutcomeKnown'
    BY <1>21 DEF Unregisters, OutcomeKnown
  <2>4. QED  BY <2>1, <2>2, <2>3
<1>22. CASE Ages(e)
  <2>1. SlotsCounted'
    BY <1>22, NobodyMoves DEF Ages
  <2>2. LifecycleTypeOK'
    BY <1>22 DEF Ages, LifecycleTypeOK, Waiting, Holding, Gone, Lost, Endings, Final, slotVars, rowVars, Goes
  <2>3. OutcomeKnown'
    BY <1>22 DEF Ages, OutcomeKnown
  <2>4. QED  BY <2>1, <2>2, <2>3
<1>23. QED
  BY <1>1, <1>2, <1>3, <1>4, <1>5, <1>6, <1>7, <1>8, <1>9, <1>10, <1>11, <1>12, <1>13,
     <1>14, <1>15, <1>16, <1>17, <1>18, <1>19, <1>20, <1>21, <1>22 DEF Progress, GetsCancelled

\* So does everything else that happens to the process.
LEMMA StepIInv == IInv /\ [LifecycleNext]_lifecycleVars => IInv'
<1> SUFFICES ASSUME IInv, [LifecycleNext]_lifecycleVars PROVE IInv'
  OBVIOUS
<1>1. ASSUME NEW e \in Executions,
             \/ RefusedAtOnce(e) \/ WaitsForGlobal(e) \/ Progress(e) \/ GetsCancelled(e) \/ Ages(e)
      PROVE  IInv'
  BY <1>1, ExecutionStep
<1>2. CASE PeerStarts
  <2>1. SlotsCounted'
    BY <1>2, NobodyMoves DEF IInv, PeerStarts
  <2>2. LifecycleTypeOK' /\ OutcomeKnown'
    BY <1>2 DEF IInv, PeerStarts, Sweeps, SweepVictims, OutcomeKnown, LifecycleTypeOK, Final, slotVars
  <2>3. QED  BY <2>1, <2>2 DEF IInv
<1>3. CASE Crashes
  <2>1. \A e \in Executions : place'[e] \notin GlobalHands /\ place'[e] \notin ProjectHands
    BY <1>3 DEF Crashes, GlobalHands, ProjectHands, Waiting, Holding, Lost
  <2>2. In(GlobalHands)' = {} /\ \A p : InOf(p, ProjectHands)' = {}
    BY <2>1 DEF In, InOf
  <2>3. /\ Cardinality(In(GlobalHands)') = 0
        /\ \A p : Cardinality(InOf(p, ProjectHands)') = 0
    BY <2>2, FS_EmptySet
  <2>4. SlotsCounted'
    <3>1. globalFree' = GlobalSlots - 0
      BY <1>3, SlotsAssumption DEF Crashes
    <3>2. \A p \in Projects : projectFree'[p] = ProjectSlots - 0
      BY <1>3, SlotsAssumption DEF Crashes
    <3>3. QED  BY <2>3, <3>1, <3>2 DEF SlotsCounted, GlobalHands, ProjectHands
  <2>5. LifecycleTypeOK'
    <3>1. globalFree' \in 0..GlobalSlots /\ projectFree' \in [Projects -> 0..ProjectSlots]
      BY <1>3, SlotsAssumption DEF Crashes
    <3>2. place' \in [Executions -> {"new"} \union Waiting \union Holding \union Gone]
      BY <1>3 DEF IInv, Crashes, LifecycleTypeOK, Gone
    <3>3. ending' \in [Executions -> {"none"} \union Endings]
      BY <1>3 DEF Crashes
    <3>4. row' \in [Executions -> {"none", "RUNNING"} \union Final] /\ stale' \subseteq Executions
      BY <1>3 DEF IInv, Crashes, LifecycleTypeOK, rowVars
    <3>5. registered' = {} /\ up' = FALSE /\ cancellations' = cancellations /\ crashes' = crashes + 1
      BY <1>3 DEF Crashes
    <3>6. cancellations' \in Nat /\ crashes' \in Nat
      BY <3>5 DEF IInv, LifecycleTypeOK
    <3>7. QED  BY <3>1, <3>2, <3>3, <3>4, <3>5, <3>6 DEF LifecycleTypeOK
  <2>6. OutcomeKnown'
    BY <1>3 DEF IInv, Crashes, OutcomeKnown, LifecycleTypeOK, Waiting, Holding
  <2>7. QED  BY <2>4, <2>5, <2>6 DEF IInv
<1>4. CASE Restarts
  <2>1. SlotsCounted'
    BY <1>4, NobodyMoves DEF IInv, Restarts
  <2>2. LifecycleTypeOK' /\ OutcomeKnown'
    BY <1>4 DEF IInv, Restarts, Sweeps, SweepVictims, OutcomeKnown, LifecycleTypeOK, Final, slotVars
  <2>3. QED  BY <2>1, <2>2 DEF IInv
<1>5. CASE UNCHANGED lifecycleVars
  <2>1. SlotsCounted'
    BY <1>5, NobodyMoves DEF IInv, lifecycleVars
  <2>2. LifecycleTypeOK' /\ OutcomeKnown'
    BY <1>5 DEF IInv, lifecycleVars, slotVars, rowVars, LifecycleTypeOK, OutcomeKnown
  <2>3. QED  BY <2>1, <2>2 DEF IInv
<1>6. QED  BY <1>1, <1>2, <1>3, <1>4, <1>5 DEF LifecycleNext

LEMMA AlwaysIInv == LifecycleSpec => []IInv
<1>1. QED  BY InitIInv, StepIInv, PTL DEF LifecycleSpec

-----------------------------------------------------------------------------
(* What the rows say *)

\* Nothing has a row at the start.
LEMMA InitRowsInv == LifecycleInit => RowsInv
  BY DEF LifecycleInit, RowsInv, RowsByPlace, WorkIsRegistered, WorkNeedsProcess, Waiting, Holding

\* Every action of an execution keeps the rows explained.
LEMMA RowsExecutionStep ==
  ASSUME LifecycleTypeOK, OutcomeKnown, RowsInv, NEW e \in Executions,
         \/ RefusedAtOnce(e) \/ WaitsForGlobal(e) \/ Progress(e) \/ GetsCancelled(e) \/ Ages(e)
  PROVE  RowsInv'
<1> USE DEF RowsInv, LifecycleTypeOK, Goes, Waiting, Holding, Gone, Lost, rowVars, slotVars
<1>1. CASE RefusedAtOnce(e)
  <2>1. RowsByPlace'
    BY <1>1 DEF RefusedAtOnce, RowsByPlace
  <2>2. WorkIsRegistered'
    BY <1>1 DEF RefusedAtOnce, WorkIsRegistered, WorkNeedsProcess
  <2>3. WorkNeedsProcess'
    BY <1>1 DEF RefusedAtOnce, RowsByPlace, WorkNeedsProcess
  <2>4. QED  BY <2>1, <2>2, <2>3
<1>2. CASE WaitsForGlobal(e)
  <2>1. RowsByPlace'
    BY <1>2 DEF WaitsForGlobal, RowsByPlace
  <2>2. WorkIsRegistered'
    BY <1>2 DEF WaitsForGlobal, WorkIsRegistered, WorkNeedsProcess
  <2>3. WorkNeedsProcess'
    BY <1>2 DEF WaitsForGlobal, RowsByPlace, WorkNeedsProcess
  <2>4. QED  BY <2>1, <2>2, <2>3
<1>3. CASE TakesGlobal(e)
  <2>1. RowsByPlace'
    BY <1>3 DEF TakesGlobal, RowsByPlace
  <2>2. WorkIsRegistered'
    BY <1>3 DEF TakesGlobal, WorkIsRegistered, WorkNeedsProcess
  <2>3. WorkNeedsProcess'
    BY <1>3 DEF TakesGlobal, RowsByPlace, WorkNeedsProcess
  <2>4. QED  BY <2>1, <2>2, <2>3
<1>4. CASE GetsProject(e)
  <2>1. RowsByPlace'
    BY <1>4 DEF GetsProject, RowsByPlace
  <2>2. WorkIsRegistered'
    BY <1>4 DEF GetsProject, WorkIsRegistered, WorkNeedsProcess
  <2>3. WorkNeedsProcess'
    BY <1>4 DEF GetsProject, RowsByPlace, WorkNeedsProcess
  <2>4. QED  BY <2>1, <2>2, <2>3
<1>5. CASE GlobalTimesOut(e)
  <2>1. RowsByPlace'
    BY <1>5 DEF GlobalTimesOut, RowsByPlace
  <2>2. WorkIsRegistered'
    BY <1>5 DEF GlobalTimesOut, WorkIsRegistered, WorkNeedsProcess
  <2>3. WorkNeedsProcess'
    BY <1>5 DEF GlobalTimesOut, RowsByPlace, WorkNeedsProcess
  <2>4. QED  BY <2>1, <2>2, <2>3
<1>6. CASE ProjectTimesOut(e)
  <2>1. RowsByPlace'
    BY <1>6 DEF ProjectTimesOut, RowsByPlace
  <2>2. WorkIsRegistered'
    BY <1>6 DEF ProjectTimesOut, WorkIsRegistered, WorkNeedsProcess
  <2>3. WorkNeedsProcess'
    BY <1>6 DEF ProjectTimesOut, RowsByPlace, WorkNeedsProcess
  <2>4. QED  BY <2>1, <2>2, <2>3
<1>7. CASE PreflightFails(e)
  <2>1. RowsByPlace'
    BY <1>7 DEF PreflightFails, RowsByPlace
  <2>2. WorkIsRegistered'
    BY <1>7 DEF PreflightFails, WorkIsRegistered, WorkNeedsProcess
  <2>3. WorkNeedsProcess'
    BY <1>7 DEF PreflightFails, RowsByPlace, WorkNeedsProcess
  <2>4. QED  BY <2>1, <2>2, <2>3
<1>8. CASE Launches(e)
  <2>1. RowsByPlace'
    BY <1>8 DEF Launches, RowsByPlace
  <2>2. WorkIsRegistered'
    BY <1>8 DEF Launches, RowsByPlace, WorkIsRegistered, WorkNeedsProcess
  <2>3. WorkNeedsProcess'
    BY <1>8 DEF Launches, RowsByPlace, WorkNeedsProcess
  <2>4. QED  BY <2>1, <2>2, <2>3
<1>9. CASE Begins(e)
  <2>1. RowsByPlace'
    BY <1>9 DEF Begins, RowsByPlace
  <2>2. WorkIsRegistered'
    BY <1>9 DEF Begins, WorkIsRegistered, WorkNeedsProcess
  <2>3. WorkNeedsProcess'
    BY <1>9 DEF Begins, RowsByPlace, WorkNeedsProcess
  <2>4. QED  BY <2>1, <2>2, <2>3
<1>10. CASE Finishes(e)
  <2>1. RowsByPlace'
    BY <1>10 DEF Finishes, EndsAs, RowsByPlace
  <2>2. WorkIsRegistered'
    BY <1>10 DEF Finishes, EndsAs, WorkIsRegistered, WorkNeedsProcess
  <2>3. WorkNeedsProcess'
    BY <1>10 DEF Finishes, EndsAs, RowsByPlace, WorkNeedsProcess
  <2>4. QED  BY <2>1, <2>2, <2>3
<1>11. CASE Persists(e)
  <2>1. RowsByPlace'
    BY <1>11 DEF Persists, Saved, StatusOf, OutcomeKnown, Endings, Final, RowsByPlace
  <2>2. WorkIsRegistered'
    BY <1>11 DEF Persists, Saved, StatusOf, OutcomeKnown, Endings, Final, WorkIsRegistered, WorkNeedsProcess
  <2>3. WorkNeedsProcess'
    BY <1>11 DEF Persists, Saved, StatusOf, OutcomeKnown, Endings, Final, RowsByPlace, WorkNeedsProcess
  <2>4. QED  BY <2>1, <2>2, <2>3
<1>12. CASE PersistFails(e)
  <2>1. RowsByPlace'
    BY <1>12 DEF PersistFails, RowsByPlace
  <2>2. WorkIsRegistered'
    BY <1>12 DEF PersistFails, WorkIsRegistered, WorkNeedsProcess
  <2>3. WorkNeedsProcess'
    BY <1>12 DEF PersistFails, RowsByPlace, WorkNeedsProcess
  <2>4. QED  BY <2>1, <2>2, <2>3
<1>13. CASE Leaves(e)
  <2>1. RowsByPlace'
    BY <1>13 DEF Leaves, RowsByPlace
  <2>2. WorkIsRegistered'
    BY <1>13 DEF Leaves, WorkIsRegistered, WorkNeedsProcess
  <2>3. WorkNeedsProcess'
    BY <1>13 DEF Leaves, RowsByPlace, WorkNeedsProcess
  <2>4. QED  BY <2>1, <2>2, <2>3
<1>14. CASE Unregisters(e)
  <2>1. RowsByPlace'
    BY <1>14 DEF Unregisters, RowsByPlace
  <2>2. WorkIsRegistered'
    BY <1>14 DEF Unregisters, WorkIsRegistered, WorkNeedsProcess
  <2>3. WorkNeedsProcess'
    BY <1>14 DEF Unregisters, RowsByPlace, WorkNeedsProcess
  <2>4. QED  BY <2>1, <2>2, <2>3
<1>15. CASE CancelledWaitingGlobal(e)
  <2>1. RowsByPlace'
    BY <1>15 DEF CancelledWaitingGlobal, MayBeCancelled, RowsByPlace
  <2>2. WorkIsRegistered'
    BY <1>15 DEF CancelledWaitingGlobal, MayBeCancelled, WorkIsRegistered, WorkNeedsProcess
  <2>3. WorkNeedsProcess'
    BY <1>15 DEF CancelledWaitingGlobal, MayBeCancelled, RowsByPlace, WorkNeedsProcess
  <2>4. QED  BY <2>1, <2>2, <2>3
<1>16. CASE CancelledWaitingProject(e)
  <2>1. RowsByPlace'
    BY <1>16 DEF CancelledWaitingProject, MayBeCancelled, RowsByPlace
  <2>2. WorkIsRegistered'
    BY <1>16 DEF CancelledWaitingProject, MayBeCancelled, WorkIsRegistered, WorkNeedsProcess
  <2>3. WorkNeedsProcess'
    BY <1>16 DEF CancelledWaitingProject, MayBeCancelled, RowsByPlace, WorkNeedsProcess
  <2>4. QED  BY <2>1, <2>2, <2>3
<1>17. CASE CancelledInPreflight(e)
  <2>1. RowsByPlace'
    BY <1>17 DEF CancelledInPreflight, MayBeCancelled, RowsByPlace
  <2>2. WorkIsRegistered'
    BY <1>17 DEF CancelledInPreflight, MayBeCancelled, WorkIsRegistered, WorkNeedsProcess
  <2>3. WorkNeedsProcess'
    BY <1>17 DEF CancelledInPreflight, MayBeCancelled, RowsByPlace, WorkNeedsProcess
  <2>4. QED  BY <2>1, <2>2, <2>3
<1>18. CASE CancelledBeforeFirstStep(e)
  <2>1. RowsByPlace'
    BY <1>18 DEF CancelledBeforeFirstStep, MayBeCancelled, RowsByPlace
  <2>2. WorkIsRegistered'
    BY <1>18 DEF CancelledBeforeFirstStep, MayBeCancelled, WorkIsRegistered, WorkNeedsProcess
  <2>3. WorkNeedsProcess'
    BY <1>18 DEF CancelledBeforeFirstStep, MayBeCancelled, RowsByPlace, WorkNeedsProcess
  <2>4. QED  BY <2>1, <2>2, <2>3
<1>19. CASE CancelledRunning(e)
  <2>1. RowsByPlace'
    BY <1>19 DEF CancelledRunning, MayBeCancelled, EndsAs, RegistryAfterCancel, RowsByPlace
  <2>2. WorkIsRegistered'
    BY <1>19 DEF CancelledRunning, MayBeCancelled, EndsAs, RegistryAfterCancel, WorkIsRegistered, WorkNeedsProcess
  <2>3. WorkNeedsProcess'
    BY <1>19 DEF CancelledRunning, MayBeCancelled, EndsAs, RegistryAfterCancel, RowsByPlace, WorkNeedsProcess
  <2>4. QED  BY <2>1, <2>2, <2>3
<1>20. CASE CancelledPersisting(e)
  <2>1. RowsByPlace'
    BY <1>20 DEF CancelledPersisting, MayBeCancelled, Saved, StatusOf, OutcomeKnown, Endings, Final, RowsByPlace
  <2>2. WorkIsRegistered'
    BY <1>20 DEF CancelledPersisting, MayBeCancelled, Saved, StatusOf, OutcomeKnown, Endings, Final, WorkIsRegistered, WorkNeedsProcess
  <2>3. WorkNeedsProcess'
    BY <1>20 DEF CancelledPersisting, MayBeCancelled, Saved, StatusOf, OutcomeKnown, Endings, Final, RowsByPlace, WorkNeedsProcess
  <2>4. QED  BY <2>1, <2>2, <2>3
<1>21. CASE CancelledNotifying(e)
  <2>1. RowsByPlace'
    BY <1>21 DEF CancelledNotifying, MayBeCancelled, RowsByPlace
  <2>2. WorkIsRegistered'
    BY <1>21 DEF CancelledNotifying, MayBeCancelled, WorkIsRegistered, WorkNeedsProcess
  <2>3. WorkNeedsProcess'
    BY <1>21 DEF CancelledNotifying, MayBeCancelled, RowsByPlace, WorkNeedsProcess
  <2>4. QED  BY <2>1, <2>2, <2>3
<1>22. CASE Ages(e)
  <2>1. RowsByPlace'
    BY <1>22 DEF Ages, HasHeartbeat, RowsByPlace
  <2>2. WorkIsRegistered'
    BY <1>22 DEF Ages, HasHeartbeat, WorkIsRegistered, WorkNeedsProcess
  <2>3. WorkNeedsProcess'
    BY <1>22 DEF Ages, HasHeartbeat, RowsByPlace, WorkNeedsProcess
  <2>4. QED  BY <2>1, <2>2, <2>3
<1>23. QED
  BY <1>1, <1>2, <1>3, <1>4, <1>5, <1>6, <1>7, <1>8, <1>9, <1>10, <1>11,
     <1>12, <1>13, <1>14, <1>15, <1>16, <1>17, <1>18, <1>19, <1>20, <1>21, <1>22 DEF Progress, GetsCancelled

\* So do the sweeps, a crash and a restart.
LEMMA RowsStep == IInv /\ RowsInv /\ [LifecycleNext]_lifecycleVars => RowsInv'
<1> SUFFICES ASSUME IInv, RowsInv, [LifecycleNext]_lifecycleVars PROVE RowsInv'
  OBVIOUS
<1> USE DEF IInv, RowsInv, LifecycleTypeOK
<1>1. ASSUME NEW e \in Executions,
             \/ RefusedAtOnce(e) \/ WaitsForGlobal(e) \/ Progress(e) \/ GetsCancelled(e) \/ Ages(e)
      PROVE  RowsInv'
  BY <1>1, RowsExecutionStep
<1>2. CASE PeerStarts
  <2>1. RowsByPlace'
    BY <1>2 DEF PeerStarts, Sweeps, SweepVictims, RowsByPlace, Final
  <2>2. WorkIsRegistered'
    BY <1>2 DEF PeerStarts, Sweeps, SweepVictims, WorkIsRegistered
  <2>3. WorkNeedsProcess'
    BY <1>2 DEF PeerStarts, Sweeps, SweepVictims, WorkNeedsProcess
  <2>4. QED  BY <2>1, <2>2, <2>3
<1>3. CASE Crashes
  <2>1. RowsByPlace'
    BY <1>3 DEF Crashes, RowsByPlace, rowVars, Waiting, Holding, Lost
  <2>2. WorkIsRegistered'
    BY <1>3 DEF Crashes, WorkIsRegistered, rowVars, Waiting, Holding
  <2>3. WorkNeedsProcess'
    BY <1>3 DEF Crashes, WorkNeedsProcess, rowVars, Waiting, Holding
  <2>4. QED  BY <2>1, <2>2, <2>3
<1>4. CASE Restarts
  <2>1. RowsByPlace'
    BY <1>4 DEF Restarts, Sweeps, SweepVictims, RowsByPlace, Final
  <2>2. WorkIsRegistered'
    BY <1>4 DEF Restarts, WorkIsRegistered, WorkNeedsProcess, Waiting, Holding
  <2>3. WorkNeedsProcess'
    BY <1>4 DEF Restarts, Sweeps, SweepVictims, WorkNeedsProcess
  <2>4. QED  BY <2>1, <2>2, <2>3
<1>5. CASE UNCHANGED lifecycleVars
  BY <1>5 DEF lifecycleVars, rowVars, RowsByPlace, WorkIsRegistered, WorkNeedsProcess
<1>6. QED  BY <1>1, <1>2, <1>3, <1>4, <1>5 DEF LifecycleNext

LEMMA AlwaysRowsInv == LifecycleSpec => [](IInv /\ RowsInv)
<1>1. LifecycleInit => IInv /\ RowsInv
  BY InitIInv, InitRowsInv
<1>2. IInv /\ RowsInv /\ [LifecycleNext]_lifecycleVars => IInv' /\ RowsInv'
  BY StepIInv, RowsStep
<1>3. QED  BY <1>1, <1>2, PTL DEF LifecycleSpec

-----------------------------------------------------------------------------
\* Types, whatever the number of executions, slots, cancellations and crashes.
THEOREM TypeCorrect == LifecycleSpec => []LifecycleTypeOK
<1>1. IInv => LifecycleTypeOK
  BY DEF IInv
<1>2. QED  BY <1>1, AlwaysIInv, PTL

\* acquire_execution_slot, release_execution_slot and every way out of run()
\* and of _run_and_persist: a slot is free, held, or lost in one of the two
\* ways that are named, and none is given back twice.
THEOREM SlotsAccountedFor == LifecycleSpec => []SlotsAccounted
<1>1. IInv => SlotsAccounted
  BY DEF IInv, SlotsAccounted
<1>2. QED  BY <1>1, AlwaysIInv, PTL

\* SHIFT_MAX_CONCURRENT_EXECUTIONS and SHIFT_MAX_CONCURRENT_PER_PROJECT are
\* never exceeded.
THEOREM LimitsHold == LifecycleSpec => []LimitsRespected
<1>1. ASSUME IInv PROVE LimitsRespected
  <2>1. ASSUME NEW S \in SUBSET Executions, NEW T \in SUBSET Executions, S \subseteq T
        PROVE  Cardinality(S) \in Nat /\ Cardinality(T) \in Nat /\ Cardinality(S) <= Cardinality(T)
    <3>1. IsFiniteSet(T)
      BY FiniteAssumption, FS_Subset
    <3>2. QED  BY <2>1, <3>1, FS_Subset, FS_CardinalityType
  <2>2. Cardinality(In(Holding)) <= GlobalSlots
    <3>1. /\ In(Holding) \in SUBSET Executions /\ In(GlobalHands) \in SUBSET Executions
          /\ In(Holding) \subseteq In(GlobalHands)
      BY DEF In, GlobalHands
    <3>2. globalFree \in Nat /\ GlobalSlots \in Nat
      BY <1>1, SlotsAssumption DEF IInv, LifecycleTypeOK
    <3>3. globalFree = GlobalSlots - Cardinality(In(GlobalHands))
      BY <1>1 DEF IInv, SlotsCounted, GlobalHands
    <3>4. /\ Cardinality(In(Holding)) \in Nat /\ Cardinality(In(GlobalHands)) \in Nat
          /\ Cardinality(In(Holding)) <= Cardinality(In(GlobalHands))
      BY <2>1, <3>1
    <3>5. QED  BY <3>2, <3>3, <3>4
  <2>3. ASSUME NEW p \in Projects
        PROVE  Cardinality(InOf(p, Holding)) <= ProjectSlots
    <3>1. /\ InOf(p, Holding) \in SUBSET Executions
          /\ InOf(p, ProjectHands) \in SUBSET Executions
          /\ InOf(p, Holding) \subseteq InOf(p, ProjectHands)
      BY DEF In, InOf, ProjectHands
    <3>2. projectFree[p] \in Nat /\ ProjectSlots \in Nat
      BY <1>1, SlotsAssumption DEF IInv, LifecycleTypeOK
    <3>3. projectFree[p] = ProjectSlots - Cardinality(InOf(p, ProjectHands))
      BY <1>1 DEF IInv, SlotsCounted, ProjectHands
    <3>4. /\ Cardinality(InOf(p, Holding)) \in Nat
          /\ Cardinality(InOf(p, ProjectHands)) \in Nat
          /\ Cardinality(InOf(p, Holding)) <= Cardinality(InOf(p, ProjectHands))
      BY <2>1, <3>1
    <3>5. QED  BY <3>2, <3>3, <3>4
  <2>4. QED  BY <2>2, <2>3 DEF LimitsRespected
<1>2. QED  BY <1>1, AlwaysIInv, PTL

\* Persists, the sweeps and everything that cuts an execution off: a row that
\* says RUNNING belongs to a run that will still save it or that was cut off.
THEOREM RunningRowsAreExplained == LifecycleSpec => []RunningRowsExplained
<1>1. ASSUME IInv, RowsInv PROVE RunningRowsExplained
  BY <1>1 DEF IInv, LifecycleTypeOK, RowsInv, RowsByPlace, RunningRowsExplained,
              Waiting, Holding, Gone, Lost, Final
<1>2. QED  BY <1>1, AlwaysRowsInv, PTL

\* What users have seen of a background execution stays: the sweep of another
\* process finds only rows without a heartbeat, and nobody saves twice.
THEOREM FinalStatusIsKept == LifecycleSpec => FinalStatusStays
<1> DEFINE Keeps == \A e \in Executions \ Awaited : row[e] \in Final => row'[e] = row[e]
<1>1. ASSUME IInv, RowsInv, [LifecycleNext]_lifecycleVars PROVE Keeps
  <2> SUFFICES ASSUME NEW b \in Executions \ Awaited, row[b] \in Final PROVE row'[b] = row[b]
    OBVIOUS
  <2> USE <1>1 DEF IInv, LifecycleTypeOK, RowsInv, RowsByPlace, WorkIsRegistered, Final
  <2>1. ASSUME NEW e \in Executions, Launches(e) PROVE row'[b] = row[b]
    BY <2>1 DEF Launches
  <2>2. ASSUME NEW e \in Executions, Persists(e) PROVE row'[b] = row[b]
    BY <2>2 DEF Persists, Saved
  <2>3. ASSUME NEW e \in Executions, CancelledInPreflight(e) PROVE row'[b] = row[b]
    BY <2>3 DEF CancelledInPreflight
  <2>4. ASSUME NEW e \in Executions, CancelledPersisting(e) PROVE row'[b] = row[b]
    BY <2>4 DEF CancelledPersisting, Saved
  <2>5. ASSUME Sweeps PROVE row'[b] = row[b]
    BY <2>5 DEF Sweeps, SweepVictims
  <2>6. ASSUME NEW e \in Executions,
               \/ RefusedAtOnce(e) \/ WaitsForGlobal(e) \/ TakesGlobal(e) \/ GetsProject(e)
               \/ GlobalTimesOut(e) \/ ProjectTimesOut(e) \/ PreflightFails(e) \/ Begins(e)
               \/ Finishes(e) \/ PersistFails(e) \/ Leaves(e) \/ Unregisters(e) \/ Ages(e)
        PROVE  row' = row
    BY <2>6 DEF RefusedAtOnce, WaitsForGlobal, TakesGlobal, GetsProject, GlobalTimesOut,
       ProjectTimesOut, PreflightFails, Begins, Finishes, PersistFails, Leaves, Unregisters,
       Ages, rowVars
  <2>7. ASSUME NEW e \in Executions,
               \/ CancelledWaitingGlobal(e) \/ CancelledWaitingProject(e)
               \/ CancelledBeforeFirstStep(e) \/ CancelledRunning(e) \/ CancelledNotifying(e)
        PROVE  row' = row
    BY <2>7 DEF CancelledWaitingGlobal, CancelledWaitingProject, CancelledBeforeFirstStep,
       CancelledRunning, CancelledNotifying, rowVars
  <2>8. CASE Crashes \/ UNCHANGED lifecycleVars
    BY <2>8 DEF Crashes, lifecycleVars, rowVars
  <2>9. QED
    BY <2>1, <2>2, <2>3, <2>4, <2>5, <2>6, <2>7, <2>8
       DEF LifecycleNext, Progress, GetsCancelled, PeerStarts, Restarts
<1>2. IInv /\ RowsInv /\ [LifecycleNext]_lifecycleVars => [Keeps]_lifecycleVars
  BY <1>1
<1>3. QED  BY <1>2, AlwaysRowsInv, PTL DEF LifecycleSpec, FinalStatusStays
=============================================================================
