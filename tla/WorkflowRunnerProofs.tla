------------------------ MODULE WorkflowRunnerProofs ------------------------
(***************************************************************************)
(* What WorkflowRunner promises, for any graph, any number of attempts and *)
(* whatever the data of the nodes say.  The inductive invariant follows a  *)
(* node from its level to its record, keeps what a result says of the      *)
(* edges behind it equal to what the runner has closed, and lets no node   *)
(* be visited before those that feed it are settled.                       *)
(*                                                                         *)
(* Below it, what LoopRuns promises of runs that start runs, for any       *)
(* workflows, limits and number of rows.  Its invariant, RunsInv, ties a   *)
(* run to the mark of the item it was started for, the marks of a run to   *)
(* the state of its coroutine, and its call stack to the chain it is in.   *)
(***************************************************************************)
EXTENDS WorkflowRunner, LoopRuns, SequenceTheorems, FiniteSetTheorems, TLAPS

-----------------------------------------------------------------------------
(* The invariant                                                           *)

\* A node that was not visited has left no trace.
Untouched(n) ==
    /\ n \notin pending /\ n \notin skipped
    /\ work[n] = "idle" /\ attempt[n] = 0 /\ outcome[n] = NoOutcome /\ threads[n] = 0
    /\ results[n] = Result(Missing, NoChoice)
    /\ records[n] = <<>> /\ shown[n] = "none"

\* One that was dispatched is shown as running and has no result; one that is
\* visited and not pending has its terminal event and its record.
Underway(n) ==
    /\ shown[n] = "started" /\ n \notin skipped
    /\ results[n] = Result(Missing, NoChoice)
    /\ status # "cancelled" => records[n] = <<>>
Reported(n) == shown[n] = "ended" /\ records[n] # <<>>

NodesTracked ==
    \A n \in Nodes :
        /\ n \notin passed => Untouched(n)
        /\ n \in pending => n \in passed /\ Underway(n)
        /\ n \in passed \ pending => Reported(n)
        /\ records[n] \in {<<>>} \union {<<m>> : m \in Marks}

\* Tasks run in phase "run" only, and phase "drain" has an outcome of each.
TasksInPhase ==
    /\ \A n \in Nodes : work[n] # "idle" => phase = "run" /\ n \in pending /\ outcome[n] = NoOutcome
    /\ \A n \in pending :
        /\ phase = "visit" => outcome[n] = NoOutcome /\ attempt[n] = 0
        /\ phase = "drain" => outcome[n].is # "none"

\* The nodes that feed a node of the level, or one that was visited, have been
\* visited, and none of them is pending.
SourcesSettled ==
    /\ todo \intersect passed = {}
    /\ \A n \in todo \union passed : Sources(n) \subseteq passed \ pending

\* A thread that nobody waits for belongs to an attempt that expired, but for a
\* cancellation.
ThreadsExplained ==
    \A n \in Nodes :
        /\ work[n] = "attempt" => threads[n] # 0
        /\ status # "cancelled" /\ n \notin expired =>
             threads[n] = IF work[n] = "attempt" THEN 1 ELSE 0

\* No level is visited once a node failed, and what failed has been noted.
StopsKept ==
    /\ phase \in {"visit", "run"} => stops = {}
    /\ \A n \in Nodes : records[n] = <<"error">> => stops # {}
    /\ phase \in {"visit", "run", "drain"} => status = "completed"
    /\ phase # "over" => storage = "kept"
    /\ phase \in {"close", "over"} /\ status = "completed" => stops = {} /\ NextLevel(passed) = {}
    /\ phase \in {"close", "over"} /\ status # "cancelled" /\ (status = "failed" => stops # {}) =>
         pending = {}

\* The runner has closed an edge if and only if the result in front of it says so.
ClosedFor(m, n) ==
    \/ results[m].is = "ran" /\ Declares(m) # NoChoice
         /\ Handle(m, n) \notin Declares(m) \union {NoHandle}
    \/ results[m].is = "handled" /\ Handle(m, n) # "on_error"
EdgesClosed ==
    /\ \A m \in Scope : \A n \in Targets(m) : <<m, n>> \in inactive <=> ClosedFor(m, n)
    /\ \A m \in Nodes :
        /\ m \in skipped <=> results[m].is = "skipped"
        /\ results[m].is = Missing => Declares(m) = NoChoice

\* What a node was given, and why one was passed over.
WaysFollowed ==
    \A n \in Nodes :
        /\ Dispatched(n) => fed[n] = ActiveSources(n)
        /\ results[n].is = "skipped" /\ "disabled" \notin Flags[n] => ActiveSources(n) = {}

TypeInv == TypeOK /\ \A n \in Nodes : work[n] = "attempt" => threads[n] # 0

-----------------------------------------------------------------------------
(* The types                                                               *)

LEMMA ScopeInNodes == Scope \subseteq Nodes
BY NodesAssumption DEF Scope

LEMMA LevelInScope == ASSUME NEW done  PROVE NextLevel(done) \subseteq Scope
BY DEF NextLevel

LEMMA NeighboursInScope ==
  ASSUME NEW n  PROVE Sources(n) \subseteq Scope /\ Targets(n) \subseteq Scope
BY DEF Sources, Targets

LEMMA ChoicesAreAnswers ==
  ASSUME NEW n \in Nodes, NEW active \in Choices[n]
  PROVE  active \in Answers
BY ChoicesAssumption DEF Answers

LEMMA DefaultIsAnswer ==
  ASSUME NEW n, NEW active \in Answers
  PROVE  WithDefault(n, active) \in Answers
BY DEF WithDefault, Answers

LEMMA OneRecordIsSeq ==
  ASSUME NEW m \in Marks
  PROVE  /\ <<m>> \in Seq(Marks) /\ <<m>> # <<>> /\ Len(<<m>>) = 1
         /\ Append(<<>>, m) = <<m>>
OBVIOUS

LEMMA RecordsTyped ==
  ASSUME TypeOK, NEW n \in Nodes, NEW m \in Marks, Records(n, m)
  PROVE  records' \in [Nodes -> Seq(Marks)]
<1>1. records \in [Nodes -> Seq(Marks)]
  BY DEF TypeOK
<1>2. Append(records[n], m) \in Seq(Marks)
  BY <1>1, AppendProperties
<1>3. QED  BY <1>1, <1>2 DEF Records

LEMMA InitTypes == Init => TypeInv
<1> SUFFICES ASSUME Init  PROVE TypeInv
  OBVIOUS
<1>1. NextLevel({}) \subseteq Scope
  BY LevelInScope
<1>2. Result(Missing, NoChoice) \in [is : {Missing, "ran", "restored", "skipped", "handled"}, active : Answers]
  BY DEF Result, Answers
<1>3. NoOutcome \in Outcomes
  BY DEF NoOutcome, Outcomes
<1>4. <<>> \in Seq(Marks)
  OBVIOUS
<1>5. 0 \in 0..MaxCancels
  BY CancelsAssumption
<1>6. QED  BY <1>1, <1>2, <1>3, <1>4, <1>5 DEF Init, TypeInv, TypeOK, Statuses

LEMMA VisitTypes ==
  ASSUME TypeInv, NEW n \in Nodes, Visit(n)
  PROVE  TypeInv'
<1>1. n \in Scope
  BY DEF Visit, SkippedByBranch, RestoresCheckpoint, HitsCache, TakesPinned, Disabled, UnknownType,
         Dispatches, Visits, TypeInv, TypeOK
<1>2. ASSUME Visits(n), pending' \subseteq pending \union {n}, skipped' \subseteq skipped \union {n},
             results' = results \/ \E is \in {"restored", "skipped"}, a \in Answers :
                                     results' = [results EXCEPT ![n] = Result(is, a)],
             fed' = fed \/ fed' = [fed EXCEPT ![n] = ActiveSources(n)],
             records' = records \/ \E m \in Marks : Records(n, m),
             \E what \in {"started", "ended"} : Shows(n, what)
      PROVE  TypeInv'
  <2>1. records' \in [Nodes -> Seq(Marks)]
    BY <1>2, RecordsTyped DEF TypeInv, TypeOK
  <2>2. results' \in [Nodes -> [is : {Missing, "ran", "restored", "skipped", "handled"}, active : Answers]]
    <3>1. results \in [Nodes -> [is : {Missing, "ran", "restored", "skipped", "handled"}, active : Answers]]
      BY DEF TypeInv, TypeOK
    <3>2. \A is \in {"restored", "skipped"}, a \in Answers :
            Result(is, a) \in [is : {Missing, "ran", "restored", "skipped", "handled"}, active : Answers]
      BY DEF Result
    <3>3. QED  BY <1>2, <3>1, <3>2
  <2>3. fed' \in [Nodes -> SUBSET Scope]
    <3>1. ActiveSources(n) \in SUBSET Scope
      BY NeighboursInScope DEF ActiveSources
    <3>2. fed \in [Nodes -> SUBSET Scope]
      BY DEF TypeInv, TypeOK
    <3>3. QED  BY <1>2, <3>1, <3>2
  <2>4. shown' \in [Nodes -> {"none", "started", "ended"}]
    BY <1>2 DEF TypeInv, TypeOK, Shows
  <2>5. QED  BY <1>1, <1>2, <2>1, <2>2, <2>3, <2>4 DEF TypeInv, TypeOK, Visits, endVars
<1> USE DEF Marks
<1>3. NoChoice \in Answers
  BY DEF Answers
<1>4. CASE SkippedByBranch(n) \/ Disabled(n)
  BY <1>2, <1>3, <1>4 DEF SkippedByBranch, Disabled
<1>5. CASE RestoresCheckpoint(n) \/ HitsCache(n) \/ TakesPinned(n)
  <2>1. PICK active \in Choices[n] : results' = [results EXCEPT ![n] = Result("restored", WithDefault(n, active))]
    BY <1>5 DEF RestoresCheckpoint, HitsCache, TakesPinned, TakesStored
  <2>2. WithDefault(n, active) \in Answers
    BY ChoicesAreAnswers, DefaultIsAnswer
  <2>3. QED  BY <1>2, <1>5, <2>1, <2>2 DEF RestoresCheckpoint, HitsCache, TakesPinned, TakesStored
<1>6. CASE UnknownType(n)
  BY <1>2, <1>6 DEF UnknownType, graphVars
<1>7. CASE Dispatches(n)
  BY <1>2, <1>7 DEF Dispatches
<1>8. QED  BY <1>4, <1>5, <1>6, <1>7 DEF Visit

LEMMA TaskTypes ==
  ASSUME TypeInv, NEW n \in Nodes, AttemptEnds(n) \/ AttemptExpires(n) \/ Retries(n) \/ ThreadEnds(n)
  PROVE  TypeInv'
<1>1. /\ threads \in [Nodes -> Nat] /\ attempt \in [Nodes -> Nat]
      /\ work \in [Nodes -> {"idle", "attempt", "backoff"}]
      /\ outcome \in [Nodes -> Outcomes]
      /\ \A k \in Nodes : work[k] = "attempt" => threads[k] # 0
  BY DEF TypeInv, TypeOK
<1>2. \A active \in Choices[n] : Result("ok", active) \in Outcomes
  BY ChoicesAreAnswers DEF Outcomes, Result
<1>3. \A is \in {"error", "skip", "unexpected"} : Result(is, NoChoice) \in Outcomes
  BY DEF Outcomes, Result
<1>4. SUFFICES /\ threads' \in [Nodes -> Nat] /\ attempt' \in [Nodes -> Nat]
               /\ work' \in [Nodes -> {"idle", "attempt", "backoff"}]
               /\ outcome' \in [Nodes -> Outcomes]
               /\ expired' \subseteq Nodes
               /\ \A k \in Nodes : work'[k] = "attempt" => threads'[k] # 0
  BY DEF TypeInv, TypeOK, AttemptEnds, AttemptExpires, Retries, ThreadEnds, levelVars, graphVars,
         reportVars, endVars
<1>5. CASE AttemptEnds(n)
  <2>1. threads' = [threads EXCEPT ![n] = @ - 1] /\ work[n] = "attempt" /\ expired' = expired
        /\ attempt' = attempt
    BY <1>5 DEF AttemptEnds
  <2>2. work' = [work EXCEPT ![n] = "idle"] \/ work' = [work EXCEPT ![n] = "backoff"]
    BY <1>5 DEF AttemptEnds, Answered, Errs
  <2>3. outcome' = outcome \/ \E what \in Outcomes : outcome' = [outcome EXCEPT ![n] = what]
    BY <1>2, <1>3, <1>5 DEF AttemptEnds, Answered, Errs
  <2>4. expired \subseteq Nodes
    BY DEF TypeInv, TypeOK
  <2>5. work' \in [Nodes -> {"idle", "attempt", "backoff"}] /\ work'[n] # "attempt"
    BY <1>1, <2>2
  <2>6. outcome' \in [Nodes -> Outcomes]
    BY <1>1, <2>3
  <2>7. threads' \in [Nodes -> Nat] /\ \A k \in Nodes \ {n} : threads'[k] = threads[k] /\ work'[k] = work[k]
    BY <1>1, <2>1, <2>2
  <2>8. QED  BY <1>1, <2>1, <2>4, <2>5, <2>6, <2>7
<1>6. CASE AttemptExpires(n)
  <2>1. threads' = threads /\ expired' = expired \union {n} /\ attempt' = attempt
    BY <1>6 DEF AttemptExpires
  <2>2. work' = [work EXCEPT ![n] = "idle"] \/ work' = [work EXCEPT ![n] = "backoff"]
    BY <1>6 DEF AttemptExpires, Answered, Errs
  <2>3. outcome' = outcome \/ \E what \in Outcomes : outcome' = [outcome EXCEPT ![n] = what]
    BY <1>3, <1>6 DEF AttemptExpires, Answered, Errs
  <2>4. expired \subseteq Nodes
    BY DEF TypeInv, TypeOK
  <2>5. work' \in [Nodes -> {"idle", "attempt", "backoff"}] /\ work'[n] # "attempt"
    BY <1>1, <2>2
  <2>6. outcome' \in [Nodes -> Outcomes]
    BY <1>1, <2>3
  <2>7. threads' \in [Nodes -> Nat] /\ \A k \in Nodes \ {n} : threads'[k] = threads[k] /\ work'[k] = work[k]
    BY <1>1, <2>1, <2>2
  <2>8. QED  BY <1>1, <2>1, <2>4, <2>5, <2>6, <2>7
<1>7. CASE Retries(n)
  BY <1>1, <1>7 DEF Retries, TypeInv, TypeOK
<1>8. CASE ThreadEnds(n)
  BY <1>1, <1>8 DEF ThreadEnds, TypeInv, TypeOK
<1>9. QED  BY <1>5, <1>6, <1>7, <1>8

LEMMA DrainTypes ==
  ASSUME TypeInv, NEW n \in Nodes,
         Succeeds(n) \/ HandlesError(n) \/ Fails(n) \/ Aborts(n) \/ Breaks(n)
  PROVE  TypeInv'
<1>1. n \in Scope /\ outcome[n] \in Outcomes
  BY DEF TypeInv, TypeOK, Succeeds, HandlesError, Fails, Aborts, Breaks, Drains
<1>2. ASSUME NEW is, Drains(n, is), \E m \in Marks : Records(n, m),
             results' = results \/ \E s \in {"ran", "handled"}, a \in Answers :
                                     results' = [results EXCEPT ![n] = Result(s, a)],
             inactive' \subseteq inactive \union {<<n, m>> : m \in Targets(n)},
             stops' \subseteq stops \union {"unexpected", "skipped", "failed"}
      PROVE  TypeInv'
  <2>1. records' \in [Nodes -> Seq(Marks)]
    BY <1>2, RecordsTyped DEF TypeInv, TypeOK
  <2>2. results' \in [Nodes -> [is : {Missing, "ran", "restored", "skipped", "handled"}, active : Answers]]
    <3>1. results \in [Nodes -> [is : {Missing, "ran", "restored", "skipped", "handled"}, active : Answers]]
      BY DEF TypeInv, TypeOK
    <3>2. \A s \in {"ran", "handled"}, a \in Answers :
            Result(s, a) \in [is : {Missing, "ran", "restored", "skipped", "handled"}, active : Answers]
      BY DEF Result
    <3>3. QED  BY <1>2, <3>1, <3>2
  <2>3. inactive' \subseteq Scope \X Scope
    BY <1>1, <1>2, NeighboursInScope DEF TypeInv, TypeOK
  <2>4. shown' \in [Nodes -> {"none", "started", "ended"}]
    BY <1>2 DEF TypeInv, TypeOK, Drains, Shows
  <2>5. QED  BY <1>2, <2>1, <2>2, <2>3, <2>4 DEF TypeInv, TypeOK, Drains, levelVars
<1> USE DEF Marks
<1>3. CASE Succeeds(n)
  <2> DEFINE active == WithDefault(n, outcome[n].active)
  <2>1. outcome[n].active \in Answers
    BY <1>1 DEF Outcomes, Answers
  <2>2. active \in Answers
    BY <2>1, DefaultIsAnswer
  <2>3. ClosedBy(n, active) \subseteq {<<n, m>> : m \in Targets(n)}
    BY DEF ClosedBy
  <2>4. results' = [results EXCEPT ![n] = Result("ran", active)]
        /\ inactive' = inactive \union ClosedBy(n, active) /\ stops' = stops
        /\ Drains(n, "ok") /\ Records(n, "success")
    BY <1>3 DEF Succeeds
  <2> HIDE DEF active
  <2>5. QED  BY <1>2, <2>2, <2>3, <2>4
<1>4. CASE HandlesError(n)
  <2>1. {"on_error"} \in Answers
    BY DEF Answers
  <2>2. results' = [results EXCEPT ![n] = Result("handled", {"on_error"})]
        /\ inactive' \subseteq inactive \union {<<n, m>> : m \in Targets(n)} /\ stops' = stops
        /\ Drains(n, "error") /\ Records(n, "handled_error")
    BY <1>4 DEF HandlesError
  <2>3. QED  BY <1>2, <2>1, <2>2
<1>5. CASE Fails(n)
  BY <1>2, <1>5 DEF Fails
<1>6. CASE Aborts(n)
  BY <1>2, <1>6 DEF Aborts
<1>7. CASE Breaks(n)
  BY <1>2, <1>7 DEF Breaks
<1>8. QED  BY <1>3, <1>4, <1>5, <1>6, <1>7

LEMMA StartTypes == ASSUME TypeInv, StartsLevel  PROVE TypeInv'
<1>1. /\ threads \in [Nodes -> Nat] /\ attempt \in [Nodes -> Nat]
      /\ work \in [Nodes -> {"idle", "attempt", "backoff"}]
      /\ \A k \in Nodes : work[k] = "attempt" => threads[k] # 0
  BY DEF TypeInv, TypeOK
<1>2. /\ threads' \in [Nodes -> Nat] /\ attempt' \in [Nodes -> Nat]
      /\ work' \in [Nodes -> {"idle", "attempt", "backoff"}]
      /\ \A k \in Nodes : work'[k] = "attempt" => threads'[k] # 0
  BY <1>1 DEF StartsLevel
<1>3. QED  BY <1>2 DEF TypeInv, TypeOK, StartsLevel, levelVars, graphVars, reportVars, endVars

LEMMA EndTypes ==
  ASSUME TypeInv, \/ GatherReturns \/ Advances \/ Completes \/ Stops \/ Closes
                  \/ Cancelled \/ CancelledClosing
                  \/ \E n \in Nodes : VisitRaises(n)
  PROVE  TypeInv'
<1> USE DEF TypeInv, TypeOK, levelVars, taskVars, graphVars, reportVars, endVars, Statuses
<1>1. CASE GatherReturns
  BY <1>1 DEF GatherReturns
<1>2. CASE Advances
  BY <1>2, LevelInScope DEF Advances
<1>3. CASE Completes \/ Stops
  BY <1>3 DEF Completes, Stops
<1>4. CASE Closes
  BY <1>4 DEF Closes
<1>5. CASE Cancelled
  <2>1. <<"cancelled">> \in Seq(Marks)
    BY DEF Marks
  <2>2. records' \in [Nodes -> Seq(Marks)]
    BY <1>5, <2>1 DEF Cancelled, RecordCancelled
  <2>3. cancels' \in 0..MaxCancels
    BY <1>5, CancelsAssumption DEF Cancelled
  <2>4. QED  BY <1>5, <2>2, <2>3 DEF Cancelled
<1>6. CASE CancelledClosing
  <2>1. cancels' \in 0..MaxCancels
    BY <1>6, CancelsAssumption DEF CancelledClosing
  <2>2. QED  BY <1>6, <2>1 DEF CancelledClosing
<1>7. CASE \E n \in Nodes : VisitRaises(n)
  BY <1>7 DEF VisitRaises
<1>8. QED  BY <1>1, <1>2, <1>3, <1>4, <1>5, <1>6, <1>7

LEMMA StutterTypes == ASSUME TypeInv, UNCHANGED vars  PROVE TypeInv'
BY DEF TypeInv, TypeOK, vars, levelVars, taskVars, graphVars, reportVars, endVars

\* The steps of the runner, by what they change.
LEMMA StepKinds ==
  ASSUME Next
  PROVE  \/ \E n \in Nodes : Visit(n)
         \/ \E n \in Nodes : AttemptEnds(n) \/ AttemptExpires(n) \/ Retries(n) \/ ThreadEnds(n)
         \/ \E n \in Nodes : Succeeds(n) \/ HandlesError(n) \/ Fails(n) \/ Aborts(n) \/ Breaks(n)
         \/ StartsLevel
         \/ \/ GatherReturns \/ Advances \/ Completes \/ Stops \/ Closes
            \/ Cancelled \/ CancelledClosing
            \/ \E n \in Nodes : VisitRaises(n)
BY DEF Next, Step, NodeStep

\* The types hold for any graph, any flags, choices and numbers of attempts; a
\* thread of a running attempt is never taken for one that ended.
THEOREM TypeCorrect == Spec => []TypeInv
<1>1. Init => TypeInv
  BY InitTypes
<1>2. TypeInv /\ [Next]_vars => TypeInv'
  BY StepKinds, VisitTypes, TaskTypes, DrainTypes, StartTypes, EndTypes, StutterTypes
<1>3. QED  BY <1>1, <1>2, PTL DEF Spec

-----------------------------------------------------------------------------
(* Where each node is                                                      *)

TrackInv == NodesTracked /\ TasksInPhase /\ SourcesSettled /\ StopsKept

LEMMA InitTracks == Init => TrackInv
<1> SUFFICES ASSUME Init  PROVE TrackInv
  OBVIOUS
<1>1. \A n \in Nodes : Untouched(n) /\ n \notin passed /\ n \notin pending /\ records[n] = <<>>
  BY DEF Init, Untouched
<1>2. NodesTracked
  BY <1>1 DEF NodesTracked
<1>3. TasksInPhase
  BY <1>1 DEF TasksInPhase, Untouched, Init
<1>4. SourcesSettled
  BY DEF SourcesSettled, Init, NextLevel
<1>5. StopsKept
  <2>1. \A n \in Nodes : records[n] # <<"error">>
    BY <1>1
  <2>2. QED  BY <2>1 DEF StopsKept, Init
<1>6. QED  BY <1>2, <1>3, <1>4, <1>5 DEF TrackInv

\* What a visit does to the node it is about, and to no other.
LEMMA VisitEffect ==
  ASSUME TypeInv, NEW n \in Nodes, Visit(n)
  PROVE  /\ Visits(n)
         /\ \A k \in Nodes \ {n} : /\ shown'[k] = shown[k] /\ records'[k] = records[k]
                                   /\ results'[k] = results[k] /\ fed'[k] = fed[k]
                                   /\ k \in skipped' <=> k \in skipped
                                   /\ k \in pending' <=> k \in pending
         /\ \/ /\ n \in pending' /\ shown'[n] = "started" /\ fed'[n] = ActiveSources(n)
               /\ records'[n] = records[n] /\ results'[n] = results[n]
               /\ n \in skipped' <=> n \in skipped
            \/ /\ n \in pending' <=> n \in pending
               /\ shown'[n] = "ended" /\ fed'[n] = fed[n]
               /\ records'[n] \in {Append(records[n], "skipped"), Append(records[n], "success")}
<1>1. Visits(n)
  BY DEF Visit, SkippedByBranch, RestoresCheckpoint, HitsCache, TakesPinned, Disabled, UnknownType,
         Dispatches
<1>2. /\ shown \in [Nodes -> {"none", "started", "ended"}]
      /\ records \in [Nodes -> Seq(Marks)]
      /\ results \in [Nodes -> [is : {Missing, "ran", "restored", "skipped", "handled"}, active : Answers]]
      /\ fed \in [Nodes -> SUBSET Scope]
  BY DEF TypeInv, TypeOK
<1> USE DEF Records, Shows
<1>3. CASE SkippedByBranch(n) \/ Disabled(n)
  BY <1>1, <1>2, <1>3 DEF SkippedByBranch, Disabled
<1>4. CASE RestoresCheckpoint(n) \/ HitsCache(n) \/ TakesPinned(n)
  <2>1. PICK active : results' = [results EXCEPT ![n] = active]
    BY <1>4 DEF RestoresCheckpoint, HitsCache, TakesPinned, TakesStored
  <2>2. QED  BY <1>1, <1>2, <1>4, <2>1 DEF RestoresCheckpoint, HitsCache, TakesPinned, TakesStored
<1>5. CASE UnknownType(n)
  BY <1>1, <1>2, <1>5 DEF UnknownType, graphVars
<1>6. CASE Dispatches(n)
  BY <1>1, <1>2, <1>6 DEF Dispatches
<1>7. QED  BY <1>3, <1>4, <1>5, <1>6 DEF Visit

LEMMA VisitTracks ==
  ASSUME TypeInv, TrackInv, NEW n \in Nodes, Visit(n)
  PROVE  TrackInv'
<1>1. /\ phase = "visit" /\ phase' = phase /\ n \in todo
      /\ todo' = todo \ {n} /\ passed' = passed \union {n}
      /\ UNCHANGED <<work, attempt, outcome, threads, inactive, stops, status, storage>>
  BY VisitEffect DEF Visits, endVars
<1>2. n \notin passed /\ Untouched(n)
  BY <1>1 DEF TrackInv, SourcesSettled, NodesTracked
<1>3. \A k \in Nodes \ {n} : /\ shown'[k] = shown[k] /\ records'[k] = records[k]
                             /\ results'[k] = results[k]
                             /\ k \in skipped' <=> k \in skipped
                             /\ k \in pending' <=> k \in pending
  BY VisitEffect
<1>4. records[n] = <<>>
  BY <1>2 DEF Untouched
<1>5. \/ /\ n \in pending' /\ shown'[n] = "started"
         /\ records'[n] = <<>> /\ results'[n] = results[n]
         /\ n \notin skipped'
      \/ /\ n \notin pending' /\ shown'[n] = "ended"
         /\ \E m \in {"skipped", "success"} : records'[n] = <<m>>
  BY <1>2, <1>4, VisitEffect, OneRecordIsSeq DEF Untouched, Marks
<1>6. NodesTracked'
  <2>1. ASSUME NEW k \in Nodes \ {n}
        PROVE  /\ k \notin passed' => Untouched(k)'
               /\ k \in pending' => k \in passed' /\ Underway(k)'
               /\ k \in passed' \ pending' => Reported(k)'
               /\ records'[k] \in {<<>>} \union {<<m>> : m \in Marks}
    BY <1>1, <1>3 DEF TrackInv, NodesTracked, Untouched, Underway, Reported
  <2>2. /\ n \in passed'
        /\ n \in pending' => Underway(n)'
        /\ n \in passed' \ pending' => Reported(n)'
        /\ records'[n] \in {<<>>} \union {<<m>> : m \in Marks}
    <3>1. n \in pending' => Underway(n)' /\ records'[n] = <<>>
      BY <1>2, <1>5 DEF Untouched, Underway
    <3>2. n \notin pending' => Reported(n)' /\ \E m \in Marks : records'[n] = <<m>>
      BY <1>5, OneRecordIsSeq DEF Reported, Marks
    <3>3. QED  BY <1>1, <3>1, <3>2
  <2>3. QED  BY <2>1, <2>2 DEF NodesTracked
<1>7. TasksInPhase'
  <2>1. pending' \subseteq Nodes
    BY VisitTypes, ScopeInNodes DEF TypeInv, TypeOK
  <2>2. QED  BY <1>1, <1>2, <1>3, <2>1 DEF TrackInv, TasksInPhase, Untouched
<1>8. SourcesSettled'
  <2>1. todo \intersect passed = {} /\ \A k \in todo \union passed : Sources(k) \subseteq passed \ pending
    BY DEF TrackInv, SourcesSettled
  <2>2. pending' \subseteq pending \union {n}
    <3>1. pending' \subseteq Nodes
      BY VisitTypes, ScopeInNodes DEF TypeInv, TypeOK
    <3>2. QED  BY <1>3, <3>1
  <2>3. QED  BY <1>1, <1>2, <2>1, <2>2 DEF SourcesSettled
<1>9. StopsKept'
  <2>1. \A k \in Nodes : records'[k] = <<"error">> => records[k] = <<"error">>
    BY <1>3, <1>5
  <2>2. QED  BY <1>1, <2>1 DEF TrackInv, StopsKept
<1>10. QED  BY <1>6, <1>7, <1>8, <1>9 DEF TrackInv

\* What becomes of the task of a node, and of no other.
LEMMA TaskEffect ==
  ASSUME TypeInv, NEW n \in Nodes, AttemptEnds(n) \/ AttemptExpires(n) \/ Retries(n) \/ ThreadEnds(n)
  PROVE  /\ UNCHANGED <<phase, levelVars, pending, graphVars, reportVars, endVars>>
         /\ \A k \in Nodes \ {n} : /\ work'[k] = work[k] /\ attempt'[k] = attempt[k]
                                   /\ outcome'[k] = outcome[k] /\ threads'[k] = threads[k]
         /\ \/ /\ work[n] # "idle"
               /\ work'[n] = "idle" \/ outcome'[n] = outcome[n]
            \/ threads[n] # 0 /\ UNCHANGED <<work, attempt, outcome>>
<1>1. /\ threads \in [Nodes -> Nat] /\ attempt \in [Nodes -> Nat]
      /\ work \in [Nodes -> {"idle", "attempt", "backoff"}] /\ outcome \in [Nodes -> Outcomes]
  BY DEF TypeInv, TypeOK
<1>2. CASE AttemptEnds(n)
  BY <1>1, <1>2 DEF AttemptEnds, Answered, Errs
<1>3. CASE AttemptExpires(n)
  BY <1>1, <1>3 DEF AttemptExpires, Answered, Errs
<1>4. CASE Retries(n)
  BY <1>1, <1>4 DEF Retries
<1>5. CASE ThreadEnds(n)
  BY <1>1, <1>5 DEF ThreadEnds
<1>6. QED  BY <1>2, <1>3, <1>4, <1>5

LEMMA TaskTracks ==
  ASSUME TypeInv, TrackInv, NEW n \in Nodes,
         AttemptEnds(n) \/ AttemptExpires(n) \/ Retries(n) \/ ThreadEnds(n)
  PROVE  TrackInv'
<1>1. UNCHANGED <<phase, todo, passed, pending, skipped, results, records, shown, stops, status, storage>>
  BY TaskEffect DEF levelVars, graphVars, reportVars, endVars
<1>2. /\ \A k \in Nodes \ {n} : /\ work'[k] = work[k] /\ attempt'[k] = attempt[k]
                                /\ outcome'[k] = outcome[k] /\ threads'[k] = threads[k]
      /\ \/ /\ work[n] # "idle"
            /\ work'[n] = "idle" \/ outcome'[n] = outcome[n]
         \/ threads[n] # 0 /\ UNCHANGED <<work, attempt, outcome>>
  BY TaskEffect
<1>3. n \in passed
  BY <1>2 DEF TrackInv, NodesTracked, TasksInPhase, Untouched
<1>4. NodesTracked'
  BY <1>1, <1>2, <1>3 DEF TrackInv, NodesTracked, Untouched, Underway, Reported
<1>5. TasksInPhase'
  <2>1. pending \subseteq Nodes
    BY ScopeInNodes DEF TypeInv, TypeOK
  <2>2. CASE work[n] # "idle"
    <3>1. phase = "run" /\ n \in pending /\ outcome[n] = NoOutcome
      BY <2>2 DEF TrackInv, TasksInPhase
    <3>2. QED  BY <1>1, <1>2, <2>1, <2>2, <3>1 DEF TrackInv, TasksInPhase
  <2>3. CASE UNCHANGED <<work, attempt, outcome>>
    BY <1>1, <2>3 DEF TrackInv, TasksInPhase
  <2>4. QED  BY <1>2, <2>2, <2>3
<1>6. SourcesSettled'
  BY <1>1 DEF TrackInv, SourcesSettled, Sources
<1>7. StopsKept'
  BY <1>1 DEF TrackInv, StopsKept
<1>8. QED  BY <1>4, <1>5, <1>6, <1>7 DEF TrackInv

\* What the end of a node adds to the report.
LEMMA DrainEffect ==
  ASSUME TypeInv, NEW n \in Nodes,
         Succeeds(n) \/ HandlesError(n) \/ Fails(n) \/ Aborts(n) \/ Breaks(n)
  PROVE  /\ phase = "drain" /\ n \in pending /\ pending' = pending \ {n}
         /\ UNCHANGED <<phase, levelVars, work, attempt, outcome, threads, expired, skipped, fed,
                        status, storage, cancels>>
         /\ shown'[n] = "ended"
         /\ \A k \in Nodes \ {n} : /\ shown'[k] = shown[k] /\ records'[k] = records[k]
                                   /\ results'[k] = results[k]
         /\ stops \subseteq stops'
         /\ \/ records'[n] \in {Append(records[n], "success"), Append(records[n], "skipped"),
                                Append(records[n], "handled_error")}
            \/ records'[n] = Append(records[n], "error") /\ stops' # {}
<1>1. /\ shown \in [Nodes -> {"none", "started", "ended"}]
      /\ records \in [Nodes -> Seq(Marks)]
      /\ results \in [Nodes -> [is : {Missing, "ran", "restored", "skipped", "handled"}, active : Answers]]
  BY DEF TypeInv, TypeOK
<1> USE DEF Drains, Records, Shows
<1>2. CASE Succeeds(n)
  BY <1>1, <1>2 DEF Succeeds
<1>3. CASE HandlesError(n)
  BY <1>1, <1>3 DEF HandlesError
<1>4. CASE Fails(n)
  BY <1>1, <1>4 DEF Fails
<1>5. CASE Aborts(n)
  BY <1>1, <1>5 DEF Aborts
<1>6. CASE Breaks(n)
  BY <1>1, <1>6 DEF Breaks
<1>7. QED  BY <1>2, <1>3, <1>4, <1>5, <1>6

LEMMA DrainTracks ==
  ASSUME TypeInv, TrackInv, NEW n \in Nodes,
         Succeeds(n) \/ HandlesError(n) \/ Fails(n) \/ Aborts(n) \/ Breaks(n)
  PROVE  TrackInv'
<1>1. /\ phase = "drain" /\ n \in pending /\ pending' = pending \ {n}
      /\ UNCHANGED <<phase, todo, passed, work, attempt, outcome, threads, skipped, status, storage>>
  BY DrainEffect DEF levelVars
<1>2. /\ \A k \in Nodes \ {n} : /\ shown'[k] = shown[k] /\ records'[k] = records[k]
                                /\ results'[k] = results[k]
      /\ shown'[n] = "ended" /\ stops \subseteq stops'
      /\ \/ records'[n] \in {Append(records[n], "success"), Append(records[n], "skipped"),
                             Append(records[n], "handled_error")}
         \/ records'[n] = Append(records[n], "error") /\ stops' # {}
  BY DrainEffect
<1>3. status = "completed" /\ n \in passed /\ records[n] = <<>>
  BY <1>1 DEF TrackInv, StopsKept, NodesTracked, Underway
<1>4. \/ \E m \in {"success", "skipped", "handled_error"} : records'[n] = <<m>>
      \/ records'[n] = <<"error">> /\ stops' # {}
  BY <1>2, <1>3, OneRecordIsSeq DEF Marks
<1>5. NodesTracked'
  <2>1. ASSUME NEW k \in Nodes \ {n}
        PROVE  /\ k \notin passed' => Untouched(k)'
               /\ k \in pending' => k \in passed' /\ Underway(k)'
               /\ k \in passed' \ pending' => Reported(k)'
               /\ records'[k] \in {<<>>} \union {<<m>> : m \in Marks}
    BY <1>1, <1>2 DEF TrackInv, NodesTracked, Untouched, Underway, Reported
  <2>2. n \in passed' /\ n \notin pending' /\ \E m \in Marks : records'[n] = <<m>>
    BY <1>1, <1>3, <1>4 DEF Marks
  <2>3. Reported(n)'
    BY <1>2, <2>2, OneRecordIsSeq DEF Reported
  <2>4. records'[n] \in {<<>>} \union {<<m>> : m \in Marks}
    BY <2>2
  <2>5. ASSUME NEW k \in Nodes
        PROVE  /\ k \notin passed' => Untouched(k)'
               /\ k \in pending' => k \in passed' /\ Underway(k)'
               /\ k \in passed' \ pending' => Reported(k)'
               /\ records'[k] \in {<<>>} \union {<<m>> : m \in Marks}
    <3>1. CASE k = n
      BY <2>2, <2>3, <2>4, <3>1
    <3>2. CASE k # n
      BY <2>1, <3>2
    <3>3. QED  BY <3>1, <3>2
  <2>6. QED  BY <2>5 DEF NodesTracked
<1>6. TasksInPhase'
  <2>1. \A k \in Nodes : work[k] = "idle"
    BY <1>1 DEF TrackInv, TasksInPhase
  <2>2. QED  BY <1>1, <2>1 DEF TrackInv, TasksInPhase
<1>7. SourcesSettled'
  BY <1>1 DEF TrackInv, SourcesSettled, Sources
<1>8. StopsKept'
  <2>1. \A k \in Nodes : records'[k] = <<"error">> => records[k] = <<"error">> \/ stops' # {}
    BY <1>2, <1>4
  <2>2. \A k \in Nodes : records'[k] = <<"error">> => stops' # {}
    BY <1>2, <2>1 DEF TrackInv, StopsKept
  <2>3. QED  BY <1>1, <1>3, <2>2 DEF TrackInv, StopsKept
<1>9. QED  BY <1>5, <1>6, <1>7, <1>8 DEF TrackInv

LEMMA StartTracks ==
  ASSUME TypeInv, TrackInv, StartsLevel
  PROVE  TrackInv'
<1>1. /\ phase = "visit" /\ phase' = "run"
      /\ UNCHANGED <<todo, passed, pending, outcome, skipped, results, records, shown, stops,
                     status, storage>>
      /\ \A k \in Nodes \ pending : /\ work'[k] = work[k] /\ attempt'[k] = attempt[k]
                                    /\ threads'[k] = threads[k]
  BY DEF StartsLevel, levelVars, graphVars, reportVars, endVars
<1>2. NodesTracked'
  BY <1>1 DEF TrackInv, NodesTracked, Untouched, Underway, Reported
<1>3. TasksInPhase'
  <2>1. pending \subseteq Nodes
    BY ScopeInNodes DEF TypeInv, TypeOK
  <2>2. \A k \in pending : outcome[k] = NoOutcome
    BY <1>1 DEF TrackInv, TasksInPhase
  <2>3. \A k \in Nodes \ pending : work[k] = "idle"
    BY <1>1 DEF TrackInv, TasksInPhase
  <2>4. QED  BY <1>1, <2>1, <2>2, <2>3 DEF TasksInPhase
<1>4. SourcesSettled'
  BY <1>1 DEF TrackInv, SourcesSettled, Sources
<1>5. StopsKept'
  BY <1>1 DEF TrackInv, StopsKept
<1>6. QED  BY <1>2, <1>3, <1>4, <1>5 DEF TrackInv

\* A level is left when none of its nodes is pending.
LEMMA DoneIsDrained == ASSUME TrackInv, LevelDone  PROVE pending = {} /\ phase \in {"visit", "drain"}
BY DEF TrackInv, TasksInPhase, LevelDone

\* Outside phase "run" no task is at work.
LEMMA IdleOutside ==
  ASSUME TrackInv, phase # "run"
  PROVE  \A k \in Nodes : work[k] = "idle"
BY DEF TrackInv, TasksInPhase

LEMMA LeavesTracks ==
  ASSUME TypeInv, TrackInv, GatherReturns \/ Advances \/ Completes \/ Stops \/ Closes
  PROVE  TrackInv'
<1> USE DEF taskVars, graphVars, reportVars, endVars, levelVars
<1>1. /\ UNCHANGED <<passed, pending, work, attempt, outcome, threads, skipped, results, records,
                     shown, stops>>
  BY DEF GatherReturns, Advances, Completes, Stops, Closes
<1>2. phase' # "run" /\ \A k \in Nodes : work[k] = "idle"
  <2>1. CASE GatherReturns
    <3>1. \A k \in pending : outcome[k] # NoOutcome
      BY <2>1 DEF GatherReturns, Gathered, NoOutcome
    <3>2. QED  BY <2>1, <3>1 DEF GatherReturns, TrackInv, TasksInPhase
  <2>2. CASE Advances \/ Completes \/ Stops
    BY <2>2, DoneIsDrained, IdleOutside DEF Advances, Completes, Stops
  <2>3. CASE Closes
    BY <2>3, IdleOutside DEF Closes
  <2>4. QED  BY <2>1, <2>2, <2>3
<1>3. status = "cancelled" => status' = "cancelled"
  BY DEF GatherReturns, Advances, Completes, Stops, Closes, LevelDone, TrackInv, StopsKept
<1>4. NodesTracked'
  BY <1>1, <1>3 DEF TrackInv, NodesTracked, Untouched, Underway, Reported
<1>5. TasksInPhase'
  <2>1. CASE GatherReturns
    BY <1>1, <1>2, <2>1 DEF GatherReturns, Gathered, TasksInPhase
  <2>2. CASE Advances \/ Completes \/ Stops
    BY <1>1, <1>2, <2>2, DoneIsDrained DEF Advances, Completes, Stops, TasksInPhase
  <2>3. CASE Closes
    BY <1>1, <1>2, <2>3 DEF Closes, TasksInPhase
  <2>4. QED  BY <2>1, <2>2, <2>3
<1>6. SourcesSettled'
  <2>1. CASE Advances
    <3>1. todo' = NextLevel(passed) /\ pending = {}
      BY <2>1, DoneIsDrained DEF Advances
    <3>2. \A n \in NextLevel(passed) : n \notin passed /\ Sources(n) \subseteq passed
      BY DEF NextLevel
    <3>3. QED  BY <1>1, <3>1, <3>2 DEF TrackInv, SourcesSettled, Sources
  <2>2. CASE ~Advances
    <3>1. todo' = todo
      BY <2>2 DEF GatherReturns, Completes, Stops, Closes
    <3>2. QED  BY <1>1, <3>1 DEF TrackInv, SourcesSettled, Sources
  <2>3. QED  BY <2>1, <2>2
<1>7. StopsKept'
  <2>1. CASE GatherReturns
    BY <2>1 DEF GatherReturns, TrackInv, StopsKept
  <2>2. CASE Advances
    BY <2>2, DoneIsDrained DEF Advances, Stopped, TrackInv, StopsKept
  <2>3. CASE Completes
    <3>1. /\ stops = {} /\ pending = {} /\ NextLevel(passed) = {} /\ phase' = "close"
          /\ UNCHANGED <<status, storage, stops, pending, passed, records>>
          /\ storage = "kept"
      BY <2>3, DoneIsDrained DEF Completes, Stopped, TrackInv, StopsKept
    <3>2. NextLevel(passed)' = NextLevel(passed)
      BY <3>1 DEF NextLevel, Sources
    <3>3. QED  BY <3>1, <3>2 DEF TrackInv, StopsKept
  <2>4. CASE Stops
    <3>1. /\ stops # {} /\ pending = {} /\ phase' = "close" /\ status' \in {"aborted", "failed"}
          /\ UNCHANGED <<storage, stops, pending, passed, records>>
          /\ storage = "kept"
      BY <2>4, DoneIsDrained DEF Stops, Stopped, TrackInv, StopsKept
    <3>2. QED  BY <3>1 DEF TrackInv, StopsKept
  <2>5. CASE Closes
    <3>1. /\ phase = "close" /\ phase' = "over"
          /\ UNCHANGED <<status, stops, pending, passed, records>>
      BY <2>5 DEF Closes
    <3>2. NextLevel(passed)' = NextLevel(passed)
      BY <3>1 DEF NextLevel, Sources
    <3>3. QED  BY <3>1, <3>2 DEF TrackInv, StopsKept
  <2>6. QED  BY <2>1, <2>2, <2>3, <2>4, <2>5
<1>8. QED  BY <1>4, <1>5, <1>6, <1>7 DEF TrackInv

\* A cancellation records each node that is shown as running, and no other.
LEMMA CancelRecords ==
  ASSUME TypeInv, NodesTracked, RecordCancelled, NEW k \in Nodes
  PROVE  /\ k \notin passed \/ k \notin pending => records'[k] = records[k]
         /\ records'[k] \in {records[k], <<"cancelled">>}
BY DEF RecordCancelled, NodesTracked, Untouched, Reported

LEMMA CutTracks ==
  ASSUME TypeInv, TrackInv, \/ \E n \in Nodes : VisitRaises(n)
                            \/ Cancelled \/ CancelledClosing
  PROVE  TrackInv'
<1> USE DEF taskVars, graphVars, reportVars, endVars, levelVars
<1>1. /\ UNCHANGED <<todo, passed, pending, attempt, outcome, threads, skipped, results,
                     shown, stops, storage>>
      /\ phase' \in {"close", "over"} /\ status' \in {"failed", "cancelled"}
      /\ status = "cancelled" => status' = "cancelled"
  BY DEF VisitRaises, Cancelled, CancelledClosing, TrackInv, StopsKept
<1>2. \A k \in Nodes : work'[k] = "idle" /\ (work[k] = "idle" => work'[k] = work[k])
  <2>1. CASE Cancelled
    BY <2>1 DEF Cancelled
  <2>2. CASE CancelledClosing \/ \E n \in Nodes : VisitRaises(n)
    BY <2>2, IdleOutside DEF CancelledClosing, VisitRaises
  <2>3. QED  BY <2>1, <2>2
<1>3. \A k \in Nodes : /\ k \notin passed \/ k \notin pending => records'[k] = records[k]
                       /\ records'[k] = records[k] \/ (records'[k] = <<"cancelled">> /\ status' = "cancelled")
  BY CancelRecords DEF VisitRaises, Cancelled, CancelledClosing, TrackInv
<1>4. NodesTracked'
  <2>1. \A k \in Nodes : /\ k \notin passed' => Untouched(k)'
                         /\ k \in pending' => k \in passed' /\ Underway(k)'
                         /\ k \in passed' \ pending' => Reported(k)'
    BY <1>1, <1>2, <1>3 DEF TrackInv, NodesTracked, Untouched, Underway, Reported
  <2>2. \A k \in Nodes : records'[k] \in {<<>>} \union {<<m>> : m \in Marks}
    BY <1>3 DEF TrackInv, NodesTracked, Marks
  <2>3. QED  BY <2>1, <2>2 DEF NodesTracked
<1>5. TasksInPhase'
  BY <1>1, <1>2 DEF TasksInPhase
<1>6. SourcesSettled'
  BY <1>1 DEF TrackInv, SourcesSettled, Sources
<1>7. StopsKept'
  <2>1. \A k \in Nodes : records'[k] = <<"error">> => stops' # {}
    BY <1>1, <1>3 DEF TrackInv, StopsKept
  <2>2. phase' # "over" => storage' = "kept"
    BY DEF VisitRaises, Cancelled, CancelledClosing, TrackInv, StopsKept
  <2>3. status' = "failed" => stops' = {}
    BY DEF VisitRaises, Cancelled, CancelledClosing, TrackInv, StopsKept
  <2>4. QED  BY <1>1, <2>1, <2>2, <2>3 DEF StopsKept
<1>8. QED  BY <1>4, <1>5, <1>6, <1>7 DEF TrackInv

LEMMA StutterTracks == ASSUME TrackInv, UNCHANGED vars  PROVE TrackInv'
<1> USE DEF vars, levelVars, taskVars, graphVars, reportVars, endVars
<1>1. NodesTracked'
  BY DEF TrackInv, NodesTracked, Untouched, Underway, Reported
<1>2. TasksInPhase'
  BY DEF TrackInv, TasksInPhase
<1>3. SourcesSettled'
  BY DEF TrackInv, SourcesSettled, Sources
<1>4. NextLevel(passed)' = NextLevel(passed)
  BY DEF NextLevel, Sources
<1>5. StopsKept'
  BY <1>4 DEF TrackInv, StopsKept
<1>6. QED  BY <1>1, <1>2, <1>3, <1>5 DEF TrackInv

LEMMA StepTracks == ASSUME TypeInv, TrackInv, Next  PROVE TrackInv'
BY StepKinds, VisitTracks, TaskTracks, DrainTracks, StartTracks, LeavesTracks, CutTracks

\* No node behind a failed one has been visited.
FailuresLast == \A n \in Nodes : records[n] = <<"error">> => \A m \in passed : n \notin Sources(m)

LEMMA StepFailsLast ==
  ASSUME TypeInv, TrackInv, FailuresLast, Next, TrackInv'
  PROVE  FailuresLast'
<1> USE DEF levelVars, taskVars, graphVars, reportVars, endVars
<1>1. \A m : Sources(m)' = Sources(m)
  BY DEF Sources
<1>2. ASSUME NEW n \in Nodes, Visit(n)  PROVE FailuresLast'
  <2>1. phase' = "visit"
    BY <1>2, VisitEffect DEF Visits
  <2>2. QED  BY <2>1 DEF TrackInv, StopsKept, FailuresLast
<1>3. ASSUME NEW n \in Nodes, Succeeds(n) \/ HandlesError(n) \/ Fails(n) \/ Aborts(n) \/ Breaks(n)
      PROVE  FailuresLast'
  <2>1. /\ n \in pending /\ passed' = passed
        /\ \A k \in Nodes \ {n} : records'[k] = records[k]
    BY <1>3, DrainEffect
  <2>2. \A m \in passed : n \notin Sources(m)
    BY <2>1 DEF TrackInv, SourcesSettled
  <2>3. QED  BY <1>1, <2>1, <2>2 DEF FailuresLast
<1>4. ASSUME passed' = passed,
             \A k \in Nodes : records'[k] = records[k] \/ records'[k] = <<"cancelled">>
      PROVE  FailuresLast'
  BY <1>1, <1>4 DEF FailuresLast
<1>5. CASE \E n \in Nodes : AttemptEnds(n) \/ AttemptExpires(n) \/ Retries(n) \/ ThreadEnds(n)
  BY <1>4, <1>5, TaskEffect
<1>6. CASE StartsLevel \/ GatherReturns \/ Advances \/ Completes \/ Stops \/ Closes
  BY <1>4, <1>6 DEF StartsLevel, GatherReturns, Advances, Completes, Stops, Closes
<1>7. CASE Cancelled \/ CancelledClosing \/ \E n \in Nodes : VisitRaises(n)
  BY <1>4, <1>7, CancelRecords DEF Cancelled, CancelledClosing, VisitRaises, TrackInv
<1>8. QED  BY <1>2, <1>3, <1>5, <1>6, <1>7, StepKinds

LEMMA AlwaysTracked == Spec => [](TypeInv /\ TrackInv /\ FailuresLast)
<1>1. Init => TypeInv /\ TrackInv /\ FailuresLast
  BY InitTypes, InitTracks DEF Init, FailuresLast
<1>2. TypeInv /\ TrackInv /\ FailuresLast /\ [Next]_vars => (TypeInv /\ TrackInv /\ FailuresLast)'
  <2>1. ASSUME TypeInv, TrackInv, FailuresLast, Next  PROVE (TypeInv /\ TrackInv /\ FailuresLast)'
    <3>1. TypeInv'
      BY <2>1, StepKinds, VisitTypes, TaskTypes, DrainTypes, StartTypes, EndTypes
    <3>2. TrackInv'
      BY <2>1, StepTracks
    <3>3. QED  BY <2>1, <3>1, <3>2, StepFailsLast
  <2>2. ASSUME TypeInv, TrackInv, FailuresLast, UNCHANGED vars
        PROVE  (TypeInv /\ TrackInv /\ FailuresLast)'
    <3>1. FailuresLast'
      BY <2>2 DEF FailuresLast, Sources, vars, levelVars, reportVars
    <3>2. QED  BY <2>2, <3>1, StutterTypes, StutterTracks
  <2>3. QED  BY <2>1, <2>2
<1>3. QED  BY <1>1, <1>2, PTL DEF Spec

\* Whatever a level brings -- failures, aborts, exceptions, timeouts, branches
\* not taken, at once and in any order -- no node is recorded twice, a run that
\* is not cut off leaves none that the user still sees as running, its final
\* status is that of the worst record, and nothing behind a failed node is visited.
THEOREM ReportIsTruthful == Spec => []ReportTruthful
<1>1. TypeInv /\ TrackInv /\ FailuresLast => ReportTruthful
  <2> SUFFICES ASSUME TypeInv, TrackInv, FailuresLast  PROVE ReportTruthful
    OBVIOUS
  <2>1. EveryNodeReported
    <3>1. ASSUME NEW n \in Nodes  PROVE Len(records[n]) <= 1
      <4>1. Len(<<>>) = 0 /\ \A m \in Marks : Len(<<m>>) = 1
        OBVIOUS
      <4>2. records[n] \in {<<>>} \union {<<m>> : m \in Marks}
        BY DEF TrackInv, NodesTracked
      <4> DEFINE length == Len(records[n])
      <4>3. length = 0 \/ length = 1
        BY <4>1, <4>2
      <4> HIDE DEF length
      <4>4. length <= 1
        BY <4>3
      <4>5. QED  BY <4>4 DEF length
    <3>2. ASSUME phase \in {"close", "over"}, status # "cancelled", status = "failed" => stops # {},
                 NEW n \in passed
          PROVE  shown[n] = "ended" /\ records[n] # <<>>
      <4>1. n \in Nodes /\ n \notin pending
        BY <3>2, ScopeInNodes DEF TrackInv, StopsKept, TypeInv, TypeOK
      <4>2. QED  BY <3>2, <4>1 DEF TrackInv, NodesTracked, Reported
    <3>3. QED  BY <3>1, <3>2 DEF EveryNodeReported
  <2>2. StatusExplained
    <3>1. ASSUME status = "completed", phase \in {"close", "over"}
          PROVE  NextLevel(passed) = {} /\ \A n \in Nodes : records[n] # <<"error">>
      BY <3>1 DEF TrackInv, StopsKept
    <3>2. ASSUME NEW n \in Nodes, records[n] = <<"error">>, NEW m \in passed
          PROVE  n \notin Sources(m)
      BY <3>2 DEF FailuresLast
    <3>3. QED  BY <3>1, <3>2 DEF StatusExplained
  <2>3. QED  BY <2>1, <2>2 DEF ReportTruthful
<1>2. QED  BY <1>1, AlwaysTracked, PTL

-----------------------------------------------------------------------------
(* The threads                                                             *)

LEMMA StepExplainsThreads ==
  ASSUME TypeInv, TrackInv, ThreadsExplained, Next, TypeInv'
  PROVE  ThreadsExplained'
<1> USE DEF levelVars, taskVars, graphVars, reportVars, endVars
<1>1. /\ threads \in [Nodes -> Nat] /\ work \in [Nodes -> {"idle", "attempt", "backoff"}]
  BY DEF TypeInv, TypeOK
<1>2. SUFFICES ASSUME status' # "cancelled", NEW k \in Nodes, k \notin expired'
               PROVE  threads'[k] = IF work'[k] = "attempt" THEN 1 ELSE 0
  BY DEF ThreadsExplained, TypeInv
<1>3. status # "cancelled" /\ k \notin expired =>
        threads[k] = IF work[k] = "attempt" THEN 1 ELSE 0
  BY DEF ThreadsExplained
<1>4. ASSUME UNCHANGED <<work, threads, expired, status>>
      PROVE  threads'[k] = IF work'[k] = "attempt" THEN 1 ELSE 0
  BY <1>2, <1>3, <1>4
<1>5. CASE \E n \in Nodes : Visit(n)
  BY <1>4, <1>5, VisitEffect DEF Visits
<1>6. CASE \E n \in Nodes : Succeeds(n) \/ HandlesError(n) \/ Fails(n) \/ Aborts(n) \/ Breaks(n)
  BY <1>4, <1>6, DrainEffect
<1>7. ASSUME NEW n \in Nodes, AttemptEnds(n) \/ AttemptExpires(n) \/ Retries(n) \/ ThreadEnds(n)
      PROVE  threads'[k] = IF work'[k] = "attempt" THEN 1 ELSE 0
  <2>1. status' = status /\ expired \subseteq expired'
    BY <1>7 DEF AttemptEnds, AttemptExpires, Retries, ThreadEnds
  <2>2. threads[k] = IF work[k] = "attempt" THEN 1 ELSE 0
    BY <1>2, <1>3, <2>1
  <2>3. CASE AttemptEnds(n)
    <3>1. /\ work[n] = "attempt" /\ threads' = [threads EXCEPT ![n] = @ - 1]
          /\ work' \in {[work EXCEPT ![n] = "idle"], [work EXCEPT ![n] = "backoff"]}
      BY <2>3 DEF AttemptEnds, Answered, Errs
    <3>2. CASE k = n
      BY <1>1, <2>2, <3>1, <3>2
    <3>3. CASE k # n
      BY <1>1, <2>2, <3>1, <3>3
    <3>4. QED  BY <3>2, <3>3
  <2>4. CASE AttemptExpires(n)
    <3>1. /\ threads' = threads /\ expired' = expired \union {n}
          /\ work' \in {[work EXCEPT ![n] = "idle"], [work EXCEPT ![n] = "backoff"]}
      BY <2>4 DEF AttemptExpires, Answered, Errs
    <3>2. QED  BY <1>1, <1>2, <2>2, <3>1
  <2>5. CASE Retries(n)
    BY <1>1, <2>2, <2>5 DEF Retries
  <2>6. CASE ThreadEnds(n)
    BY <1>1, <2>2, <2>6 DEF ThreadEnds
  <2>7. QED  BY <1>7, <2>3, <2>4, <2>5, <2>6
<1>8. CASE StartsLevel
  <2>1. status' = status /\ expired' = expired /\ work[k] = "idle"
    BY <1>8, IdleOutside DEF StartsLevel
  <2>2. QED  BY <1>1, <1>2, <1>3, <1>8, <2>1 DEF StartsLevel
<1>9. CASE GatherReturns \/ Advances \/ Completes \/ Stops \/ Closes
  <2>1. UNCHANGED <<work, threads, expired>> /\ (status' = status \/ status = "completed")
    BY <1>9 DEF GatherReturns, Advances, Completes, Stops, Closes, LevelDone, TrackInv, StopsKept
  <2>2. QED  BY <1>2, <1>3, <2>1
<1>10. CASE Cancelled \/ CancelledClosing
  BY <1>2, <1>10 DEF Cancelled, CancelledClosing
<1>11. CASE \E n \in Nodes : VisitRaises(n)
  <2>1. UNCHANGED <<work, threads, expired>> /\ status = "completed"
    BY <1>11 DEF VisitRaises, TrackInv, StopsKept
  <2>2. QED  BY <1>2, <1>3, <2>1
<1>12. QED  BY <1>5, <1>6, <1>7, <1>8, <1>9, <1>10, <1>11, StepKinds

\* However attempts end, expire and are tried again, the files of a run that
\* was not cancelled are removed when none of its threads is at work, but for
\* those of nodes an attempt of which has timed out.
THEOREM StorageOutlives == Spec => []StorageOutlivesThreads
<1>1. Init => ThreadsExplained
  BY DEF Init, ThreadsExplained
<1>2. TypeInv /\ TrackInv /\ TypeInv' /\ ThreadsExplained /\ [Next]_vars => ThreadsExplained'
  BY StepExplainsThreads DEF ThreadsExplained, vars, taskVars, endVars
<1>3. TypeInv /\ TrackInv /\ ThreadsExplained => StorageOutlivesThreads
  <2> SUFFICES ASSUME TypeInv, TrackInv, ThreadsExplained, storage = "removed", status # "cancelled",
                      NEW n \in Nodes \ expired
               PROVE  threads[n] = 0
    BY DEF StorageOutlivesThreads
  <2>1. phase = "over"
    BY DEF TrackInv, StopsKept
  <2>2. work[n] = "idle"
    BY <2>1, IdleOutside
  <2>3. QED  BY <2>2 DEF ThreadsExplained
<1>4. QED  BY <1>1, <1>2, <1>3, AlwaysTracked, PTL DEF Spec

-----------------------------------------------------------------------------
(* The branches                                                            *)

\* Why a visit leaves a result or an entry of skipped_nodes behind.
LEMMA VisitResult ==
  ASSUME TypeInv, NEW n \in Nodes, Visit(n)
  PROVE  \/ results'[n] = results[n] /\ (n \in skipped' <=> n \in skipped)
         \/ /\ results'[n] = Result("skipped", NoChoice) /\ n \in skipped'
            /\ "disabled" \in Flags[n] \/ ReachesNobody(n)
         \/ \E a \in Answers : results'[n] = Result("restored", a) /\ (n \in skipped' <=> n \in skipped)
<1>1. results \in [Nodes -> [is : {Missing, "ran", "restored", "skipped", "handled"}, active : Answers]]
  BY DEF TypeInv, TypeOK
<1>2. CASE SkippedByBranch(n) \/ Disabled(n)
  BY <1>1, <1>2 DEF SkippedByBranch, Disabled
<1>3. CASE RestoresCheckpoint(n) \/ HitsCache(n) \/ TakesPinned(n)
  <2>1. PICK active \in Choices[n] : results' = [results EXCEPT ![n] = Result("restored", WithDefault(n, active))]
    BY <1>3 DEF RestoresCheckpoint, HitsCache, TakesPinned, TakesStored
  <2>2. WithDefault(n, active) \in Answers /\ skipped' = skipped
    BY <1>3, ChoicesAreAnswers, DefaultIsAnswer DEF RestoresCheckpoint, HitsCache, TakesPinned, TakesStored
  <2>3. QED  BY <1>1, <2>1, <2>2
<1>4. CASE UnknownType(n)
  BY <1>4 DEF UnknownType, graphVars
<1>5. CASE Dispatches(n)
  BY <1>5 DEF Dispatches
<1>6. QED  BY <1>2, <1>3, <1>4, <1>5 DEF Visit

LEMMA VisitKeepsEdges ==
  ASSUME TypeInv, TrackInv, EdgesClosed, NEW n \in Nodes, Visit(n)
  PROVE  EdgesClosed'
<1>1. inactive' = inactive /\ Untouched(n)
  BY VisitEffect DEF Visits, TrackInv, SourcesSettled, NodesTracked
<1>2. /\ \A k \in Nodes \ {n} : results'[k] = results[k] /\ (k \in skipped' <=> k \in skipped)
      /\ \/ results'[n] = Result(Missing, NoChoice) /\ n \notin skipped'
         \/ results'[n] = Result("skipped", NoChoice) /\ n \in skipped'
         \/ \E a \in Answers : results'[n] = Result("restored", a) /\ n \notin skipped'
  BY <1>1, VisitEffect, VisitResult DEF Untouched
<1>3. /\ results[n].is = Missing
      /\ n \in skipped' <=> results'[n].is = "skipped"
      /\ results'[n].is = Missing => results'[n].active = NoChoice
      /\ results'[n].is # "ran" /\ results'[n].is # "handled"
  <2>1. \A is, a : Result(is, a).is = is /\ Result(is, a).active = a
    BY DEF Result
  <2>2. results[n].is = Missing
    BY <1>1, <2>1 DEF Untouched
  <2>3. CASE results'[n] = Result(Missing, NoChoice) /\ n \notin skipped'
    BY <2>1, <2>2, <2>3 DEF Missing
  <2>4. CASE results'[n] = Result("skipped", NoChoice) /\ n \in skipped'
    BY <2>1, <2>2, <2>4
  <2>5. CASE \E a \in Answers : results'[n] = Result("restored", a) /\ n \notin skipped'
    <3>1. results'[n].is = "restored" /\ n \notin skipped'
      BY <2>1, <2>5
    <3>2. QED  BY <2>2, <3>1 DEF Missing
  <2>6. QED  BY <1>2, <2>3, <2>4, <2>5
<1>4. ASSUME NEW m \in Scope, NEW t \in Targets(m)
      PROVE  <<m, t>> \in inactive' <=> ClosedFor(m, t)'
  <2>1. m \in Nodes /\ (<<m, t>> \in inactive <=> ClosedFor(m, t))
    BY ScopeInNodes DEF EdgesClosed
  <2>2. CASE m = n
    BY <1>1, <1>3, <2>1, <2>2 DEF ClosedFor, Missing
  <2>3. CASE m # n
    BY <1>1, <1>2, <2>1, <2>3 DEF ClosedFor, Declares
  <2>4. QED  BY <2>2, <2>3
<1>5. \A m \in Nodes : /\ m \in skipped' <=> results'[m].is = "skipped"
                       /\ results'[m].is = Missing => Declares(m)' = NoChoice
  BY <1>2, <1>3 DEF EdgesClosed, Declares
<1>6. Targets(n)' = Targets(n) /\ Scope' = Scope
  BY DEF Targets, Scope
<1>7. QED  BY <1>4, <1>5 DEF EdgesClosed, Targets

\* What the drain of a node closes is what its result says.
LEMMA DrainCloses ==
  ASSUME TypeInv, NEW n \in Nodes,
         Succeeds(n) \/ HandlesError(n) \/ Fails(n) \/ Aborts(n) \/ Breaks(n)
  PROVE  \/ results' = results /\ inactive' = inactive
         \/ /\ results'[n].is \in {"ran", "handled"}
            /\ inactive' = inactive \union {<<n, t>> : t \in {u \in Targets(n) : ClosedFor(n, u)'}}
<1>1. results \in [Nodes -> [is : {Missing, "ran", "restored", "skipped", "handled"}, active : Answers]]
  BY DEF TypeInv, TypeOK
<1>2. CASE Succeeds(n)
  <2> DEFINE active == WithDefault(n, outcome[n].active)
  <2>1. results'[n] = Result("ran", active) /\ inactive' = inactive \union ClosedBy(n, active)
    BY <1>1, <1>2 DEF Succeeds
  <2> HIDE DEF active
  <2>2. results'[n].is = "ran" /\ results'[n].active = active
    BY <2>1 DEF Result
  <2>3. \A u : ClosedFor(n, u)' <=> active # NoChoice /\ Handle(n, u) \notin active \union {NoHandle}
    BY <2>2 DEF ClosedFor, Declares, Handle
  <2>4. ClosedBy(n, active) = {<<n, t>> : t \in {u \in Targets(n) : ClosedFor(n, u)'}}
    BY <2>3 DEF ClosedBy
  <2>5. QED  BY <2>1, <2>2, <2>4
<1>3. CASE HandlesError(n)
  <2>1. /\ results'[n] = Result("handled", {"on_error"})
        /\ inactive' = inactive \union {<<n, m>> : m \in {t \in Targets(n) : Handle(n, t) # "on_error"}}
    BY <1>1, <1>3 DEF HandlesError
  <2>2. results'[n].is = "handled"
    BY <2>1 DEF Result
  <2>3. \A u : ClosedFor(n, u)' <=> Handle(n, u) # "on_error"
    BY <2>2 DEF ClosedFor, Handle
  <2>4. QED  BY <2>1, <2>2, <2>3
<1>4. CASE Fails(n) \/ Aborts(n) \/ Breaks(n)
  BY <1>4 DEF Fails, Aborts, Breaks
<1>5. QED  BY <1>2, <1>3, <1>4

LEMMA DrainKeepsEdges ==
  ASSUME TypeInv, TrackInv, EdgesClosed, NEW n \in Nodes,
         Succeeds(n) \/ HandlesError(n) \/ Fails(n) \/ Aborts(n) \/ Breaks(n)
  PROVE  EdgesClosed'
<1>1. /\ n \in pending /\ skipped' = skipped
      /\ \A k \in Nodes \ {n} : results'[k] = results[k]
  BY DrainEffect
<1>2. Underway(n)
  BY <1>1 DEF TrackInv, NodesTracked
<1>3. CASE results' = results /\ inactive' = inactive
  BY <1>1, <1>3 DEF EdgesClosed, ClosedFor, Declares, Targets, Handle
<1>4. CASE /\ results'[n].is \in {"ran", "handled"}
           /\ inactive' = inactive \union {<<n, t>> : t \in {u \in Targets(n) : ClosedFor(n, u)'}}
  <2>1. results[n].is = Missing /\ n \notin skipped
    BY <1>2 DEF Underway, Result
  <2>2. ASSUME NEW m \in Scope, NEW t \in Targets(m)
        PROVE  <<m, t>> \in inactive' <=> ClosedFor(m, t)'
    <3>1. m \in Nodes /\ (<<m, t>> \in inactive <=> ClosedFor(m, t))
      BY ScopeInNodes DEF EdgesClosed
    <3>2. CASE m = n
      <4>1. <<n, t>> \notin inactive
        BY <2>1, <3>1, <3>2 DEF ClosedFor, Missing
      <4>2. QED  BY <1>4, <3>2, <4>1
    <3>3. CASE m # n
      <4>1. <<m, t>> \in inactive' <=> <<m, t>> \in inactive
        BY <1>4, <3>3
      <4>2. ClosedFor(m, t)' <=> ClosedFor(m, t)
        BY <1>1, <3>1, <3>3 DEF ClosedFor, Declares, Handle
      <4>3. QED  BY <3>1, <4>1, <4>2
    <3>4. QED  BY <3>2, <3>3
  <2>3. \A m \in Nodes : /\ m \in skipped' <=> results'[m].is = "skipped"
                         /\ results'[m].is = Missing => Declares(m)' = NoChoice
    BY <1>1, <1>4, <2>1 DEF EdgesClosed, Declares, Missing
  <2>4. QED  BY <2>2, <2>3 DEF EdgesClosed, Targets
<1>5. QED  BY <1>3, <1>4, DrainCloses

LEMMA UntouchedEdges ==
  ASSUME EdgesClosed, UNCHANGED <<results, inactive, skipped>>
  PROVE  EdgesClosed'
BY DEF EdgesClosed, ClosedFor, Declares, Targets, Handle

\* Every step that is neither a visit nor a drain leaves the branches alone.
LEMMA OtherSteps ==
  ASSUME TypeInv, TrackInv, [Next]_vars
  PROVE  \/ \E n \in Nodes : Visit(n)
         \/ \E n \in Nodes : Succeeds(n) \/ HandlesError(n) \/ Fails(n) \/ Aborts(n) \/ Breaks(n)
         \/ /\ UNCHANGED <<results, inactive, skipped, fed, shown, passed>>
            /\ \A n \in Nodes : attempt'[n] = attempt[n] \/ n \in pending
<1> USE DEF levelVars, taskVars, graphVars, reportVars, endVars
<1>1. ASSUME NEW n \in Nodes, AttemptEnds(n) \/ AttemptExpires(n) \/ Retries(n) \/ ThreadEnds(n)
      PROVE  /\ UNCHANGED <<results, inactive, skipped, fed, shown, passed>>
             /\ \A k \in Nodes : attempt'[k] = attempt[k] \/ k \in pending
  BY <1>1, TaskEffect DEF TrackInv, TasksInPhase
<1>2. CASE StartsLevel
  BY <1>2 DEF StartsLevel
<1>3. CASE GatherReturns \/ Advances \/ Completes \/ Stops \/ Closes
  BY <1>3 DEF GatherReturns, Advances, Completes, Stops, Closes
<1>4. CASE Cancelled \/ CancelledClosing \/ \E n \in Nodes : VisitRaises(n)
  BY <1>4 DEF Cancelled, CancelledClosing, VisitRaises
<1>5. CASE UNCHANGED vars
  BY <1>5 DEF vars
<1>6. QED  BY <1>1, <1>2, <1>3, <1>4, <1>5, StepKinds

\* What feeds a node that was visited does not change any more.
LEMMA SettledSources ==
  ASSUME TypeInv, TrackInv, [Next]_vars, NEW k \in Nodes, k \in passed \/ k \in todo
  PROVE  ActiveSources(k)' = ActiveSources(k)
<1>1. Sources(k) \subseteq passed \ pending /\ Sources(k)' = Sources(k) /\ Sources(k) \subseteq Nodes
  BY ScopeInNodes, NeighboursInScope DEF TrackInv, SourcesSettled, Sources
<1>2. SUFFICES ASSUME NEW m \in Sources(k)
               PROVE  /\ m \in skipped' <=> m \in skipped
                      /\ <<m, k>> \in inactive' <=> <<m, k>> \in inactive
  BY <1>1 DEF ActiveSources
<1>3. m \in Nodes /\ m \in passed /\ m \notin pending
  BY <1>1
<1>4. ASSUME NEW n \in Nodes, Visit(n)
      PROVE  /\ m \in skipped' <=> m \in skipped
             /\ <<m, k>> \in inactive' <=> <<m, k>> \in inactive
  <2>1. n \in todo /\ inactive' = inactive /\ \A j \in Nodes \ {n} : j \in skipped' <=> j \in skipped
    BY <1>4, VisitEffect DEF Visits
  <2>2. m # n
    BY <1>3, <2>1 DEF TrackInv, SourcesSettled
  <2>3. QED  BY <1>3, <2>1, <2>2
<1>5. ASSUME NEW n \in Nodes, Succeeds(n) \/ HandlesError(n) \/ Fails(n) \/ Aborts(n) \/ Breaks(n)
      PROVE  /\ m \in skipped' <=> m \in skipped
             /\ <<m, k>> \in inactive' <=> <<m, k>> \in inactive
  <2>1. n \in pending /\ skipped' = skipped
    BY <1>5, DrainEffect
  <2>2. m # n
    BY <1>3, <2>1
  <2>3. QED  BY <1>5, <2>1, <2>2, DrainCloses
<1>6. QED  BY <1>4, <1>5, OtherSteps

LEMMA StepFollows ==
  ASSUME TypeInv, TrackInv, WaysFollowed, [Next]_vars
  PROVE  WaysFollowed'
<1>1. ASSUME NEW k \in Nodes, k \in passed,
             fed'[k] = fed[k], Dispatched(k)' => Dispatched(k),
             results'[k].is = "skipped" => results[k].is = "skipped"
      PROVE  /\ Dispatched(k)' => fed'[k] = ActiveSources(k)'
             /\ results'[k].is = "skipped" /\ "disabled" \notin Flags[k] => ActiveSources(k)' = {}
  BY <1>1, SettledSources DEF WaysFollowed
<1>2. ASSUME NEW k \in Nodes, k \notin passed,
             shown'[k] = shown[k], attempt'[k] = attempt[k], results'[k] = results[k]
      PROVE  ~Dispatched(k)' /\ results'[k].is # "skipped"
  <2>1. shown[k] = "none" /\ attempt[k] = 0 /\ results[k].is = Missing
    BY <1>2 DEF TrackInv, NodesTracked, Untouched, Result
  <2>2. QED  BY <1>2, <2>1 DEF Dispatched, Missing
<1>3. ASSUME NEW n \in Nodes, Visit(n)  PROVE WaysFollowed'
  <2>1. /\ n \in todo /\ attempt' = attempt
        /\ \A k \in Nodes \ {n} : /\ shown'[k] = shown[k] /\ results'[k] = results[k]
                                  /\ fed'[k] = fed[k]
    BY <1>3, VisitEffect DEF Visits
  <2>2. n \notin passed /\ attempt[n] = 0 /\ n \notin skipped /\ results[n].is = Missing
    BY <2>1 DEF TrackInv, SourcesSettled, NodesTracked, Untouched, Result
  <2>3. ActiveSources(n)' = ActiveSources(n)
    BY <2>1, SettledSources
  <2>4. Dispatched(n)' => fed'[n] = ActiveSources(n)'
    BY <1>3, <2>1, <2>2, <2>3, VisitEffect DEF Dispatched
  <2>5. results'[n].is = "skipped" => "disabled" \in Flags[n] \/ ReachesNobody(n)
    <3>1. results'[n] = results[n] => results'[n].is # "skipped"
      BY <2>2 DEF Missing
    <3>2. \A a : Result("restored", a).is # "skipped"
      BY DEF Result
    <3>3. QED  BY <1>3, <3>1, <3>2, VisitResult
  <2>6. ReachesNobody(n) => ActiveSources(n) = {}
    BY DEF ReachesNobody, ActiveSources
  <2>7. ASSUME NEW k \in Nodes \ {n}
        PROVE  /\ Dispatched(k)' => fed'[k] = ActiveSources(k)'
               /\ results'[k].is = "skipped" /\ "disabled" \notin Flags[k] => ActiveSources(k)' = {}
    <3>1. Dispatched(k)' => Dispatched(k)
      BY <2>1 DEF Dispatched
    <3>2. QED  BY <1>1, <1>2, <2>1, <3>1
  <2>8. QED  BY <2>3, <2>4, <2>5, <2>6, <2>7 DEF WaysFollowed
<1>4. ASSUME NEW n \in Nodes, Succeeds(n) \/ HandlesError(n) \/ Fails(n) \/ Aborts(n) \/ Breaks(n)
      PROVE  WaysFollowed'
  <2>1. /\ n \in pending /\ fed' = fed /\ attempt' = attempt
        /\ \A k \in Nodes \ {n} : shown'[k] = shown[k] /\ results'[k] = results[k]
    BY <1>4, DrainEffect
  <2>2. n \in passed /\ Dispatched(n)
    BY <2>1 DEF TrackInv, NodesTracked, Underway, Dispatched
  <2>3. results'[n].is # "skipped"
    <3>1. results[n].is # "skipped"
      BY <2>1 DEF TrackInv, NodesTracked, Underway, Result, Missing
    <3>2. QED  BY <1>4, <3>1, DrainCloses
  <2>4. ASSUME NEW k \in Nodes
        PROVE  /\ Dispatched(k)' => fed'[k] = ActiveSources(k)'
               /\ results'[k].is = "skipped" /\ "disabled" \notin Flags[k] => ActiveSources(k)' = {}
    <3>1. CASE k = n
      BY <1>1, <2>1, <2>2, <2>3, <3>1
    <3>2. CASE k # n
      <4>1. Dispatched(k)' => Dispatched(k)
        BY <2>1, <3>2 DEF Dispatched
      <4>2. QED  BY <1>1, <1>2, <2>1, <3>2, <4>1
    <3>3. QED  BY <3>1, <3>2
  <2>5. QED  BY <2>4 DEF WaysFollowed
<1>5. CASE /\ UNCHANGED <<results, inactive, skipped, fed, shown, passed>>
           /\ \A n \in Nodes : attempt'[n] = attempt[n] \/ n \in pending
  <2>1. ASSUME NEW k \in Nodes
        PROVE  /\ Dispatched(k)' => fed'[k] = ActiveSources(k)'
               /\ results'[k].is = "skipped" /\ "disabled" \notin Flags[k] => ActiveSources(k)' = {}
    <3>1. k \in pending => shown[k] = "started" /\ k \in passed
      BY DEF TrackInv, NodesTracked, Underway
    <3>2. Dispatched(k)' => Dispatched(k)
      BY <1>5, <3>1 DEF Dispatched
    <3>3. QED  BY <1>1, <1>2, <1>5, <3>1, <3>2
  <2>2. QED  BY <2>1 DEF WaysFollowed
<1>6. QED  BY <1>3, <1>4, <1>5, OtherSteps

BranchInv == EdgesClosed /\ WaysFollowed

LEMMA AlwaysBranches == Spec => [](TypeInv /\ BranchInv)
<1>1. Init => BranchInv
  <2> SUFFICES ASSUME Init  PROVE BranchInv
    OBVIOUS
  <2>1. \A n \in Nodes : results[n].is = Missing /\ Declares(n) = NoChoice /\ ~Dispatched(n)
    BY DEF Init, Declares, Dispatched, Result
  <2>2. EdgesClosed
    BY <2>1, ScopeInNodes DEF EdgesClosed, ClosedFor, Init, Missing
  <2>3. WaysFollowed
    BY <2>1 DEF WaysFollowed, Missing
  <2>4. QED  BY <2>2, <2>3 DEF BranchInv
<1>2. TypeInv /\ TrackInv /\ BranchInv /\ [Next]_vars => BranchInv'
  <2> SUFFICES ASSUME TypeInv, TrackInv, BranchInv, [Next]_vars  PROVE BranchInv'
    OBVIOUS
  <2>1. EdgesClosed'
    BY OtherSteps, VisitKeepsEdges, DrainKeepsEdges, UntouchedEdges DEF BranchInv
  <2>2. WaysFollowed'
    BY StepFollows DEF BranchInv
  <2>3. QED  BY <2>1, <2>2 DEF BranchInv
<1>3. QED  BY <1>1, <1>2, AlwaysTracked, PTL DEF Spec

\* The way from m to n as the last of the edges between them has it.
LastEdgeOpens(m, n) ==
    CASE results[m].is = "handled" -> Handle(m, n) = "on_error"
      [] results[m].is = "skipped" -> FALSE
      [] OTHER -> \/ Declares(m) = NoChoice \/ Handle(m, n) = NoHandle
                  \/ Handle(m, n) \in Declares(m)

FollowsLastEdges ==
    \A n \in Nodes :
        /\ Dispatched(n) => fed[n] = {m \in Sources(n) : LastEdgeOpens(m, n) \/ Restored(m)}
        /\ results[n].is = "skipped" /\ "disabled" \notin Flags[n] =>
             \A m \in Sources(n) : ~LastEdgeOpens(m, n)

LEMMA ActiveIsOpen ==
  ASSUME TypeInv, EdgesClosed, NEW n \in Scope
  PROVE  ActiveSources(n) = {m \in Sources(n) : LastEdgeOpens(m, n) \/ Restored(m)}
<1>1. ASSUME NEW m \in Sources(n)
      PROVE  m \notin skipped /\ <<m, n>> \notin inactive <=> LastEdgeOpens(m, n) \/ Restored(m)
  <2>1. m \in Scope /\ m \in Nodes /\ n \in Targets(m)
    BY ScopeInNodes DEF Sources, Targets
  <2>2. /\ <<m, n>> \in inactive <=> ClosedFor(m, n)
        /\ m \in skipped <=> results[m].is = "skipped"
        /\ results[m].is = Missing => Declares(m) = NoChoice
    BY <2>1 DEF EdgesClosed
  <2>3. results[m].is \in {"missing", "ran", "restored", "skipped", "handled"}
    BY <2>1 DEF TypeInv, TypeOK, Missing
  <2>4. QED  BY <2>2, <2>3 DEF LastEdgeOpens, Restored, ClosedFor, Missing
<1>2. QED  BY <1>1 DEF ActiveSources

\* In any graph: a node that is dispatched was given the results of the nodes
\* whose last edge to it is open, and those that an earlier run left; a node that
\* is not disabled is passed over only if the last edge of each source is closed.
THEOREM LastEdgesAreFollowed == Spec => []FollowsLastEdges
<1>1. TypeInv /\ TrackInv /\ BranchInv => FollowsLastEdges
  <2> SUFFICES ASSUME TypeInv, TrackInv, BranchInv, NEW n \in Nodes
               PROVE  /\ Dispatched(n) => fed[n] = {m \in Sources(n) : LastEdgeOpens(m, n) \/ Restored(m)}
                      /\ results[n].is = "skipped" /\ "disabled" \notin Flags[n] =>
                           \A m \in Sources(n) : ~LastEdgeOpens(m, n)
    BY DEF FollowsLastEdges
  <2>1. Dispatched(n) \/ results[n].is = "skipped" => n \in Scope
    BY DEF TrackInv, NodesTracked, Untouched, Dispatched, Result, Missing, TypeInv, TypeOK
  <2>2. /\ Dispatched(n) => fed[n] = ActiveSources(n)
        /\ results[n].is = "skipped" /\ "disabled" \notin Flags[n] => ActiveSources(n) = {}
    BY DEF BranchInv, WaysFollowed
  <2>3. n \in Scope => ActiveSources(n) = {m \in Sources(n) : LastEdgeOpens(m, n) \/ Restored(m)}
    BY ActiveIsOpen DEF BranchInv
  <2>4. QED  BY <2>1, <2>2, <2>3
<1>2. QED  BY <1>1, AlwaysTracked, AlwaysBranches, PTL

\* No two edges lead from one node to another.
SingleEdges ==
    \A i, j \in Ends : Wires[i].source = Wires[j].source /\ Wires[i].target = Wires[j].target => i = j

LEMMA LastIsOnly ==
  ASSUME SingleEdges, NEW n, NEW m \in Sources(n)
  PROVE  Opens(m, n) <=> LastEdgeOpens(m, n)
<1>1. PICK i \in Ends : Wires[i].source = m /\ Wires[i].target = n
  BY DEF Sources, Arcs
<1> DEFINE between == {j \in Ends : Wires[j].source = m /\ Wires[j].target = n}
<1>2. between = {i}
  BY <1>1 DEF SingleEdges
<1>3. i \in Nat
  BY DEF Ends
<1>4. (CHOOSE j \in between : \A k \in between : k <= j) = i
  <2>1. \A k \in {i} : k <= i
    BY <1>3
  <2>2. QED  BY <1>2, <2>1
<1>5. Handle(m, n) = Wires[i].handle
  BY <1>4 DEF Handle
<1>6. Opens(m, n) <=> CASE results[m].is = "handled" -> Wires[i].handle = "on_error"
                       [] results[m].is = "skipped" -> FALSE
                       [] OTHER -> \/ Declares(m) = NoChoice \/ Wires[i].handle = NoHandle
                                   \/ Wires[i].handle \in Declares(m)
  BY <1>1, <1>2 DEF Opens
<1>7. QED  BY <1>5, <1>6 DEF LastEdgeOpens

\* Where no two edges lead from one node to another: a node is run with the
\* results of its open ways in and, besides them, at most results of earlier
\* runs, or passed over because no way in is open, whichever branches were taken,
\* failed or disabled before it.
THEOREM BranchesAreFollowed == ASSUME SingleEdges  PROVE Spec => []BranchesFollowed
<1>1. TypeInv /\ FollowsLastEdges => BranchesFollowed
  <2> SUFFICES ASSUME TypeInv, FollowsLastEdges  PROVE BranchesFollowed
    OBVIOUS
  <2>1. \A n \in Nodes : \A m \in Sources(n) : Opens(m, n) <=> LastEdgeOpens(m, n)
    BY LastIsOnly
  <2>2. FedByOpenWays
    <3> SUFFICES ASSUME NEW n \in Nodes, Dispatched(n)
                 PROVE  /\ {m \in Sources(n) : Opens(m, n)} \subseteq fed[n]
                        /\ fed[n] \ {m \in Sources(n) : Opens(m, n)} \subseteq
                             {m \in Sources(n) : Restored(m)}
      BY DEF FedByOpenWays
    <3>1. fed[n] = {m \in Sources(n) : LastEdgeOpens(m, n) \/ Restored(m)}
      BY DEF FollowsLastEdges
    <3>2. QED  BY <2>1, <3>1
  <2>3. SkippedOnlyIfClosed
    BY <2>1 DEF FollowsLastEdges, SkippedOnlyIfClosed
  <2>4. QED  BY <2>2, <2>3 DEF BranchesFollowed, TypeInv
<1>2. QED  BY <1>1, LastEdgesAreFollowed, AlwaysTracked, PTL

-----------------------------------------------------------------------------
(* Runs that start runs *)

States == {"running", "completed", "failed", "timedout", "cancelled"}
Jobs == {"queued", "dropped", "busy", "waiting", "ok", "error", "gaveup"}
Coros == {"none", "going", "cancelling", "cancelled", "ok", "error"}
ItemMarks == {"idle", "running", "ok", "failed", "cut"}

MarkLists == UNION {[1..n -> ItemMarks] : n \in Nat}
RunOf(run) ==
    /\ run \in [node : Node, stack : Seq(Ids), inLoop : BOOLEAN, state : States, job : Jobs,
               coro : Coros, mark : MarkLists]
    /\ run.mark \in [1..run.node.rows -> ItemMarks]

\* What the job of a node, its coroutine and the state of its run say of each other.
JobFits(run) ==
    /\ run.job \in {"queued", "dropped", "busy"} => run.coro = "none"
    /\ run.job = "queued" => run.state = "running"
    /\ run.job = "waiting" => run.coro = "going"
    /\ run.job = "ok" => run.coro \in {"none", "ok"}
    /\ run.job = "error" => run.coro \in {"none", "error"}
    /\ run.job = "gaveup" => run.coro # "none" /\ (run.node.op \in Loops => run.coro # "going")
    /\ run.coro # "none" => run.node.op # "leaf"
    /\ run.coro \in {"cancelling", "cancelled"} => run.job = "gaveup"
    /\ run.state = "completed" => run.job = "ok"
    /\ run.state = "failed" => run.job \in {"error", "gaveup"}

\* The marks of its items, by where the coroutine is; su is the setup.
MarkedIn(run, how) == {i \in 1..run.node.rows : run.mark[i] = how}
BegunIn(run) == {i \in 1..run.node.rows : run.mark[i] # "idle"}
LimitOf(su, run) == IF run.node.op = "call" THEN 1 ELSE su.limit
AbortsIn(su, run) == (su.failFast \/ run.node.op = "call") /\ MarkedIn(run, "failed") # {}
MarksFit(su, run) ==
    /\ run.coro = "none" => BegunIn(run) = {}
    /\ \E n \in 0..run.node.rows : BegunIn(run) = 1..n
    /\ run.coro \in {"ok", "error", "cancelled"} => MarkedIn(run, "running") = {}
    /\ MarkedIn(run, "cut") # {} => run.coro = "cancelled"
    /\ run.coro = "ok" => ~AbortsIn(su, run) /\ BegunIn(run) = 1..run.node.rows
    /\ run.coro = "error" => AbortsIn(su, run)
    /\ Cardinality(MarkedIn(run, "running")) <= LimitOf(su, run)
    /\ AbortsIn(su, run) =>
         Cardinality(MarkedIn(run, "running") \union MarkedIn(run, "failed")) <= LimitOf(su, run)

RunsTyped ==
    /\ setup \in Setups
    /\ Paths \subseteq Seq(Nat) /\ <<>> \in Paths
    /\ \A p \in Paths : RunOf(tree[p])
    /\ \A p \in Paths : Above(p) \subseteq Paths

\* A run that was started for an item, and the mark of the item.
Linked ==
    /\ \A p \in Paths \ {<<>>} :
        /\ Item(p) \in DOMAIN tree[Parent(p)].mark
        /\ tree[p].inLoop = (tree[Parent(p)].node.op \in Loops)
    /\ \A p \in Paths : \A i \in DOMAIN tree[p].mark :
        /\ tree[p].mark[i] = "running" <=> Append(p, i) \in Paths /\ ~Over(Append(p, i))
        /\ tree[p].mark[i] = "idle" => Append(p, i) \notin Paths
        /\ tree[p].mark[i] = "ok" => Append(p, i) \in Paths /\ tree[Append(p, i)].state = "completed"

Jobbed == \A p \in Paths : JobFits(tree[p]) /\ MarksFit(setup, tree[p])
Queued ==
    /\ queue \in Seq(Paths) /\ IsInjective(queue)
    /\ {p \in Paths : tree[p].job = "queued"} \subseteq Range(queue)
    /\ Range(queue) \subseteq {p \in Paths : tree[p].job \in {"queued", "dropped"}}
    /\ \A p \in Paths : tree[p].coro # "none" /\ tree[p].node.op \in Loops => ~tree[p].inLoop

\* The call stack of a run is the chain it is in.
ChainOf(p) == {q \in Above(p) \union {p} : Published(q)}
Stacked ==
    \A p \in Paths :
        /\ Range(tree[p].stack) = {Callee(q) : q \in ChainOf(p)}
        /\ IsFiniteSet(ChainOf(p)) /\ Cardinality(ChainOf(p)) = Len(tree[p].stack)
        /\ \A q, r \in ChainOf(p) : q # r => Callee(q) # Callee(r)
        /\ Len(tree[p].stack) <= MaxDepth

RunsInv == RunsTyped /\ Linked /\ Jobbed /\ Queued /\ Stacked /\ StraysExplained

-----------------------------------------------------------------------------
(* Paths *)

LEMMA PrefixPath ==
    ASSUME NEW p \in Seq(Nat), NEW k \in 0..Len(p)
    PROVE  /\ SubSeq(p, 1, k) \in Seq(Nat) /\ Len(SubSeq(p, 1, k)) = k
           /\ \A j \in 1..k : SubSeq(p, 1, k)[j] = p[j]
<1>1. Len(p) \in Nat /\ \A j \in 1..k : p[j] \in Nat
  BY LenProperties
<1>2. 1 \in Int /\ k \in Int /\ (1 <= k \/ k = 0)
  BY <1>1
<1> DEFINE s == SubSeq(p, 1, k)
<1>3. /\ s \in Seq(Nat) /\ Len(s) = IF 1 <= k THEN k - 1 + 1 ELSE 0
      /\ \A j \in 1..(k - 1 + 1) : s[j] = p[1 + j - 1]
  BY <1>1, <1>2, SubSeqProperties
<1> HIDE DEF s
<1>4. Len(s) = k /\ \A j \in 1..k : s[j] = p[j]
  BY <1>2, <1>3
<1> QED  BY <1>3, <1>4 DEF s

LEMMA SamePath ==
    ASSUME NEW p \in Seq(Nat), NEW q \in Seq(Nat), Len(p) = Len(q), \A j \in 1..Len(p) : p[j] = q[j]
    PROVE  p = q
BY SeqEqual

LEMMA PrefixOfPrefix ==
    ASSUME NEW p \in Seq(Nat), NEW m \in 0..Len(p), NEW l \in 0..m
    PROVE  SubSeq(SubSeq(p, 1, m), 1, l) = SubSeq(p, 1, l)
<1>1. Len(p) \in Nat /\ l \in 0..Len(p)
  BY LenProperties
<1> DEFINE s == SubSeq(p, 1, m)
           t == SubSeq(s, 1, l)
           u == SubSeq(p, 1, l)
<1>2. s \in Seq(Nat) /\ Len(s) = m /\ \A j \in 1..m : s[j] = p[j]
  BY PrefixPath
<1>3. u \in Seq(Nat) /\ Len(u) = l /\ \A j \in 1..l : u[j] = p[j]
  BY <1>1, PrefixPath
<1> HIDE DEF s, u
<1>4. t \in Seq(Nat) /\ Len(t) = l /\ \A j \in 1..l : t[j] = s[j]
  BY <1>2, PrefixPath
<1> HIDE DEF t
<1>5. \A j \in 1..l : t[j] = u[j]
  BY <1>1, <1>2, <1>3, <1>4
<1>6. t = u
  BY <1>3, <1>4, <1>5, SamePath
<1> QED  BY <1>6 DEF s, t, u

LEMMA ChildPath ==
    ASSUME NEW p \in Seq(Nat), NEW i \in Nat
    PROVE  LET c == Append(p, i)
           IN  /\ c \in Seq(Nat) /\ c # <<>> /\ Len(c) = Len(p) + 1
               /\ Parent(c) = p /\ Item(c) = i
               /\ Above(c) = Above(p) \union {p}
<1> DEFINE c == Append(p, i)
<1>1. /\ c \in Seq(Nat) /\ c # <<>> /\ Len(c) = Len(p) + 1 /\ c[Len(p) + 1] = i
      /\ \A j \in 1..Len(p) : c[j] = p[j]
  BY AppendProperties
<1>2. Len(p) \in Nat
  BY LenProperties
<1> HIDE DEF c
<1>3. ASSUME NEW k \in 0..Len(p) PROVE SubSeq(c, 1, k) = SubSeq(p, 1, k)
  <2> DEFINE s == SubSeq(c, 1, k)
             t == SubSeq(p, 1, k)
  <2>1. k \in 0..Len(c)
    BY <1>1, <1>2
  <2>2. s \in Seq(Nat) /\ Len(s) = k /\ \A j \in 1..k : s[j] = c[j]
    BY <2>1, <1>1, PrefixPath
  <2>3. t \in Seq(Nat) /\ Len(t) = k /\ \A j \in 1..k : t[j] = p[j]
    BY PrefixPath
  <2> HIDE DEF s, t
  <2>4. ASSUME NEW j \in 1..k PROVE s[j] = t[j]
    <3>1. j \in 1..Len(p)
      BY <1>2
    <3> QED  BY <3>1, <1>1, <2>2, <2>3
  <2>5. s = t
    BY <2>2, <2>3, <2>4, SamePath
  <2> QED  BY <2>5 DEF s, t
<1>4. SubSeq(p, 1, Len(p)) = p
  BY SubSeqFull
<1>5. Parent(c) = p /\ Item(c) = i
  <2>1. Len(c) - 1 = Len(p) /\ Len(p) \in 0..Len(p)
    BY <1>1, <1>2
  <2> QED  BY <1>1, <1>3, <1>4, <2>1 DEF Parent, Item
<1>6. Above(c) = Above(p) \union {p}
  <2>1. Above(c) = {SubSeq(p, 1, k) : k \in 0..Len(p)}
    <3>1. Len(c) - 1 = Len(p)
      BY <1>1, <1>2
    <3> QED  BY <3>1, <1>3 DEF Above
  <2>2. 0..Len(p) = (0..(Len(p) - 1)) \union {Len(p)}
    BY <1>2
  <2> QED  BY <2>1, <2>2, <1>4 DEF Above
<1> QED  BY <1>1, <1>5, <1>6 DEF c

LEMMA ParentPath ==
    ASSUME NEW p \in Seq(Nat), p # <<>>
    PROVE  /\ Parent(p) \in Seq(Nat) /\ Item(p) \in Nat /\ Append(Parent(p), Item(p)) = p
           /\ Len(p) = Len(Parent(p)) + 1 /\ Above(p) = Above(Parent(p)) \union {Parent(p)}
           /\ Parent(p) \in Above(p)
<1> DEFINE q == Parent(p)
           i == Item(p)
           c == Append(q, i)
<1>1. Len(p) \in Nat \ {0} /\ \A j \in 1..Len(p) : p[j] \in Nat
  BY EmptySeq, LenProperties
<1>2. q \in Seq(Nat) /\ Len(q) = Len(p) - 1 /\ \A j \in 1..(Len(p) - 1) : q[j] = p[j]
  <2>1. Len(p) - 1 \in 0..Len(p)
    BY <1>1
  <2> QED  BY <2>1, PrefixPath DEF Parent
<1>3. i \in Nat /\ i = p[Len(p)]
  BY <1>1 DEF Item
<1> HIDE DEF q, i
<1>4. /\ c \in Seq(Nat) /\ Len(c) = Len(q) + 1 /\ c[Len(q) + 1] = i
      /\ \A j \in 1..Len(q) : c[j] = q[j]
  BY <1>2, <1>3, AppendProperties
<1> HIDE DEF c
<1>5. Len(c) = Len(p) /\ \A j \in 1..Len(p) : c[j] = p[j]
  <2>1. Len(c) = Len(p) /\ Len(q) + 1 = Len(p)
    BY <1>1, <1>2, <1>4
  <2>2. ASSUME NEW j \in 1..Len(p) PROVE c[j] = p[j]
    <3>1. j \in 1..Len(q) \/ j = Len(p)
      BY <1>1, <2>1
    <3> QED  BY <3>1, <2>1, <1>2, <1>3, <1>4
  <2> QED  BY <2>1, <2>2
<1>6. c = p
  BY <1>4, <1>5, SamePath
<1>7. Above(p) = Above(q) \union {q}
  BY <1>2, <1>3, <1>6, ChildPath DEF c
<1> QED  BY <1>1, <1>2, <1>3, <1>6, <1>7 DEF q, i, c

LEMMA AbovePath ==
    ASSUME NEW p \in Seq(Nat), NEW q \in Above(p)
    PROVE  /\ q \in Seq(Nat) /\ Len(q) \in Nat /\ Len(p) \in Nat /\ Len(q) < Len(p) /\ q # p
           /\ \E c \in Above(p) \union {p} :
                 /\ c \in Seq(Nat) /\ c # <<>> /\ Parent(c) = q /\ Len(c) = Len(q) + 1
                 /\ \A r \in Above(p) : Len(r) >= Len(c) => r = c \/ c \in Above(r)
                 /\ q \in Above(c)
<1>1. PICK k \in 0..(Len(p) - 1) : q = SubSeq(p, 1, k)
  BY DEF Above
<1>2. Len(p) \in Nat
  BY LenProperties
<1>3. \A m \in 0..Len(p) : SubSeq(p, 1, m) \in Seq(Nat) /\ Len(SubSeq(p, 1, m)) = m
  BY PrefixPath
<1>4. \A m \in 0..Len(p) : \A l \in 0..m : SubSeq(SubSeq(p, 1, m), 1, l) = SubSeq(p, 1, l)
  BY PrefixOfPrefix
<1> DEFINE c == SubSeq(p, 1, k + 1)
<1>5. k + 1 \in 1..Len(p)
  BY <1>2
<1>6. c \in Seq(Nat) /\ Len(c) = k + 1 /\ c # <<>>
  BY <1>2, <1>3, <1>5
<1>7. c \in Above(p) \union {p}
  BY <1>2, <1>5, SubSeqFull DEF Above
<1>8. Parent(c) = q
  BY <1>1, <1>2, <1>4, <1>5, <1>6 DEF Parent
<1>9. ASSUME NEW m \in 0..Len(p), NEW l \in 0..(m - 1) PROVE SubSeq(p, 1, l) \in Above(SubSeq(p, 1, m))
  <2>1. SubSeq(SubSeq(p, 1, m), 1, l) = SubSeq(p, 1, l) /\ Len(SubSeq(p, 1, m)) = m
    BY <1>2, <1>3, <1>4
  <2> QED  BY <2>1 DEF Above
<1>10. q \in Above(c)
  BY <1>1, <1>2, <1>5, <1>9
<1>11. ASSUME NEW r \in Above(p), Len(r) >= Len(c) PROVE r = c \/ c \in Above(r)
  <2>1. PICK m \in 0..(Len(p) - 1) : r = SubSeq(p, 1, m)
    BY DEF Above
  <2>2. m >= k + 1
    BY <1>2, <1>3, <1>6, <1>11, <2>1
  <2> QED  BY <1>2, <1>9, <2>1, <2>2
<1>12. q \in Seq(Nat) /\ Len(q) = k
  BY <1>1, <1>2, <1>3
<1> HIDE DEF c
<1>13. q # p /\ Len(q) < Len(p) /\ Len(c) = Len(q) + 1
  BY <1>2, <1>6, <1>12
<1> QED  BY <1>2, <1>6, <1>7, <1>8, <1>10, <1>11, <1>12, <1>13

-----------------------------------------------------------------------------
(* Single runs *)

LEMMA RunFields ==
    ASSUME NEW run, RunOf(run)
    PROVE  /\ run.node.rows \in Nat /\ DOMAIN run.mark = 1..run.node.rows
           /\ run.node.op \in {"leaf", "call", "loop", "inline"}
           /\ run.node.op = "leaf" => run.node.rows = 0
           /\ run.node.op \in {"call", "loop"} => run.node.to \in Ids
           /\ run.node.op = "inline" => run.node.to \in Ids \union {None}
           /\ \A S \in SUBSET (1..run.node.rows) : IsFiniteSet(S)
<1>1. run.node \in Node /\ run.mark \in [1..run.node.rows -> ItemMarks]
  BY DEF RunOf
<1>2. /\ run.node.rows \in Nat /\ run.node.op \in {"leaf", "call", "loop", "inline"}
      /\ run.node.op = "leaf" => run.node.rows = 0
      /\ run.node.op \in {"call", "loop"} => run.node.to \in Ids
      /\ run.node.op = "inline" => run.node.to \in Ids \union {None}
  BY <1>1, SizesAssumption DEF Node, Leaf, Call
<1>3. IsFiniteSet(1..run.node.rows)
  BY <1>2, FS_Interval
<1>4. \A S \in SUBSET (1..run.node.rows) : IsFiniteSet(S)
  BY <1>3, FS_Subset
<1> QED  BY <1>1, <1>2, <1>4

LEMMA EndedRun ==
    ASSUME NEW run, RunOf(run), NEW how \in States
    PROVE  LET e == Ended(run, how)
           IN  /\ RunOf(e)
               /\ e.node = run.node /\ e.stack = run.stack /\ e.inLoop = run.inLoop
               /\ e.mark = run.mark /\ e.coro = run.coro /\ e.state = how
               /\ e.job = IF run.job = "queued" THEN "dropped" ELSE run.job
BY DEF RunOf, Ended, Withdrawn, Jobs

\* One item gets another mark.
LEMMA ItemMarked ==
    ASSUME NEW run, RunOf(run), NEW new, RunOf(new), new.node = run.node,
           NEW i \in 1..run.node.rows, NEW m \in ItemMarks, new.mark = [run.mark EXCEPT ![i] = m]
    PROVE  /\ \A how \in ItemMarks \ {m} : MarkedIn(new, how) = MarkedIn(run, how) \ {i}
           /\ MarkedIn(new, m) = MarkedIn(run, m) \union {i}
           /\ m # "idle" => BegunIn(new) = BegunIn(run) \union {i}
<1>1. \A j \in 1..run.node.rows : new.mark[j] = IF j = i THEN m ELSE run.mark[j]
  BY DEF RunOf
<1> QED  BY <1>1 DEF MarkedIn, BegunIn

LEMMA SetupLimit ==
    ASSUME NEW su \in Setups, NEW run
    PROVE  LimitOf(su, run) \in Nat \ {0} /\ su.failFast \in BOOLEAN /\ su.program \in [Ids -> Node]
BY SetupsAssumption DEF LimitOf

\* An item begins, or is refused, when it is its turn.
LEMMA BegunMarksFit ==
    ASSUME NEW su \in Setups, NEW run, RunOf(run), MarksFit(su, run), ~AbortsIn(su, run),
           run.coro \in {"going", "cancelling"}, NEW i \in 1..run.node.rows, run.mark[i] = "idle",
           Cardinality(MarkedIn(run, "running")) < LimitOf(su, run),
           \A j \in 1..run.node.rows : j < i => run.mark[j] # "idle",
           NEW m \in {"running", "failed"}, NEW new, RunOf(new), new.node = run.node,
           new.coro = run.coro, new.mark = [run.mark EXCEPT ![i] = m]
    PROVE  MarksFit(su, new)
<1> DEFINE R == MarkedIn(run, "running")
           F == MarkedIn(run, "failed")
           L == LimitOf(su, run)
<1>1. run.node.rows \in Nat /\ \A S \in SUBSET (1..run.node.rows) : IsFiniteSet(S)
  BY RunFields
<1>2. /\ \A how \in ItemMarks \ {m} : MarkedIn(new, how) = MarkedIn(run, how) \ {i}
      /\ MarkedIn(new, m) = MarkedIn(run, m) \union {i}
      /\ BegunIn(new) = BegunIn(run) \union {i}
  <2>1. m \in ItemMarks /\ m # "idle"
    BY DEF ItemMarks
  <2> QED  BY <2>1, ItemMarked
<1>3. i \notin R /\ i \notin F /\ i \notin BegunIn(run)
  BY DEF MarkedIn, BegunIn
<1>4. IsFiniteSet(R) /\ Cardinality(R) \in Nat /\ Cardinality(R \union {i}) = Cardinality(R) + 1
  <2>1. R \in SUBSET (1..run.node.rows)
    BY DEF MarkedIn
  <2> QED  BY <1>1, <1>3, <2>1, FS_CardinalityType, FS_AddElement
<1>5. L \in Nat /\ LimitOf(su, new) = L
  BY SetupLimit DEF LimitOf
<1>6. \E n \in 0..new.node.rows : BegunIn(new) = 1..n
  <2>1. PICK n \in 0..run.node.rows : BegunIn(run) = 1..n
    BY DEF MarksFit
  <2>2. i = n + 1
    <3>1. i > n
      BY <1>1, <1>3, <2>1
    <3>2. \A j \in 1..run.node.rows : j < i => j \in BegunIn(run)
      BY DEF BegunIn
    <3>3. CASE i > n + 1
      <4>1. n + 1 \in 1..run.node.rows
        BY <1>1, <3>3
      <4> QED  BY <1>1, <2>1, <3>2, <3>3, <4>1
    <3> QED  BY <1>1, <3>1, <3>3
  <2>3. BegunIn(new) = 1..(n + 1) /\ n + 1 \in 0..run.node.rows
    BY <1>1, <1>2, <2>1, <2>2
  <2> QED  BY <2>3
<1>7. MarkedIn(new, "cut") = {}
  <2>1. MarkedIn(run, "cut") = {}
    BY DEF MarksFit
  <2> QED  BY <1>2, <2>1 DEF ItemMarks
<1>8. Cardinality(MarkedIn(new, "running")) <= L
  <2>1. MarkedIn(new, "running") \in {R, R \union {i}}
    <3>1. "running" \in ItemMarks /\ R \ {i} = R
      BY <1>3 DEF ItemMarks
    <3> HIDE DEF ItemMarks
    <3> QED  BY <1>2, <3>1
  <2>2. Cardinality(R) < L
    OBVIOUS
  <2> DEFINE R2 == MarkedIn(new, "running")
  <2>3. R2 \in {R, R \union {i}}
    BY <2>1
  <2> HIDE DEF R, L, R2
  <2>4. Cardinality(R2) <= L
    BY <1>4, <1>5, <2>2, <2>3
  <2> QED  BY <2>4 DEF R2
<1>9. ASSUME AbortsIn(su, new)
      PROVE  Cardinality(MarkedIn(new, "running") \union MarkedIn(new, "failed")) <= L
  <2>1. F = {}
    BY <1>9 DEF AbortsIn
  <2>2. MarkedIn(new, "running") \union MarkedIn(new, "failed") = R \union {i}
    BY <1>2, <1>3, <2>1 DEF ItemMarks
  <2>3. Cardinality(R) < L
    OBVIOUS
  <2> HIDE DEF R, L
  <2>4. Cardinality(R \union {i}) <= L
    BY <1>4, <1>5, <2>3
  <2> QED  BY <2>2, <2>4 DEF R, L
<1> HIDE DEF R, F, L
<1> QED  BY <1>5, <1>6, <1>7, <1>8, <1>9 DEF MarksFit

\* The run of an item ends.
LEMMA EndedMarksFit ==
    ASSUME NEW su \in Setups, NEW run, RunOf(run), MarksFit(su, run),
           NEW i \in 1..run.node.rows, run.mark[i] = "running",
           NEW m \in {"ok", "failed"}, NEW new, RunOf(new), new.node = run.node,
           new.coro = run.coro, new.mark = [run.mark EXCEPT ![i] = m]
    PROVE  MarksFit(su, new)
<1> DEFINE R == MarkedIn(run, "running")
           F == MarkedIn(run, "failed")
           L == LimitOf(su, run)
           R2 == MarkedIn(new, "running")
           F2 == MarkedIn(new, "failed")
<1>1. run.node.rows \in Nat /\ \A S \in SUBSET (1..run.node.rows) : IsFiniteSet(S)
  BY RunFields
<1>2. /\ \A how \in ItemMarks \ {m} : MarkedIn(new, how) = MarkedIn(run, how) \ {i}
      /\ MarkedIn(new, m) = MarkedIn(run, m) \union {i}
      /\ BegunIn(new) = BegunIn(run) \union {i}
  <2>1. m \in ItemMarks /\ m # "idle"
    BY DEF ItemMarks
  <2> QED  BY <2>1, ItemMarked
<1>3. i \in R /\ i \in BegunIn(run) /\ i \notin MarkedIn(run, "cut")
  BY DEF MarkedIn, BegunIn
<1>4. run.coro \notin {"none", "ok", "error", "cancelled"}
  BY <1>3 DEF MarksFit
<1>5. BegunIn(new) = BegunIn(run) /\ MarkedIn(new, "cut") = {}
  BY <1>2, <1>3, <1>4 DEF MarksFit, ItemMarks
<1>6. R2 \subseteq R /\ F2 \subseteq F \union {i}
  BY <1>2 DEF ItemMarks
<1>7. L \in Nat /\ LimitOf(su, new) = L
  BY SetupLimit DEF LimitOf
<1>8. \A S, T : T \in SUBSET (1..run.node.rows) /\ S \subseteq T =>
        Cardinality(S) \in Nat /\ Cardinality(T) \in Nat /\ Cardinality(S) <= Cardinality(T)
  BY <1>1, FS_Subset, FS_CardinalityType
<1>9. R \in SUBSET (1..run.node.rows) /\ R \union F \in SUBSET (1..run.node.rows)
  BY DEF MarkedIn
<1>10. Cardinality(R2) <= L
  <2>1. Cardinality(R) <= L /\ Cardinality(R) \in Nat /\ Cardinality(R2) \in Nat /\ Cardinality(R2) <= Cardinality(R)
    BY <1>6, <1>8, <1>9 DEF MarksFit
  <2> HIDE DEF R, R2, L
  <2> QED  BY <1>7, <2>1
<1>11. ASSUME AbortsIn(su, new) PROVE Cardinality(R2 \union F2) <= L
  <2>1. CASE F = {}
    <3>1. R2 \union F2 \subseteq R
      BY <1>3, <1>6, <2>1
    <3>2. Cardinality(R) <= L /\ Cardinality(R) \in Nat /\ Cardinality(R2 \union F2) \in Nat
          /\ Cardinality(R2 \union F2) <= Cardinality(R)
      BY <3>1, <1>8, <1>9 DEF MarksFit
    <3> HIDE DEF R, R2, F2, L
    <3> QED  BY <1>7, <3>2
  <2>2. CASE F # {}
    <3>1. AbortsIn(su, run)
      BY <1>11, <2>2 DEF AbortsIn
    <3>2. R2 \union F2 \subseteq R \union F
      BY <1>3, <1>6
    <3>3. Cardinality(R \union F) <= L /\ Cardinality(R \union F) \in Nat
          /\ Cardinality(R2 \union F2) \in Nat /\ Cardinality(R2 \union F2) <= Cardinality(R \union F)
      BY <3>1, <3>2, <1>8, <1>9 DEF MarksFit
    <3> HIDE DEF R, F, R2, F2, L
    <3> QED  BY <1>7, <3>3
  <2> QED  BY <2>1, <2>2
<1> HIDE DEF R, F, L
<1> QED  BY <1>4, <1>5, <1>7, <1>10, <1>11 DEF MarksFit

-----------------------------------------------------------------------------
(* The tree of runs *)

LEMMA TreePaths ==
    ASSUME RunsTyped, NEW p \in Paths
    PROVE  /\ p \in Seq(Nat) /\ Len(p) \in Nat /\ Above(p) \subseteq Paths /\ RunOf(tree[p])
           /\ DOMAIN tree[p].mark = 1..tree[p].node.rows
           /\ \A i \in DOMAIN tree[p].mark :
                i \in Nat /\ Append(p, i) # <<>> /\ Append(p, i) # p
                /\ Parent(Append(p, i)) = p /\ Item(Append(p, i)) = i
           /\ p # <<>> => /\ Parent(p) \in Paths /\ Parent(p) # p
                          /\ Item(p) \in Nat /\ Append(Parent(p), Item(p)) = p
<1>1. p \in Seq(Nat) /\ Above(p) \subseteq Paths /\ RunOf(tree[p])
  BY DEF RunsTyped
<1>2. Len(p) \in Nat
  BY <1>1, LenProperties
<1>3. DOMAIN tree[p].mark = 1..tree[p].node.rows /\ tree[p].node.rows \in Nat
  BY <1>1, RunFields
<1>4. ASSUME NEW i \in DOMAIN tree[p].mark
      PROVE  i \in Nat /\ Append(p, i) # <<>> /\ Append(p, i) # p
             /\ Parent(Append(p, i)) = p /\ Item(Append(p, i)) = i
  <2>1. i \in Nat
    BY <1>3
  <2>2. LET c == Append(p, i) IN c # <<>> /\ Len(c) = Len(p) + 1 /\ Parent(c) = p /\ Item(c) = i
    BY <1>1, <2>1, ChildPath
  <2>3. Len(p) # Len(p) + 1
    BY <1>2
  <2> QED  BY <2>1, <2>2, <2>3
<1>5. ASSUME p # <<>>
      PROVE  /\ Parent(p) \in Paths /\ Parent(p) # p
             /\ Item(p) \in Nat /\ Append(Parent(p), Item(p)) = p
  <2>1. /\ Parent(p) \in Above(p) /\ Item(p) \in Nat /\ Append(Parent(p), Item(p)) = p
        /\ Len(p) = Len(Parent(p)) + 1
    BY <1>1, <1>5, ParentPath
  <2>2. Parent(p) # p
    BY <1>1, <2>1, AbovePath
  <2> QED  BY <1>1, <2>1, <2>2
<1> QED  BY <1>1, <1>2, <1>3, <1>4, <1>5

\* On the way from a run to one below it that goes on: the next run also goes on, and its
\* coroutine with it, or something further down has let go.
LEMMA NextRun ==
    ASSUME RunsInv, NEW x \in Paths, ~Over(x), NEW p \in Above(x)
    PROVE  \E c \in Paths :
             /\ c # <<>> /\ Parent(c) = p /\ Append(p, Item(c)) = c /\ Len(c) = Len(p) + 1
             /\ p \in Above(c) /\ (c = x \/ c \in Above(x)) /\ Item(c) \in DOMAIN tree[p].mark
             /\ \/ ~Over(c) /\ tree[p].mark[Item(c)] = "running" /\ Going(p)
                \/ /\ Over(c) /\ c \in Above(x)
                   /\ \E r \in Above(x) : Len(c) <= Len(r) /\ LetGo(r)
<1>1. RunsTyped /\ Linked /\ StraysExplained
  BY DEF RunsInv
<1>2. x \in Seq(Nat) /\ Above(x) \subseteq Paths
  BY <1>1, TreePaths
<1>3. PICK c \in Above(x) \union {x} :
        c # <<>> /\ Parent(c) = p /\ Len(c) = Len(p) + 1 /\ p \in Above(c)
  BY <1>2, AbovePath
<1>4. c \in Paths /\ Append(p, Item(c)) = c
  BY <1>1, <1>2, <1>3, TreePaths
<1>5. Item(c) \in DOMAIN tree[p].mark
  BY <1>1, <1>3, <1>4 DEF Linked
<1>6. ASSUME ~Over(c) PROVE tree[p].mark[Item(c)] = "running" /\ Going(p)
  BY <1>1, <1>2, <1>3, <1>4, <1>5, <1>6 DEF Linked, StraysExplained
<1>7. ASSUME Over(c) PROVE c \in Above(x) /\ \E r \in Above(x) : Len(c) <= Len(r) /\ LetGo(r)
  BY <1>1, <1>2, <1>3, <1>4, <1>7 DEF StraysExplained
<1> QED  BY <1>3, <1>4, <1>5, <1>6, <1>7

\* A run that is over and whose coroutine goes on was let go.
LEMMA GoingWasLetGo ==
    ASSUME RunsInv, NEW p \in Paths, Over(p), Going(p)
    PROVE  LetGo(p)
<1>1. JobFits(tree[p]) /\ RunOf(tree[p])
  BY DEF RunsInv, Jobbed, RunsTyped
<1>2. tree[p].node.op \in Loops \union {"leaf", "call"}
  BY <1>1, RunFields DEF Loops
<1> QED  BY <1>1, <1>2 DEF JobFits, RunOf, States, Over, Going, LetGo

LEMMA StackedKept ==
    ASSUME RunsTyped, Stacked, Paths' = Paths,
           \A q \in Paths : tree'[q].node = tree[q].node /\ tree'[q].stack = tree[q].stack
    PROVE  Stacked'
<1>1. \A q \in Paths : Callee(q)' = Callee(q) /\ (Published(q)' <=> Published(q))
  BY TreePaths DEF Callee, Published
<1>2. \A p \in Paths : ChainOf(p)' = ChainOf(p) /\ ChainOf(p) \subseteq Paths
  BY <1>1 DEF ChainOf, RunsTyped
<1> QED  BY <1>1, <1>2 DEF Stacked

-----------------------------------------------------------------------------
(* A step of one run: only its job, its coroutine and the marks of items    *)
(* that had no run change.                                                  *)

LEMMA OwnStep ==
    ASSUME RunsInv, NEW p \in Paths, NEW run, RunOf(run), JobFits(run), MarksFit(setup, run),
           run.node = tree[p].node, run.stack = tree[p].stack, run.inLoop = tree[p].inLoop,
           run.state = tree[p].state,
           \A i \in DOMAIN tree[p].mark :
             \/ run.mark[i] = tree[p].mark[i]
             \/ tree[p].mark[i] = "idle" /\ run.mark[i] = "failed",
           setup' = setup, Paths' = Paths, tree'[p] = run, \A q \in Paths \ {p} : tree'[q] = tree[q],
           Running(p) = {} \/ ((Going(p) => Going(p)') /\ (LetGo(p) => LetGo(p)'))
    PROVE  RunsTyped' /\ Linked' /\ Jobbed' /\ Stacked' /\ StraysExplained'
<1>1. RunsTyped /\ Linked /\ Jobbed /\ Stacked /\ StraysExplained
  BY DEF RunsInv
<1>2. \A q \in Paths : /\ tree'[q].node = tree[q].node /\ tree'[q].stack = tree[q].stack
                       /\ tree'[q].inLoop = tree[q].inLoop /\ tree'[q].state = tree[q].state
                       /\ DOMAIN tree'[q].mark = DOMAIN tree[q].mark
  <2>1. DOMAIN run.mark = DOMAIN tree[p].mark
    <3>1. DOMAIN run.mark = 1..run.node.rows
      BY RunFields
    <3> QED  BY <1>1, <3>1, TreePaths
  <2> QED  BY <2>1
<1>3. RunsTyped'
  BY <1>1 DEF RunsTyped
<1>4. Jobbed'
  BY <1>1 DEF Jobbed
<1>5. Stacked'
  BY <1>1, <1>2, StackedKept
<1>6. \A q \in Paths : Over(q)' <=> Over(q)
  BY <1>2 DEF Over
<1>7. Linked'
  <2>1. ASSUME NEW q \in Paths \ {<<>>}
        PROVE  /\ Item(q) \in DOMAIN tree'[Parent(q)].mark
               /\ tree'[q].inLoop = (tree'[Parent(q)].node.op \in Loops)
    <3>1. Parent(q) \in Paths
      BY <1>1, TreePaths
    <3>2. Item(q) \in DOMAIN tree[Parent(q)].mark /\ tree[q].inLoop = (tree[Parent(q)].node.op \in Loops)
      BY <1>1 DEF Linked
    <3> QED  BY <1>2, <3>1, <3>2
  <2>2. ASSUME NEW q \in Paths, NEW i \in DOMAIN tree'[q].mark
        PROVE  /\ tree'[q].mark[i] = "running" <=> Append(q, i) \in Paths /\ ~Over(Append(q, i))'
               /\ tree'[q].mark[i] = "idle" => Append(q, i) \notin Paths
               /\ tree'[q].mark[i] = "ok" => Append(q, i) \in Paths /\ tree'[Append(q, i)].state = "completed"
    <3>1. /\ tree[q].mark[i] = "running" <=> Append(q, i) \in Paths /\ ~Over(Append(q, i))
          /\ tree[q].mark[i] = "idle" => Append(q, i) \notin Paths
          /\ tree[q].mark[i] = "ok" => Append(q, i) \in Paths /\ tree[Append(q, i)].state = "completed"
      BY <1>1, <1>2 DEF Linked
    <3>2. \/ tree'[q].mark[i] = tree[q].mark[i]
          \/ tree[q].mark[i] = "idle" /\ tree'[q].mark[i] = "failed"
      BY <1>2
    <3>3. Append(q, i) \in Paths =>
            (Over(Append(q, i))' <=> Over(Append(q, i))) /\ tree'[Append(q, i)].state = tree[Append(q, i)].state
      BY <1>2, <1>6
    <3> QED  BY <3>1, <3>2, <3>3
  <2> QED  BY <2>1, <2>2 DEF Linked
<1>8. \A q \in Paths \ {p} : (Going(q)' <=> Going(q)) /\ (LetGo(q)' <=> LetGo(q))
  BY DEF Going, LetGo
<1>9. StraysExplained'
  <2> SUFFICES ASSUME NEW x \in Paths, ~Over(x)
               PROVE  /\ x # <<>> => Going(Parent(x))'
                      /\ \A q \in Above(x) : Over(q)' =>
                           \E r \in Above(x) : Len(q) <= Len(r) /\ LetGo(r)'
    BY <1>6 DEF StraysExplained
  <2>1. Above(x) \subseteq Paths /\ \A q \in Above(x) : Len(q) \in Nat
    BY <1>1, TreePaths
  <2>2. ASSUME x # <<>> PROVE Going(Parent(x))'
    <3>1. Going(Parent(x)) /\ Parent(x) \in Paths
      BY <1>1, <2>2, TreePaths DEF StraysExplained
    <3>2. Running(Parent(x)) # {}
      <4>1. Item(x) \in DOMAIN tree[Parent(x)].mark /\ Append(Parent(x), Item(x)) = x
        <5>1. Item(x) \in DOMAIN tree[Parent(x)].mark
          BY <1>1, <2>2 DEF Linked
        <5> QED  BY <5>1, <1>1, <2>2, TreePaths
      <4> DEFINE y == Parent(x)
                 i == Item(x)
      <4> HIDE DEF y, i
      <4>2. tree[y].mark[i] = "running"
        <5>1. y \in Paths /\ i \in DOMAIN tree[y].mark /\ Append(y, i) = x
          BY <3>1, <4>1 DEF y, i
        <5> QED  BY <1>1, <5>1 DEF Linked
      <4> QED  BY <4>1, <4>2 DEF Running, y, i
    <3> QED  BY <1>8, <3>1, <3>2
  <2>3. ASSUME NEW q \in Above(x), Over(q)
        PROVE  \E r \in Above(x) : Len(q) <= Len(r) /\ LetGo(r)'
    <3>1. PICK r \in Above(x) : Len(q) <= Len(r) /\ LetGo(r)
      BY <1>1, <2>3 DEF StraysExplained
    <3>2. CASE r # p \/ LetGo(p)'
      BY <1>8, <2>1, <3>1, <3>2
    <3>3. CASE r = p /\ ~LetGo(p)'
      <4>1. Running(p) = {}
        BY <3>1, <3>3
      <4>2. PICK c \in Paths : Len(c) = Len(p) + 1 /\ \E s \in Above(x) : Len(c) <= Len(s) /\ LetGo(s)
        BY <3>3, <4>1, NextRun DEF Running
      <4>3. PICK s \in Above(x) : Len(c) <= Len(s) /\ LetGo(s)
        BY <4>2
      <4>4. Len(q) \in Nat /\ Len(p) \in Nat /\ Len(s) \in Nat
        BY <2>1, <3>3
      <4>5. Len(q) <= Len(p) /\ Len(p) + 1 <= Len(s)
        BY <3>1, <3>3, <4>2, <4>3
      <4>6. Len(q) <= Len(s) /\ s # p
        BY <4>4, <4>5
      <4> QED  BY <1>8, <2>1, <4>3, <4>6
    <3> QED  BY <3>2, <3>3
  <2> QED  BY <1>6, <2>1, <2>2, <2>3
<1> QED  BY <1>3, <1>4, <1>5, <1>7, <1>9


\* The marks still fit where a coroutine begins, or is told to end.
LEMMA MarksFitStill ==
    ASSUME NEW su, NEW run, MarksFit(su, run), NEW new, new.node = run.node, new.mark = run.mark,
           new.coro = run.coro \/ (run.coro \in {"none", "going"} /\ new.coro \in {"going", "cancelling"})
    PROVE  MarksFit(su, new)
<1>1. /\ BegunIn(new) = BegunIn(run) /\ LimitOf(su, new) = LimitOf(su, run)
      /\ \A how : MarkedIn(new, how) = MarkedIn(run, how)
  BY DEF BegunIn, LimitOf, MarkedIn
<1>2. AbortsIn(su, new) <=> AbortsIn(su, run)
  BY <1>1 DEF AbortsIn
<1> QED  BY <1>1, <1>2 DEF MarksFit

LEMMA LeafReturnsStep ==
    ASSUME RunsInv, NEW p \in Paths, LeafReturns(p)
    PROVE  RunsInv'
<1>1. RunsTyped /\ Jobbed /\ Queued /\ RunOf(tree[p]) /\ JobFits(tree[p]) /\ MarksFit(setup, tree[p])
  BY DEF RunsInv, Jobbed, RunsTyped
<1>2. PICK how \in {"ok", "error"} : tree[p].job = "busy" /\ tree' = [tree EXCEPT ![p].job = how]
  BY DEF LeafReturns
<1> DEFINE run == tree'[p]
<1>3. /\ RunOf(run) /\ run.node = tree[p].node /\ run.stack = tree[p].stack
      /\ run.inLoop = tree[p].inLoop /\ run.state = tree[p].state
      /\ run.job = how /\ run.coro = tree[p].coro /\ run.mark = tree[p].mark
  BY <1>1, <1>2 DEF RunOf, Jobs, Paths
<1>4. Paths' = Paths /\ \A q \in Paths \ {p} : tree'[q] = tree[q]
  BY <1>2 DEF Paths
<1>5. (Going(p) => Going(p)') /\ (LetGo(p) => LetGo(p)')
  BY <1>2, <1>3 DEF Going, LetGo
<1>6. Queued'
  BY <1>1, <1>2, <1>3, <1>4 DEF Queued, LeafReturns
<1> HIDE DEF run
<1>7. JobFits(run)
  BY <1>1, <1>2, <1>3 DEF JobFits
<1>8. MarksFit(setup, run)
  BY <1>1, <1>3, MarksFitStill
<1>9. setup' = setup
  BY DEF LeafReturns
<1>10. RunsTyped' /\ Linked' /\ Jobbed' /\ Stacked' /\ StraysExplained'
  BY <1>3, <1>4, <1>5, <1>7, <1>8, <1>9, OwnStep DEF run
<1> QED  BY <1>6, <1>10 DEF RunsInv

LEMMA ProcessStep ==
    ASSUME RunsInv, NEW p \in Paths, tree[p].job = "queued", Process(p), setup' = setup
    PROVE  /\ RunsTyped' /\ Linked' /\ Jobbed' /\ Stacked' /\ StraysExplained'
           /\ Paths' = Paths /\ tree'[p].job \notin {"queued", "dropped"}
           /\ \A q \in Paths \ {p} : tree'[q] = tree[q]
           /\ tree'[p].coro # "none" /\ tree'[p].node.op \in Loops => ~tree'[p].inLoop
<1>1. RunOf(tree[p]) /\ JobFits(tree[p]) /\ MarksFit(setup, tree[p])
  BY DEF RunsInv, Jobbed, RunsTyped
<1>2. tree[p].coro = "none" /\ tree[p].state = "running"
  BY <1>1 DEF JobFits
<1> DEFINE run == tree'[p]
<1>3. /\ RunOf(run) /\ run.node = tree[p].node /\ run.stack = tree[p].stack
      /\ run.inLoop = tree[p].inLoop /\ run.state = tree[p].state /\ run.mark = tree[p].mark
      /\ \/ run.job \in {"busy", "error"} /\ run.coro = "none"
         \/ /\ run.job = "waiting" /\ run.coro = "going" /\ run.node.op # "leaf"
            /\ run.node.op \in Loops => ~run.inLoop
      /\ Paths' = Paths /\ \A q \in Paths \ {p} : tree'[q] = tree[q]
  <2>1. CASE LeafBegins(p)
    BY <1>1, <1>2, <2>1 DEF LeafBegins, RunOf, Paths, Jobs
  <2>2. CASE LoopBegins(p)
    BY <1>1, <2>2 DEF LoopBegins, Loops, RunOf, Paths, Jobs, Coros
  <2>3. CASE CallBegins(p)
    BY <1>1, <2>3 DEF CallBegins, Loops, RunOf, Paths, Jobs, Coros
  <2>4. CASE LoopRefused(p) \/ CallRefused(p)
    BY <1>1, <1>2, <2>4 DEF LoopRefused, CallRefused, RunOf, Paths, Jobs
  <2> QED  BY <2>1, <2>2, <2>3, <2>4 DEF Process
<1>4. (Going(p) => Going(p)') /\ (LetGo(p) => LetGo(p)')
  BY <1>2, <1>3 DEF Going, LetGo
<1> HIDE DEF run
<1>5. JobFits(run)
  BY <1>2, <1>3 DEF JobFits
<1>6. MarksFit(setup, run)
  BY <1>1, <1>2, <1>3, MarksFitStill
<1>7. RunsTyped' /\ Linked' /\ Jobbed' /\ Stacked' /\ StraysExplained'
  BY <1>3, <1>4, <1>5, <1>6, OwnStep DEF run
<1> QED  BY <1>3, <1>7 DEF run

LEMMA TakesThreadStep ==
    ASSUME RunsInv, TakesThread
    PROVE  RunsInv'
<1>1. PICK i \in DOMAIN queue :
        /\ tree[queue[i]].job = "queued" /\ \A j \in 1..(i - 1) : tree[queue[j]].job # "queued"
        /\ Process(queue[i])
        /\ queue' = SubSeq(queue, i + 1, Len(queue))
  BY DEF TakesThread
<1> DEFINE p == queue[i]
           n == Len(queue)
<1>2. Queued
  BY DEF RunsInv
<1>3. /\ n \in Nat /\ DOMAIN queue = 1..n /\ i \in 1..n /\ \A k \in 1..n : queue[k] \in Paths
      /\ Range(queue) = {queue[k] : k \in 1..n} /\ \A k, l \in 1..n : queue[k] = queue[l] => k = l
  BY <1>2, LenProperties, RangeEquality, ElementOfSeq DEF Queued, IsInjective
<1>4. p \in Paths
  BY <1>3
<1>5. /\ RunsTyped' /\ Linked' /\ Jobbed' /\ Stacked' /\ StraysExplained'
      /\ Paths' = Paths /\ tree'[p].job \notin {"queued", "dropped"}
      /\ \A q \in Paths \ {p} : tree'[q] = tree[q]
      /\ tree'[p].coro # "none" /\ tree'[p].node.op \in Loops => ~tree'[p].inLoop
  BY <1>1, <1>4, ProcessStep DEF TakesThread
<1>6. /\ queue' \in Seq(Paths) /\ Len(queue') = n - i
      /\ \A k \in 1..(n - i) : queue'[k] = queue[k + i]
  <2>1. i + 1 \in Int /\ n \in Int /\ \A k \in (i + 1)..n : queue[k] \in Paths
    BY <1>3
  <2>2. /\ SubSeq(queue, i + 1, n) \in Seq(Paths)
        /\ Len(SubSeq(queue, i + 1, n)) = IF i + 1 <= n THEN n - (i + 1) + 1 ELSE 0
        /\ \A k \in 1..(n - (i + 1) + 1) : SubSeq(queue, i + 1, n)[k] = queue[i + 1 + k - 1]
    BY <2>1, SubSeqProperties
  <2> DEFINE s == SubSeq(queue, i + 1, n)
  <2>3. queue' = s
    BY <1>1
  <2> HIDE DEF s
  <2>4. n - (i + 1) + 1 = n - i /\ (i + 1 <= n \/ n - i = 0) /\ \A k \in Int : i + 1 + k - 1 = k + i
    BY <1>3
  <2>5. s \in Seq(Paths) /\ Len(s) = n - i
    BY <1>3, <2>2, <2>4 DEF s
  <2>6. ASSUME NEW k \in 1..(n - i) PROVE s[k] = queue[k + i]
    <3>1. k \in 1..(n - (i + 1) + 1) /\ k \in Int
      BY <2>4
    <3>2. s[k] = queue[i + 1 + k - 1]
      BY <2>2, <3>1 DEF s
    <3> QED  BY <2>4, <3>1, <3>2
  <2> QED  BY <2>3, <2>5, <2>6
<1>7. DOMAIN queue' = 1..(n - i) /\ Range(queue') = {queue'[k] : k \in 1..(n - i)}
  BY <1>6, LenProperties, RangeEquality
<1>8. \A k \in 1..(n - i) : k + i \in 1..n /\ k + i # i
  BY <1>3
<1>9. IsInjective(queue')
  <2>1. ASSUME NEW k \in 1..(n - i), NEW l \in 1..(n - i), queue'[k] = queue'[l] PROVE k = l
    <3>1. k + i = l + i
      BY <1>3, <1>6, <1>8, <2>1
    <3> QED  BY <1>3, <3>1
  <2> QED  BY <1>7, <2>1 DEF IsInjective
<1>10. {q \in Paths : tree'[q].job = "queued"} \subseteq Range(queue')
  <2> SUFFICES ASSUME NEW q \in Paths, tree'[q].job = "queued" PROVE q \in Range(queue')
    OBVIOUS
  <2>1. q # p /\ tree[q].job = "queued"
    BY <1>5
  <2>2. PICK k \in 1..n : q = queue[k]
    BY <1>2, <1>3, <2>1 DEF Queued
  <2>3. k - i \in 1..(n - i) /\ k - i + i = k
    BY <1>1, <1>3, <2>1, <2>2
  <2> QED  BY <1>6, <1>7, <2>2, <2>3
<1>11. Range(queue') \subseteq {q \in Paths : tree'[q].job \in {"queued", "dropped"}}
  <2> SUFFICES ASSUME NEW k \in 1..(n - i)
               PROVE  queue'[k] \in Paths /\ tree'[queue'[k]].job \in {"queued", "dropped"}
    BY <1>7
  <2>1. queue'[k] = queue[k + i] /\ queue[k + i] # p /\ queue[k + i] \in Range(queue)
    BY <1>3, <1>6, <1>8
  <2> QED  BY <1>2, <1>5, <2>1 DEF Queued
<1>12. \A q \in Paths : tree'[q].coro # "none" /\ tree'[q].node.op \in Loops => ~tree'[q].inLoop
  BY <1>2, <1>5 DEF Queued
<1>13. Queued'
  BY <1>5, <1>6, <1>9, <1>10, <1>11, <1>12 DEF Queued
<1> QED  BY <1>5, <1>13 DEF RunsInv


LEMMA QueuedKept ==
    ASSUME Queued, queue' = queue, Paths' = Paths,
           \A q \in Paths :
             /\ tree'[q].job = "queued" => tree[q].job = "queued"
             /\ tree[q].job \in {"queued", "dropped"} => tree'[q].job \in {"queued", "dropped"}
             /\ tree'[q].coro # "none" => tree[q].coro # "none"
             /\ tree'[q].node = tree[q].node /\ tree'[q].inLoop = tree[q].inLoop
    PROVE  Queued'
BY DEF Queued

LEMMA CoroEndsStep ==
    ASSUME RunsInv, NEW p \in Paths, CoroEnds(p)
    PROVE  RunsInv'
<1>1. /\ RunsTyped /\ Queued /\ RunOf(tree[p]) /\ JobFits(tree[p]) /\ MarksFit(setup, tree[p])
      /\ setup \in Setups
  BY DEF RunsInv, Jobbed, RunsTyped
<1>2. /\ DOMAIN tree[p].mark = 1..tree[p].node.rows /\ tree[p].node.rows \in Nat
  BY <1>1, RunFields
<1>3. (Aborted(p) <=> AbortsIn(setup, tree[p])) /\ Running(p) = MarkedIn(tree[p], "running")
  BY <1>2 DEF Aborted, AbortsIn, Running, MarkedIn
<1>4. PICK how \in {"ok", "error"} :
        /\ how = "error" <=> Aborted(p)
        /\ tree' = [tree EXCEPT ![p].coro = how, ![p].job = IF @ = "waiting" THEN how ELSE @]
  BY DEF CoroEnds
<1>5. Going(p) /\ Running(p) = {} /\ (Aborted(p) \/ \A i \in DOMAIN tree[p].mark : tree[p].mark[i] # "idle")
  BY DEF CoroEnds, Settled
<1> DEFINE run == tree'[p]
<1>6. /\ RunOf(run) /\ run.node = tree[p].node /\ run.stack = tree[p].stack
      /\ run.inLoop = tree[p].inLoop /\ run.state = tree[p].state /\ run.mark = tree[p].mark
      /\ run.job = (IF tree[p].job = "waiting" THEN how ELSE tree[p].job) /\ run.coro = how
  BY <1>1, <1>4 DEF RunOf, Jobs, Coros, Paths
<1>7. Paths' = Paths /\ \A q \in Paths \ {p} : tree'[q] = tree[q]
  BY <1>4 DEF Paths
<1>8. setup' = setup /\ queue' = queue
  BY DEF CoroEnds
<1>9. Queued'
  BY <1>1, <1>5, <1>6, <1>7, <1>8, QueuedKept DEF Going
<1> HIDE DEF run
<1>10. JobFits(run)
  BY <1>1, <1>5, <1>6 DEF JobFits, Going
<1>11. MarksFit(setup, run)
  <2>1. /\ BegunIn(run) = BegunIn(tree[p]) /\ LimitOf(setup, run) = LimitOf(setup, tree[p])
        /\ \A m : MarkedIn(run, m) = MarkedIn(tree[p], m)
    BY <1>6 DEF BegunIn, LimitOf, MarkedIn
  <2>2. AbortsIn(setup, run) <=> AbortsIn(setup, tree[p])
    BY <1>6, <2>1 DEF AbortsIn
  <2>3. how = "ok" => BegunIn(tree[p]) = 1..tree[p].node.rows
    BY <1>2, <1>4, <1>5 DEF BegunIn
  <2>4. MarkedIn(tree[p], "cut") = {}
    BY <1>1, <1>5 DEF MarksFit, Going
  <2> QED  BY <1>1, <1>3, <1>4, <1>5, <1>6, <2>1, <2>2, <2>3, <2>4 DEF MarksFit
<1>12. RunsTyped' /\ Linked' /\ Jobbed' /\ Stacked' /\ StraysExplained'
  BY <1>5, <1>6, <1>7, <1>8, <1>10, <1>11, OwnStep DEF run
<1> QED  BY <1>9, <1>12 DEF RunsInv

LEMMA GivesUpStep ==
    ASSUME RunsInv, NEW p \in Paths, GivesUp(p)
    PROVE  RunsInv'
<1>1. RunsTyped /\ Queued /\ RunOf(tree[p]) /\ JobFits(tree[p]) /\ MarksFit(setup, tree[p])
  BY DEF RunsInv, Jobbed, RunsTyped
<1>2. tree[p].job = "waiting" /\ tree[p].coro = "going"
  BY <1>1 DEF GivesUp, JobFits
<1> DEFINE run == tree'[p]
<1>3. /\ RunOf(run) /\ run.node = tree[p].node /\ run.stack = tree[p].stack
      /\ run.inLoop = tree[p].inLoop /\ run.state = tree[p].state /\ run.mark = tree[p].mark
      /\ run.job = "gaveup"
      /\ run.coro = IF tree[p].node.op \in Loops THEN "cancelling" ELSE "going"
      /\ Paths' = Paths /\ \A q \in Paths \ {p} : tree'[q] = tree[q]
  BY <1>1, <1>2 DEF GivesUp, RunOf, Jobs, Coros, Paths
<1>4. setup' = setup /\ queue' = queue
  BY DEF GivesUp
<1>5. Queued'
  BY <1>1, <1>2, <1>3, <1>4, QueuedKept
<1>6. (Going(p) => Going(p)') /\ (LetGo(p) => LetGo(p)')
  BY <1>2, <1>3 DEF Going, LetGo
<1> HIDE DEF run
<1>7. JobFits(run)
  BY <1>1, <1>2, <1>3 DEF JobFits
<1>8. MarksFit(setup, run)
  BY <1>1, <1>2, <1>3, MarksFitStill
<1>9. RunsTyped' /\ Linked' /\ Jobbed' /\ Stacked' /\ StraysExplained'
  BY <1>3, <1>4, <1>6, <1>7, <1>8, OwnStep DEF run
<1> QED  BY <1>5, <1>9 DEF RunsInv

\* What the guard of an item says, in terms of its run.
LEMMA TurnOf ==
    ASSUME RunsInv, NEW p \in Paths, NEW i \in DOMAIN tree[p].mark, Turn(p, i)
    PROVE  /\ setup \in Setups /\ RunOf(tree[p]) /\ JobFits(tree[p]) /\ MarksFit(setup, tree[p])
           /\ tree[p].coro \in {"going", "cancelling"} /\ ~AbortsIn(setup, tree[p])
           /\ i \in 1..tree[p].node.rows /\ tree[p].mark[i] = "idle"
           /\ Cardinality(MarkedIn(tree[p], "running")) < LimitOf(setup, tree[p])
           /\ \A j \in 1..tree[p].node.rows : j < i => tree[p].mark[j] # "idle"
           /\ Append(p, i) \notin Paths
<1>1. /\ setup \in Setups /\ RunOf(tree[p]) /\ JobFits(tree[p]) /\ MarksFit(setup, tree[p])
      /\ Linked
  BY DEF RunsInv, Jobbed, RunsTyped
<1>2. DOMAIN tree[p].mark = 1..tree[p].node.rows
  BY <1>1, RunFields
<1>3. /\ Aborted(p) <=> AbortsIn(setup, tree[p])
      /\ Running(p) = MarkedIn(tree[p], "running") /\ Limit(p) = LimitOf(setup, tree[p])
  BY <1>2 DEF Aborted, AbortsIn, Running, MarkedIn, Limit, LimitOf
<1> QED  BY <1>1, <1>2, <1>3 DEF Turn, Going, Linked

LEMMA ItemInvalidStep ==
    ASSUME RunsInv, NEW p \in Paths, NEW i \in DOMAIN tree[p].mark, ItemInvalid(p, i)
    PROVE  RunsInv'
<1>1. /\ setup \in Setups /\ RunOf(tree[p]) /\ JobFits(tree[p]) /\ MarksFit(setup, tree[p])
      /\ tree[p].coro \in {"going", "cancelling"} /\ ~AbortsIn(setup, tree[p])
      /\ i \in 1..tree[p].node.rows /\ tree[p].mark[i] = "idle"
      /\ Cardinality(MarkedIn(tree[p], "running")) < LimitOf(setup, tree[p])
      /\ \A j \in 1..tree[p].node.rows : j < i => tree[p].mark[j] # "idle"
  BY TurnOf DEF ItemInvalid
<1> DEFINE run == tree'[p]
<1>2. /\ RunOf(run) /\ run.node = tree[p].node /\ run.stack = tree[p].stack
      /\ run.inLoop = tree[p].inLoop /\ run.state = tree[p].state
      /\ run.mark = [tree[p].mark EXCEPT ![i] = "failed"]
      /\ run.job = tree[p].job /\ run.coro = tree[p].coro
      /\ Paths' = Paths /\ \A q \in Paths \ {p} : tree'[q] = tree[q]
  <2>1. [tree[p].mark EXCEPT ![i] = "failed"] \in [1..tree[p].node.rows -> ItemMarks]
    BY <1>1 DEF RunOf, ItemMarks
  <2>2. [tree[p].mark EXCEPT ![i] = "failed"] \in MarkLists
    BY <1>1, <2>1, RunFields DEF MarkLists
  <2> QED  BY <1>1, <2>1, <2>2 DEF ItemInvalid, RunOf, Paths
<1>3. setup' = setup /\ queue' = queue /\ Queued
  BY DEF ItemInvalid, RunsInv
<1>4. Queued'
  BY <1>2, <1>3, QueuedKept
<1>5. (Going(p) => Going(p)') /\ (LetGo(p) => LetGo(p)')
  BY <1>2 DEF Going, LetGo
<1> HIDE DEF run
<1>6. JobFits(run)
  BY <1>1, <1>2 DEF JobFits
<1>7. MarksFit(setup, run)
  BY <1>1, <1>2, BegunMarksFit
<1>8. \A k \in DOMAIN tree[p].mark :
        \/ run.mark[k] = tree[p].mark[k]
        \/ tree[p].mark[k] = "idle" /\ run.mark[k] = "failed"
  BY <1>1, <1>2
<1>9. RunsTyped' /\ Linked' /\ Jobbed' /\ Stacked' /\ StraysExplained'
  BY <1>2, <1>3, <1>5, <1>6, <1>7, <1>8, OwnStep DEF run
<1> QED  BY <1>4, <1>9 DEF RunsInv


-----------------------------------------------------------------------------
(* The end of a run *)

LEMMA EndsRunStep ==
    ASSUME RunsInv, NEW p \in Paths, ~Over(p), NEW how \in States \ {"running"}, NEW mark \in {"ok", "failed"},
           EndsRun(p, Ended(tree[p], how), mark),
           how = "completed" => tree[p].job = "ok",
           how = "failed" => tree[p].job \in {"error", "gaveup"},
           mark = "ok" => how = "completed"
    PROVE  RunsInv'
<1>1. /\ RunsTyped /\ Linked /\ Jobbed /\ Queued /\ Stacked /\ StraysExplained /\ setup \in Setups
      /\ RunOf(tree[p]) /\ JobFits(tree[p]) /\ MarksFit(setup, tree[p])
  BY DEF RunsInv, Jobbed, RunsTyped
<1>2. /\ setup' = setup /\ queue' = queue /\ Paths' = Paths /\ tree'[p] = Ended(tree[p], how)
      /\ \A q \in Paths \ {p} :
           tree'[q] = IF p # <<>> /\ q = Parent(p) THEN [tree[q] EXCEPT !.mark[Item(p)] = mark] ELSE tree[q]
  BY DEF EndsRun, Paths
<1> DEFINE run == tree'[p]
<1>3. /\ RunOf(run) /\ run.node = tree[p].node /\ run.stack = tree[p].stack
      /\ run.inLoop = tree[p].inLoop /\ run.mark = tree[p].mark /\ run.coro = tree[p].coro
      /\ run.state = how /\ run.job = IF tree[p].job = "queued" THEN "dropped" ELSE tree[p].job
  BY <1>1, <1>2, EndedRun
<1>4. ASSUME NEW q \in Paths \ {p}, p # <<>>, q = Parent(p)
      PROVE  /\ RunOf(tree'[q]) /\ tree'[q].node = tree[q].node /\ tree'[q].stack = tree[q].stack
             /\ tree'[q].inLoop = tree[q].inLoop /\ tree'[q].coro = tree[q].coro
             /\ tree'[q].state = tree[q].state /\ tree'[q].job = tree[q].job
             /\ tree'[q].mark = [tree[q].mark EXCEPT ![Item(p)] = mark]
             /\ Item(p) \in 1..tree[q].node.rows /\ tree[q].mark[Item(p)] = "running"
             /\ RunOf(tree[q])
  <2>1. RunOf(tree[q]) /\ DOMAIN tree[q].mark = 1..tree[q].node.rows /\ tree[q].node.rows \in Nat
    BY <1>1, RunFields DEF RunsTyped
  <2> DEFINE i == Item(p)
  <2>2. Append(q, i) = p
    BY <1>1, <1>4, TreePaths
  <2>3. i \in DOMAIN tree[q].mark
    BY <1>1, <1>4 DEF Linked
  <2> HIDE DEF i
  <2>4. tree[q].mark[i] = "running"
    BY <1>1, <2>2, <2>3 DEF Linked
  <2>5. tree'[q] = [tree[q] EXCEPT !.mark[i] = mark]
    BY <1>2, <1>4 DEF i
  <2>6. [tree[q].mark EXCEPT ![i] = mark] \in [1..tree[q].node.rows -> ItemMarks]
    BY <2>1, <2>3 DEF RunOf, ItemMarks
  <2>7. [tree[q].mark EXCEPT ![i] = mark] \in MarkLists
    BY <2>1, <2>6 DEF MarkLists
  <2> QED  BY <2>1, <2>3, <2>4, <2>5, <2>6, <2>7 DEF RunOf, i
<1>5. ASSUME NEW q \in Paths \ {p}, ~(p # <<>> /\ q = Parent(p)) PROVE tree'[q] = tree[q]
  BY <1>2, <1>5
<1> HIDE DEF run
<1>6. \A q \in Paths :
        /\ RunOf(tree'[q]) /\ tree'[q].node = tree[q].node /\ tree'[q].stack = tree[q].stack
        /\ tree'[q].inLoop = tree[q].inLoop /\ tree'[q].coro = tree[q].coro
        /\ DOMAIN tree'[q].mark = DOMAIN tree[q].mark
  <2>1. \A q \in Paths \ {p} : RunOf(tree[q]) /\ DOMAIN tree[q].mark = 1..tree[q].node.rows
    BY <1>1, RunFields DEF RunsTyped
  <2> QED  BY <1>3, <1>4, <1>5, <2>1 DEF run
<1>7. \A q \in Paths \ {p} : tree'[q].state = tree[q].state /\ tree'[q].job = tree[q].job
  BY <1>4, <1>5
<1>8. ASSUME NEW q \in Paths, NEW j \in DOMAIN tree[q].mark
      PROVE  tree'[q].mark[j] = IF Append(q, j) = p THEN mark ELSE tree[q].mark[j]
  <2>1. Append(q, j) = p <=> p # <<>> /\ q = Parent(p) /\ j = Item(p)
    <3>1. Append(q, j) # <<>> /\ Parent(Append(q, j)) = q /\ Item(Append(q, j)) = j
      BY <1>1, TreePaths
    <3>2. p # <<>> => Append(Parent(p), Item(p)) = p
      BY <1>1, TreePaths
    <3> QED  BY <3>1, <3>2
  <2>2. CASE p # <<>> /\ q = Parent(p)
    <3>1. q # p
      BY <1>1, <2>2, TreePaths
    <3>2. DOMAIN tree[q].mark = 1..tree[q].node.rows /\ tree[q].mark \in [1..tree[q].node.rows -> ItemMarks]
      BY <1>1, RunFields DEF RunsTyped, RunOf
    <3>3. tree'[q].mark = [tree[q].mark EXCEPT ![Item(p)] = mark] /\ Item(p) \in 1..tree[q].node.rows
      BY <1>4, <2>2, <3>1
    <3> QED  BY <2>1, <2>2, <3>2, <3>3
  <2>3. CASE ~(p # <<>> /\ q = Parent(p))
    BY <1>3, <1>5, <2>1, <2>3 DEF run
  <2> QED  BY <2>2, <2>3
<1>9. \A q \in Paths : Over(q)' <=> Over(q) \/ q = p
  BY <1>3, <1>7 DEF Over, run
<1>10. RunsTyped'
  BY <1>1, <1>2, <1>6 DEF RunsTyped
<1>11. Stacked'
  BY <1>1, <1>2, <1>6, StackedKept
<1>12. Queued'
  BY <1>1, <1>2, <1>3, <1>6, <1>7, QueuedKept DEF run
<1>13. Jobbed'
  <2> SUFFICES ASSUME NEW q \in Paths PROVE JobFits(tree'[q]) /\ MarksFit(setup, tree'[q])
    BY <1>2 DEF Jobbed
  <2>1. CASE q = p
    <3>1. JobFits(run)
      BY <1>1, <1>3 DEF JobFits
    <3>2. MarksFit(setup, run)
      BY <1>1, <1>3, MarksFitStill
    <3> QED  BY <2>1, <3>1, <3>2 DEF run
  <2>2. CASE q # p /\ p # <<>> /\ q = Parent(p)
    <3>1. JobFits(tree[q]) /\ MarksFit(setup, tree[q])
      BY <1>1 DEF Jobbed
    <3>2. JobFits(tree'[q])
      BY <1>4, <2>2, <3>1 DEF JobFits
    <3>3. MarksFit(setup, tree'[q])
      BY <1>1, <1>4, <2>2, <3>1, EndedMarksFit
    <3> QED  BY <3>2, <3>3
  <2>3. CASE q # p /\ ~(p # <<>> /\ q = Parent(p))
    BY <1>1, <1>5, <2>3 DEF Jobbed
  <2> QED  BY <2>1, <2>2, <2>3
<1>14. Linked'
  <2>1. ASSUME NEW q \in Paths \ {<<>>}
        PROVE  /\ Item(q) \in DOMAIN tree'[Parent(q)].mark
               /\ tree'[q].inLoop = (tree'[Parent(q)].node.op \in Loops)
    <3>1. Parent(q) \in Paths
      BY <1>1, TreePaths
    <3>2. Item(q) \in DOMAIN tree[Parent(q)].mark /\ tree[q].inLoop = (tree[Parent(q)].node.op \in Loops)
      BY <1>1 DEF Linked
    <3> QED  BY <1>6, <3>1, <3>2
  <2>2. ASSUME NEW q \in Paths, NEW i \in DOMAIN tree'[q].mark
        PROVE  /\ tree'[q].mark[i] = "running" <=> Append(q, i) \in Paths /\ ~Over(Append(q, i))'
               /\ tree'[q].mark[i] = "idle" => Append(q, i) \notin Paths
               /\ tree'[q].mark[i] = "ok" => Append(q, i) \in Paths /\ tree'[Append(q, i)].state = "completed"
    <3>1. i \in DOMAIN tree[q].mark
      BY <1>6
    <3>2. /\ tree[q].mark[i] = "running" <=> Append(q, i) \in Paths /\ ~Over(Append(q, i))
          /\ tree[q].mark[i] = "idle" => Append(q, i) \notin Paths
          /\ tree[q].mark[i] = "ok" => Append(q, i) \in Paths /\ tree[Append(q, i)].state = "completed"
      BY <1>1, <3>1 DEF Linked
    <3>3. tree'[q].mark[i] = IF Append(q, i) = p THEN mark ELSE tree[q].mark[i]
      BY <1>8, <3>1
    <3>4. Append(q, i) \in Paths /\ Append(q, i) # p =>
            (Over(Append(q, i))' <=> Over(Append(q, i))) /\ tree'[Append(q, i)].state = tree[Append(q, i)].state
      BY <1>7, <1>9
    <3>5. Over(p)' /\ tree'[p].state = how
      BY <1>3, <1>9 DEF run
    <3> QED  BY <3>2, <3>3, <3>4, <3>5
  <2> QED  BY <1>2, <2>1, <2>2 DEF Linked
<1>15. \A q \in Paths : (Going(q)' <=> Going(q)) /\ (LetGo(q) => LetGo(q)')
  BY <1>3, <1>6, <1>7 DEF Going, LetGo, Over, run
<1>16. Going(p) => LetGo(p)'
  <2>1. tree[p].node.op \in Loops \union {"leaf", "call"}
    BY <1>1, RunFields DEF Loops
  <2>2. CASE how \in {"timedout", "cancelled"}
    BY <1>3, <2>2 DEF LetGo, run
  <2>3. CASE how = "completed"
    BY <1>1, <2>3 DEF JobFits, Going
  <2>4. CASE how = "failed"
    BY <1>1, <1>3, <2>1, <2>4 DEF JobFits, Going, LetGo, run
  <2> QED  BY <2>2, <2>3, <2>4 DEF States
<1>17. StraysExplained'
  <2> SUFFICES ASSUME NEW x \in Paths, ~Over(x), x # p
               PROVE  /\ x # <<>> => Going(Parent(x))'
                      /\ \A q \in Above(x) : Over(q)' =>
                           \E r \in Above(x) : Len(q) <= Len(r) /\ LetGo(r)'
    BY <1>2, <1>9 DEF StraysExplained
  <2>1. Above(x) \subseteq Paths /\ \A q \in Above(x) : Len(q) \in Nat
    BY <1>1, TreePaths
  <2>2. ASSUME x # <<>> PROVE Going(Parent(x))'
    BY <1>1, <1>15, <2>2, TreePaths DEF StraysExplained
  <2>3. ASSUME NEW q \in Above(x), Over(q)
        PROVE  \E r \in Above(x) : Len(q) <= Len(r) /\ LetGo(r)'
    BY <1>1, <1>15, <2>1, <2>3 DEF StraysExplained
  <2>4. ASSUME p \in Above(x)
        PROVE  \E r \in Above(x) : Len(p) <= Len(r) /\ LetGo(r)'
    <3>1. PICK c \in Paths :
            /\ Len(c) = Len(p) + 1
            /\ \/ Going(p)
               \/ \E r \in Above(x) : Len(c) <= Len(r) /\ LetGo(r)
      BY <2>4, NextRun
    <3>2. CASE Going(p)
      BY <1>16, <2>1, <2>4, <3>2
    <3>3. ASSUME NEW r \in Above(x), Len(c) <= Len(r), LetGo(r)
          PROVE  Len(p) <= Len(r) /\ LetGo(r)'
      BY <1>15, <2>1, <2>4, <3>1, <3>3
    <3> QED  BY <3>1, <3>2, <3>3
  <2> QED  BY <1>9, <2>1, <2>2, <2>3, <2>4
<1> QED  BY <1>10, <1>11, <1>12, <1>13, <1>14, <1>17 DEF RunsInv

LEMMA FinishesStep ==
    ASSUME RunsInv, NEW p \in Paths, Finishes(p)
    PROVE  RunsInv'
<1>1. PICK mark \in Verdicts(p) :
        EndsRun(p, Ended(tree[p], IF tree[p].job = "ok" THEN "completed" ELSE "failed"), mark)
  BY DEF Finishes
<1>2. ~Over(p) /\ tree[p].job \in {"ok", "error", "gaveup"}
  BY DEF Finishes
<1>3. CASE tree[p].job = "ok"
  <2>1. mark \in {"ok", "failed"} /\ EndsRun(p, Ended(tree[p], "completed"), mark)
    BY <1>1, <1>3 DEF Verdicts
  <2> QED  BY <1>2, <1>3, <2>1, EndsRunStep DEF States
<1>4. CASE tree[p].job \in {"error", "gaveup"}
  <2>1. mark = "failed" /\ EndsRun(p, Ended(tree[p], "failed"), mark)
    BY <1>1, <1>4 DEF Verdicts
  <2> QED  BY <1>2, <1>4, <2>1, EndsRunStep DEF States
<1> QED  BY <1>2, <1>3, <1>4

LEMMA TimesOutStep ==
    ASSUME RunsInv, NEW p \in Paths, TimesOut(p)
    PROVE  RunsInv'
<1>1. "timedout" \in States \ {"running"}
  BY DEF States
<1> QED  BY <1>1, EndsRunStep DEF TimesOut

LEMMA UserCancelsStep ==
    ASSUME RunsInv, UserCancels
    PROVE  RunsInv'
<1>1. "cancelled" \in States \ {"running"} /\ <<>> \in Paths
  BY DEF States, RunsInv, RunsTyped
<1> QED  BY <1>1, EndsRunStep DEF UserCancels


-----------------------------------------------------------------------------
(* The cancellation of a coroutine reaches the runs it waits for *)

LEMMA CancelArrivesStep ==
    ASSUME RunsInv, NEW p \in Paths, CancelArrives(p)
    PROVE  RunsInv'
<1> DEFINE cut == Under(p, {"running"})
<1>1. /\ RunsTyped /\ Linked /\ Jobbed /\ Queued /\ Stacked /\ StraysExplained /\ setup \in Setups
      /\ RunOf(tree[p]) /\ JobFits(tree[p]) /\ MarksFit(setup, tree[p])
      /\ DOMAIN tree[p].mark = 1..tree[p].node.rows /\ tree[p].node.rows \in Nat
  BY RunFields DEF RunsInv, Jobbed, RunsTyped
<1>2. ASSUME NEW q \in Paths
      PROVE  /\ q \in cut <=> ~Over(q) /\ q # <<>> /\ Parent(q) = p
             /\ q \in cut => q # p
  <2>1. ASSUME q \in cut PROVE ~Over(q) /\ q # <<>> /\ Parent(q) = p /\ q # p
    <3>1. PICK i \in DOMAIN tree[p].mark : q = Append(p, i) /\ tree[p].mark[i] = "running"
      BY <2>1 DEF Under
    <3>2. ~Over(q)
      BY <1>1, <3>1 DEF Linked
    <3>3. Append(p, i) # <<>> /\ Parent(Append(p, i)) = p /\ Append(p, i) # p
      BY <1>1, TreePaths
    <3> QED  BY <3>1, <3>2, <3>3
  <2>2. ASSUME ~Over(q), q # <<>>, Parent(q) = p PROVE q \in cut
    <3> DEFINE i == Item(q)
    <3>1. Append(p, i) = q
      BY <1>1, <2>2, TreePaths
    <3>2. i \in DOMAIN tree[p].mark
      BY <1>1, <2>2 DEF Linked
    <3> HIDE DEF i
    <3>3. tree[p].mark[i] = "running"
      BY <1>1, <2>2, <3>1, <3>2 DEF Linked
    <3> QED  BY <3>1, <3>2, <3>3 DEF Under
  <2> QED  BY <2>1, <2>2
<1>3. /\ setup' = setup /\ queue' = queue /\ Paths' = Paths /\ tree[p].coro = "cancelling"
      /\ tree'[p] = [tree[p] EXCEPT !.coro = "cancelled",
                       !.mark = [i \in DOMAIN @ |-> IF @[i] = "running" THEN "cut" ELSE @[i]]]
      /\ \A q \in Paths \ {p} : tree'[q] = IF q \in cut THEN Ended(tree[q], "cancelled") ELSE tree[q]
  BY DEF CancelArrives, Paths
<1> HIDE DEF cut
<1>4. /\ RunOf(tree'[p]) /\ tree'[p].node = tree[p].node /\ tree'[p].stack = tree[p].stack
      /\ tree'[p].inLoop = tree[p].inLoop /\ tree'[p].state = tree[p].state /\ tree'[p].job = tree[p].job
      /\ tree'[p].coro = "cancelled"
      /\ tree'[p].mark = [i \in 1..tree[p].node.rows |->
                            IF tree[p].mark[i] = "running" THEN "cut" ELSE tree[p].mark[i]]
  <2> DEFINE m == [i \in DOMAIN tree[p].mark |->
                     IF tree[p].mark[i] = "running" THEN "cut" ELSE tree[p].mark[i]]
  <2>1. tree'[p] = [tree[p] EXCEPT !.coro = "cancelled", !.mark = m]
    BY <1>1, <1>3 DEF RunOf
  <2>2. m \in [1..tree[p].node.rows -> ItemMarks] /\ DOMAIN tree[p].mark = 1..tree[p].node.rows
    BY <1>1 DEF RunOf, ItemMarks
  <2>3. m = [i \in 1..tree[p].node.rows |->
                            IF tree[p].mark[i] = "running" THEN "cut" ELSE tree[p].mark[i]]
    BY <2>2
  <2> HIDE DEF m
  <2>4. m \in MarkLists
    BY <1>1, <2>2 DEF MarkLists
  <2> QED  BY <1>1, <2>1, <2>2, <2>3, <2>4 DEF RunOf, Coros
<1>5. ASSUME NEW q \in cut, q \in Paths
      PROVE  /\ RunOf(tree'[q]) /\ tree'[q].node = tree[q].node /\ tree'[q].stack = tree[q].stack
             /\ tree'[q].inLoop = tree[q].inLoop /\ tree'[q].mark = tree[q].mark
             /\ tree'[q].coro = tree[q].coro /\ tree'[q].state = "cancelled"
             /\ tree'[q].job = IF tree[q].job = "queued" THEN "dropped" ELSE tree[q].job
  <2>1. RunOf(tree[q]) /\ "cancelled" \in States /\ tree'[q] = Ended(tree[q], "cancelled")
    BY <1>1, <1>2, <1>3, <1>5 DEF RunsTyped, States
  <2> QED  BY <2>1, EndedRun
<1>6. \A q \in Paths : q # p /\ q \notin cut => tree'[q] = tree[q]
  BY <1>3
<1>7. \A q \in Paths :
        /\ RunOf(tree'[q]) /\ tree'[q].node = tree[q].node /\ tree'[q].stack = tree[q].stack
        /\ tree'[q].inLoop = tree[q].inLoop /\ DOMAIN tree'[q].mark = DOMAIN tree[q].mark
  <2>1. \A q \in Paths : RunOf(tree[q]) /\ DOMAIN tree[q].mark = 1..tree[q].node.rows
    BY <1>1, RunFields DEF RunsTyped
  <2>2. DOMAIN tree'[p].mark = 1..tree[p].node.rows
    BY <1>4
  <2> QED  BY <1>4, <1>5, <1>6, <2>1, <2>2
<1>8. \A q \in Paths : tree'[q].state = IF q \in cut THEN "cancelled" ELSE tree[q].state
  BY <1>2, <1>4, <1>5, <1>6
<1>9. \A q \in Paths : Over(q)' <=> Over(q) \/ q \in cut
  BY <1>8 DEF Over
<1>10. RunsTyped'
  BY <1>1, <1>3, <1>7 DEF RunsTyped
<1>11. Stacked'
  BY <1>1, <1>3, <1>7, StackedKept
<1>12. Queued'
  <2>1. \A q \in Paths :
          /\ tree'[q].job = "queued" => tree[q].job = "queued"
          /\ tree[q].job \in {"queued", "dropped"} => tree'[q].job \in {"queued", "dropped"}
          /\ tree'[q].coro # "none" => tree[q].coro # "none"
    BY <1>3, <1>4, <1>5, <1>6
  <2> QED  BY <1>1, <1>3, <1>7, <2>1, QueuedKept
<1>13. Jobbed'
  <2> SUFFICES ASSUME NEW q \in Paths PROVE JobFits(tree'[q]) /\ MarksFit(setup, tree'[q])
    BY <1>3 DEF Jobbed
  <2>1. CASE q = p
    <3> DEFINE run == tree'[p]
    <3>1. /\ BegunIn(run) = BegunIn(tree[p]) /\ MarkedIn(run, "running") = {}
          /\ MarkedIn(run, "failed") = MarkedIn(tree[p], "failed")
          /\ LimitOf(setup, run) = LimitOf(setup, tree[p])
      BY <1>4 DEF BegunIn, MarkedIn, LimitOf
    <3>2. AbortsIn(setup, run) <=> AbortsIn(setup, tree[p])
      BY <1>4, <3>1 DEF AbortsIn
    <3>3. /\ Cardinality(MarkedIn(run, "running")) <= LimitOf(setup, run)
          /\ AbortsIn(setup, run) =>
               Cardinality(MarkedIn(run, "running") \union MarkedIn(run, "failed")) <= LimitOf(setup, run)
      <4>1. LimitOf(setup, run) \in Nat \ {0}
        BY <1>1, SetupLimit
      <4>2. Cardinality({}) = 0
        BY FS_EmptySet
      <4>3. MarkedIn(tree[p], "running") \union MarkedIn(tree[p], "failed") \in SUBSET (1..tree[p].node.rows)
        BY DEF MarkedIn
      <4> DEFINE F == MarkedIn(tree[p], "failed")
                 RF == MarkedIn(tree[p], "running") \union F
                 L == LimitOf(setup, run)
      <4>4. IsFiniteSet(RF) /\ F \subseteq RF
        BY <1>1, <4>3, RunFields
      <4>5. Cardinality(F) <= Cardinality(RF) /\ Cardinality(F) \in Nat /\ Cardinality(RF) \in Nat
        BY <4>4, FS_Subset, FS_CardinalityType
      <4>6. AbortsIn(setup, run) => Cardinality(RF) <= L
        BY <1>1, <3>1, <3>2 DEF MarksFit
      <4>7. MarkedIn(run, "running") \union MarkedIn(run, "failed") = F
        BY <3>1
      <4> HIDE DEF F, RF, L
      <4>8. AbortsIn(setup, run) => Cardinality(F) <= L
        BY <4>1, <4>5, <4>6 DEF L
      <4> QED  BY <3>1, <4>1, <4>2, <4>7, <4>8 DEF L
    <3> HIDE DEF run
    <3>4. MarksFit(setup, run)
      BY <1>1, <1>3, <1>4, <3>1, <3>2, <3>3 DEF MarksFit, run
    <3>5. JobFits(run)
      BY <1>1, <1>3, <1>4 DEF JobFits, run
    <3> QED  BY <2>1, <3>4, <3>5 DEF run
  <2>2. CASE q \in cut
    <3>1. JobFits(tree[q]) /\ MarksFit(setup, tree[q])
      BY <1>1 DEF Jobbed
    <3>2. JobFits(tree'[q])
      BY <1>5, <2>2, <3>1 DEF JobFits
    <3>3. MarksFit(setup, tree'[q])
      BY <1>5, <2>2, <3>1, MarksFitStill
    <3> QED  BY <3>2, <3>3
  <2>3. CASE q # p /\ q \notin cut
    BY <1>1, <1>6, <2>3 DEF Jobbed
  <2> QED  BY <2>1, <2>2, <2>3
<1>14. Linked'
  <2>1. ASSUME NEW q \in Paths \ {<<>>}
        PROVE  /\ Item(q) \in DOMAIN tree'[Parent(q)].mark
               /\ tree'[q].inLoop = (tree'[Parent(q)].node.op \in Loops)
    <3>1. Parent(q) \in Paths
      BY <1>1, TreePaths
    <3>2. Item(q) \in DOMAIN tree[Parent(q)].mark /\ tree[q].inLoop = (tree[Parent(q)].node.op \in Loops)
      BY <1>1 DEF Linked
    <3> QED  BY <1>7, <3>1, <3>2
  <2>2. ASSUME NEW q \in Paths, NEW i \in DOMAIN tree'[q].mark
        PROVE  /\ tree'[q].mark[i] = "running" <=> Append(q, i) \in Paths /\ ~Over(Append(q, i))'
               /\ tree'[q].mark[i] = "idle" => Append(q, i) \notin Paths
               /\ tree'[q].mark[i] = "ok" => Append(q, i) \in Paths /\ tree'[Append(q, i)].state = "completed"
    <3> DEFINE c == Append(q, i)
    <3>1. i \in DOMAIN tree[q].mark
      BY <1>7
    <3>2. /\ tree[q].mark[i] = "running" <=> c \in Paths /\ ~Over(c)
          /\ tree[q].mark[i] = "idle" => c \notin Paths
          /\ tree[q].mark[i] = "ok" => c \in Paths /\ tree[c].state = "completed"
      BY <1>1, <3>1 DEF Linked
    <3>3. c # <<>> /\ Parent(c) = q
      BY <1>1, <3>1, TreePaths
    <3> HIDE DEF c
    <3>4. c \in Paths => (Over(c)' <=> Over(c) \/ c \in cut) /\ (c \in cut <=> ~Over(c) /\ q = p)
      BY <1>2, <1>9, <3>3
    <3>5. c \in Paths /\ Over(c) => tree'[c].state = tree[c].state
      BY <1>8, <3>4
    <3>6. tree'[q].mark[i] = IF q = p /\ tree[q].mark[i] = "running" THEN "cut" ELSE tree[q].mark[i]
      BY <1>1, <1>4, <1>5, <1>6, <3>1
    <3>7. tree[q].mark[i] = "ok" => Over(c)
      BY <3>2 DEF Over
    <3>8. /\ tree'[q].mark[i] = "running" <=> c \in Paths /\ ~Over(c)'
          /\ tree'[q].mark[i] = "idle" => c \notin Paths
          /\ tree'[q].mark[i] = "ok" => c \in Paths /\ tree'[c].state = "completed"
      BY <3>2, <3>4, <3>5, <3>6, <3>7
    <3> QED  BY <3>8 DEF c
  <2> QED  BY <1>3, <2>1, <2>2 DEF Linked
<1>15. \A q \in Paths \ {p} : (Going(q)' <=> Going(q)) /\ (LetGo(q) => LetGo(q)')
  BY <1>5, <1>6, <1>7, <1>2 DEF Going, LetGo, Over
<1>16. \A q \in cut : q \in Paths => LetGo(q)'
  BY <1>5 DEF LetGo
<1>17. StraysExplained'
  <2> SUFFICES ASSUME NEW x \in Paths, ~Over(x), x \notin cut
               PROVE  /\ x # <<>> => Going(Parent(x))'
                      /\ \A q \in Above(x) : Over(q)' =>
                           \E r \in Above(x) : Len(q) <= Len(r) /\ LetGo(r)'
    BY <1>3, <1>9 DEF StraysExplained
  <2>1. Above(x) \subseteq Paths /\ \A q \in Above(x) : Len(q) \in Nat
    BY <1>1, TreePaths
  <2>2. ASSUME x # <<>> PROVE Going(Parent(x))'
    <3>1. Parent(x) \in Paths /\ Parent(x) # p /\ Going(Parent(x))
      BY <1>1, <1>2, <2>2, TreePaths DEF StraysExplained
    <3> QED  BY <1>15, <3>1
  <2>3. ASSUME p \in Above(x)
        PROVE  \E r \in Above(x) : Len(p) <= Len(r) /\ LetGo(r)'
    <3>1. PICK c \in Paths :
            /\ c # <<>> /\ Parent(c) = p /\ Len(c) = Len(p) + 1 /\ (c = x \/ c \in Above(x))
            /\ \/ ~Over(c)
               \/ Over(c) /\ \E r \in Above(x) : Len(c) <= Len(r) /\ LetGo(r)
      BY <2>3, NextRun
    <3>2. Len(p) \in Nat /\ Len(p) <= Len(c)
      BY <2>1, <2>3, <3>1
    <3>3. CASE ~Over(c)
      <4>1. c \in cut /\ c \in Above(x)
        BY <1>2, <3>1, <3>3
      <4> QED  BY <1>16, <3>1, <3>2, <4>1
    <3>4. ASSUME NEW r \in Above(x), Len(c) <= Len(r), LetGo(r)
          PROVE  Len(p) <= Len(r) /\ LetGo(r)'
      <4>1. Len(r) \in Nat /\ Len(p) <= Len(r) /\ Len(r) # Len(p)
        BY <2>1, <3>1, <3>2, <3>4
      <4> QED  BY <1>15, <2>1, <3>4, <4>1
    <3> QED  BY <3>1, <3>3, <3>4
  <2>4. ASSUME NEW q \in Above(x), Over(q)
        PROVE  \E r \in Above(x) : Len(q) <= Len(r) /\ LetGo(r)'
    <3>1. PICK r \in Above(x) : Len(q) <= Len(r) /\ LetGo(r)
      BY <1>1, <2>4 DEF StraysExplained
    <3>2. CASE r # p
      BY <1>15, <2>1, <3>1, <3>2
    <3>3. CASE r = p
      <4>1. PICK s \in Above(x) : Len(p) <= Len(s) /\ LetGo(s)'
        BY <2>3, <3>3
      <4>2. Len(q) <= Len(s)
        BY <2>1, <3>1, <3>3, <4>1
      <4> QED  BY <4>1, <4>2
    <3> QED  BY <3>2, <3>3
  <2>5. ASSUME NEW q \in Above(x), q \in cut
        PROVE  \E r \in Above(x) : Len(q) <= Len(r) /\ LetGo(r)'
    BY <1>16, <2>1, <2>5
  <2> QED  BY <1>9, <2>1, <2>2, <2>4, <2>5
<1> QED  BY <1>10, <1>11, <1>12, <1>13, <1>14, <1>17 DEF RunsInv


-----------------------------------------------------------------------------
(* An item starts a run *)

\* The run an item starts is one that has not done anything.
LEMMA ChildRun ==
    ASSUME RunsInv, NEW p \in Paths, tree[p].coro # "none", Allowed(tree[p])
    PROVE  LET run == Child(tree[p])
           IN  /\ RunOf(run) /\ JobFits(run) /\ MarksFit(setup, run)
               /\ run.state = "running" /\ run.job = "queued" /\ run.coro = "none"
               /\ run.stack = Chain(tree[p]) /\ run.inLoop = (tree[p].node.op \in Loops)
               /\ \A j \in DOMAIN run.mark : run.mark[j] = "idle"
<1>1. RunsTyped /\ setup \in Setups /\ RunOf(tree[p]) /\ JobFits(tree[p])
  BY DEF RunsInv, Jobbed, RunsTyped
<1>2. /\ tree[p].node.op \in {"call", "loop", "inline"}
      /\ tree[p].node.op \in {"call", "loop"} => tree[p].node.to \in Ids
      /\ tree[p].node.op = "inline" => tree[p].node.to \in Ids \union {None}
  BY <1>1, RunFields DEF JobFits
<1> DEFINE b == Body(tree[p].node)
           s == Chain(tree[p])
           l == (tree[p].node.op \in Loops)
           m == [j \in 1..b.rows |-> "idle"]
           run == Run(b, s, l)
<1>3. b \in Node
  BY <1>1, <1>2, SetupLimit DEF Body, Node
<1>4. s \in Seq(Ids) /\ l \in BOOLEAN
  BY <1>1, <1>2 DEF Chain, RunOf, Loops
<1> HIDE DEF b, s, l
<1>5. b.rows \in Nat
  BY <1>3, SizesAssumption DEF Node, Leaf, Call
<1>6. m \in [1..b.rows -> ItemMarks] /\ m \in MarkLists
  BY <1>5 DEF ItemMarks, MarkLists
<1>7. /\ RunOf(run) /\ run.state = "running" /\ run.job = "queued" /\ run.coro = "none"
      /\ run.node = b /\ run.stack = s /\ run.inLoop = l /\ run.mark = m
  BY <1>3, <1>4, <1>6 DEF Run, RunOf, States, Jobs, Coros
<1> HIDE DEF run
<1>8. JobFits(run)
  BY <1>7 DEF JobFits
<1>9. MarksFit(setup, run)
  <2>1. BegunIn(run) = {} /\ MarkedIn(run, "running") = {} /\ MarkedIn(run, "cut") = {} /\ MarkedIn(run, "failed") = {}
    BY <1>7 DEF BegunIn, MarkedIn
  <2>2. 0 \in 0..run.node.rows /\ 1..0 = {}
    BY <1>5, <1>7
  <2>3. LimitOf(setup, run) \in Nat \ {0} /\ Cardinality({}) = 0
    BY <1>1, SetupLimit, FS_EmptySet
  <2>4. 0 <= LimitOf(setup, run) /\ ~AbortsIn(setup, run)
    BY <2>1, <2>3 DEF AbortsIn
  <2> QED  BY <1>7, <2>1, <2>2, <2>3, <2>4 DEF MarksFit
<1> QED  BY <1>7, <1>8, <1>9 DEF run, b, s, l, Child

LEMMA StartsItemStep ==
    ASSUME RunsInv, NEW p \in Paths, NEW i \in DOMAIN tree[p].mark, StartsItem(p, i)
    PROVE  RunsInv'
<1> DEFINE c == Append(p, i)
<1>1. /\ RunsTyped /\ Linked /\ Jobbed /\ Queued /\ Stacked /\ StraysExplained
      /\ setup \in Setups /\ RunOf(tree[p]) /\ JobFits(tree[p]) /\ MarksFit(setup, tree[p])
  BY DEF RunsInv, Jobbed, RunsTyped
<1>2. /\ tree[p].coro \in {"going", "cancelling"} /\ ~AbortsIn(setup, tree[p])
      /\ i \in 1..tree[p].node.rows /\ tree[p].mark[i] = "idle"
      /\ Cardinality(MarkedIn(tree[p], "running")) < LimitOf(setup, tree[p])
      /\ \A j \in 1..tree[p].node.rows : j < i => tree[p].mark[j] # "idle"
      /\ c \notin Paths
  BY TurnOf DEF StartsItem
<1>3. /\ p \in Seq(Nat) /\ Len(p) \in Nat /\ i \in Nat /\ c \in Seq(Nat) /\ c # <<>> /\ Len(c) = Len(p) + 1
      /\ Parent(c) = p /\ Item(c) = i /\ Above(c) = Above(p) \union {p} /\ Above(p) \subseteq Paths
  BY <1>1, TreePaths, ChildPath
<1>4. /\ setup' = setup /\ queue' = Append(queue, c) /\ Paths' = Paths \union {c}
      /\ tree'[c] = Child(tree[p]) /\ tree'[p] = [tree[p] EXCEPT !.mark[i] = "running"]
      /\ \A q \in Paths \ {p} : tree'[q] = tree[q]
  BY <1>2 DEF StartsItem, Paths
<1>5. \A q \in Paths, j \in Nat : Append(q, j) = c => q = p /\ j = i
  <2>1. ASSUME NEW q \in Paths, NEW j \in Nat, Append(q, j) = c PROVE q = p /\ j = i
    <3>1. q \in Seq(Nat)
      BY <1>1 DEF RunsTyped
    <3>2. Parent(Append(q, j)) = q /\ Item(Append(q, j)) = j
      BY <3>1, ChildPath
    <3> QED  BY <1>3, <2>1, <3>2
  <2> QED  BY <2>1
<1>6. \A j \in Nat : Append(c, j) \notin Paths \union {c}
  <2> SUFFICES ASSUME NEW j \in Nat PROVE Append(c, j) \notin Paths \union {c}
    OBVIOUS
  <2>1. LET d == Append(c, j) IN d # <<>> /\ Len(d) = Len(c) + 1 /\ Parent(d) = c
    BY <1>3, ChildPath
  <2>2. Append(c, j) # c
    BY <1>3, <2>1
  <2>3. Append(c, j) \in Paths => Parent(Append(c, j)) \in Paths
    BY <1>1, <2>1, TreePaths
  <2> QED  BY <1>2, <2>1, <2>2, <2>3
<1> HIDE DEF c
<1>7. /\ RunOf(tree'[p]) /\ tree'[p].node = tree[p].node /\ tree'[p].stack = tree[p].stack
      /\ tree'[p].inLoop = tree[p].inLoop /\ tree'[p].state = tree[p].state /\ tree'[p].job = tree[p].job
      /\ tree'[p].coro = tree[p].coro /\ tree'[p].mark = [tree[p].mark EXCEPT ![i] = "running"]
  <2>1. [tree[p].mark EXCEPT ![i] = "running"] \in [1..tree[p].node.rows -> ItemMarks]
    BY <1>1, <1>2 DEF RunOf, ItemMarks
  <2>2. [tree[p].mark EXCEPT ![i] = "running"] \in MarkLists
    BY <1>1, <2>1, RunFields DEF MarkLists
  <2> QED  BY <1>1, <1>4, <2>1, <2>2 DEF RunOf
<1>8. /\ RunOf(tree'[c]) /\ JobFits(tree'[c]) /\ MarksFit(setup, tree'[c])
      /\ tree'[c].state = "running" /\ tree'[c].job = "queued" /\ tree'[c].coro = "none"
      /\ tree'[c].stack = Chain(tree[p]) /\ tree'[c].inLoop = (tree[p].node.op \in Loops)
      /\ \A j \in DOMAIN tree'[c].mark : tree'[c].mark[j] = "idle"
  <2>1. tree[p].coro # "none" /\ Allowed(tree[p])
    BY <1>2 DEF StartsItem
  <2> DEFINE run == Child(tree[p])
  <2>2. /\ RunOf(run) /\ JobFits(run) /\ MarksFit(setup, run)
        /\ run.state = "running" /\ run.job = "queued" /\ run.coro = "none"
        /\ run.stack = Chain(tree[p]) /\ run.inLoop = (tree[p].node.op \in Loops)
        /\ \A j \in DOMAIN run.mark : run.mark[j] = "idle"
    BY <2>1, ChildRun
  <2>3. tree'[c] = run
    BY <1>4
  <2> HIDE DEF run
  <2> QED  BY <2>2, <2>3
<1>9. \A q \in Paths :
        /\ RunOf(tree'[q]) /\ tree'[q].node = tree[q].node /\ tree'[q].stack = tree[q].stack
        /\ tree'[q].inLoop = tree[q].inLoop /\ tree'[q].state = tree[q].state /\ tree'[q].job = tree[q].job
        /\ tree'[q].coro = tree[q].coro /\ DOMAIN tree'[q].mark = DOMAIN tree[q].mark
        /\ \A j \in DOMAIN tree[q].mark :
             tree'[q].mark[j] = IF q = p /\ j = i THEN "running" ELSE tree[q].mark[j]
  <2>1. \A q \in Paths : RunOf(tree[q])
    BY <1>1 DEF RunsTyped
  <2>2. /\ DOMAIN tree'[p].mark = DOMAIN tree[p].mark
        /\ \A j \in DOMAIN tree[p].mark : tree'[p].mark[j] = IF j = i THEN "running" ELSE tree[p].mark[j]
    BY <1>1, <1>7 DEF RunOf
  <2>3. \A q \in Paths \ {p} : tree'[q] = tree[q]
    BY <1>4
  <2> QED  BY <1>7, <2>1, <2>2, <2>3
<1>10. RunsTyped'
  BY <1>1, <1>3, <1>4, <1>8, <1>9 DEF RunsTyped
<1>11. Jobbed'
  <2>1. JobFits(tree'[p])
    BY <1>1, <1>7 DEF JobFits
  <2>2. MarksFit(setup, tree'[p])
    BY <1>1, <1>2, <1>7, BegunMarksFit
  <2>3. \A q \in Paths \ {p} : JobFits(tree'[q]) /\ MarksFit(setup, tree'[q])
    BY <1>1, <1>4 DEF Jobbed
  <2> QED  BY <1>4, <1>8, <2>1, <2>2, <2>3 DEF Jobbed
<1>12. \A q \in Paths : Over(q)' <=> Over(q)
  BY <1>9 DEF Over
<1>13. ~Over(c)'
  BY <1>8 DEF Over
<1>14. Linked'
  <2>1. ASSUME NEW q \in Paths' \ {<<>>}
        PROVE  /\ Item(q) \in DOMAIN tree'[Parent(q)].mark
               /\ tree'[q].inLoop = (tree'[Parent(q)].node.op \in Loops)
    <3>1. CASE q = c
      BY <1>3, <1>8, <1>9, <3>1
    <3>2. CASE q \in Paths
      <4>1. Parent(q) \in Paths
        BY <1>1, <3>2, TreePaths
      <4>2. Item(q) \in DOMAIN tree[Parent(q)].mark /\ tree[q].inLoop = (tree[Parent(q)].node.op \in Loops)
        BY <1>1, <3>2 DEF Linked
      <4> QED  BY <1>9, <3>2, <4>1, <4>2
    <3> QED  BY <1>4, <3>1, <3>2
  <2>2. ASSUME NEW q \in Paths', NEW j \in DOMAIN tree'[q].mark
        PROVE  /\ tree'[q].mark[j] = "running" <=> Append(q, j) \in Paths' /\ ~Over(Append(q, j))'
               /\ tree'[q].mark[j] = "idle" => Append(q, j) \notin Paths'
               /\ tree'[q].mark[j] = "ok" => Append(q, j) \in Paths' /\ tree'[Append(q, j)].state = "completed"
    <3>1. j \in Nat
      <4>1. RunOf(tree'[q])
        BY <1>4, <1>8, <1>9
      <4>2. DOMAIN tree'[q].mark = 1..tree'[q].node.rows /\ tree'[q].node.rows \in Nat
        BY <4>1, RunFields
      <4> QED  BY <4>2
    <3>2. CASE q = c
      BY <1>4, <1>6, <1>8, <3>1, <3>2
    <3>3. CASE q = p /\ j = i
      <4>1. Append(q, j) = c
        BY <3>3 DEF c
      <4>2. tree'[q].mark[j] = "running"
        BY <1>9, <3>3
      <4> QED  BY <1>4, <1>13, <4>1, <4>2
    <3>4. CASE q \in Paths /\ ~(q = p /\ j = i)
      <4> DEFINE d == Append(q, j)
      <4>1. d # c
        BY <1>5, <3>1, <3>4
      <4>2. j \in DOMAIN tree[q].mark /\ tree'[q].mark[j] = tree[q].mark[j]
        BY <1>9, <3>4
      <4>3. /\ tree[q].mark[j] = "running" <=> d \in Paths /\ ~Over(d)
            /\ tree[q].mark[j] = "idle" => d \notin Paths
            /\ tree[q].mark[j] = "ok" => d \in Paths /\ tree[d].state = "completed"
        BY <1>1, <3>4, <4>2 DEF Linked
      <4> HIDE DEF d
      <4>4. /\ tree'[q].mark[j] = "running" <=> d \in Paths' /\ ~Over(d)'
            /\ tree'[q].mark[j] = "idle" => d \notin Paths'
            /\ tree'[q].mark[j] = "ok" => d \in Paths' /\ tree'[d].state = "completed"
        BY <1>4, <1>9, <1>12, <4>1, <4>2, <4>3
      <4> QED  BY <4>4 DEF d
    <3> QED  BY <1>4, <3>2, <3>3, <3>4
  <2> QED  BY <2>1, <2>2 DEF Linked
<1>15. Queued'
  <2> DEFINE n == Len(queue)
  <2>1. n \in Nat /\ DOMAIN queue = 1..n /\ (\A k \in 1..n : queue[k] \in Paths) /\ Range(queue) = {queue[k] : k \in 1..n}
    BY <1>1, LenProperties, RangeEquality, ElementOfSeq DEF Queued
  <2>2. queue \in Seq(Paths') /\ c \in Paths'
    <3>1. queue \in Seq(Paths \union {c})
      BY <1>1 DEF Queued
    <3> QED  BY <1>4, <3>1
  <2> DEFINE s == Append(queue, c)
  <2>3. /\ s \in Seq(Paths') /\ Len(s) = n + 1 /\ s[n + 1] = c
        /\ \A k \in 1..n : s[k] = queue[k]
    BY <2>2, AppendProperties
  <2>4. DOMAIN s = 1..(n + 1) /\ Range(s) = {s[k] : k \in 1..(n + 1)}
    BY <2>3, LenProperties, RangeEquality
  <2>5. queue' = s
    BY <1>4
  <2> HIDE DEF s
  <2>6. 1..(n + 1) = (1..n) \union {n + 1}
    BY <2>1
  <2>7. Range(s) = Range(queue) \union {c}
    BY <2>1, <2>3, <2>4, <2>6
  <2>8. IsInjective(s)
    <3>1. ASSUME NEW k \in 1..(n + 1), NEW l \in 1..(n + 1), s[k] = s[l] PROVE k = l
      <4>1. CASE k \in 1..n /\ l \in 1..n
        BY <1>1, <2>1, <2>3, <3>1, <4>1 DEF Queued, IsInjective
      <4>2. CASE k = n + 1 \/ l = n + 1
        BY <1>2, <2>1, <2>3, <2>6, <3>1, <4>2
      <4> QED  BY <2>6, <4>1, <4>2
    <3> QED  BY <2>4, <3>1 DEF IsInjective
  <2>9. {q \in Paths' : tree'[q].job = "queued"} \subseteq Range(s)
    BY <1>1, <1>4, <1>9, <2>7 DEF Queued
  <2>10. Range(s) \subseteq {q \in Paths' : tree'[q].job \in {"queued", "dropped"}}
    BY <1>1, <1>4, <1>8, <1>9, <2>7 DEF Queued
  <2>11. \A q \in Paths' : tree'[q].coro # "none" /\ tree'[q].node.op \in Loops => ~tree'[q].inLoop
    BY <1>1, <1>4, <1>8, <1>9 DEF Queued
  <2> QED  BY <2>3, <2>5, <2>8, <2>9, <2>10, <2>11 DEF Queued
<1>16. Stacked'
  <2>1. \A q \in Paths : Callee(q)' = Callee(q) /\ (Published(q)' <=> Published(q))
    BY <1>1, <1>9, TreePaths DEF Callee, Published
  <2>2. \A q \in Paths : ChainOf(q)' = ChainOf(q) /\ ChainOf(q) \subseteq Paths
    BY <1>1, <2>1 DEF ChainOf, RunsTyped
  <2>3. ASSUME NEW q \in Paths
        PROVE  /\ Range(tree'[q].stack) = {Callee(r)' : r \in ChainOf(q)'}
               /\ IsFiniteSet(ChainOf(q)') /\ Cardinality(ChainOf(q)') = Len(tree'[q].stack)
               /\ \A r, t \in ChainOf(q)' : r # t => Callee(r)' # Callee(t)'
               /\ Len(tree'[q].stack) <= MaxDepth
    <3>1. /\ Range(tree[q].stack) = {Callee(r) : r \in ChainOf(q)}
          /\ IsFiniteSet(ChainOf(q)) /\ Cardinality(ChainOf(q)) = Len(tree[q].stack)
          /\ \A r, t \in ChainOf(q) : r # t => Callee(r) # Callee(t)
          /\ Len(tree[q].stack) <= MaxDepth
      BY <1>1 DEF Stacked
    <3>2. tree'[q].stack = tree[q].stack /\ ChainOf(q)' = ChainOf(q)
          /\ \A r \in ChainOf(q) : Callee(r)' = Callee(r)
      BY <1>9, <2>1, <2>2
    <3> QED  BY <3>1, <3>2
  <2> DEFINE K == ChainOf(p)
             s == tree[p].stack
             w == tree[p].node.to
  <2>4. /\ Range(s) = {Callee(r) : r \in K} /\ IsFiniteSet(K) /\ Cardinality(K) = Len(s)
        /\ (\A r, t \in K : r # t => Callee(r) # Callee(t)) /\ K \subseteq Paths
        /\ (\A r \in K : Callee(r)' = Callee(r)) /\ s \in Seq(Ids) /\ Len(s) \in Nat
    BY <1>1, <2>1, <2>2, LenProperties DEF Stacked, RunOf
  <2>5. (Published(c)' <=> tree[p].node.op # "inline") /\ Callee(c)' = w
    BY <1>3, <1>9 DEF Published, Callee
  <2>6. ChainOf(c)' = K \union (IF tree[p].node.op # "inline" THEN {c} ELSE {})
    <3>1. ChainOf(c)' = {q \in Above(c) \union {c} : Published(q)'}
      BY DEF ChainOf
    <3>2. K = {q \in Above(p) \union {p} : Published(q)'}
      BY <1>3, <2>1 DEF ChainOf
    <3> QED  BY <1>3, <2>5, <3>1, <3>2
  <2>7. (tree[p].node.op # "inline" => w \notin Range(s)) /\ Len(s) < MaxDepth
    BY DEF StartsItem, Allowed
  <2>8. /\ Range(tree'[c].stack) = {Callee(r)' : r \in ChainOf(c)'}
        /\ IsFiniteSet(ChainOf(c)') /\ Cardinality(ChainOf(c)') = Len(tree'[c].stack)
        /\ \A r, t \in ChainOf(c)' : r # t => Callee(r)' # Callee(t)'
        /\ Len(tree'[c].stack) <= MaxDepth
    <3>1. CASE tree[p].node.op = "inline"
      <4>1. tree'[c].stack = s /\ ChainOf(c)' = K
        BY <1>8, <2>6, <3>1 DEF Chain
      <4>2. Len(s) <= MaxDepth
        BY <2>4, <2>7, SizesAssumption
      <4> QED  BY <2>4, <4>1, <4>2
    <3>2. CASE tree[p].node.op # "inline"
      <4>1. tree'[c].stack = Append(s, w) /\ ChainOf(c)' = K \union {c} /\ c \notin K
        BY <1>2, <1>8, <2>4, <2>6, <3>2 DEF Chain
      <4>2. w \in Ids
        BY <1>1, <1>2, <3>2, RunFields DEF JobFits
      <4>3. Range(Append(s, w)) = Range(s) \union {w} /\ Len(Append(s, w)) = Len(s) + 1
        <5> DEFINE a == Append(s, w)
                   n == Len(s)
        <5>1. a \in Seq(Ids) /\ Len(a) = n + 1 /\ a[n + 1] = w /\ \A k \in 1..n : a[k] = s[k]
          BY <2>4, <4>2, AppendProperties
        <5> HIDE DEF a, s, w
        <5>2. Range(s) = {s[k] : k \in 1..n}
          BY <2>4, RangeEquality
        <5>3. Range(a) = {a[k] : k \in 1..Len(a)}
          BY <5>1, RangeEquality
        <5> HIDE DEF n
        <5>4. 1..Len(a) = (1..n) \union {n + 1} /\ n \in Nat
          BY <2>4, <5>1 DEF n
        <5>5. Range(a) = Range(s) \union {w}
          BY <5>1, <5>2, <5>3, <5>4
        <5> QED  BY <5>1, <5>5 DEF a, n, s, w
      <4>4. {Callee(r)' : r \in K \union {c}} = Range(s) \union {w}
        BY <2>4, <2>5
      <4>5. IsFiniteSet(K \union {c}) /\ Cardinality(K \union {c}) = Cardinality(K) + 1
        BY <2>4, <4>1, FS_AddElement
      <4>6. \A r, t \in K \union {c} : r # t => Callee(r)' # Callee(t)'
        BY <2>4, <2>5, <2>7, <3>2
      <4>7. Len(s) + 1 <= MaxDepth
        BY <2>4, <2>7, SizesAssumption
      <4> QED  BY <2>4, <4>1, <4>3, <4>4, <4>5, <4>6, <4>7
    <3> QED  BY <3>1, <3>2
  <2> HIDE DEF K, s, w
  <2> QED  BY <1>4, <2>3, <2>8 DEF Stacked
<1>17. \A q \in Paths : (Going(q)' <=> Going(q)) /\ (LetGo(q)' <=> LetGo(q))
  BY <1>9 DEF Going, LetGo
<1>18. StraysExplained'
  <2>1. ASSUME NEW x \in Paths, ~Over(x)
        PROVE  /\ x # <<>> => Going(Parent(x))'
               /\ \A q \in Above(x) : Over(q)' =>
                    \E r \in Above(x) : Len(q) <= Len(r) /\ LetGo(r)'
    <3>1. Above(x) \subseteq Paths /\ (x # <<>> => Parent(x) \in Paths)
      BY <1>1, TreePaths
    <3> QED  BY <1>1, <1>12, <1>17, <2>1, <3>1 DEF StraysExplained
  <2>2. Going(Parent(c))'
    BY <1>2, <1>3, <1>17 DEF Going
  <2>3. ASSUME NEW q \in Above(c), Over(q)
        PROVE  \E r \in Above(c) : Len(q) <= Len(r) /\ LetGo(r)'
    <3>1. CASE Over(p)
      <4>1. LetGo(p)'
        BY <1>2, <1>17, <3>1, GoingWasLetGo DEF Going
      <4>2. Len(q) <= Len(p)
        <5>1. CASE q = p
          BY <1>3, <5>1
        <5>2. CASE q \in Above(p)
          <6>1. Len(q) \in Nat /\ Len(q) < Len(p)
            BY <1>3, <5>2, AbovePath
          <6> QED  BY <1>3, <6>1
        <5> QED  BY <1>3, <5>1, <5>2
      <4> QED  BY <1>3, <4>1, <4>2
    <3>2. CASE ~Over(p)
      <4>1. q \in Above(p)
        BY <1>3, <2>3, <3>2
      <4>2. PICK r \in Above(p) : Len(q) <= Len(r) /\ LetGo(r)
        BY <1>1, <2>3, <3>2, <4>1 DEF StraysExplained
      <4> QED  BY <1>3, <1>17, <4>2
    <3> QED  BY <3>1, <3>2
  <2>4. Above(c) \subseteq Paths
    BY <1>3
  <2> QED  BY <1>4, <1>12, <1>13, <2>1, <2>2, <2>3, <2>4 DEF StraysExplained
<1> QED  BY <1>10, <1>11, <1>14, <1>15, <1>16, <1>18 DEF RunsInv


-----------------------------------------------------------------------------
(* The theorems *)

LEMMA RunsStart ==
    ASSUME RunsInit
    PROVE  RunsInv
<1> DEFINE b == setup.program[Root]
           st == <<Root>>
           m == [i \in 1..b.rows |-> "idle"]
<1>1. /\ setup \in Setups /\ Paths = {<<>>} /\ queue = <<<<>>>>
      /\ tree[<<>>] = Run(b, st, FALSE)
  BY DEF RunsInit, Paths
<1>2. b \in Node /\ st \in Seq(Ids)
  BY <1>1, SetupLimit, SetupsAssumption
<1> HIDE DEF b
<1>3. b.rows \in Nat
  BY <1>2, SizesAssumption DEF Node, Leaf, Call
<1>4. m \in [1..b.rows -> ItemMarks] /\ m \in MarkLists
  BY <1>3 DEF ItemMarks, MarkLists
<1> DEFINE run == tree[<<>>]
<1>5. /\ RunOf(run) /\ run.state = "running" /\ run.job = "queued" /\ run.coro = "none"
      /\ run.node = b /\ run.stack = st /\ run.inLoop = FALSE
      /\ run.mark = m /\ DOMAIN run.mark = 1..b.rows
  BY <1>1, <1>2, <1>4 DEF Run, RunOf, States, Jobs, Coros
<1>6. <<>> \in Seq(Nat) /\ Len(<<>>) = 0 /\ Above(<<>>) = {}
  <2>1. <<>> \in Seq(Nat) /\ Len(<<>>) = 0
    BY EmptySeq
  <2>2. 0..(0 - 1) = {}
    OBVIOUS
  <2> QED  BY <2>1, <2>2 DEF Above
<1> HIDE DEF run
<1>7. RunsTyped
  BY <1>1, <1>5, <1>6 DEF RunsTyped, run
<1>8. Linked
  <2>1. ASSUME NEW i \in DOMAIN run.mark
        PROVE  run.mark[i] = "idle" /\ Append(<<>>, i) # <<>>
    <3>1. i \in Nat
      BY <1>3, <1>5, <2>1
    <3>2. LET c == Append(<<>>, i) IN c # <<>>
      BY <1>6, <3>1, ChildPath
    <3> QED  BY <1>5, <2>1, <3>2
  <2> QED  BY <1>1, <2>1 DEF Linked, run
<1>9. Jobbed
  <2>1. JobFits(run)
    BY <1>5 DEF JobFits
  <2>2. BegunIn(run) = {} /\ MarkedIn(run, "running") = {} /\ MarkedIn(run, "cut") = {} /\ MarkedIn(run, "failed") = {}
    BY <1>5 DEF BegunIn, MarkedIn
  <2>3. 0 \in 0..run.node.rows /\ 1..0 = {}
    BY <1>3, <1>5
  <2>4. LimitOf(setup, run) \in Nat \ {0} /\ Cardinality({}) = 0
    BY <1>1, SetupLimit, FS_EmptySet
  <2>5. 0 <= LimitOf(setup, run) /\ ~AbortsIn(setup, run)
    BY <2>2, <2>4 DEF AbortsIn
  <2>6. MarksFit(setup, run)
    BY <1>5, <2>2, <2>3, <2>4, <2>5 DEF MarksFit
  <2> QED  BY <1>1, <2>1, <2>6 DEF Jobbed, run
<1>10. Queued
  <2>1. /\ queue \in Seq(Paths) /\ Len(queue) = 1 /\ queue[1] = <<>> /\ DOMAIN queue = 1..1
    BY <1>1
  <2>2. Range(queue) = {<<>>}
    BY <2>1, RangeEquality
  <2>3. IsInjective(queue)
    BY <2>1 DEF IsInjective
  <2> QED  BY <1>1, <1>5, <2>1, <2>2, <2>3 DEF Queued, run
<1>11. Stacked
  <2>1. ChainOf(<<>>) = {<<>>} /\ Callee(<<>>) = Root
    BY <1>6 DEF ChainOf, Published, Callee
  <2>2. IsFiniteSet({<<>>}) /\ Cardinality({<<>>}) = 1
    BY FS_Singleton
  <2>3. Len(st) = 1 /\ Range(st) = {Root}
    <3>1. Len(st) = 1 /\ st[1] = Root /\ Range(st) = {st[k] : k \in 1..Len(st)}
      BY <1>2, RangeEquality
    <3> QED  BY <3>1
  <2>4. 1 <= MaxDepth
    BY SizesAssumption
  <2>5. {Callee(q) : q \in ChainOf(<<>>)} = {Root}
    BY <2>1
  <2>6. run.stack = st
    BY <1>5
  <2> HIDE DEF st
  <2>7. /\ Range(run.stack) = {Callee(q) : q \in ChainOf(<<>>)}
        /\ IsFiniteSet(ChainOf(<<>>)) /\ Cardinality(ChainOf(<<>>)) = Len(run.stack)
        /\ \A q, r \in ChainOf(<<>>) : q # r => Callee(q) # Callee(r)
        /\ Len(run.stack) <= MaxDepth
    <3>1. \A q, r \in ChainOf(<<>>) : q = r
      BY <2>1
    <3> QED  BY <2>1, <2>2, <2>3, <2>4, <2>5, <2>6, <3>1
  <2> QED  BY <1>1, <2>7 DEF Stacked, run
<1>12. StraysExplained
  BY <1>1, <1>6 DEF StraysExplained
<1> QED  BY <1>7, <1>8, <1>9, <1>10, <1>11, <1>12 DEF RunsInv

LEMMA RunsStutter ==
    ASSUME RunsInv, UNCHANGED runsVars
    PROVE  RunsInv'
<1>1. setup' = setup /\ tree' = tree /\ queue' = queue
  BY DEF runsVars
<1>2. RunsTyped' /\ Linked' /\ Jobbed' /\ Queued'
  BY <1>1 DEF RunsInv, RunsTyped, Linked, Jobbed, Queued, Paths, Over
<1>3. Stacked'
  BY <1>1, StackedKept DEF RunsInv, Paths
<1>4. StraysExplained'
  BY <1>1 DEF RunsInv, StraysExplained, Paths, Over, Going, LetGo
<1> QED  BY <1>2, <1>3, <1>4 DEF RunsInv

LEMMA RunsInductive == RunsSpec => []RunsInv
<1>1. RunsInit => RunsInv
  BY RunsStart
<1>2. RunsInv /\ [RunsNext]_runsVars => RunsInv'
  <2> SUFFICES ASSUME RunsInv, [RunsNext]_runsVars PROVE RunsInv'
    OBVIOUS
  <2>1. CASE TakesThread
    BY <2>1, TakesThreadStep
  <2>2. ASSUME NEW p \in Paths, NEW i \in DOMAIN tree[p].mark, StartsItem(p, i) PROVE RunsInv'
    BY <2>2, StartsItemStep
  <2>3. ASSUME NEW p \in Paths, NEW i \in DOMAIN tree[p].mark, ItemInvalid(p, i) PROVE RunsInv'
    BY <2>3, ItemInvalidStep
  <2>4. ASSUME NEW p \in Paths, CoroEnds(p) PROVE RunsInv'
    BY <2>4, CoroEndsStep
  <2>5. ASSUME NEW p \in Paths, GivesUp(p) PROVE RunsInv'
    BY <2>5, GivesUpStep
  <2>6. ASSUME NEW p \in Paths, CancelArrives(p) PROVE RunsInv'
    BY <2>6, CancelArrivesStep
  <2>7. ASSUME NEW p \in Paths, Finishes(p) PROVE RunsInv'
    BY <2>7, FinishesStep
  <2>8. ASSUME NEW p \in Paths, TimesOut(p) PROVE RunsInv'
    BY <2>8, TimesOutStep
  <2>9. CASE UserCancels
    BY <2>9, UserCancelsStep
  <2>10. ASSUME NEW p \in Paths, LeafReturns(p) PROVE RunsInv'
    BY <2>10, LeafReturnsStep
  <2>11. CASE UNCHANGED runsVars
    BY <2>11, RunsStutter
  <2> QED  BY <2>1, <2>2, <2>3, <2>4, <2>5, <2>6, <2>7, <2>8, <2>9, <2>10, <2>11 DEF RunsNext, Progress
<1> QED  BY <1>1, <1>2, PTL DEF RunsSpec

\* Whatever the workflows, the limits and the clocks, what a loop or a call reports is what
\* its runs did: never more than max_parallelism of them at once, none left when its
\* coroutine ends, each item counted as what became of its run, and after a first failure
\* under fail_fast only those in flight.
THEOREM RunReportsAreExact == RunsSpec => []ReportExact
<1>1. RunsInv => ReportExact
  <2> SUFFICES ASSUME RunsInv PROVE ReportExact
    OBVIOUS
  <2>1. RunsTyped /\ Linked /\ Jobbed /\ Queued
    BY DEF RunsInv
  <2>2. RunsTypeOK
    <3>1. \A p \in Paths : p # <<>> => Parent(p) \in Paths
      BY <2>1, TreePaths
    <3>2. \A p \in Paths : RunOf(tree[p]) /\ DOMAIN tree[p].mark = 1..tree[p].node.rows
      BY <2>1, RunFields DEF RunsTyped
    <3>3. ASSUME NEW p \in Paths
          PROVE  /\ tree[p].node \in Node /\ tree[p].inLoop \in BOOLEAN /\ tree[p].stack \in Seq(Ids)
                 /\ tree[p].state \in States /\ tree[p].job \in Jobs /\ tree[p].coro \in Coros
                 /\ \A i \in DOMAIN tree[p].mark : tree[p].mark[i] \in ItemMarks
      <4>1. RunOf(tree[p]) /\ DOMAIN tree[p].mark = 1..tree[p].node.rows
        BY <3>2
      <4> HIDE DEF RunsInv
      <4> QED  BY <4>1 DEF RunOf
    <3>4. /\ {p \in Paths : tree[p].job = "queued"} \subseteq Range(queue)
          /\ Range(queue) \subseteq {p \in Paths : tree[p].job \in {"queued", "dropped"}}
          /\ IsInjective(queue) /\ setup \in Setups
      BY <2>1 DEF Queued, RunsTyped
    <3> QED  BY <3>1, <3>3, <3>4 DEF RunsTypeOK, States, Jobs, Coros, ItemMarks
  <2> SUFFICES ASSUME NEW p \in Paths
               PROVE  /\ Marked(p, "running") = {i \in DOMAIN tree[p].mark :
                                                   Append(p, i) \in Paths /\ ~Over(Append(p, i))}
                      /\ Cardinality(Running(p)) <= Limit(p)
                      /\ \A i \in Marked(p, "ok") : tree[Append(p, i)].state = "completed"
                      /\ Begun(p) = 1..Cardinality(Begun(p))
                      /\ tree[p].coro \in {"ok", "error"} => Running(p) = {}
                      /\ tree[p].coro = "ok" =>
                           /\ Marked(p, "ok") \union Marked(p, "failed") = DOMAIN tree[p].mark
                           /\ setup.failFast \/ tree[p].node.op = "call" => Marked(p, "failed") = {}
                      /\ tree[p].coro = "error" => Aborted(p)
                      /\ Aborted(p) => Cardinality(Marked(p, "failed")) <= Limit(p)
                      /\ tree[p].state = "completed" => tree[p].coro \in {"none", "ok"}
    BY <2>2 DEF ReportExact
  <2>3. /\ RunOf(tree[p]) /\ JobFits(tree[p]) /\ MarksFit(setup, tree[p])
        /\ setup \in Setups
    BY <2>1 DEF Jobbed, RunsTyped
  <2>4. /\ DOMAIN tree[p].mark = 1..tree[p].node.rows /\ tree[p].node.rows \in Nat
        /\ \A S \in SUBSET (1..tree[p].node.rows) : IsFiniteSet(S)
        /\ tree[p].mark \in [1..tree[p].node.rows -> ItemMarks]
    BY <2>3, RunFields DEF RunOf
  <2>5. /\ \A how : Marked(p, how) = MarkedIn(tree[p], how)
        /\ Running(p) = MarkedIn(tree[p], "running") /\ Begun(p) = BegunIn(tree[p])
        /\ Limit(p) = LimitOf(setup, tree[p]) /\ (Aborted(p) <=> AbortsIn(setup, tree[p]))
    BY <2>4 DEF Marked, MarkedIn, Running, Begun, BegunIn, Limit, LimitOf, Aborted, AbortsIn
  <2>6. Marked(p, "running") = {i \in DOMAIN tree[p].mark : Append(p, i) \in Paths /\ ~Over(Append(p, i))}
    BY <2>1 DEF Linked, Marked
  <2>7. \A i \in Marked(p, "ok") : tree[Append(p, i)].state = "completed"
    BY <2>1 DEF Linked, Marked
  <2>8. Begun(p) = 1..Cardinality(Begun(p))
    <3>1. PICK n \in 0..tree[p].node.rows : Begun(p) = 1..n
      BY <2>3, <2>5 DEF MarksFit
    <3>2. n \in Nat /\ Cardinality(1..n) = n
      <4>1. n \in Nat
        BY <2>4
      <4>2. Cardinality(1..n) = IF 1 > n THEN 0 ELSE n - 1 + 1
        BY <4>1, FS_Interval
      <4>3. (IF 1 > n THEN 0 ELSE n - 1 + 1) = n
        BY <4>1
      <4> QED  BY <4>1, <4>2, <4>3
    <3> QED  BY <3>1, <3>2
  <2>9. ASSUME tree[p].coro = "ok"
        PROVE  /\ Marked(p, "ok") \union Marked(p, "failed") = DOMAIN tree[p].mark
               /\ setup.failFast \/ tree[p].node.op = "call" => Marked(p, "failed") = {}
    <3>1. /\ MarkedIn(tree[p], "running") = {} /\ MarkedIn(tree[p], "cut") = {}
          /\ BegunIn(tree[p]) = 1..tree[p].node.rows /\ ~AbortsIn(setup, tree[p])
      BY <2>3, <2>9 DEF MarksFit
    <3>2. \A i \in 1..tree[p].node.rows : tree[p].mark[i] \in {"ok", "failed"}
      BY <2>4, <3>1 DEF MarkedIn, BegunIn, ItemMarks
    <3>3. Marked(p, "ok") \union Marked(p, "failed") = DOMAIN tree[p].mark
      BY <2>4, <3>2 DEF Marked
    <3>4. setup.failFast \/ tree[p].node.op = "call" => MarkedIn(tree[p], "failed") = {}
      BY <3>1 DEF AbortsIn
    <3> QED  BY <2>5, <3>3, <3>4
  <2>10. ASSUME Aborted(p) PROVE Cardinality(Marked(p, "failed")) <= Limit(p)
    <3> DEFINE F == MarkedIn(tree[p], "failed")
               RF == MarkedIn(tree[p], "running") \union F
               L == LimitOf(setup, tree[p])
    <3>1. IsFiniteSet(RF) /\ F \subseteq RF
      <4>1. RF \in SUBSET (1..tree[p].node.rows)
        BY DEF MarkedIn
      <4> QED  BY <2>4, <4>1
    <3>2. Cardinality(F) <= Cardinality(RF) /\ Cardinality(F) \in Nat /\ Cardinality(RF) \in Nat
      BY <3>1, FS_Subset, FS_CardinalityType
    <3>3. Cardinality(RF) <= L /\ L \in Nat
      BY <2>3, <2>5, <2>10, SetupLimit DEF MarksFit
    <3> HIDE DEF F, RF, L
    <3>4. Cardinality(F) <= L
      BY <3>2, <3>3
    <3> QED  BY <2>5, <3>4 DEF F, L
  <2>11. /\ Cardinality(Running(p)) <= Limit(p)
         /\ tree[p].coro \in {"ok", "error"} => Running(p) = {}
         /\ tree[p].coro = "error" => Aborted(p)
    BY <2>3, <2>5 DEF MarksFit
  <2>12. tree[p].state = "completed" => tree[p].coro \in {"none", "ok"}
    BY <2>3 DEF JobFits
  <2> QED  BY <2>6, <2>7, <2>8, <2>9, <2>10, <2>11, <2>12
<1> QED  BY <1>1, RunsInductive, PTL

\* However workflows call and loop over each other: no chain of runs has a workflow twice
\* or is longer than MaxDepth, and no loop iterates directly in an iteration.
THEOREM ChainsAreBounded == RunsSpec => []ChainsBounded
<1>1. RunsInv => ChainsBounded
  <2> SUFFICES ASSUME RunsInv, NEW p \in Paths
               PROVE  /\ \A q, r \in ChainOf(p) : q # r => Callee(q) # Callee(r)
                      /\ Cardinality(ChainOf(p)) <= MaxDepth
                      /\ p # <<>> /\ tree[p].coro # "none" /\ tree[p].node.op \in Loops
                         => tree[Parent(p)].node.op = "call"
    BY DEF ChainsBounded, ChainOf
  <2>1. RunsTyped /\ Linked /\ Queued /\ Stacked
    BY DEF RunsInv
  <2>2. /\ \A q, r \in ChainOf(p) : q # r => Callee(q) # Callee(r)
        /\ Cardinality(ChainOf(p)) <= MaxDepth
    BY <2>1 DEF Stacked
  <2>3. ASSUME p # <<>>, tree[p].coro # "none", tree[p].node.op \in Loops
        PROVE  tree[Parent(p)].node.op = "call"
    <3> DEFINE y == Parent(p)
    <3>1. y \in Paths /\ RunOf(tree[y]) /\ DOMAIN tree[y].mark = 1..tree[y].node.rows
      BY <2>1, <2>3, TreePaths DEF RunsTyped
    <3>2. Item(p) \in DOMAIN tree[y].mark /\ tree[y].node.op \notin Loops
      BY <2>1, <2>3 DEF Linked, Queued
    <3>3. tree[y].node.op \in {"leaf", "call", "loop", "inline"} /\ (tree[y].node.op = "leaf" => tree[y].node.rows = 0)
      BY <3>1, RunFields
    <3> HIDE DEF y
    <3>4. tree[y].node.op # "leaf"
      BY <3>1, <3>2, <3>3
    <3>5. tree[y].node.op = "call"
      BY <3>2, <3>3, <3>4 DEF Loops
    <3> QED  BY <3>5 DEF y
  <2> QED  BY <2>2, <2>3
<1> QED  BY <1>1, RunsInductive, PTL

\* A run goes on behind an ended ancestor only if, on the way down, one timed out or was
\* cancelled, or a call gave up.
THEOREM StraysAreExplained == RunsSpec => []StraysExplained
<1>1. RunsInv => StraysExplained
  BY DEF RunsInv
<1> QED  BY <1>1, RunsInductive, PTL
=============================================================================
