----------------------------- MODULE AgentThreads -----------------------------
(***************************************************************************)
(* One conversation with the agent: the requests that api/v1/agent.py lets *)
(* in, the runs of the graph they start (services/agent/chat_service.py,   *)
(* services/agent/graph), the rows of agent_approvals, the status of the   *)
(* thread and the job that expires what nobody decided.                    *)
(*                                                                         *)
(* LangGraph is external.  Each run loads the latest checkpoint of the     *)
(* thread, goes on from the node it names with a copy of its own, and      *)
(* saves a checkpoint behind every node; nothing keeps two runs apart.     *)
(* interrupt() suspends a node without an effect on the graph, and a       *)
(* resumed run executes that node from its first line: the k-th interrupt  *)
(* of the node returns the k-th answer, the last of them its own.          *)
(*                                                                         *)
(* A plan is the number of the run that made it and what it asks for.      *)
(***************************************************************************)
EXTENDS Integers, Sequences, FiniteSets

CONSTANTS
    Kinds,          \* the plans considered
    MaxRequests,    \* bounds of the model: in all, and at a time
    MaxActive,
    MaxFaults

ASSUME KindsAssumption == Kinds \subseteq {"chat", "plain", "risky", "build", "riskyBuild"}
ASSUME BoundsAssumption == {MaxRequests, MaxActive, MaxFaults} \subseteq Nat

VARIABLES
    status,         \* agent_threads.status
    approvals,      \* agent_approvals, in the order of their expiry
    saved,          \* the latest checkpoint
    runs,           \* the requests that were let in and what became of them
    faults,
    agreed,         \* history: the plans that a run carrying a yes found in its checkpoint
    effects         \* history: the plans that were executed or drawn, and their row
vars == <<status, approvals, saved, runs, faults, agreed, effects>>

Statuses == {"running", "awaiting_approval", "completed", "failed", "expired", "error"}
Nodes == {"plan", "human_approval", "build_workflow", "execute", "report", "end"}
Places == {"accepted", "node", "asked", "answered", "marked", "draw",
           "signal", "closing", "done", "left"}
NoPlan == <<0, "none">>
AllPlans == {NoPlan} \union ((1..MaxRequests) \X Kinds)

\* what a checkpoint holds: proposed_actions, build_plan, error, approval_id
States == [next : Nodes, plan : AllPlans, build : AllPlans, error : BOOLEAN, approval : Nat]

TypeOK ==
    /\ status \in Statuses
    /\ \A i \in DOMAIN approvals :
         /\ approvals[i].plan \in AllPlans
         /\ approvals[i].status \in {"pending", "approved", "rejected", "expired"}
    /\ saved.state \in States /\ saved.by \in 0..MaxRequests
    /\ \A n \in DOMAIN runs :
         /\ runs[n].asked \in {"message", "yes", "no"} /\ runs[n].at \in Places
         /\ runs[n].state \in States
         /\ runs[n].row \in {0} \union DOMAIN approvals
    /\ faults \in 0..MaxFaults
    /\ agreed \subseteq AllPlans

Blank == [next |-> "end", plan |-> NoPlan, build |-> NoPlan, error |-> FALSE, approval |-> 0]

Init ==
    /\ status = "running"
    /\ approvals = <<>>
    /\ saved = [by |-> 0, answers |-> <<>>, state |-> Blank]
    /\ runs = <<>>
    /\ faults = 0
    /\ agreed = {} /\ effects = {}

-----------------------------------------------------------------------------
Active == {n \in DOMAIN runs : runs[n].at \notin {"done", "left"}}
Pending == {i \in DOMAIN approvals : approvals[i].status = "pending"}
At(n, place) == n \in DOMAIN runs /\ runs[n].at = place
Before(n, node) == At(n, "node") /\ runs[n].state.next = node

Goes(n, place) == runs' = [runs EXCEPT ![n].at = place]

\* Of a run that has ended the model keeps whether it was within a build, and the
\* row of one that was cut off.
Ends(n, place) ==
    runs' = [runs EXCEPT
      ![n].at = place, ![n].answers = <<>>, ![n].base = <<0, "end">>,
      ![n].row = IF place = "left" THEN @ ELSE 0,
      ![n].state = IF @.next = "build_workflow" THEN [Blank EXCEPT !.next = "build_workflow"] ELSE Blank]

\* A node has returned: the run goes on from its own copy, the checkpoint is the latest.
Returns(n, state) ==
    /\ runs' = [runs EXCEPT ![n].state = state, ![n].answers = <<>>, ![n].row = 0,
                            ![n].at = IF state.next = "end" THEN "closing" ELSE "node"]
    /\ saved' = [by |-> n, answers |-> <<>>, state |-> state]

\* the plan that the node before n is about, and what it is
PlanOf(state) == CASE state.next = "human_approval" -> state.plan
                   [] state.next = "build_workflow" -> state.build
                   [] OTHER -> NoPlan
Risky(plan) == plan[2] \in {"risky", "riskyBuild"}

-----------------------------------------------------------------------------
(* The requests *)

Accepts(asked) ==
    /\ Len(runs) < MaxRequests /\ Cardinality(Active) < MaxActive
    /\ runs' = Append(runs, [asked |-> asked, at |-> "accepted", state |-> Blank,
                             base |-> <<0, "end">>, answers |-> <<>>, row |-> 0])

SendMessage ==
    /\ status \notin {"awaiting_approval", "error"}
    /\ Accepts("message")
    /\ UNCHANGED <<status, approvals, saved, faults, agreed, effects>>

\* The row must be one of the thread that is pending: which one, the run is not told.
Decide(asked) ==
    /\ status = "awaiting_approval" /\ Pending # {}
    /\ Accepts(asked)
    /\ UNCHANGED <<status, approvals, saved, faults, agreed, effects>>

\* A message leaves what was suspended behind and keeps the rest of the checkpoint.
EntersTurn(n) ==
    /\ At(n, "accepted") /\ runs[n].asked = "message"
    /\ Returns(n, [saved.state EXCEPT !.next = "plan"])
    /\ UNCHANGED <<status, approvals, faults, agreed, effects>>

Suspends == {"human_approval", "build_workflow"}

Resumes(n) ==
    LET state == saved.state
    IN  /\ At(n, "accepted") /\ runs[n].asked # "message"
        /\ runs' = [runs EXCEPT
             ![n].state = state, ![n].base = <<saved.by, state.next>>,
             ![n].answers = IF state.next \in Suspends THEN Append(saved.answers, runs[n].asked) ELSE <<>>,
             ![n].at = IF state.next = "end" THEN "closing" ELSE "node"]
        /\ agreed' = IF runs[n].asked = "yes" /\ state.next \in Suspends
                     THEN agreed \union {PlanOf(state)} ELSE agreed
        /\ UNCHANGED <<status, approvals, saved, faults, effects>>

-----------------------------------------------------------------------------
(* plan_actions, with the nodes before it *)

AfterPlan(state) ==
    IF state.build # NoPlan THEN "build_workflow"
    ELSE IF state.plan # NoPlan THEN "human_approval" ELSE "report"

\* Only a build request writes build_plan: another one finds the plan of an
\* earlier build and goes to build_workflow with it.  Nothing to do is what chat
\* comes to, or a question back, by which a build request resets build_plan.
Planned(n, kind) ==
    LET state == runs[n].state
    IN  CASE kind = "chat" -> {[state EXCEPT !.plan = NoPlan, !.build = b] : b \in {state.build, NoPlan}}
          [] kind \in {"plain", "risky"} -> {[state EXCEPT !.plan = <<n, kind>>]}
          [] OTHER -> {[state EXCEPT !.plan = NoPlan, !.build = <<n, kind>>]}

Plans(n) ==
    /\ Before(n, "plan")
    /\ \E kind \in Kinds : \E state \in Planned(n, kind) :
         Returns(n, [state EXCEPT !.next = AfterPlan(state)])
    /\ UNCHANGED <<status, approvals, faults, agreed, effects>>

\* guardrails
Refuses(n) ==
    /\ Before(n, "plan")
    /\ Returns(n, [runs[n].state EXCEPT !.next = "report"])
    /\ UNCHANGED <<status, approvals, faults, agreed, effects>>

-----------------------------------------------------------------------------
(* human_approval, and the same request within build_workflow *)

NoApprovalNeeded(n) ==
    /\ Before(n, "human_approval") /\ ~Risky(runs[n].state.plan)
    /\ Returns(n, [runs[n].state EXCEPT !.next = "execute", !.approval = 0])
    /\ UNCHANGED <<status, approvals, faults, agreed, effects>>

\* Executed again, the node asks again: the row of the first time stays as it is.
AsksRow(n) ==
    /\ At(n, "node") /\ runs[n].state.next \in Suspends /\ Risky(PlanOf(runs[n].state))
    /\ approvals' = Append(approvals, [plan |-> PlanOf(runs[n].state), status |-> "pending"])
    /\ runs' = [runs EXCEPT ![n].at = "asked", ![n].row = Len(approvals) + 1]
    /\ UNCHANGED <<status, saved, faults, agreed, effects>>

SetsAwaiting(n) ==
    /\ At(n, "asked")
    /\ status' = "awaiting_approval"
    /\ Goes(n, IF runs[n].answers = <<>> THEN "signal" ELSE "answered")
    /\ UNCHANGED <<approvals, saved, faults, agreed, effects>>

Approved(n) == runs[n].answers[1] = "yes"

Decided(n) ==
    /\ At(n, "answered")
    /\ approvals' = [approvals EXCEPT
         ![runs[n].row].status = IF Approved(n) THEN "approved" ELSE "rejected"]
    /\ Goes(n, "marked")
    /\ UNCHANGED <<status, saved, faults, agreed, effects>>

AfterApproval_Proposed(n) == "execute"      \* mutant: proposed_actions decide
AfterApproval(n) == IF Approved(n) THEN "execute" ELSE "report"

SetsDecision(n) ==
    LET state == runs[n].state
    IN  /\ At(n, "marked")
        /\ status' = IF Approved(n) THEN "running" ELSE "completed"
        /\ CASE state.next = "human_approval" ->
                  Returns(n, [state EXCEPT !.next = AfterApproval(n), !.approval = runs[n].row,
                                           !.error = IF Approved(n) THEN @ ELSE TRUE])
             [] state.next # "human_approval" /\ Approved(n) -> Goes(n, "draw") /\ UNCHANGED saved
             [] OTHER -> Returns(n, [state EXCEPT !.next = "report"])
        /\ UNCHANGED <<approvals, faults, agreed, effects>>

-----------------------------------------------------------------------------
(* build_workflow *)

\* the budget of builds, or of operations
RefusesBuild(n) ==
    /\ Before(n, "build_workflow")
    /\ Returns(n, [runs[n].state EXCEPT !.next = "report"])
    /\ UNCHANGED <<status, approvals, faults, agreed, effects>>

\* The answer to build_ready is one of /approve or /reject, which have no action: a cancel.
Cancelled(n) == Len(runs[n].answers) > (IF Risky(runs[n].state.build) THEN 1 ELSE 0)

\* A session of its own each time; then the node waits for its build, and what it
\* has been told is kept with the checkpoint that it resumed, or the build is
\* cancelled.
Draws(n) ==
    /\ At(n, "draw") \/ (Before(n, "build_workflow") /\ ~Risky(runs[n].state.build))
    /\ effects' = effects \union {[plan |-> runs[n].state.build, row |-> runs[n].row]}
    /\ IF Cancelled(n) THEN Returns(n, [runs[n].state EXCEPT !.next = "report"])
       ELSE /\ Goes(n, "signal")
            /\ saved' = IF runs[n].base = <<saved.by, saved.state.next>>
                        THEN [saved EXCEPT !.answers = runs[n].answers] ELSE saved
    /\ UNCHANGED <<status, approvals, faults, agreed>>

-----------------------------------------------------------------------------
(* execute, report and the end of the stream *)

Executes(n) ==
    /\ Before(n, "execute")
    /\ effects' = effects \union {[plan |-> runs[n].state.plan, row |-> runs[n].state.approval]}
    /\ Returns(n, [runs[n].state EXCEPT !.next = "report"])
    /\ UNCHANGED <<status, approvals, faults, agreed>>

\* error is never reset: a later turn of the thread may report it again
Reports(n) ==
    /\ Before(n, "report")
    /\ \E new \in {"completed", "failed"} :
         /\ new = "failed" => runs[n].state.error
         /\ status' = new
    /\ Returns(n, [runs[n].state EXCEPT !.next = "end"])
    /\ UNCHANGED <<approvals, faults, agreed, effects>>

Closes(n) ==
    /\ At(n, "closing")
    /\ status' = "completed"
    /\ Ends(n, "done")
    /\ UNCHANGED <<approvals, saved, faults, agreed, effects>>

\* the stream hears of an interrupt behind the run that was interrupted
Signals(n) ==
    /\ At(n, "signal")
    /\ status' = "awaiting_approval"
    /\ Ends(n, "done")
    /\ UNCHANGED <<approvals, saved, faults, agreed, effects>>

Step(n) ==
    \/ EntersTurn(n) \/ Resumes(n) \/ Plans(n) \/ Refuses(n)
    \/ NoApprovalNeeded(n) \/ AsksRow(n) \/ SetsAwaiting(n) \/ Decided(n)
    \/ SetsDecision(n) \/ RefusesBuild(n) \/ Draws(n)
    \/ Executes(n) \/ Reports(n) \/ Closes(n) \/ Signals(n)

-----------------------------------------------------------------------------
(* What goes wrong, and the job *)

Fault == faults < MaxFaults /\ faults' = faults + 1

\* an exception within the stream
Fails(n) ==
    /\ n \in Active /\ ~At(n, "accepted")
    /\ Fault
    /\ status' = "error"
    /\ Ends(n, "left")
    /\ UNCHANGED <<approvals, saved, agreed, effects>>

\* The client closes the stream, or the process ends.
Leaves(n) ==
    /\ n \in Active
    /\ Fault
    /\ Ends(n, "left")
    /\ UNCHANGED <<status, approvals, saved, agreed, effects>>

\* Rows 1..k are past their time.  The row of a run under way is not: its hour
\* has just begun.
InHand(i) == \E n \in Active : runs[n].row = i
Overdue_Answered(k) ==       \* mutant: the job looks at threads that wait no more
    {i \in Pending : i <= k /\ ~InHand(i) /\ status # "awaiting_approval"}
Overdue(k) == {i \in Pending : i <= k /\ ~InHand(i)}

Expired_RowsOnly(s) == s     \* mutant: the job forgets the threads
Expired(s) == IF s = "awaiting_approval" THEN "expired" ELSE s

Expires(k) ==
    /\ Overdue(k) # {}
    /\ approvals' = [i \in DOMAIN approvals |->
         IF i \in Overdue(k) THEN [approvals[i] EXCEPT !.status = "expired"] ELSE approvals[i]]
    /\ status' = Expired(status)
    /\ UNCHANGED <<saved, runs, faults, agreed, effects>>

Job == \E k \in DOMAIN approvals : Expires(k)

Advances == \E n \in DOMAIN runs : Step(n)

Next ==
    \/ SendMessage
    \/ Decide("yes") \/ Decide("no")
    \/ Advances
    \/ \E n \in DOMAIN runs : Fails(n) \/ Leaves(n)
    \/ Job

Fairness == WF_vars(Advances) /\ WF_vars(Job)

Spec == Init /\ [][Next]_vars /\ Fairness

-----------------------------------------------------------------------------
(* Properties *)

\* What needs consent is executed, or drawn, only when someone said yes to a
\* checkpoint that held this very plan, and the row that its node has marked is a
\* row of this plan that says approved, for ever after; what needs none has no row.
\* (The audit of a plan names that row, the audit of a build names none.)
ConsentExact ==
    /\ TypeOK
    /\ \A e \in effects :
         IF Risky(e.plan)
         THEN e.plan \in agreed /\ e.row # 0
              /\ approvals[e.row] = [plan |-> e.plan, status |-> "approved"]
         ELSE e.row = 0

\* When no run is under way, a thread that waits has a row that can be decided or
\* will expire; or a run of it was left within a build, or lost between marking
\* its row and setting the status.
Ended == DOMAIN runs \ Active
BuildLeft == \E n \in Ended : runs[n].state.next = "build_workflow"
DecisionLost == \E n \in Ended : At(n, "left") /\ runs[n].row \notin Pending \union {0}
AwaitingExplained ==
    Active = {} /\ status = "awaiting_approval" => Pending # {} \/ BuildLeft \/ DecisionLost

\* Otherwise no thread waits for ever.
WaitsEnd ==
    (status = "awaiting_approval") ~> (status # "awaiting_approval" \/ BuildLeft \/ DecisionLost)
=============================================================================
