-------------------------- MODULE AgentThreadsProofs --------------------------
(***************************************************************************)
(* Consent and waiting in AgentThreads, for any number of requests, of     *)
(* runs at a time and of faults.                                           *)
(***************************************************************************)
EXTENDS AgentThreads, TLAPS

Asks == {"message", "yes", "no"}
RowStatuses == {"pending", "approved", "rejected", "expired"}
Rows == [plan : AllPlans, status : RowStatuses]
Runs == [asked : Asks, at : Places, state : States,
         base : (0..MaxRequests) \X Nodes, answers : Seq(Asks), row : Nat]

Types ==
    /\ status \in Statuses
    /\ approvals \in Seq(Rows)
    /\ saved \in [by : 0..MaxRequests, answers : Seq(Asks), state : States]
    /\ runs \in Seq(Runs) /\ Len(runs) <= MaxRequests
    /\ faults \in 0..MaxFaults
    /\ agreed \subseteq AllPlans
    /\ effects \subseteq [plan : AllPlans, row : Nat]

\* What the place of a run says of its row.
Hand(r) ==
    /\ r.row \in 0..Len(approvals)
    /\ r.at \in {"accepted", "node", "closing", "done"} => r.row = 0
    /\ r.at \in {"asked", "answered", "marked", "draw"} =>
         /\ r.row # 0 /\ r.state.next \in Suspends /\ Risky(PlanOf(r.state))
         /\ approvals[r.row].plan = PlanOf(r.state)
    /\ r.at \in {"asked", "answered"} => approvals[r.row].status = "pending"
    /\ r.at \in {"answered", "marked", "draw"} => r.answers # <<>>
    /\ r.at = "marked" =>
         approvals[r.row].status = IF r.answers[1] = "yes" THEN "approved" ELSE "rejected"
    /\ r.at = "draw" =>
         /\ r.state.next = "build_workflow" /\ r.answers[1] = "yes"
         /\ approvals[r.row].status = "approved"
    /\ r.at = "signal" =>
         \/ r.state.next = "build_workflow"
         \/ r.row # 0 /\ approvals[r.row].status = "pending"

HandsInv == \A n \in DOMAIN runs : Hand(runs[n])
OneHandEach == \A m, n \in DOMAIN runs : m # n /\ runs[m].row # 0 => runs[m].row # runs[n].row

\* An answer that says yes was given to a checkpoint with the plan it decides.
Told(answers, state) ==
    answers # <<>> /\ answers[1] = "yes" /\ state.next \in Suspends => PlanOf(state) \in agreed
ToldInv ==
    /\ Told(saved.answers, saved.state)
    /\ \A n \in DOMAIN runs : Told(runs[n].answers, runs[n].state)

Consented(plan, row) ==
    IF Risky(plan)
    THEN /\ plan \in agreed /\ row \in 1..Len(approvals)
         /\ approvals[row] = [plan |-> plan, status |-> "approved"]
    ELSE row = 0
ToExecute(state) == state.next = "execute" => Consented(state.plan, state.approval)
ExecuteInv == ToExecute(saved.state) /\ \A n \in DOMAIN runs : ToExecute(runs[n].state)
EffectsInv == \A e \in effects : Consented(e.plan, e.row)

\* A run never saves two checkpoints that name the same node, so that one which
\* is still the latest is the one that was loaded.
Rank == [x \in Nodes |-> CASE x = "plan" -> 0
                           [] x \in Suspends -> 1
                           [] x = "execute" -> 2
                           [] x = "report" -> 3
                           [] OTHER -> 4]
Over(n) == runs[n].at \in {"done", "left"}
Behind(b, x) ==
    /\ b \in DOMAIN runs /\ runs[b].at # "accepted"
    /\ Over(b) \/ Rank[runs[b].state.next] >= Rank[x]
SavedInv ==
    IF saved.by = 0 THEN saved.state.next = "end" ELSE Behind(saved.by, saved.state.next)
Based(n) ==
    /\ runs[n].base[1] # 0 => runs[n].base[1] # n /\ Behind(runs[n].base[1], runs[n].base[2])
    /\ /\ runs[n].base = <<saved.by, saved.state.next>> /\ saved.by # 0
       /\ runs[n].state.next = saved.state.next /\ ~Over(n)
       => runs[n].state = saved.state
    /\ runs[n].answers # <<>> => runs[n].state.next = runs[n].base[2]
BasesInv == \A n \in DOMAIN runs : Based(n)

WaitInv ==
    status = "awaiting_approval" =>
      Pending # {} \/ BuildLeft \/ DecisionLost \/ \E n \in DOMAIN runs : At(n, "marked")

RunsInv == HandsInv /\ OneHandEach /\ ToldInv /\ ExecuteInv /\ SavedInv /\ BasesInv

IInv == Types /\ RunsInv /\ EffectsInv /\ WaitInv

-----------------------------------------------------------------------------
(* The forms that the steps of a run take *)

OnlyRun(n) ==
    /\ runs' \in Seq(Runs) /\ Len(runs') = Len(runs) /\ DOMAIN runs' = DOMAIN runs
    /\ \A m \in DOMAIN runs : m # n => runs'[m] = runs[m]

LEMMA Constants == MaxRequests \in Nat /\ MaxActive \in Nat /\ MaxFaults \in Nat
  BY BoundsAssumption

LEMMA RunTypes ==
    ASSUME Types, NEW n \in DOMAIN runs
    PROVE  /\ runs[n] \in Runs /\ runs[n].state \in States
           /\ runs[n].answers \in Seq(Asks) /\ DOMAIN runs = 1..Len(runs)
           /\ n \in 1..MaxRequests /\ runs[n].row \in Nat /\ runs[n].at \in Places
  <1>1. runs \in Seq(Runs) /\ Len(runs) <= MaxRequests  BY DEF Types
  <1>2. DOMAIN runs = 1..Len(runs) /\ Len(runs) \in Nat  BY <1>1
  <1>3. runs[n] \in Runs  BY <1>1, <1>2
  <1>4. n \in 1..MaxRequests  BY <1>1, <1>2, Constants
  <1> QED  BY <1>2, <1>3, <1>4 DEF Runs

LEMMA GoesForm ==
    ASSUME Types, NEW n \in DOMAIN runs, NEW place \in Places, Goes(n, place)
    PROVE  OnlyRun(n) /\ runs'[n] = [runs[n] EXCEPT !.at = place]
  <1>1. runs[n] \in Runs  BY RunTypes
  <1>2. [runs[n] EXCEPT !.at = place] \in Runs  BY <1>1 DEF Runs
  <1> QED  BY <1>1, <1>2 DEF Goes, OnlyRun, Types

LEMMA ReturnsForm ==
    ASSUME Types, NEW n \in DOMAIN runs, NEW s \in States, Returns(n, s)
    PROVE  /\ OnlyRun(n)
           /\ runs'[n] = [runs[n] EXCEPT !.state = s, !.answers = <<>>, !.row = 0,
                                         !.at = IF s.next = "end" THEN "closing" ELSE "node"]
           /\ saved' = [by |-> n, answers |-> <<>>, state |-> s]
           /\ saved' \in [by : 0..MaxRequests, answers : Seq(Asks), state : States]
  <1>1. runs[n] \in Runs /\ n \in 1..MaxRequests  BY RunTypes
  <1> DEFINE at == IF s.next = "end" THEN "closing" ELSE "node"
             r == [runs[n] EXCEPT !.state = s, !.answers = <<>>, !.row = 0, !.at = at]
  <1>2. at \in Places  BY DEF Places
  <1>3. <<>> \in Seq(Asks)  OBVIOUS
  <1>4. r \in Runs  BY <1>1, <1>2, <1>3 DEF Runs
  <1>5. runs' = [runs EXCEPT ![n] = r]  BY <1>1 DEF Returns, Types, Runs
  <1>6. OnlyRun(n) /\ runs'[n] = r  BY <1>4, <1>5 DEF OnlyRun, Types
  <1>7. saved' = [by |-> n, answers |-> <<>>, state |-> s]  BY DEF Returns
  <1>8. saved' \in [by : 0..MaxRequests, answers : Seq(Asks), state : States]
    BY <1>1, <1>3, <1>7, Constants
  <1> QED  BY <1>6, <1>7, <1>8

LEMMA BlankIs == Blank \in States /\ [Blank EXCEPT !.next = "build_workflow"] \in States
  BY DEF Blank, States, Nodes, NoPlan, AllPlans

LEMMA EndsForm ==
    ASSUME Types, NEW n \in DOMAIN runs, NEW place \in {"done", "left"}, Ends(n, place)
    PROVE  /\ OnlyRun(n)
           /\ runs'[n] = [runs[n] EXCEPT
                !.at = place, !.answers = <<>>, !.base = <<0, "end">>,
                !.row = IF place = "left" THEN @ ELSE 0,
                !.state = IF @.next = "build_workflow"
                          THEN [Blank EXCEPT !.next = "build_workflow"] ELSE Blank]
  <1>1. runs[n] \in Runs  BY RunTypes
  <1> DEFINE row == IF place = "left" THEN runs[n].row ELSE 0
             s == IF runs[n].state.next = "build_workflow"
                  THEN [Blank EXCEPT !.next = "build_workflow"] ELSE Blank
             r == [runs[n] EXCEPT !.at = place, !.answers = <<>>, !.base = <<0, "end">>,
                                  !.row = row, !.state = s]
  <1>2. place \in Places /\ row \in Nat /\ s \in States  BY <1>1, BlankIs DEF Places, Runs
  <1>3. <<>> \in Seq(Asks) /\ <<0, "end">> \in (0..MaxRequests) \X Nodes  BY Constants DEF Nodes
  <1>4. r \in Runs  BY <1>1, <1>2, <1>3 DEF Runs
  <1>5. runs' = [runs EXCEPT ![n] = r]  BY <1>1 DEF Ends, Types, Runs
  <1>6. OnlyRun(n) /\ runs'[n] = r  BY <1>4, <1>5 DEF OnlyRun, Types
  <1> QED  BY <1>6

-----------------------------------------------------------------------------
(* Rows and agreements only grow *)

Grows ==
    /\ approvals' \in Seq(Rows) /\ Len(approvals) <= Len(approvals')
    /\ agreed \subseteq agreed'
    /\ \A i \in 1..Len(approvals) :
         /\ approvals[i].status = "approved" => approvals'[i] = approvals[i]
         /\ approvals[i].status # "pending" => approvals'[i].status # "pending"

LEMMA ConsentStays ==
    ASSUME Types, Grows
    PROVE  /\ \A plan, row : Consented(plan, row) => Consented(plan, row)'
           /\ \A state : ToExecute(state) => ToExecute(state)'
           /\ \A answers, state : Told(answers, state) => Told(answers, state)'
  <1>1. Len(approvals) \in Nat /\ Len(approvals') \in Nat  BY DEF Types, Grows
  <1>2. ASSUME NEW plan, NEW row, Consented(plan, row)
        PROVE  Consented(plan, row)'
    <2>1. CASE Risky(plan)
      <3>1. /\ plan \in agreed /\ row \in 1..Len(approvals)
            /\ approvals[row] = [plan |-> plan, status |-> "approved"]
        BY <1>2, <2>1 DEF Consented
      <3>2. approvals[row].status = "approved"  BY <3>1
      <3>3. approvals'[row] = approvals[row]  BY <3>1, <3>2 DEF Grows
      <3>4. row \in 1..Len(approvals')  BY <1>1, <3>1 DEF Grows
      <3> QED  BY <2>1, <3>1, <3>3, <3>4 DEF Consented, Grows
    <2>2. CASE ~Risky(plan)  BY <1>2, <2>2 DEF Consented
    <2> QED  BY <2>1, <2>2
  <1>3. ASSUME NEW state, ToExecute(state) PROVE ToExecute(state)'
    BY <1>2, <1>3 DEF ToExecute
  <1>4. ASSUME NEW answers, NEW state, Told(answers, state) PROVE Told(answers, state)'
    BY <1>4 DEF Told, Grows
  <1> QED  BY <1>2, <1>3, <1>4

LEMMA GrowsNot ==
    ASSUME Types, UNCHANGED <<approvals, agreed>>
    PROVE  Grows
  BY DEF Types, Grows

-----------------------------------------------------------------------------
(* What the steps of one run keep *)

LEMMA RankIs ==
    /\ Rank["plan"] = 0 /\ Rank["human_approval"] = 1 /\ Rank["build_workflow"] = 1
    /\ Rank["execute"] = 2 /\ Rank["report"] = 3 /\ Rank["end"] = 4
    /\ \A x \in Nodes : Rank[x] \in 0..4
  BY DEF Rank, Nodes, Suspends

\* A run that gives up its row, or keeps it, has none of another run's.
LEMMA HandsApart ==
    ASSUME OneHandEach, NEW n \in DOMAIN runs, OnlyRun(n),
           runs'[n].row \in {0, runs[n].row}
    PROVE  OneHandEach'
  <1> SUFFICES ASSUME NEW k \in DOMAIN runs, NEW m \in DOMAIN runs,
                      k # m, runs'[k].row # 0
               PROVE  runs'[k].row # runs'[m].row
    BY DEF OneHandEach, OnlyRun
  <1>1. \A j \in DOMAIN runs : runs'[j].row \in {0, runs[j].row}  BY DEF OnlyRun
  <1>2. runs'[k].row = runs[k].row /\ runs[k].row # 0  BY <1>1
  <1>3. runs[k].row # runs[m].row  BY <1>2 DEF OneHandEach
  <1> QED  BY <1>1, <1>2, <1>3

LEMMA ReturnsKeeps ==
    ASSUME Types, RunsInv, NEW n \in DOMAIN runs, NEW s \in States, Returns(n, s),
           ~Over(n), runs[n].at = "accepted" \/ Rank[s.next] > Rank[runs[n].state.next],
           UNCHANGED <<approvals, agreed>>, ToExecute(s)
    PROVE  RunsInv'
  <1>1. /\ OnlyRun(n)
        /\ runs'[n] = [runs[n] EXCEPT !.state = s, !.answers = <<>>, !.row = 0,
                                      !.at = IF s.next = "end" THEN "closing" ELSE "node"]
        /\ saved' = [by |-> n, answers |-> <<>>, state |-> s]
    BY ReturnsForm
  <1>2. runs[n] \in Runs /\ n \in Nat \ {0}  BY RunTypes
  <1>3. /\ runs'[n].state = s /\ runs'[n].answers = <<>> /\ runs'[n].row = 0
        /\ runs'[n].at \in {"closing", "node"} /\ runs'[n].base = runs[n].base
    BY <1>1, <1>2 DEF Runs
  <1>4. Grows  BY GrowsNot
  <1>5. HandsInv'
    <2> SUFFICES ASSUME NEW m \in DOMAIN runs PROVE Hand(runs[m])'
      BY <1>1 DEF HandsInv, OnlyRun
    <2>1. CASE m = n
      <3>1. 0 \in 0..Len(approvals)  BY DEF Types
      <3> QED  BY <1>3, <2>1, <3>1 DEF Hand
    <2>2. CASE m # n
      <3>1. Hand(runs[m]) /\ runs'[m] = runs[m]  BY <1>1, <2>2 DEF RunsInv, HandsInv, OnlyRun
      <3> QED  BY <3>1 DEF Hand
    <2> QED  BY <2>1, <2>2
  <1>6. OneHandEach'  BY <1>1, <1>3, HandsApart DEF RunsInv
  <1>7. ToldInv'
    <2>1. \A state : Told(<<>>, state)'  BY DEF Told
    <2>2. Told(saved.answers, saved.state)'  BY <1>1, <2>1
    <2>3. ASSUME NEW m \in DOMAIN runs PROVE Told(runs[m].answers, runs[m].state)'
      <3>1. CASE m = n  BY <1>3, <2>1, <3>1
      <3>2. CASE m # n
        <4>1. runs'[m] = runs[m] /\ Told(runs[m].answers, runs[m].state)
          BY <1>1, <3>2 DEF OnlyRun, RunsInv, ToldInv
        <4> QED  BY <4>1 DEF Told
      <3> QED  BY <3>1, <3>2
    <2> QED  BY <1>1, <2>2, <2>3 DEF ToldInv, OnlyRun
  <1>8. ExecuteInv'
    <2>1. ToExecute(s)'  BY <1>4, ConsentStays
    <2>2. ASSUME NEW m \in DOMAIN runs PROVE ToExecute(runs[m].state)'
      <3>1. CASE m = n  BY <1>3, <2>1, <3>1
      <3>2. CASE m # n
        <4>1. runs'[m] = runs[m] /\ ToExecute(runs[m].state)
          BY <1>1, <3>2 DEF OnlyRun, RunsInv, ExecuteInv
        <4> QED  BY <1>4, <4>1, ConsentStays
      <3> QED  BY <3>1, <3>2
    <2> QED  BY <1>1, <2>1, <2>2 DEF ExecuteInv, OnlyRun
  <1>9. ASSUME NEW b, NEW x \in Nodes, Behind(b, x) PROVE Behind(b, x)'
    <2>1. CASE b = n
      <3>1. runs[n].at # "accepted" /\ Rank[s.next] > Rank[runs[n].state.next]
            /\ Rank[runs[n].state.next] >= Rank[x]
        BY <1>9, <2>1 DEF Behind
      <3>2. s.next \in Nodes /\ runs[n].state.next \in Nodes  BY <1>2 DEF Runs, States
      <3>3. Rank[s.next] >= Rank[x]  BY <3>1, <3>2, RankIs
      <3> QED  BY <1>1, <1>3, <2>1, <3>3 DEF Behind, OnlyRun
    <2>2. CASE b # n  BY <1>1, <1>9, <2>2 DEF Behind, OnlyRun, Over
    <2> QED  BY <2>1, <2>2
  <1>10. SavedInv'
    <2>1. saved'.by = n /\ saved'.state.next = s.next  BY <1>1
    <2>2. s.next \in Nodes  BY DEF States
    <2>3. Behind(n, s.next)'  BY <1>1, <1>3, <2>2, RankIs DEF Behind, OnlyRun
    <2> QED  BY <1>2, <2>1, <2>3 DEF SavedInv
  <1>11. ASSUME NEW m \in DOMAIN runs PROVE Based(m)'
    <2> DEFINE base == runs[m].base
    <2>1. runs'[m].base = base /\ base \in (0..MaxRequests) \X Nodes /\ Based(m)
      <3>1. runs[m] \in Runs  BY RunTypes
      <3> QED  BY <1>1, <1>3, <3>1 DEF OnlyRun, RunsInv, BasesInv, Runs
    <2>2. base[1] # 0 => base[1] # m /\ Behind(base[1], base[2])'
      BY <1>9, <2>1 DEF Based
    <2>3. base # <<n, s.next>>
      <3> SUFFICES ASSUME base = <<n, s.next>> PROVE FALSE
        OBVIOUS
      <3>1. Behind(n, s.next)  BY <1>2, <2>1 DEF Based
      <3>2. Rank[runs[n].state.next] >= Rank[s.next] /\ Rank[s.next] > Rank[runs[n].state.next]
        BY <3>1 DEF Behind
      <3>3. s.next \in Nodes /\ runs[n].state.next \in Nodes  BY <1>2 DEF Runs, States
      <3> QED  BY <3>2, <3>3, RankIs
    <2>4. <<saved'.by, saved'.state.next>> = <<n, s.next>>  BY <1>1
    <2>5. runs'[m].answers # <<>> => runs'[m].state.next = base[2]
      <3>1. CASE m = n  BY <1>3, <3>1
      <3>2. CASE m # n  BY <1>1, <2>1, <3>2 DEF Based, OnlyRun
      <3> QED  BY <3>1, <3>2
    <2> QED  BY <2>1, <2>2, <2>3, <2>4, <2>5 DEF Based
  <1>12. BasesInv'  BY <1>1, <1>11 DEF BasesInv, OnlyRun
  <1> QED  BY <1>5, <1>6, <1>7, <1>8, <1>10, <1>12 DEF RunsInv

\* The end of a run, with or without a change of the status.
LEMMA EndsKeeps ==
    ASSUME Types, RunsInv, NEW n \in DOMAIN runs, NEW place \in {"done", "left"},
           Ends(n, place), UNCHANGED <<approvals, agreed, saved>>
    PROVE  RunsInv'
  <1> DEFINE s == IF runs[n].state.next = "build_workflow"
                  THEN [Blank EXCEPT !.next = "build_workflow"] ELSE Blank
  <1>1. /\ OnlyRun(n)
        /\ runs'[n] = [runs[n] EXCEPT
             !.at = place, !.answers = <<>>, !.base = <<0, "end">>,
             !.row = IF place = "left" THEN @ ELSE 0, !.state = s]
    BY EndsForm
  <1>2. runs[n] \in Runs  BY RunTypes
  <1>3. /\ runs'[n].state = s /\ runs'[n].answers = <<>> /\ runs'[n].at = place
        /\ runs'[n].row = (IF place = "left" THEN runs[n].row ELSE 0)
        /\ runs'[n].base = <<0, "end">>
    BY <1>1, <1>2 DEF Runs
  <1>4. s.next # "execute"  BY DEF Blank
  <1>5. HandsInv'
    <2> SUFFICES ASSUME NEW m \in DOMAIN runs PROVE Hand(runs[m])'
      BY <1>1 DEF HandsInv, OnlyRun
    <2>1. CASE m = n
      <3>1. 0 \in 0..Len(approvals)  BY DEF Types
      <3>2. runs[n].row \in 0..Len(approvals)  BY DEF RunsInv, HandsInv, Hand
      <3>3. runs'[n].row \in 0..Len(approvals') /\ (place = "done" => runs'[n].row = 0)
        BY <1>3, <3>1, <3>2
      <3> QED  BY <1>3, <2>1, <3>3 DEF Hand
    <2>2. CASE m # n
      <3>1. Hand(runs[m]) /\ runs'[m] = runs[m]  BY <1>1, <2>2 DEF RunsInv, HandsInv, OnlyRun
      <3> QED  BY <3>1 DEF Hand
    <2> QED  BY <2>1, <2>2
  <1>6. OneHandEach'  BY <1>1, <1>3, HandsApart DEF RunsInv
  <1>7. ToldInv'
    <2>1. \A state : Told(<<>>, state)'  BY DEF Told
    <2>2. Told(saved.answers, saved.state)'  BY DEF RunsInv, ToldInv, Told
    <2>3. ASSUME NEW m \in DOMAIN runs PROVE Told(runs[m].answers, runs[m].state)'
      <3>1. CASE m = n  BY <1>3, <2>1, <3>1
      <3>2. CASE m # n
        <4>1. runs'[m] = runs[m] /\ Told(runs[m].answers, runs[m].state)
          BY <1>1, <3>2 DEF OnlyRun, RunsInv, ToldInv
        <4> QED  BY <4>1 DEF Told
      <3> QED  BY <3>1, <3>2
    <2> QED  BY <1>1, <2>2, <2>3 DEF ToldInv, OnlyRun
  <1>8. ExecuteInv'
    <2>1. ToExecute(saved.state)'  BY GrowsNot, ConsentStays DEF RunsInv, ExecuteInv
    <2>2. ASSUME NEW m \in DOMAIN runs PROVE ToExecute(runs[m].state)'
      <3>1. CASE m = n  BY <1>3, <1>4, <3>1 DEF ToExecute
      <3>2. CASE m # n
        <4>1. runs'[m] = runs[m] /\ ToExecute(runs[m].state)
          BY <1>1, <3>2 DEF OnlyRun, RunsInv, ExecuteInv
        <4> QED  BY <4>1, GrowsNot, ConsentStays
      <3> QED  BY <3>1, <3>2
    <2> QED  BY <1>1, <2>1, <2>2 DEF ExecuteInv, OnlyRun
  <1>9. ASSUME NEW b, NEW x, Behind(b, x) PROVE Behind(b, x)'
    BY <1>1, <1>3, <1>9 DEF Behind, OnlyRun, Over
  <1>10. SavedInv'  BY <1>9 DEF RunsInv, SavedInv
  <1>11. ASSUME NEW m \in DOMAIN runs PROVE Based(m)'
    <2>1. CASE m = n  BY <1>3, <2>1 DEF Based, Over
    <2>2. CASE m # n
      <3>1. Based(m) /\ runs'[m] = runs[m]  BY <1>1, <2>2 DEF RunsInv, BasesInv, OnlyRun
      <3> QED  BY <1>9, <3>1 DEF Based, Over
    <2> QED  BY <2>1, <2>2
  <1>12. BasesInv'  BY <1>1, <1>11 DEF BasesInv, OnlyRun
  <1> QED  BY <1>5, <1>6, <1>7, <1>8, <1>10, <1>12 DEF RunsInv

\* A run within a node: its place and its row may change, and a row of its own.
Within(n) ==
    /\ OnlyRun(n)
    /\ runs'[n].state = runs[n].state /\ runs'[n].answers = runs[n].answers
    /\ runs'[n].base = runs[n].base
    /\ {runs[n].at, runs'[n].at} \cap {"accepted", "done", "left"} = {}

LEMMA WithinKeeps ==
    ASSUME Types, RunsInv, NEW n \in DOMAIN runs, Within(n), Grows,
           saved'.by = saved.by /\ saved'.state = saved.state
    PROVE  ExecuteInv' /\ SavedInv' /\ BasesInv'
           /\ \A m \in DOMAIN runs : Told(runs[m].answers, runs[m].state)'
  <1>1. \A m \in DOMAIN runs :
          /\ runs'[m].state = runs[m].state /\ runs'[m].answers = runs[m].answers
          /\ runs'[m].base = runs[m].base /\ (Over(m)' <=> Over(m))
          /\ runs'[m].at = "accepted" <=> runs[m].at = "accepted"
    BY DEF Within, OnlyRun, Over
  <1>2. ExecuteInv'
    <2>1. ToExecute(saved.state)'  BY ConsentStays DEF RunsInv, ExecuteInv
    <2>2. ASSUME NEW m \in DOMAIN runs PROVE ToExecute(runs[m].state)'
      BY <1>1, ConsentStays DEF RunsInv, ExecuteInv
    <2> QED  BY <2>1, <2>2 DEF ExecuteInv, Within, OnlyRun
  <1>3. \A b, x : Behind(b, x) => Behind(b, x)'
    BY <1>1 DEF Behind, Within, OnlyRun
  <1>4. SavedInv'  BY <1>3 DEF RunsInv, SavedInv
  <1>5. BasesInv'
    <2>1. ASSUME NEW m \in DOMAIN runs PROVE Based(m)'
      <3>1. Based(m)  BY DEF RunsInv, BasesInv
      <3> QED  BY <1>1, <1>3, <3>1 DEF Based
    <2> QED  BY <2>1 DEF BasesInv, Within, OnlyRun
  <1>6. ASSUME NEW m \in DOMAIN runs PROVE Told(runs[m].answers, runs[m].state)'
    <2>1. Told(runs[m].answers, runs[m].state)  BY DEF RunsInv, ToldInv
    <2> QED  BY <1>1, <2>1, ConsentStays
  <1> QED  BY <1>2, <1>4, <1>5, <1>6

\* What explains that a thread waits goes on doing so.
LEMMA WaitKeeps ==
    ASSUME Types, RunsInv, WaitInv, Grows,
           DOMAIN runs \subseteq DOMAIN runs',
           \A m \in DOMAIN runs : Over(m) => runs'[m] = runs[m],
           \A m \in DOMAIN runs : At(m, "marked") => At(m, "marked")' \/ DecisionLost',
           status' = "awaiting_approval" =>
             \/ status = "awaiting_approval" /\ Pending \subseteq Pending'
             \/ Pending' # {} \/ BuildLeft'
    PROVE  WaitInv'
  <1> SUFFICES ASSUME status' = "awaiting_approval", Pending' = {}, ~BuildLeft', ~DecisionLost'
               PROVE  \E m \in DOMAIN runs' : At(m, "marked")'
    BY DEF WaitInv
  <1>1. status = "awaiting_approval" /\ Pending = {}  OBVIOUS
  <1>2. \A m \in Ended : m \in Ended' /\ runs'[m] = runs[m]  BY DEF Ended, Active, Over
  <1>3. ~BuildLeft  BY <1>2 DEF BuildLeft
  <1>4. ~DecisionLost
    <2> SUFFICES ASSUME NEW m \in Ended, At(m, "left"), runs[m].row \notin Pending \union {0}
                 PROVE  FALSE
      BY DEF DecisionLost
    <2>1. m \in DOMAIN runs /\ Hand(runs[m])  BY DEF Ended, RunsInv, HandsInv
    <2>2. runs[m].row \in 1..Len(approvals) /\ DOMAIN approvals = 1..Len(approvals)
      BY <2>1 DEF Hand, Types
    <2>3. approvals[runs[m].row].status # "pending"  BY <2>2 DEF Pending
    <2>4. approvals'[runs[m].row].status # "pending"  BY <2>2, <2>3 DEF Grows
    <2>5. runs[m].row \notin Pending'  BY <2>4 DEF Pending
    <2>6. m \in Ended' /\ At(m, "left")'  BY <1>2 DEF At, Ended
    <2>7. runs'[m].row \notin Pending' \union {0}  BY <1>2, <2>5
    <2> QED  BY <2>6, <2>7 DEF DecisionLost
  <1>5. PICK m \in DOMAIN runs : At(m, "marked")  BY <1>1, <1>3, <1>4 DEF WaitInv
  <1>6. At(m, "marked")'  BY <1>5
  <1> QED  BY <1>6 DEF At

-----------------------------------------------------------------------------
(* The requests *)

\* A run that has returned from a node, or has ended, is not between marking its
\* row and setting the status.
LEMMA ReturnStep ==
    ASSUME IInv, NEW n \in DOMAIN runs, NEW s \in States, Returns(n, s), ToExecute(s),
           ~Over(n), runs[n].at = "accepted" \/ Rank[s.next] > Rank[runs[n].state.next],
           UNCHANGED <<approvals, agreed, faults>>,
           status' \in Statuses, effects' \subseteq [plan : AllPlans, row : Nat], EffectsInv',
           \/ status' # "awaiting_approval"
           \/ status' = status /\ runs[n].at # "marked"
    PROVE  IInv'
  <1> USE DEF IInv
  <1>1. RunsInv'  BY ReturnsKeeps
  <1>2. /\ OnlyRun(n)
        /\ saved' \in [by : 0..MaxRequests, answers : Seq(Asks), state : States]
    BY ReturnsForm
  <1>3. Types'  BY <1>2 DEF Types, OnlyRun
  <1>4. WaitInv'
    <2>1. CASE status' # "awaiting_approval"  BY <2>1 DEF WaitInv
    <2>2. CASE status' = status /\ runs[n].at # "marked"
      <3>1. \A m \in DOMAIN runs : Over(m) => runs'[m] = runs[m]  BY <1>2 DEF OnlyRun
      <3>2. \A m \in DOMAIN runs : At(m, "marked") => At(m, "marked")'
        BY <1>2, <2>2 DEF OnlyRun, At
      <3>3. Pending' = Pending  BY DEF Pending
      <3>4. DOMAIN runs \subseteq DOMAIN runs'  BY <1>2 DEF OnlyRun
      <3> QED  BY <2>2, <3>1, <3>2, <3>3, <3>4, GrowsNot, WaitKeeps
    <2> QED  BY <2>1, <2>2
  <1> QED  BY <1>1, <1>3, <1>4

LEMMA AcceptsStep ==
    ASSUME IInv, NEW asked \in Asks, Accepts(asked),
           UNCHANGED <<status, approvals, saved, faults, agreed, effects>>
    PROVE  IInv'
  <1> DEFINE r == [asked |-> asked, at |-> "accepted", state |-> Blank,
                   base |-> <<0, "end">>, answers |-> <<>>, row |-> 0]
  <1> USE DEF IInv
  <1>0. PICK new : new = Len(runs) + 1  OBVIOUS
  <1>1. r \in Runs
    <2>1. <<>> \in Seq(Asks) /\ <<0, "end">> \in (0..MaxRequests) \X Nodes
      BY Constants DEF Nodes
    <2> QED  BY <2>1, BlankIs DEF Runs, Places
  <1>2. runs \in Seq(Runs) /\ runs' = Append(runs, r) /\ Len(runs) < MaxRequests
    BY DEF Accepts, Types
  <1> HIDE DEF r
  <1>3a. runs' \in Seq(Runs) /\ Len(runs') = new /\ runs'[new] = r  BY <1>0, <1>1, <1>2
  <1>3b. Len(runs) \in Nat /\ DOMAIN runs = 1..Len(runs)  BY <1>2
  <1>3c. DOMAIN runs' = 1..new  BY <1>3a
  <1>3d. \A m \in 1..Len(runs) : runs'[m] = runs[m]  BY <1>1, <1>2
  <1>3e. \A m \in DOMAIN runs : runs'[m] = runs[m]  BY <1>3b, <1>3d
  <1> USE DEF r
  <1>4. DOMAIN runs' = DOMAIN runs \union {new} /\ new \notin DOMAIN runs  BY <1>0, <1>3b, <1>3c
  <1>5. Types'  BY <1>0, <1>2, <1>3a, <1>3b, Constants DEF Types
  <1>6. Grows  BY GrowsNot
  <1>7. HandsInv'
    <2>1. Hand(r)'
      <3>1. 0 \in 0..Len(approvals)  BY DEF Types
      <3> QED  BY <3>1 DEF Hand
    <2>2. \A m \in DOMAIN runs : Hand(runs[m])'  BY <1>3a, <1>3e DEF RunsInv, HandsInv, Hand
    <2> QED  BY <1>3a, <1>3e, <1>4, <2>1, <2>2 DEF HandsInv
  <1>8. OneHandEach'
    <2>1. runs'[new].row = 0  BY <1>3a, <1>3e
    <2> SUFFICES ASSUME NEW k \in DOMAIN runs', NEW m \in DOMAIN runs',
                        k # m, runs'[k].row # 0
                 PROVE  runs'[k].row # runs'[m].row
      BY DEF OneHandEach
    <2>2. k \in DOMAIN runs  BY <1>4, <2>1
    <2>3. CASE m = new  BY <2>1, <2>3
    <2>4. CASE m \in DOMAIN runs  BY <1>3a, <1>3e, <2>2, <2>4 DEF RunsInv, OneHandEach
    <2> QED  BY <1>4, <2>3, <2>4
  <1>9. ToldInv'
    <2>1. Told(saved.answers, saved.state)'  BY DEF RunsInv, ToldInv, Told
    <2>2. Told(r.answers, r.state)'  BY DEF Told
    <2>3. \A m \in DOMAIN runs : Told(runs[m].answers, runs[m].state)'
      BY <1>3a, <1>3e DEF RunsInv, ToldInv, Told
    <2> QED  BY <1>3a, <1>3e, <1>4, <2>1, <2>2, <2>3 DEF ToldInv
  <1>10. ExecuteInv'
    <2>1. ToExecute(saved.state)'  BY <1>6, ConsentStays DEF RunsInv, ExecuteInv
    <2>2. ToExecute(r.state)'  BY DEF ToExecute, Blank
    <2>3. \A m \in DOMAIN runs : ToExecute(runs[m].state)'
      BY <1>3a, <1>3e, <1>6, ConsentStays DEF RunsInv, ExecuteInv
    <2> QED  BY <1>3a, <1>3e, <1>4, <2>1, <2>2, <2>3 DEF ExecuteInv
  <1>11. \A b, x : Behind(b, x) => Behind(b, x)'  BY <1>3a, <1>3e, <1>4 DEF Behind, Over
  <1>12. SavedInv'  BY <1>11 DEF RunsInv, SavedInv
  <1>13. BasesInv'
    <2>1. Based(new)'
      <3>1. runs'[new].base = <<0, "end">> /\ runs'[new].answers = <<>>  BY <1>3a, <1>3e
      <3>2. runs'[new].base[1] = 0  BY <3>1
      <3>3. saved'.by # 0 => runs'[new].base # <<saved'.by, saved'.state.next>>  BY <3>2
      <3> QED  BY <3>1, <3>2, <3>3 DEF Based
    <2>2. ASSUME NEW m \in DOMAIN runs PROVE Based(m)'
      <3>1. Based(m) /\ runs'[m] = runs[m] /\ saved' = saved
        <4>1. Based(m)  BY DEF RunsInv, BasesInv
        <4>2. runs'[m] = runs[m]  BY <1>3a, <1>3e
        <4> QED  BY <4>1, <4>2
      <3> QED  BY <1>11, <3>1 DEF Based, Over
    <2> QED  BY <1>4, <2>1, <2>2 DEF BasesInv
  <1>14. EffectsInv'  BY <1>6, ConsentStays DEF EffectsInv
  <1>15. WaitInv'
    <2>1. Pending' = Pending  BY DEF Pending
    <2>2. \A m \in DOMAIN runs : At(m, "marked") => At(m, "marked")'
      BY <1>3a, <1>3e, <1>4 DEF At
    <2> QED  BY <1>3a, <1>3e, <1>4, <1>6, <2>1, <2>2, WaitKeeps
  <1> QED  BY <1>5, <1>7, <1>8, <1>9, <1>10, <1>12, <1>13, <1>14, <1>15 DEF RunsInv

LEMMA EntersTurnStep ==
    ASSUME IInv, NEW n \in DOMAIN runs, EntersTurn(n)
    PROVE  IInv'
  <1> DEFINE s == [saved.state EXCEPT !.next = "plan"]
  <1>1. s \in States /\ s.next = "plan"  BY DEF IInv, Types, States, Nodes
  <1>2. runs[n].at = "accepted" /\ ~Over(n)  BY DEF EntersTurn, At, Over
  <1>3. ToExecute(s)  BY <1>1 DEF ToExecute
  <1>4. EffectsInv'  BY GrowsNot, ConsentStays DEF IInv, EffectsInv, EntersTurn
  <1> QED  BY <1>1, <1>2, <1>3, <1>4, ReturnStep DEF EntersTurn, IInv, Types

LEMMA ResumesStep ==
    ASSUME IInv, NEW n \in DOMAIN runs, Resumes(n)
    PROVE  IInv'
  <1>0. PICK answers : answers = IF saved.state.next \in Suspends
                                 THEN Append(saved.answers, runs[n].asked) ELSE <<>>
    OBVIOUS
  <1> DEFINE r == [runs[n] EXCEPT
               !.state = saved.state, !.base = <<saved.by, saved.state.next>>, !.answers = answers,
               !.at = IF saved.state.next = "end" THEN "closing" ELSE "node"]
  <1>1. /\ runs[n] \in Runs /\ runs \in Seq(Runs) /\ runs[n].at = "accepted"
        /\ saved \in [by : 0..MaxRequests, answers : Seq(Asks), state : States]
        /\ UNCHANGED <<status, approvals, saved, faults, effects>>
    BY RunTypes DEF IInv, Types, Resumes, At
  <1>2. answers \in Seq(Asks) /\ (answers # <<>> => saved.state.next \in Suspends)
    BY <1>0, <1>1 DEF Runs
  <1>3. r \in Runs /\ runs' = [runs EXCEPT ![n] = r]
    <2>1. saved.state.next \in Nodes /\ "closing" \in Places /\ "node" \in Places
      BY <1>1 DEF States, Places
    <2>2. <<saved.by, saved.state.next>> \in (0..MaxRequests) \X Nodes  BY <1>1, <2>1
    <2>3. r \in Runs  BY <1>1, <1>2, <2>1, <2>2 DEF Runs
    <2> QED  BY <1>0, <1>1, <2>3 DEF Resumes, Runs
  <1>4. OnlyRun(n) /\ runs'[n] = r  BY <1>1, <1>3 DEF OnlyRun
  <1>5. /\ runs'[n].state = saved.state /\ runs'[n].base = <<saved.by, saved.state.next>>
        /\ runs'[n].answers = answers /\ runs'[n].at \in {"closing", "node"}
        /\ runs'[n].row = runs[n].row
    BY <1>1, <1>4 DEF Runs
  <1>6. agreed' = (IF runs[n].asked = "yes" /\ saved.state.next \in Suspends
                   THEN agreed \union {PlanOf(saved.state)} ELSE agreed)
    BY DEF Resumes
  <1>7. agreed' \subseteq AllPlans
    <2>1. PlanOf(saved.state) \in AllPlans
      BY <1>1 DEF PlanOf, States, AllPlans
    <2> QED  BY <1>6, <2>1 DEF IInv, Types
  <1>8. Types'  BY <1>1, <1>4, <1>7 DEF IInv, Types, OnlyRun
  <1>9. Grows  BY <1>1, <1>6 DEF Grows, IInv, Types
  <1> HIDE DEF r
  <1>10. HandsInv'
    <2> SUFFICES ASSUME NEW m \in DOMAIN runs PROVE Hand(runs[m])'
      BY <1>4 DEF HandsInv, OnlyRun
    <2>1. Hand(runs[m])  BY DEF IInv, RunsInv, HandsInv
    <2>2. CASE m = n
      <3>1. runs[n].row = 0  BY <1>1, <2>1, <2>2 DEF Hand
      <3>2. runs'[n].row = 0 /\ runs'[n].row \in 0..Len(approvals')  BY <1>1, <1>5, <2>1, <2>2, <3>1 DEF Hand
      <3> QED  BY <1>5, <2>2, <3>2 DEF Hand
    <2>3. CASE m # n
      <3>1. runs'[m] = runs[m]  BY <1>4, <2>3 DEF OnlyRun
      <3> QED  BY <1>1, <2>1, <3>1 DEF Hand
    <2> QED  BY <2>2, <2>3
  <1>11. OneHandEach'  BY <1>4, <1>5, HandsApart DEF IInv, RunsInv
  <1>12. ToldInv'
    <2>1. Told(saved.answers, saved.state)'
      BY <1>1, <1>9, ConsentStays DEF IInv, RunsInv, ToldInv
    <2>2. Told(answers, saved.state)'
      <3>1. CASE saved.answers = <<>>
        <4>1. saved.state.next \in Suspends => answers[1] = runs[n].asked
          BY <1>0, <1>1, <3>1 DEF Runs
        <4> QED  BY <1>1, <1>6, <4>1 DEF Told
      <3>2. CASE saved.answers # <<>>
        <4>1. saved.state.next \in Suspends => answers[1] = saved.answers[1]
          BY <1>0, <1>1, <3>2 DEF Runs
        <4> QED  BY <1>1, <2>1, <3>2, <4>1 DEF Told
      <3> QED  BY <3>1, <3>2
    <2>3. ASSUME NEW m \in DOMAIN runs PROVE Told(runs[m].answers, runs[m].state)'
      <3>1. CASE m = n  BY <1>1, <1>5, <2>2, <3>1 DEF Told
      <3>2. CASE m # n
        <4>1. runs'[m] = runs[m] /\ Told(runs[m].answers, runs[m].state)
          BY <1>4, <3>2 DEF OnlyRun, IInv, RunsInv, ToldInv
        <4> QED  BY <1>6, <4>1 DEF Told
      <3> QED  BY <3>1, <3>2
    <2> QED  BY <1>4, <2>1, <2>3 DEF ToldInv, OnlyRun
  <1>13. ExecuteInv'
    <2>1. ToExecute(saved.state)'
      BY <1>1, <1>9, ConsentStays DEF IInv, RunsInv, ExecuteInv
    <2>2. ASSUME NEW m \in DOMAIN runs PROVE ToExecute(runs[m].state)'
      <3>1. CASE m = n  BY <1>1, <1>5, <2>1, <3>1
      <3>2. CASE m # n
        <4>1. runs'[m] = runs[m] /\ ToExecute(runs[m].state)
          BY <1>4, <3>2 DEF OnlyRun, IInv, RunsInv, ExecuteInv
        <4> QED  BY <1>9, <4>1, ConsentStays DEF IInv
      <3> QED  BY <3>1, <3>2
    <2> QED  BY <1>4, <2>1, <2>2 DEF ExecuteInv, OnlyRun
  <1>14. \A b, x : Behind(b, x) => b # n /\ Behind(b, x)'
    BY <1>1, <1>4 DEF Behind, OnlyRun, Over
  <1>15. SavedInv'  BY <1>1, <1>14 DEF IInv, RunsInv, SavedInv
  <1>16. BasesInv'
    <2>1. Based(n)'
      <3>1. saved.by # 0 => saved.by # n /\ Behind(saved.by, saved.state.next)'
        BY <1>1, <1>14 DEF IInv, RunsInv, SavedInv
      <3>2. runs'[n].base[1] = saved.by /\ runs'[n].base[2] = saved.state.next  BY <1>5
      <3> QED  BY <1>1, <1>5, <3>1, <3>2 DEF Based
    <2>2. ASSUME NEW m \in DOMAIN runs, m # n PROVE Based(m)'
      <3>1. Based(m) /\ runs'[m] = runs[m] /\ saved' = saved
        BY <1>1, <1>4, <2>2 DEF OnlyRun, IInv, RunsInv, BasesInv
      <3> QED  BY <1>14, <3>1 DEF Based, Over
    <2> QED  BY <1>4, <2>1, <2>2 DEF BasesInv, OnlyRun
  <1>17. EffectsInv'  BY <1>1, <1>9, ConsentStays DEF IInv, EffectsInv
  <1>18. WaitInv'
    <2>1. Pending' = Pending  BY <1>1 DEF Pending
    <2>2. \A m \in DOMAIN runs : Over(m) => runs'[m] = runs[m]  BY <1>1, <1>4 DEF OnlyRun, Over
    <2>3. \A m \in DOMAIN runs : At(m, "marked") => At(m, "marked")'
      BY <1>1, <1>4 DEF OnlyRun, At
    <2>4. DOMAIN runs \subseteq DOMAIN runs'  BY <1>4 DEF OnlyRun
    <2> QED  BY <1>1, <1>9, <2>1, <2>2, <2>3, <2>4, WaitKeeps DEF IInv
  <1> QED
    BY <1>8, <1>10, <1>11, <1>12, <1>13, <1>15, <1>16, <1>17, <1>18 DEF IInv, RunsInv

-----------------------------------------------------------------------------
(* Nodes that return at once *)

\* A node that returns without an effect and leaves the status alone.
LEMMA QuietStep ==
    ASSUME IInv, NEW n \in DOMAIN runs, NEW s \in States, Returns(n, s), ToExecute(s),
           runs[n].at = "node", Rank[s.next] > Rank[runs[n].state.next],
           UNCHANGED <<status, approvals, faults, agreed, effects>>
    PROVE  IInv'
  <1>1. ~Over(n)  BY DEF Over
  <1>2. EffectsInv'  BY GrowsNot, ConsentStays DEF IInv, EffectsInv
  <1> QED  BY <1>1, <1>2, ReturnStep DEF IInv, Types

LEMMA PlansStep ==
    ASSUME IInv, NEW n \in DOMAIN runs, Plans(n)
    PROVE  IInv'
  <1>1. runs[n].state \in States /\ n \in 1..MaxRequests  BY RunTypes DEF IInv
  <1>2. runs[n].at = "node" /\ runs[n].state.next = "plan"  BY DEF Plans, Before, At
  <1>9. PICK kind \in Kinds : \E state \in Planned(n, kind) :
          Returns(n, [state EXCEPT !.next = AfterPlan(state)])
    BY DEF Plans
  <1>3. PICK state \in Planned(n, kind) :
          Returns(n, [state EXCEPT !.next = AfterPlan(state)])
    BY <1>9
  <1> DEFINE s == [state EXCEPT !.next = AfterPlan(state)]
  <1>4. state \in States
    <2>1. NoPlan \in AllPlans /\ <<n, kind>> \in AllPlans /\ runs[n].state.build \in AllPlans
      BY <1>1 DEF AllPlans, States
    <2> QED  BY <1>1, <2>1 DEF Planned, States
  <1>5. AfterPlan(state) \in {"build_workflow", "human_approval", "report"}  BY DEF AfterPlan
  <1>6. s \in States /\ s.next = AfterPlan(state)  BY <1>4, <1>5 DEF States, Nodes
  <1>7. ToExecute(s)  BY <1>5, <1>6 DEF ToExecute
  <1>8. Rank[s.next] > Rank[runs[n].state.next]  BY <1>2, <1>5, <1>6, RankIs
  <1> QED  BY <1>2, <1>3, <1>6, <1>7, <1>8, QuietStep DEF Plans

\* guardrails and the budget of builds
LEMMA ToReportStep ==
    ASSUME IInv, NEW n \in DOMAIN runs, Refuses(n) \/ RefusesBuild(n)
    PROVE  IInv'
  <1> DEFINE s == [runs[n].state EXCEPT !.next = "report"]
  <1>1. runs[n].state \in States  BY RunTypes DEF IInv
  <1>2. runs[n].at = "node" /\ runs[n].state.next \in {"plan", "build_workflow"}
    BY DEF Refuses, RefusesBuild, Before, At
  <1>3. s \in States /\ s.next = "report"  BY <1>1 DEF States, Nodes
  <1>4. ToExecute(s)  BY <1>3 DEF ToExecute
  <1>5. Rank[s.next] > Rank[runs[n].state.next]  BY <1>2, <1>3, RankIs
  <1> QED  BY <1>2, <1>3, <1>4, <1>5, QuietStep DEF Refuses, RefusesBuild

LEMMA NoApprovalNeededStep ==
    ASSUME IInv, NEW n \in DOMAIN runs, NoApprovalNeeded(n)
    PROVE  IInv'
  <1> DEFINE s == [runs[n].state EXCEPT !.next = "execute", !.approval = 0]
  <1>1. runs[n].state \in States  BY RunTypes DEF IInv
  <1>2. runs[n].at = "node" /\ runs[n].state.next = "human_approval" /\ ~Risky(runs[n].state.plan)
    BY DEF NoApprovalNeeded, Before, At
  <1>3. s \in States /\ s.next = "execute" /\ s.plan = runs[n].state.plan /\ s.approval = 0
    BY <1>1 DEF States, Nodes
  <1>4. ToExecute(s)  BY <1>2, <1>3 DEF ToExecute, Consented
  <1>5. Rank[s.next] > Rank[runs[n].state.next]  BY <1>2, <1>3, RankIs
  <1> QED  BY <1>2, <1>3, <1>4, <1>5, QuietStep DEF NoApprovalNeeded

LEMMA ExecutesStep ==
    ASSUME IInv, NEW n \in DOMAIN runs, Executes(n)
    PROVE  IInv'
  <1> DEFINE s == [runs[n].state EXCEPT !.next = "report"]
             e == [plan |-> runs[n].state.plan, row |-> runs[n].state.approval]
  <1>1. runs[n].state \in States  BY RunTypes DEF IInv
  <1>2. /\ runs[n].at = "node" /\ runs[n].state.next = "execute" /\ Returns(n, s)
        /\ effects' = effects \union {e} /\ UNCHANGED <<status, approvals, faults, agreed>>
    BY DEF Executes, Before, At
  <1>3. s \in States /\ s.next = "report"  BY <1>1 DEF States, Nodes
  <1>4. ToExecute(s)  BY <1>3 DEF ToExecute
  <1>5. Rank[s.next] > Rank[runs[n].state.next]  BY <1>2, <1>3, RankIs
  <1>6. Consented(runs[n].state.plan, runs[n].state.approval)
    BY <1>2 DEF IInv, RunsInv, ExecuteInv, ToExecute
  <1>7. \A plan, row : Consented(plan, row) => Consented(plan, row)'
    BY <1>2, GrowsNot, ConsentStays DEF IInv
  <1>8. EffectsInv'
    <2>1. ASSUME NEW x \in effects' PROVE Consented(x.plan, x.row)'
      <3>1. CASE x \in effects  BY <1>7, <3>1 DEF IInv, EffectsInv
      <3>2. CASE x = e
        <4>1. x.plan = runs[n].state.plan /\ x.row = runs[n].state.approval  BY <3>2
        <4> QED  BY <1>6, <1>7, <4>1
      <3> QED  BY <1>2, <2>1, <3>1, <3>2
    <2> QED  BY <2>1 DEF EffectsInv
  <1>9. effects' \subseteq [plan : AllPlans, row : Nat]
    BY <1>1, <1>2 DEF IInv, Types, States
  <1>10. ~Over(n)  BY <1>2 DEF Over
  <1> QED  BY <1>2, <1>3, <1>4, <1>5, <1>8, <1>9, <1>10, ReturnStep DEF IInv, Types

LEMMA ReportsStep ==
    ASSUME IInv, NEW n \in DOMAIN runs, Reports(n)
    PROVE  IInv'
  <1> DEFINE s == [runs[n].state EXCEPT !.next = "end"]
  <1>1. runs[n].state \in States  BY RunTypes DEF IInv
  <1>2. /\ runs[n].at = "node" /\ runs[n].state.next = "report" /\ Returns(n, s)
        /\ status' \in {"completed", "failed"}
        /\ UNCHANGED <<approvals, faults, agreed, effects>>
    BY DEF Reports, Before, At
  <1>3. s \in States /\ s.next = "end"  BY <1>1 DEF States, Nodes
  <1>4. ToExecute(s)  BY <1>3 DEF ToExecute
  <1>5. Rank[s.next] > Rank[runs[n].state.next]  BY <1>2, <1>3, RankIs
  <1>6. EffectsInv'  BY <1>2, GrowsNot, ConsentStays DEF IInv, EffectsInv
  <1>7. status' \in Statuses /\ status' # "awaiting_approval"  BY <1>2 DEF Statuses
  <1>8. ~Over(n)  BY <1>2 DEF Over
  <1> QED  BY <1>2, <1>3, <1>4, <1>5, <1>6, <1>7, <1>8, ReturnStep DEF IInv, Types

-----------------------------------------------------------------------------
(* Within the nodes that suspend *)

\* The hands of the other runs, where no row of theirs changes.
LEMMA OtherHands ==
    ASSUME Types, HandsInv, NEW n \in DOMAIN runs, OnlyRun(n),
           approvals' \in Seq(Rows), Len(approvals) <= Len(approvals'),
           \A m \in DOMAIN runs : m # n /\ runs[m].row # 0 =>
             \/ approvals'[runs[m].row] = approvals[runs[m].row]
             \/ runs[m].at \in {"done", "left"}
    PROVE  \A m \in DOMAIN runs : m # n => Hand(runs[m])'
  <1> SUFFICES ASSUME NEW m \in DOMAIN runs, m # n PROVE Hand(runs[m])'
    OBVIOUS
  <1>1. Hand(runs[m]) /\ runs'[m] = runs[m]  BY DEF HandsInv, OnlyRun
  <1>2. Len(approvals) \in Nat /\ Len(approvals') \in Nat  BY DEF Types
  <1>3. runs[m].row \in 0..Len(approvals')  BY <1>1, <1>2 DEF Hand
  <1>4. CASE runs[m].row = 0  BY <1>1, <1>3, <1>4 DEF Hand
  <1>5. CASE approvals'[runs[m].row] = approvals[runs[m].row]
    BY <1>1, <1>3, <1>5 DEF Hand
  <1>6. CASE runs[m].at \in {"done", "left"}
    BY <1>1, <1>3, <1>6 DEF Hand
  <1> QED  BY <1>4, <1>5, <1>6

\* A run that stays within its node.
LEMMA WithinStep ==
    ASSUME IInv, NEW n \in DOMAIN runs, Within(n), Grows, HandsInv', OneHandEach',
           saved'.by = saved.by /\ saved'.state = saved.state,
           saved' \in [by : 0..MaxRequests, answers : Seq(Asks), state : States],
           saved'.answers = saved.answers \/ Told(saved.answers, saved.state)',
           status' \in Statuses, effects' \subseteq [plan : AllPlans, row : Nat],
           UNCHANGED <<faults, agreed>>, EffectsInv', WaitInv'
    PROVE  IInv'
  <1>1. Types'  BY DEF IInv, Types, Within, OnlyRun, Grows
  <1>2. /\ ExecuteInv' /\ SavedInv' /\ BasesInv'
        /\ \A m \in DOMAIN runs : Told(runs[m].answers, runs[m].state)'
    BY WithinKeeps DEF IInv
  <1>3. Told(saved.answers, saved.state)'
    <2>1. CASE saved'.answers = saved.answers
      BY <2>1, ConsentStays DEF IInv, RunsInv, ToldInv
    <2> QED  BY <2>1
  <1>4. ToldInv'  BY <1>2, <1>3 DEF ToldInv, Within, OnlyRun
  <1> QED  BY <1>1, <1>2, <1>4 DEF IInv, RunsInv

LEMMA AsksRowStep ==
    ASSUME IInv, NEW n \in DOMAIN runs, AsksRow(n)
    PROVE  IInv'
  <1>0. PICK new : new = Len(approvals) + 1  OBVIOUS
  <1> DEFINE row == [plan |-> PlanOf(runs[n].state), status |-> "pending"]
             r == [runs[n] EXCEPT !.at = "asked", !.row = new]
  <1>1. /\ runs[n] \in Runs /\ runs \in Seq(Runs) /\ approvals \in Seq(Rows)
        /\ runs[n].at = "node" /\ runs[n].state.next \in Suspends /\ Risky(PlanOf(runs[n].state))
        /\ approvals' = Append(approvals, row) /\ runs' = [runs EXCEPT ![n] = r]
        /\ UNCHANGED <<status, saved, faults, agreed, effects>>
    BY <1>0, RunTypes DEF IInv, Types, AsksRow, At, Runs
  <1>2. row \in Rows
    <2>1. PlanOf(runs[n].state) \in AllPlans  BY <1>1 DEF Runs, States, PlanOf, AllPlans
    <2> QED  BY <2>1 DEF Rows, RowStatuses
  <1>3. /\ Len(approvals) \in Nat /\ new \in Nat \ {0}
        /\ DOMAIN approvals = 1..Len(approvals)
    BY <1>0, <1>1
  <1> HIDE DEF row
  <1>4. /\ approvals' \in Seq(Rows) /\ Len(approvals') = new /\ approvals'[new] = row
        /\ \A i \in 1..Len(approvals) : approvals'[i] = approvals[i]
    BY <1>0, <1>1, <1>2, <1>3
  <1>5. r \in Runs  BY <1>1, <1>3 DEF Runs, Places
  <1>6. OnlyRun(n) /\ runs'[n] = r  BY <1>1, <1>5 DEF OnlyRun
  <1>7. /\ runs'[n].at = "asked" /\ runs'[n].row = new /\ runs'[n].state = runs[n].state
        /\ runs'[n].answers = runs[n].answers /\ runs'[n].base = runs[n].base
    BY <1>1, <1>6 DEF Runs
  <1>8. Within(n)  BY <1>1, <1>6, <1>7 DEF Within
  <1>9. Grows  BY <1>0, <1>1, <1>3, <1>4 DEF Grows
  <1>10. \A m \in DOMAIN runs : runs[m].row \in 0..Len(approvals)
    BY DEF IInv, RunsInv, HandsInv, Hand
  <1>11. HandsInv'
    <2>1. Hand(runs[n])'
      <3>1. new \in 0..Len(approvals')  BY <1>3, <1>4
      <3>2. approvals'[new].status = "pending" /\ approvals'[new].plan = PlanOf(runs[n].state)
        BY <1>4 DEF row
      <3> QED  BY <1>1, <1>3, <1>7, <3>1, <3>2 DEF Hand
    <2>2. \A m \in DOMAIN runs : m # n => Hand(runs[m])'
      <3>1. \A m \in DOMAIN runs : runs[m].row # 0 =>
              approvals'[runs[m].row] = approvals[runs[m].row]
        BY <1>3, <1>4, <1>10
      <3> QED  BY <1>4, <1>6, <1>9, <3>1, OtherHands DEF IInv, RunsInv, Grows
    <2> QED  BY <1>6, <2>1, <2>2 DEF HandsInv, OnlyRun
  <1>12. OneHandEach'
    <2>1. \A m \in DOMAIN runs : m # n => runs'[m].row = runs[m].row /\ runs'[m].row # new
      BY <1>0, <1>3, <1>6, <1>10 DEF OnlyRun
    <2> SUFFICES ASSUME NEW k \in DOMAIN runs, NEW m \in DOMAIN runs, k # m, runs'[k].row # 0
                 PROVE  runs'[k].row # runs'[m].row
      BY <1>6 DEF OneHandEach, OnlyRun
    <2>2. CASE k = n \/ m = n  BY <1>7, <2>1, <2>2
    <2>3. CASE k # n /\ m # n  BY <2>1, <2>3 DEF IInv, RunsInv, OneHandEach
    <2> QED  BY <2>2, <2>3
  <1>13. EffectsInv'  BY <1>1, <1>9, ConsentStays DEF IInv, EffectsInv
  <1>14. WaitInv'
    <2>1. Pending \subseteq Pending'
      <3>1. DOMAIN approvals' = 1..new  BY <1>4
      <3> QED  BY <1>0, <1>3, <1>4, <3>1 DEF Pending
    <2>2. \A m \in DOMAIN runs : Over(m) => runs'[m] = runs[m]
      BY <1>1, <1>6 DEF OnlyRun, Over
    <2>3. \A m \in DOMAIN runs : At(m, "marked") => At(m, "marked")'
      BY <1>1, <1>6 DEF OnlyRun, At
    <2>4. DOMAIN runs \subseteq DOMAIN runs'  BY <1>6 DEF OnlyRun
    <2> QED  BY <1>1, <1>9, <2>1, <2>2, <2>3, <2>4, WaitKeeps DEF IInv
  <1> QED
    BY <1>1, <1>8, <1>9, <1>11, <1>12, <1>13, <1>14, WithinStep DEF IInv, Types

LEMMA SetsAwaitingStep ==
    ASSUME IInv, NEW n \in DOMAIN runs, SetsAwaiting(n)
    PROVE  IInv'
  <1> DEFINE place == IF runs[n].answers = <<>> THEN "signal" ELSE "answered"
  <1>1. /\ runs[n].at = "asked" /\ Goes(n, place) /\ status' = "awaiting_approval"
        /\ UNCHANGED <<approvals, saved, faults, agreed, effects>>
    BY DEF SetsAwaiting, At
  <1>2. OnlyRun(n) /\ runs'[n] = [runs[n] EXCEPT !.at = place] /\ runs[n] \in Runs
    BY <1>1, GoesForm, RunTypes DEF IInv, Places
  <1>3. /\ runs'[n].at = place /\ runs'[n].row = runs[n].row /\ runs'[n].state = runs[n].state
        /\ runs'[n].answers = runs[n].answers /\ runs'[n].base = runs[n].base
    BY <1>2 DEF Runs
  <1>4. Within(n) /\ Grows  BY <1>1, <1>2, <1>3, GrowsNot DEF Within, IInv
  <1>5. Hand(runs[n])  BY DEF IInv, RunsInv, HandsInv
  <1>6. HandsInv'
    <2>1. Hand(runs[n])'
      <3>1. CASE runs[n].answers = <<>>  BY <1>1, <1>3, <1>5, <3>1 DEF Hand
      <3>2. CASE runs[n].answers # <<>>  BY <1>1, <1>3, <1>5, <3>2 DEF Hand
      <3> QED  BY <3>1, <3>2
    <2>2. \A m \in DOMAIN runs : m # n => Hand(runs[m])'
      BY <1>1, <1>2, <1>4, OtherHands DEF IInv, RunsInv, Grows
    <2> QED  BY <1>2, <2>1, <2>2 DEF HandsInv, OnlyRun
  <1>7. OneHandEach'  BY <1>2, <1>3, HandsApart DEF IInv, RunsInv
  <1>8. EffectsInv'  BY <1>1, <1>4, ConsentStays DEF IInv, EffectsInv
  <1>9. WaitInv'
    <2>1. runs[n].row \in Pending'
      <3>1. runs[n].row \in 1..Len(approvals) /\ approvals[runs[n].row].status = "pending"
        BY <1>1, <1>5 DEF Hand, IInv, Types
      <3>2. DOMAIN approvals = 1..Len(approvals)  BY DEF IInv, Types
      <3> QED  BY <1>1, <3>1, <3>2 DEF Pending
    <2> QED  BY <2>1 DEF WaitInv
  <1>10. status' \in Statuses  BY <1>1 DEF Statuses
  <1> QED
    BY <1>1, <1>4, <1>6, <1>7, <1>8, <1>9, <1>10, WithinStep DEF IInv, Types

LEMMA DecidedStep ==
    ASSUME IInv, NEW n \in DOMAIN runs, Decided(n)
    PROVE  IInv'
  <1> DEFINE i == runs[n].row
             new == IF Approved(n) THEN "approved" ELSE "rejected"
  <1>1. /\ runs[n].at = "answered" /\ Goes(n, "marked")
        /\ approvals' = [approvals EXCEPT ![i].status = new]
        /\ UNCHANGED <<status, saved, faults, agreed, effects>>
    BY DEF Decided, At
  <1>2. OnlyRun(n) /\ runs'[n] = [runs[n] EXCEPT !.at = "marked"] /\ runs[n] \in Runs
    BY <1>1, GoesForm, RunTypes DEF IInv, Places
  <1>3. /\ runs'[n].at = "marked" /\ runs'[n].row = runs[n].row /\ runs'[n].state = runs[n].state
        /\ runs'[n].answers = runs[n].answers /\ runs'[n].base = runs[n].base
    BY <1>2 DEF Runs
  <1>4. Hand(runs[n]) /\ approvals \in Seq(Rows)  BY DEF IInv, RunsInv, HandsInv, Types
  <1>5. /\ i \in 1..Len(approvals) /\ DOMAIN approvals = 1..Len(approvals)
        /\ approvals[i].status = "pending" /\ approvals[i].plan = PlanOf(runs[n].state)
    BY <1>1, <1>4 DEF Hand
  <1>6. approvals[i] \in Rows  BY <1>4, <1>5
  <1>7. /\ approvals' \in Seq(Rows) /\ Len(approvals') = Len(approvals)
        /\ approvals'[i] = [approvals[i] EXCEPT !.status = new]
        /\ \A j \in 1..Len(approvals) : j # i => approvals'[j] = approvals[j]
    <2>1. [approvals[i] EXCEPT !.status = new] \in Rows  BY <1>6 DEF Rows, RowStatuses
    <2> QED  BY <1>1, <1>4, <1>5, <2>1
  <1>8. approvals'[i].status = new /\ approvals'[i].plan = approvals[i].plan
    BY <1>6, <1>7 DEF Rows
  <1>9. Grows
    <2>1. Len(approvals) \in Nat  BY <1>4
    <2> QED  BY <1>1, <1>5, <1>7, <1>8, <2>1 DEF Grows
  <1>10. Within(n)  BY <1>1, <1>2, <1>3 DEF Within
  <1>11. HandsInv'
    <2>1. Hand(runs[n])'
      <3>1. runs[n].row \in 0..Len(approvals')  BY <1>4, <1>7 DEF Hand
      <3> QED  BY <1>1, <1>3, <1>4, <1>5, <1>8, <3>1 DEF Hand, Approved
    <2>2. \A m \in DOMAIN runs : m # n => Hand(runs[m])'
      <3>1. ASSUME NEW m \in DOMAIN runs, m # n, runs[m].row # 0
            PROVE  approvals'[runs[m].row] = approvals[runs[m].row]
        <4>1. runs[m].row # i  BY <3>1 DEF IInv, RunsInv, OneHandEach
        <4>2. runs[m].row \in 0..Len(approvals)  BY DEF IInv, RunsInv, HandsInv, Hand
        <4> QED  BY <1>4, <1>7, <3>1, <4>1, <4>2
      <3> QED  BY <1>2, <1>9, <3>1, OtherHands DEF IInv, RunsInv, Grows
    <2> QED  BY <1>2, <2>1, <2>2 DEF HandsInv, OnlyRun
  <1>12. OneHandEach'  BY <1>2, <1>3, HandsApart DEF IInv, RunsInv
  <1>13. EffectsInv'  BY <1>1, <1>9, ConsentStays DEF IInv, EffectsInv
  <1>14. WaitInv'
    <2>1. n \in DOMAIN runs' /\ At(n, "marked")'  BY <1>2, <1>3 DEF At, OnlyRun
    <2> QED  BY <2>1 DEF WaitInv
  <1> QED
    BY <1>1, <1>9, <1>10, <1>11, <1>12, <1>13, <1>14, WithinStep DEF IInv, Types

\* Who says yes: an approved row of this very plan, on which somebody agreed.
LEMMA MarkedConsents ==
    ASSUME IInv, NEW n \in DOMAIN runs, runs[n].at = "marked", Approved(n)
    PROVE  Consented(PlanOf(runs[n].state), runs[n].row) /\ Risky(PlanOf(runs[n].state))
  <1> DEFINE i == runs[n].row
             plan == PlanOf(runs[n].state)
  <1>1. Hand(runs[n]) /\ Told(runs[n].answers, runs[n].state) /\ approvals \in Seq(Rows)
    BY DEF IInv, RunsInv, HandsInv, ToldInv, Types
  <1>2. /\ i \in 1..Len(approvals) /\ Risky(plan) /\ approvals[i].plan = plan
        /\ approvals[i].status = "approved" /\ runs[n].answers # <<>>
        /\ runs[n].state.next \in Suspends
    BY <1>1 DEF Hand, Approved
  <1>3. approvals[i] = [plan |-> plan, status |-> "approved"]
    <2>1. approvals[i] \in Rows  BY <1>1, <1>2
    <2> QED  BY <1>2, <2>1 DEF Rows
  <1>4. plan \in agreed  BY <1>1, <1>2 DEF Told, Approved
  <1> QED  BY <1>2, <1>3, <1>4 DEF Consented

LEMMA SetsDecisionStep ==
    ASSUME IInv, NEW n \in DOMAIN runs, SetsDecision(n)
    PROVE  IInv'
  <1> DEFINE state == runs[n].state
             s1 == [state EXCEPT !.next = AfterApproval(n), !.approval = runs[n].row,
                                 !.error = IF Approved(n) THEN @ ELSE TRUE]
             s2 == [state EXCEPT !.next = "report"]
  <1>1. /\ runs[n].at = "marked" /\ status' = (IF Approved(n) THEN "running" ELSE "completed")
        /\ UNCHANGED <<approvals, faults, agreed, effects>>
    BY DEF SetsDecision, At
  <1>2. status' \in Statuses /\ status' # "awaiting_approval"  BY <1>1 DEF Statuses
  <1>3. /\ runs[n] \in Runs /\ state \in States /\ ~Over(n)
        /\ effects' \subseteq [plan : AllPlans, row : Nat]
    BY <1>1, RunTypes DEF IInv, Types, Over
  <1>4. Hand(runs[n])  BY DEF IInv, RunsInv, HandsInv
  <1>5. Grows  BY <1>1, GrowsNot DEF IInv
  <1>6. EffectsInv'  BY <1>1, <1>5, ConsentStays DEF IInv, EffectsInv
  <1>7. CASE state.next = "human_approval"
    <2>1. Returns(n, s1)  BY <1>7 DEF SetsDecision
    <2>2. /\ AfterApproval(n) = (IF Approved(n) THEN "execute" ELSE "report")
          /\ runs[n].row \in Nat
      BY <1>3 DEF AfterApproval, Runs
    <2>3. /\ s1 \in States /\ s1.next = AfterApproval(n) /\ s1.plan = state.plan
          /\ s1.approval = runs[n].row
      BY <1>3, <2>2 DEF States, Nodes
    <2>4. ToExecute(s1)
      <3>1. CASE Approved(n)
        <4>1. Consented(PlanOf(state), runs[n].row)  BY <1>1, <3>1, MarkedConsents
        <4>2. PlanOf(state) = s1.plan  BY <1>7, <2>3 DEF PlanOf
        <4> QED  BY <2>3, <4>1, <4>2 DEF ToExecute
      <3>2. CASE ~Approved(n)  BY <2>2, <2>3, <3>2 DEF ToExecute
      <3> QED  BY <3>1, <3>2
    <2>5. Rank[s1.next] > Rank[state.next]  BY <1>7, <2>2, <2>3, RankIs
    <2> QED  BY <1>1, <1>2, <1>3, <1>6, <2>1, <2>3, <2>4, <2>5, ReturnStep
  <1>8. CASE state.next # "human_approval" /\ ~Approved(n)
    <2>1. Returns(n, s2)  BY <1>8 DEF SetsDecision
    <2>2. s2 \in States /\ s2.next = "report"  BY <1>3 DEF States, Nodes
    <2>3. ToExecute(s2)  BY <2>2 DEF ToExecute
    <2>4. state.next = "build_workflow"  BY <1>1, <1>4, <1>8 DEF Hand, Suspends
    <2>5. Rank[s2.next] > Rank[state.next]  BY <2>2, <2>4, RankIs
    <2> QED  BY <1>1, <1>2, <1>3, <1>6, <2>1, <2>2, <2>3, <2>5, ReturnStep
  <1>9. CASE state.next # "human_approval" /\ Approved(n)
    <2>1. Goes(n, "draw") /\ saved' = saved  BY <1>9 DEF SetsDecision
    <2>2. OnlyRun(n) /\ runs'[n] = [runs[n] EXCEPT !.at = "draw"]
      BY <2>1, GoesForm DEF IInv, Places
    <2>3. /\ runs'[n].at = "draw" /\ runs'[n].row = runs[n].row /\ runs'[n].state = state
          /\ runs'[n].answers = runs[n].answers /\ runs'[n].base = runs[n].base
      BY <1>3, <2>2 DEF Runs
    <2>4. Within(n)  BY <1>1, <2>2, <2>3 DEF Within
    <2>5. HandsInv'
      <3>1. state.next = "build_workflow"  BY <1>1, <1>4, <1>9 DEF Hand, Suspends
      <3>2. Hand(runs[n])'  BY <1>1, <1>4, <1>9, <2>3, <3>1 DEF Hand, Approved
      <3>3. \A m \in DOMAIN runs : m # n => Hand(runs[m])'
        BY <1>1, <1>5, <2>2, OtherHands DEF IInv, RunsInv, Grows
      <3> QED  BY <2>2, <3>2, <3>3 DEF HandsInv, OnlyRun
    <2>6. OneHandEach'  BY <2>2, <2>3, HandsApart DEF IInv, RunsInv
    <2>7. WaitInv'  BY <1>2 DEF WaitInv
    <2> QED
      BY <1>1, <1>2, <1>3, <1>5, <1>6, <2>1, <2>4, <2>5, <2>6, <2>7, WithinStep DEF IInv, Types
  <1> QED  BY <1>7, <1>8, <1>9

LEMMA DrawsStep ==
    ASSUME IInv, NEW n \in DOMAIN runs, Draws(n)
    PROVE  IInv'
  <1> DEFINE state == runs[n].state
             s == [state EXCEPT !.next = "report"]
             e == [plan |-> state.build, row |-> runs[n].row]
  <1>1. /\ \/ runs[n].at = "draw"
           \/ runs[n].at = "node" /\ state.next = "build_workflow" /\ ~Risky(state.build)
        /\ effects' = effects \union {e}
        /\ UNCHANGED <<status, approvals, faults, agreed>>
    BY DEF Draws, Before, At
  <1>2. runs[n] \in Runs /\ state \in States /\ ~Over(n)
    BY <1>1, RunTypes DEF IInv, Over
  <1>3. /\ Hand(runs[n]) /\ Told(runs[n].answers, state) /\ Based(n)
        /\ approvals \in Seq(Rows)
    BY DEF IInv, RunsInv, HandsInv, ToldInv, BasesInv, Types
  <1>4. state.next = "build_workflow" /\ PlanOf(state) = state.build
    BY <1>1, <1>3 DEF Hand, PlanOf
  <1>5. Consented(state.build, runs[n].row)
    <2>1. CASE runs[n].at = "draw"
      <3>1. /\ runs[n].row \in 1..Len(approvals) /\ Risky(state.build)
            /\ approvals[runs[n].row].plan = state.build
            /\ approvals[runs[n].row].status = "approved"
            /\ state.build \in agreed
        BY <1>3, <1>4, <2>1 DEF Hand, Told
      <3>2. approvals[runs[n].row] \in Rows  BY <1>3, <3>1
      <3>3. approvals[runs[n].row] = [plan |-> state.build, status |-> "approved"]
        BY <3>1, <3>2 DEF Rows
      <3> QED  BY <3>1, <3>3 DEF Consented
    <2>2. CASE runs[n].at # "draw"
      <3>1. runs[n].row = 0 /\ ~Risky(state.build)  BY <1>1, <1>3, <2>2 DEF Hand
      <3> QED  BY <3>1 DEF Consented
    <2> QED  BY <2>1, <2>2
  <1>6. Grows  BY <1>1, GrowsNot DEF IInv
  <1>7. EffectsInv'
    <2>1. \A plan, row : Consented(plan, row) => Consented(plan, row)'
      BY <1>6, ConsentStays DEF IInv
    <2>2. ASSUME NEW x \in effects' PROVE Consented(x.plan, x.row)'
      <3>1. CASE x \in effects  BY <2>1, <3>1 DEF IInv, EffectsInv
      <3>2. CASE x = e
        <4>1. x.plan = state.build /\ x.row = runs[n].row  BY <3>2
        <4> QED  BY <1>5, <2>1, <4>1
      <3> QED  BY <1>1, <2>2, <3>1, <3>2
    <2> QED  BY <2>2 DEF EffectsInv
  <1>8. effects' \subseteq [plan : AllPlans, row : Nat]
    <2>1. state.build \in AllPlans /\ runs[n].row \in Nat  BY <1>2 DEF States, Runs
    <2>2. e \in [plan : AllPlans, row : Nat]  BY <2>1
    <2> QED  BY <1>1, <2>2 DEF IInv, Types
  <1>9. CASE Cancelled(n)
    <2>1. Returns(n, s)  BY <1>9 DEF Draws
    <2>2. s \in States /\ s.next = "report"  BY <1>2 DEF States, Nodes
    <2>3. ToExecute(s)  BY <2>2 DEF ToExecute
    <2>4. Rank[s.next] > Rank[state.next]  BY <1>4, <2>2, RankIs
    <2>5. runs[n].at # "marked" /\ status' = status /\ status' \in Statuses
      BY <1>1 DEF IInv, Types
    <2> QED  BY <1>1, <1>2, <1>7, <1>8, <2>1, <2>2, <2>3, <2>4, <2>5, ReturnStep
  <1>10. CASE ~Cancelled(n)
    <2>1. /\ Goes(n, "signal")
          /\ saved' = (IF runs[n].base = <<saved.by, saved.state.next>>
                       THEN [saved EXCEPT !.answers = runs[n].answers] ELSE saved)
      BY <1>10 DEF Draws
    <2>2. OnlyRun(n) /\ runs'[n] = [runs[n] EXCEPT !.at = "signal"]
      BY <2>1, GoesForm DEF IInv, Places
    <2>3. /\ runs'[n].at = "signal" /\ runs'[n].row = runs[n].row /\ runs'[n].state = state
          /\ runs'[n].answers = runs[n].answers /\ runs'[n].base = runs[n].base
      BY <1>2, <2>2 DEF Runs
    <2>4. Within(n)  BY <1>1, <2>2, <2>3 DEF Within
    <2>5. saved \in [by : 0..MaxRequests, answers : Seq(Asks), state : States]
      BY DEF IInv, Types
    <2>6. /\ saved' \in [by : 0..MaxRequests, answers : Seq(Asks), state : States]
          /\ saved'.by = saved.by /\ saved'.state = saved.state
      BY <1>2, <2>1, <2>5 DEF Runs
    <2>7. saved'.answers = saved.answers \/ Told(saved.answers, saved.state)'
      <3> SUFFICES ASSUME runs[n].base = <<saved.by, saved.state.next>>,
                          runs[n].answers # <<>>, saved.state.next \in Suspends
                   PROVE  Told(runs[n].answers, saved.state)
        <4>1. saved'.answers \in {runs[n].answers, saved.answers}  BY <2>1, <2>5
        <4>2. CASE runs[n].base # <<saved.by, saved.state.next>>  BY <2>1, <4>2
        <4>3. CASE runs[n].base = <<saved.by, saved.state.next>>
          <5>1. saved'.answers = runs[n].answers  BY <2>1, <2>5, <4>3
          <5> QED  BY <1>1, <2>6, <4>3, <5>1 DEF Told
        <4> QED  BY <4>2, <4>3
      <3>1. saved.by # 0  BY DEF IInv, RunsInv, SavedInv, Suspends
      <3>2. state.next = saved.state.next  BY <1>3 DEF Based
      <3>3. state = saved.state  BY <1>2, <1>3, <3>1, <3>2 DEF Based
      <3> QED  BY <1>3, <3>3
    <2>8. HandsInv'
      <3>1. Hand(runs[n])'
        <4>1. runs[n].row \in 0..Len(approvals')  BY <1>1, <1>3 DEF Hand
        <4> QED  BY <1>4, <2>3, <4>1 DEF Hand
      <3>2. \A m \in DOMAIN runs : m # n => Hand(runs[m])'
        BY <1>1, <1>6, <2>2, OtherHands DEF IInv, RunsInv, Grows
      <3> QED  BY <2>2, <3>1, <3>2 DEF HandsInv, OnlyRun
    <2>9. OneHandEach'  BY <2>2, <2>3, HandsApart DEF IInv, RunsInv
    <2>10. WaitInv'
      <3>1. Pending' = Pending  BY <1>1 DEF Pending
      <3>2. \A m \in DOMAIN runs : Over(m) => runs'[m] = runs[m]
        BY <1>2, <2>2 DEF OnlyRun
      <3>3. \A m \in DOMAIN runs : At(m, "marked") => At(m, "marked")'
        BY <1>1, <2>2 DEF OnlyRun, At
      <3>4. DOMAIN runs \subseteq DOMAIN runs'  BY <2>2 DEF OnlyRun
      <3> QED  BY <1>1, <1>6, <3>1, <3>2, <3>3, <3>4, WaitKeeps DEF IInv
    <2> QED
      BY <1>1, <1>6, <1>7, <1>8, <2>4, <2>6, <2>7, <2>8, <2>9, <2>10, WithinStep DEF IInv, Types
  <1> QED  BY <1>9, <1>10

-----------------------------------------------------------------------------
(* The end of a run *)

LEMMA EndsStep ==
    ASSUME IInv, NEW n \in DOMAIN runs, NEW place \in {"done", "left"}, Ends(n, place),
           UNCHANGED <<approvals, agreed, saved, effects>>,
           status' \in Statuses, faults' \in 0..MaxFaults, WaitInv'
    PROVE  IInv'
  <1>1. RunsInv'  BY EndsKeeps DEF IInv
  <1>2. OnlyRun(n)  BY EndsForm DEF IInv
  <1>3. Types'  BY <1>2 DEF IInv, Types, OnlyRun
  <1>4. EffectsInv'  BY GrowsNot, ConsentStays DEF IInv, EffectsInv
  <1> QED  BY <1>1, <1>3, <1>4 DEF IInv

LEMMA EndedIs ==
    ASSUME Types, NEW n \in DOMAIN runs, NEW place \in {"done", "left"}, Ends(n, place)
    PROVE  /\ n \in Ended' /\ DOMAIN runs' = DOMAIN runs /\ runs'[n].at = place
           /\ runs'[n].row = (IF place = "left" THEN runs[n].row ELSE 0)
           /\ runs[n].state.next = "build_workflow" => runs'[n].state.next = "build_workflow"
           /\ \A m \in DOMAIN runs : m # n => runs'[m] = runs[m]
  <1> DEFINE s == IF runs[n].state.next = "build_workflow"
                  THEN [Blank EXCEPT !.next = "build_workflow"] ELSE Blank
  <1>1. /\ OnlyRun(n)
        /\ runs'[n] = [runs[n] EXCEPT
             !.at = place, !.answers = <<>>, !.base = <<0, "end">>,
             !.row = IF place = "left" THEN @ ELSE 0, !.state = s]
    BY EndsForm
  <1>2. runs[n] \in Runs  BY RunTypes
  <1>3. /\ runs'[n].state = s /\ runs'[n].at = place
        /\ runs'[n].row = (IF place = "left" THEN runs[n].row ELSE 0)
    BY <1>1, <1>2 DEF Runs
  <1>4. runs[n].state.next = "build_workflow" => s.next = "build_workflow"  BY DEF Blank
  <1>5. n \in Ended'  BY <1>1, <1>3 DEF Ended, Active, OnlyRun
  <1> QED  BY <1>1, <1>3, <1>4, <1>5 DEF OnlyRun

LEMMA ClosesStep ==
    ASSUME IInv, NEW n \in DOMAIN runs, Closes(n)
    PROVE  IInv'
  <1>1. /\ Ends(n, "done") /\ status' = "completed"
        /\ UNCHANGED <<approvals, saved, faults, agreed, effects>>
    BY DEF Closes
  <1>2. status' \in Statuses /\ WaitInv'  BY <1>1 DEF Statuses, WaitInv
  <1> QED  BY <1>1, <1>2, EndsStep DEF IInv, Types

\* The stream is told of a row that is pending, or of a build.
LEMMA SignalsStep ==
    ASSUME IInv, NEW n \in DOMAIN runs, Signals(n)
    PROVE  IInv'
  <1>1. /\ runs[n].at = "signal" /\ Ends(n, "done") /\ status' = "awaiting_approval"
        /\ UNCHANGED <<approvals, saved, faults, agreed, effects>>
    BY DEF Signals, At
  <1>2. Hand(runs[n]) /\ approvals \in Seq(Rows)  BY DEF IInv, RunsInv, HandsInv, Types
  <1>3. WaitInv'
    <2>1. CASE runs[n].state.next = "build_workflow"
      <3>1. n \in Ended' /\ runs'[n].state.next = "build_workflow"
        BY <1>1, <2>1, EndedIs DEF IInv
      <3> QED  BY <3>1 DEF WaitInv, BuildLeft
    <2>2. CASE runs[n].state.next # "build_workflow"
      <3>1. runs[n].row \in 0..Len(approvals) /\ runs[n].row # 0
            /\ approvals[runs[n].row].status = "pending"
        BY <1>1, <1>2, <2>2 DEF Hand
      <3>2. runs[n].row \in Pending'  BY <1>1, <1>2, <3>1 DEF Pending
      <3> QED  BY <3>2 DEF WaitInv
    <2> QED  BY <2>1, <2>2
  <1>4. status' \in Statuses  BY <1>1 DEF Statuses
  <1> QED  BY <1>1, <1>3, <1>4, EndsStep DEF IInv, Types

LEMMA FailsStep ==
    ASSUME IInv, NEW n \in DOMAIN runs, Fails(n)
    PROVE  IInv'
  <1>1. /\ Ends(n, "left") /\ status' = "error"
        /\ UNCHANGED <<approvals, saved, agreed, effects>>
    BY DEF Fails
  <1>2. faults' \in 0..MaxFaults  BY Constants DEF Fails, Fault, IInv, Types
  <1>3. status' \in Statuses /\ WaitInv'  BY <1>1 DEF Statuses, WaitInv
  <1> QED  BY <1>1, <1>2, <1>3, EndsStep

LEMMA LeavesStep ==
    ASSUME IInv, NEW n \in DOMAIN runs, Leaves(n)
    PROVE  IInv'
  <1>1. /\ n \in Active /\ Ends(n, "left")
        /\ UNCHANGED <<status, approvals, saved, agreed, effects>>
    BY DEF Leaves
  <1>2. faults' \in 0..MaxFaults  BY Constants DEF Leaves, Fault, IInv, Types
  <1>3. /\ n \in Ended' /\ DOMAIN runs' = DOMAIN runs /\ runs'[n].at = "left"
        /\ runs'[n].row = runs[n].row
        /\ \A m \in DOMAIN runs : m # n => runs'[m] = runs[m]
    BY <1>1, EndedIs DEF IInv
  <1>4. \A m \in DOMAIN runs : At(m, "marked") => At(m, "marked")' \/ DecisionLost'
    <2> SUFFICES ASSUME NEW m \in DOMAIN runs, At(m, "marked")
                 PROVE  At(m, "marked")' \/ DecisionLost'
      OBVIOUS
    <2>1. CASE m # n  BY <1>3, <2>1 DEF At
    <2>2. CASE m = n
      <3>1. Hand(runs[n]) /\ runs[n].at = "marked"  BY <2>2 DEF IInv, RunsInv, HandsInv, At
      <3>2. runs[n].row # 0 /\ approvals[runs[n].row].status \in {"approved", "rejected"}
        BY <3>1 DEF Hand
      <3>3. runs[n].row \notin Pending' \union {0}  BY <1>1, <3>2 DEF Pending
      <3>4. At(n, "left")'  BY <1>3 DEF At
      <3> QED  BY <1>3, <3>3, <3>4 DEF DecisionLost
    <2> QED  BY <2>1, <2>2
  <1>5. \A m \in DOMAIN runs : Over(m) => runs'[m] = runs[m]  BY <1>1, <1>3 DEF Active, Over
  <1>6. Pending' = Pending  BY <1>1 DEF Pending
  <1>7. Grows  BY <1>1, GrowsNot DEF IInv
  <1>8. WaitInv'  BY <1>1, <1>3, <1>4, <1>5, <1>6, <1>7, WaitKeeps DEF IInv
  <1>9. status' \in Statuses  BY <1>1 DEF IInv, Types
  <1> QED  BY <1>1, <1>2, <1>8, <1>9, EndsStep

-----------------------------------------------------------------------------
(* The job *)

LEMMA ExpiresStep ==
    ASSUME IInv, NEW k \in DOMAIN approvals, Expires(k)
    PROVE  IInv'
  <1>0. PICK gone : gone = Overdue(k)  OBVIOUS
  <1>1. /\ approvals' = [i \in DOMAIN approvals |->
             IF i \in gone THEN [approvals[i] EXCEPT !.status = "expired"] ELSE approvals[i]]
        /\ status' = Expired(status)
        /\ UNCHANGED <<saved, runs, faults, agreed, effects>>
    BY <1>0 DEF Expires
  <1>2. approvals \in Seq(Rows) /\ DOMAIN approvals = 1..Len(approvals) /\ Len(approvals) \in Nat
    BY DEF IInv, Types
  <1>3. \A i \in gone : approvals[i].status = "pending" /\ ~InHand(i)
    BY <1>0 DEF Overdue, Pending
  <1>4. \A i \in 1..Len(approvals) : approvals'[i] \in Rows
    <2> SUFFICES ASSUME NEW i \in 1..Len(approvals) PROVE approvals'[i] \in Rows
      OBVIOUS
    <2>1. approvals[i] \in Rows  BY <1>2
    <2>2. [approvals[i] EXCEPT !.status = "expired"] \in Rows  BY <2>1 DEF Rows, RowStatuses
    <2> QED  BY <1>1, <1>2, <2>1, <2>2
  <1>5. approvals' \in Seq(Rows) /\ Len(approvals') = Len(approvals)
    <2>1. DOMAIN approvals' = 1..Len(approvals)  BY <1>1, <1>2
    <2>2. approvals' = [i \in 1..Len(approvals) |-> approvals'[i]]  BY <1>1, <1>2
    <2>3. approvals' \in Seq(Rows)  BY <1>2, <1>4, <2>2
    <2> QED  BY <1>2, <2>1, <2>3
  <1>6. \A i \in 1..Len(approvals) : i \notin gone => approvals'[i] = approvals[i]
    BY <1>1, <1>2
  <1>7. \A i \in gone : i \in DOMAIN approvals => approvals'[i].status = "expired"
    <2> SUFFICES ASSUME NEW i \in gone, i \in DOMAIN approvals
                 PROVE  approvals'[i].status = "expired"
      OBVIOUS
    <2>1. approvals[i] \in Rows  BY <1>2
    <2> QED  BY <1>1, <2>1 DEF Rows
  <1>8. Grows  BY <1>1, <1>2, <1>3, <1>5, <1>6, <1>7 DEF Grows
  <1>9. Types'
    <2>1. status' \in Statuses  BY <1>1 DEF IInv, Types, Expired, Statuses
    <2> QED  BY <1>1, <1>5, <2>1 DEF IInv, Types
  <1>10. HandsInv'
    <2> SUFFICES ASSUME NEW m \in DOMAIN runs PROVE Hand(runs[m])'
      BY <1>1 DEF HandsInv
    <2>1. Hand(runs[m]) /\ runs'[m] = runs[m]  BY <1>1 DEF IInv, RunsInv, HandsInv
    <2>2. runs[m].row \in 0..Len(approvals')  BY <1>5, <2>1 DEF Hand
    <2>3. CASE runs[m].row = 0 \/ runs[m].at \in {"done", "left"}
      BY <2>1, <2>2, <2>3 DEF Hand
    <2>4. CASE runs[m].row # 0 /\ runs[m].at \notin {"done", "left"}
      <3>1. runs[m].row \notin gone  BY <1>3, <2>4 DEF InHand, Active
      <3>2. runs[m].row \in 1..Len(approvals)  BY <1>2, <2>1, <2>4 DEF Hand
      <3>3. approvals'[runs[m].row] = approvals[runs[m].row]  BY <1>6, <3>1, <3>2
      <3> QED  BY <2>1, <2>2, <3>3 DEF Hand
    <2> QED  BY <2>3, <2>4
  <1>11. OneHandEach'  BY <1>1 DEF IInv, RunsInv, OneHandEach
  <1>12. ToldInv'  BY <1>1, <1>8, ConsentStays DEF IInv, RunsInv, ToldInv
  <1>13. ExecuteInv'  BY <1>1, <1>8, ConsentStays DEF IInv, RunsInv, ExecuteInv
  <1>14. SavedInv' /\ BasesInv'
    <2>1. SavedInv'  BY <1>1 DEF IInv, RunsInv, SavedInv, Behind, Over
    <2>2. BasesInv'  BY <1>1 DEF IInv, RunsInv, BasesInv, Based, Behind, Over
    <2> QED  BY <2>1, <2>2
  <1>15. EffectsInv'  BY <1>1, <1>8, ConsentStays DEF IInv, EffectsInv
  <1>16. WaitInv'  BY <1>1 DEF Expired, WaitInv
  <1> QED
    BY <1>9, <1>10, <1>11, <1>12, <1>13, <1>14, <1>15, <1>16 DEF IInv, RunsInv

-----------------------------------------------------------------------------
(* Every step *)

LEMMA InitInv == Init => IInv
  <1> SUFFICES ASSUME Init PROVE IInv
    OBVIOUS
  <1>1. /\ status = "running" /\ approvals = <<>> /\ runs = <<>> /\ faults = 0
        /\ saved = [by |-> 0, answers |-> <<>>, state |-> Blank]
        /\ agreed = {} /\ effects = {}
    BY DEF Init
  <1>2. DOMAIN runs = {}  BY <1>1
  <1>3. Types
    <2>1. <<>> \in Seq(Rows) /\ <<>> \in Seq(Runs) /\ <<>> \in Seq(Asks) /\ Len(<<>>) = 0
      OBVIOUS
    <2> QED  BY <1>1, <2>1, BlankIs, Constants DEF Types, Statuses
  <1>4. HandsInv /\ OneHandEach /\ BasesInv  BY <1>2 DEF HandsInv, OneHandEach, BasesInv
  <1>5. ToldInv  BY <1>1, <1>2 DEF ToldInv, Told
  <1>6. ExecuteInv  BY <1>1, <1>2 DEF ExecuteInv, ToExecute, Blank
  <1>7. SavedInv  BY <1>1 DEF SavedInv, Blank
  <1>8. EffectsInv /\ WaitInv  BY <1>1 DEF EffectsInv, WaitInv
  <1> QED  BY <1>3, <1>4, <1>5, <1>6, <1>7, <1>8 DEF IInv, RunsInv

LEMMA StutterInv == IInv /\ UNCHANGED vars => IInv'
  <1> SUFFICES ASSUME IInv, UNCHANGED vars PROVE IInv'
    OBVIOUS
  <1>1. UNCHANGED <<status, approvals, saved, runs, faults, agreed, effects>>  BY DEF vars
  <1>2. Types' /\ EffectsInv'  BY <1>1 DEF IInv, Types, EffectsInv, Consented
  <1>3. HandsInv' /\ OneHandEach'  BY <1>1 DEF IInv, RunsInv, HandsInv, OneHandEach, Hand
  <1>4. ToldInv' /\ ExecuteInv'
    BY <1>1 DEF IInv, RunsInv, ToldInv, Told, ExecuteInv, ToExecute, Consented
  <1>5. SavedInv' /\ BasesInv'
    BY <1>1 DEF IInv, RunsInv, SavedInv, BasesInv, Based, Behind, Over
  <1>6. WaitInv'
    BY <1>1 DEF IInv, WaitInv, Pending, BuildLeft, DecisionLost, Ended, Active, At
  <1> QED  BY <1>2, <1>3, <1>4, <1>5, <1>6 DEF IInv, RunsInv

LEMMA StepInv ==
    ASSUME IInv, NEW n \in DOMAIN runs, Step(n)
    PROVE  IInv'
  <1>1. CASE EntersTurn(n)  BY <1>1, EntersTurnStep
  <1>2. CASE Resumes(n)  BY <1>2, ResumesStep
  <1>3. CASE Plans(n)  BY <1>3, PlansStep
  <1>4. CASE Refuses(n) \/ RefusesBuild(n)  BY <1>4, ToReportStep
  <1>5. CASE NoApprovalNeeded(n)  BY <1>5, NoApprovalNeededStep
  <1>6. CASE AsksRow(n)  BY <1>6, AsksRowStep
  <1>7. CASE SetsAwaiting(n)  BY <1>7, SetsAwaitingStep
  <1>8. CASE Decided(n)  BY <1>8, DecidedStep
  <1>9. CASE SetsDecision(n)  BY <1>9, SetsDecisionStep
  <1>10. CASE Draws(n)  BY <1>10, DrawsStep
  <1>11. CASE Executes(n)  BY <1>11, ExecutesStep
  <1>12. CASE Reports(n)  BY <1>12, ReportsStep
  <1>13. CASE Closes(n)  BY <1>13, ClosesStep
  <1>14. CASE Signals(n)  BY <1>14, SignalsStep
  <1> QED
    BY <1>1, <1>2, <1>3, <1>4, <1>5, <1>6, <1>7, <1>8, <1>9, <1>10, <1>11, <1>12, <1>13,
       <1>14 DEF Step

LEMMA NextInv == IInv /\ [Next]_vars => IInv'
  <1> SUFFICES ASSUME IInv, [Next]_vars PROVE IInv'
    OBVIOUS
  <1>1. CASE UNCHANGED vars  BY <1>1, StutterInv
  <1>2. CASE SendMessage
    BY <1>2, AcceptsStep DEF SendMessage, Asks
  <1>3. CASE Decide("yes")  BY <1>3, AcceptsStep DEF Decide, Asks
  <1>4. CASE Decide("no")  BY <1>4, AcceptsStep DEF Decide, Asks
  <1>5. CASE Advances  BY <1>5, StepInv DEF Advances
  <1>6. CASE \E n \in DOMAIN runs : Fails(n) \/ Leaves(n)  BY <1>6, FailsStep, LeavesStep
  <1>7. CASE Job  BY <1>7, ExpiresStep DEF Job
  <1> QED  BY <1>1, <1>2, <1>3, <1>4, <1>5, <1>6, <1>7 DEF Next

LEMMA TypesCorrect == IInv => TypeOK
  <1> SUFFICES ASSUME IInv PROVE TypeOK
    OBVIOUS
  <1>1. Types /\ HandsInv  BY DEF IInv, RunsInv
  <1>2. \A i \in DOMAIN approvals : approvals[i] \in Rows  BY <1>1 DEF Types
  <1>3. ASSUME NEW n \in DOMAIN runs
        PROVE  /\ runs[n].asked \in Asks /\ runs[n].at \in Places /\ runs[n].state \in States
               /\ runs[n].row \in {0} \union DOMAIN approvals
    <2>1. runs[n] \in Runs  BY <1>1, RunTypes
    <2>2. runs[n].row \in 0..Len(approvals) /\ DOMAIN approvals = 1..Len(approvals)
      BY <1>1 DEF HandsInv, Hand, Types
    <2>3. Len(approvals) \in Nat  BY <1>1 DEF Types
    <2> QED  BY <2>1, <2>2, <2>3 DEF Runs
  <1> QED  BY <1>1, <1>2, <1>3 DEF TypeOK, Types, Rows, RowStatuses, Asks

LEMMA Invariance == Spec => []IInv
  <1> QED  BY InitInv, NextInv, PTL DEF Spec

\* What needs consent is executed, or drawn, only behind a yes to a checkpoint that
\* held this very plan, and the row that build_workflow has marked, or that execute's
\* audit names, is one of this plan that stays approved: whatever messages, decisions
\* and resumed runs meet
\* (graph/nodes/human_approval.py, build_workflow.py, execute.py).
THEOREM ConsentIsExact == Spec => []ConsentExact
  <1>1. IInv => ConsentExact
    <2> SUFFICES ASSUME IInv PROVE ConsentExact
      OBVIOUS
    <2>1. TypeOK  BY TypesCorrect
    <2>2. ASSUME NEW e \in effects
          PROVE  IF Risky(e.plan)
                 THEN e.plan \in agreed /\ e.row # 0
                      /\ approvals[e.row] = [plan |-> e.plan, status |-> "approved"]
                 ELSE e.row = 0
      <3>1. Consented(e.plan, e.row)  BY DEF IInv, EffectsInv
      <3>2. Len(approvals) \in Nat  BY DEF IInv, Types
      <3> QED  BY <3>1, <3>2 DEF Consented
    <2> QED  BY <2>1, <2>2 DEF ConsentExact
  <1> QED  BY <1>1, Invariance, PTL

\* When no run is under way, a thread that waits for an approval has a row that can
\* be decided or will expire, or one of the two accidents that the definition names
\* has happened (human_approval.py, chat_service.py, expiration_job.py).
THEOREM WaitIsExplained == Spec => []AwaitingExplained
  <1>1. IInv => AwaitingExplained
    <2> SUFFICES ASSUME IInv, Active = {}, status = "awaiting_approval"
                 PROVE  Pending # {} \/ BuildLeft \/ DecisionLost
      BY DEF AwaitingExplained
    <2>1. \A n \in DOMAIN runs : ~At(n, "marked")  BY DEF Active, At
    <2> QED  BY <2>1 DEF IInv, WaitInv
  <1> QED  BY <1>1, Invariance, PTL
=============================================================================
