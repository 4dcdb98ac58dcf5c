------------------------- MODULE EpisodeRunnerProofs ------------------------
(***************************************************************************)
(* Proofs about EpisodeRunner, for all retry budgets and any number of     *)
(* disturbances: conflicts, outages, lost replies, time-outs, crashes and  *)
(* calls that arrive after their worker is gone.                           *)
(***************************************************************************)
EXTENDS EpisodeRunner, FiniteSetTheorems, TLAPS

StepStates == {"diagnosing", "recommending", "judging", "reporting", "resolved"}
PCs == {"idle", "run", "record", "decide", "cas", "giveup", "alert", "dead"}

Runners ==
  [pc : PCs, for : StepStates \union {"none"}, mine : SUBSET Items,
   out : {"none", "ok", "failed", "limit"}, to : STATES \union {"none"},
   by : {"none", "advance", "tick"}, fresh : BOOLEAN]

LateCalls == [for : StepStates, has : SUBSET Items]
Verdicts == [result : {"PASS", "FAIL"}, art : Nat]

\* The runner is in a step.
Running == ctl.pc \in {"run", "record", "decide"}

\* Types of the variables that the properties speak of.
TypeInv ==
  /\ state \in STATES /\ fails \in Nat /\ arts \in Nat
  /\ verdicts \in Seq(Verdicts)
  /\ params \in [P08 : Nat, P09 : Nat]
  /\ ctl \in Runners
  /\ Running => ctl.for \in StepStates
  /\ ctl.pc = "decide" => ctl.for # "resolved"
  /\ late \subseteq LateCalls
  /\ disturb \in Nat /\ attempts \in Nat /\ returns \in Nat

-----------------------------------------------------------------------------
(* The kinds of steps.  Every step is of one of them (StepKinds), and each *)
(* invariant is shown to be preserved kind by kind.                        *)

\* The effect of a call that adds item, without its gate.
Effect(for, has, item) ==
  /\ \/ /\ item \in {"sound", "refuted", "gaps"} /\ for = "diagnosing" /\ state = "diagnosing"
        /\ UNCHANGED <<arts, verdicts, reports>>
     \/ /\ item = "artefact" /\ for = "recommending" /\ state = "recommending"
        /\ arts' = arts + 1 /\ UNCHANGED <<verdicts, reports>>
     \/ /\ item = "verdict" /\ for = "judging" /\ state = "judging"
        /\ \E result \in {"PASS", "FAIL"} :
             verdicts' = Append(verdicts, [result |-> result, art |-> arts])
        /\ UNCHANGED <<arts, reports>>
     \/ /\ item = "report" /\ for \in {"reporting", "resolved"}
        /\ reports' = reports \union {ReportKind(for)}
        /\ UNCHANGED <<arts, verdicts>>
     \/ /\ item = "alert" /\ for \in {"reporting", "resolved"}
        /\ UNCHANGED <<arts, verdicts, reports>>
  /\ delivered' = IF {"report", "alert"} \subseteq has \union {item}
                  THEN delivered \union {ReportKind(for)} ELSE delivered

\* A call of the worker of the step, and one that outlived its worker.
Works ==
  /\ ctl.pc = "run"
  /\ \E item \in Items : /\ Effect(ctl.for, ctl.mine, item)
                         /\ ctl' = [ctl EXCEPT !.mine = @ \union {item}]
  /\ UNCHANGED <<state, fails, recovery, alerted, params, disturb, attempts, returns>>

ArrivesLate ==
  /\ \E c \in late, item \in Items : /\ Effect(c.for, c.has, item)
                                     /\ ctl' = [ctl EXCEPT !.fresh = @ /\ item = "alert"]
  /\ disturb' = disturb + 1
  /\ UNCHANGED <<state, fails, recovery, alerted, params, attempts, returns>>

\* The step leaves the runner at pc, with nothing of a session.
Rests(pc) == ctl' \in Runners /\ ctl'.pc = pc /\ ctl'.mine = {}

\* A transition that the store committed, whether its reply arrives or not.
Moves ==
  /\ ctl.pc = "cas" /\ ctl.fresh /\ Allowed("controller", state, ctl.to)
  /\ state' = ctl.to /\ fails' = 0 /\ attempts' = 0
  /\ returns' = IF state = "judging" /\ ctl.to = "recommending" THEN returns + 1 ELSE returns
  /\ \E pc \in {"idle", "alert", "giveup", "dead"} : Rests(pc)
  /\ IF ctl.to = "handed_off" THEN alerted' = "lost" \/ ctl'.pc = "alert" ELSE alerted' = alerted
  /\ disturb' \in {disturb, disturb + 1}
  /\ UNCHANGED <<arts, verdicts, reports, recovery, params, delivered>>

\* The runner decides on a transition.
Chooses(to) ==
  \/ /\ to = "handed_off"
     /\ \/ ctl.pc = "idle" /\ state # "resolved"
        \/ ctl.pc = "decide" \/ ctl.pc = "giveup"
  \/ to = "diagnosing" /\ ctl.pc = "idle" /\ state = "open"
  \/ /\ ctl.pc = "decide" /\ ctl.out = "ok"
     /\ \/ ctl.for = "diagnosing" /\ to = "recommending" /\ ~recovery
        \/ ctl.for = "diagnosing" /\ to = "reporting"
        \/ ctl.for = "recommending" /\ to = "judging"
        \/ ctl.for = "judging" /\ to = "reporting" /\ NewestVerdict.result = "PASS"
        \/ /\ ctl.for = "judging" /\ to = "recommending" /\ NewestVerdict.result # "PASS"
           /\ CountFails <= P09
        \/ ctl.for = "reporting" /\ to = "awaiting_operator"

Decides ==
  /\ \E to \in STATES, by \in {"advance", "tick"} :
       /\ Chooses(to)
       /\ ctl' = [Idle EXCEPT !.pc = "cas", !.to = to, !.by = by, !.fresh = TRUE]
  /\ UNCHANGED <<record, alerted, params, disturb, history>>

\* The outcome of a step is written, and its reply may be lost.
Records ==
  /\ ctl.pc = "record"
  /\ fails' = IF ctl.out = "ok" THEN fails ELSE fails + 1
  /\ \/ /\ ctl' = IF ctl.for = "resolved" THEN Idle ELSE [ctl EXCEPT !.pc = "decide"]
        /\ disturb' = disturb
     \/ ctl.out # "ok" /\ ctl' = Idle /\ disturb' = disturb + 1
  /\ UNCHANGED <<state, arts, verdicts, reports, recovery, alerted, params, history>>

\* The runner gives up what it is doing: because of a disturbance, or for a reason
\* of its own.
Done ==
  \/ ctl.pc = "cas" /\ ~ctl.fresh
  \/ ctl.pc = "decide" /\ ctl.out # "ok" /\ fails <= P08
  \/ ctl.pc = "giveup" \/ ctl.pc = "alert"

Drops ==
  /\ \E pc \in {"idle", "giveup", "dead"} :
       /\ Rests(pc)
       /\ pc = "giveup" => ctl.pc \notin {"idle", "dead"}
       /\ \/ disturb' = disturb + 1
          \/ disturb' = disturb /\ Done /\ pc = "idle"
  /\ IF ctl.pc = "alert" THEN alerted' # "none" ELSE alerted' = alerted
  /\ UNCHANGED <<record, params, history>>

\* Another client appends to the episode; what the runner knows is stale.
Intrudes ==
  /\ ctl' = [ctl EXCEPT !.fresh = FALSE]
  /\ disturb' = disturb + 1
  /\ UNCHANGED <<state, fails, arts, verdicts, reports, alerted, params, history>>

\* Neither the episode nor the runner is concerned.
Aside ==
  /\ disturb' \in {disturb, disturb + 1}
  /\ UNCHANGED <<record, alerted, params, ctl, history>>

\* The role of a step.
LEMMA Roles ==
  /\ RoleOf["diagnosing"] = "diagnostician" /\ RoleOf["recommending"] = "change_planner"
  /\ RoleOf["judging"] = "proposal_judge" /\ RoleOf["reporting"] = "reporter"
  /\ RoleOf["resolved"] = "reporter"
  /\ ToolRole("hypothesis") = "diagnostician" /\ ToolStates("hypothesis") = {"diagnosing"}
  /\ ToolRole("recommendation") = "change_planner"
  /\ ToolStates("recommendation") = {"recommending"}
  /\ ToolRole("verdict") = "proposal_judge" /\ ToolStates("verdict") = {"judging"}
  /\ ToolRole("report") = "reporter" /\ ToolStates("report") = {"reporting", "resolved"}
<1>1. /\ RoleOf["diagnosing"] = "diagnostician" /\ RoleOf["recommending"] = "change_planner"
      /\ RoleOf["judging"] = "proposal_judge" /\ RoleOf["reporting"] = "reporter"
      /\ RoleOf["resolved"] = "reporter"
  BY DEF RoleOf
<1>2. /\ ToolRole("hypothesis") = "diagnostician"
      /\ ToolRole("recommendation") = "change_planner"
      /\ ToolRole("verdict") = "proposal_judge"
      /\ ToolRole("report") = "reporter"
  BY Zenon DEF ToolRole
<1>3. /\ ToolStates("hypothesis") = {"diagnosing"}
      /\ ToolStates("recommendation") = {"recommending"}
      /\ ToolStates("verdict") = {"judging"}
      /\ ToolStates("report") = {"reporting", "resolved"}
  BY Zenon DEF ToolStates
<1> QED BY <1>1, <1>2, <1>3

\* A call that the gate of its tool lets through.
LEMMA CallEffect ==
  ASSUME NEW for \in StepStates, NEW has, NEW item \in Items, WorkerCall(for, has, item)
  PROVE  Effect(for, has, item)
<1>0. delivered' = IF {"report", "alert"} \subseteq has \union {item}
                  THEN delivered \union {ReportKind(for)} ELSE delivered
  BY DEF WorkerCall
<1>1. CASE WriteHypotheses(for, has, item)
  BY <1>0, <1>1, Roles DEF WriteHypotheses, Gate, StepStates, Effect
<1>2. CASE WriteArtefact(for, has, item)
  BY <1>0, <1>2, Roles DEF WriteArtefact, Gate, StepStates, Effect
<1>3. CASE WriteVerdict(for, has, item)
  BY <1>0, <1>3, Roles DEF WriteVerdict, Gate, StepStates, Effect
<1>4. CASE WriteReport(for, has, item)
  BY <1>0, <1>4, Roles DEF WriteReport, Gate, StepStates, Effect
<1>5. CASE SendAlert(for, has, item)
  BY <1>0, <1>5, Roles DEF SendAlert, StepStates, Effect
<1> QED BY <1>1, <1>2, <1>3, <1>4, <1>5 DEF WorkerCall

\* A transition of the controller leads from a live state to a state.
LEMMA AllowedState ==
  ASSUME NEW to, Allowed("controller", state, to)
  PROVE  to \in STATES /\ state \in NONTERMINAL
BY DEF Allowed, CONTROLLER, STATES, TERMINAL, NONTERMINAL

\* The states that the runner moves episodes to, and the ones it has steps for.
LEMMA StateNames ==
  /\ {"open", "diagnosing", "recommending", "judging", "reporting", "awaiting_operator",
      "resolved", "handed_off"} = STATES
  /\ STATES \ {"open", "awaiting_operator", "handed_off"} = StepStates
BY DEF STATES, NONTERMINAL, TERMINAL, StepStates

\* A completed step is followed by the decision of its state.
LEMMA SuccessDecides ==
  ASSUME TypeInv, AfterSuccess
  PROVE  Decides
<1>1. /\ ctl.pc = "decide" /\ ctl.out = "ok" /\ ctl.for \in StepStates
      /\ UNCHANGED <<record, outside, late, disturb, history>>
  BY DEF AfterSuccess, TypeInv, Running
<1>2. ctl.for = "diagnosing" => AfterDiagnosis
  BY Zenon DEF AfterSuccess
<1>3. ctl.for = "recommending" => Try("judging", "advance")
  BY Zenon DEF AfterSuccess
<1>4. ctl.for = "judging" => AfterJudgement
  BY Zenon DEF AfterSuccess
<1>5. ctl.for = "reporting" => Try("awaiting_operator", "advance")
  BY Zenon DEF AfterSuccess
<1>6. \E to \in STATES : Chooses(to) /\ Try(to, "advance")
  <2>1. ctl.for \in {"diagnosing", "recommending", "judging", "reporting"}
    BY <1>1 DEF TypeInv, StepStates
  <2> USE StateNames DEF Chooses
  <2>2. CASE ctl.for = "diagnosing"
    BY <1>1, <1>2, <2>2 DEF AfterDiagnosis
  <2>3. CASE ctl.for = "recommending"
    BY <1>1, <1>3, <2>3
  <2>4. CASE ctl.for = "judging"
    BY <1>1, <1>4, <2>4 DEF AfterJudgement
  <2>5. CASE ctl.for = "reporting"
    BY <1>1, <1>5, <2>5
  <2> QED BY <2>1, <2>2, <2>3, <2>4, <2>5
<1> QED BY <1>1, <1>6 DEF Decides, Try, outside

\* What a dying worker leaves under way is a call of its step.
LEMMA DyingWorker ==
  ASSUME TypeInv, ctl.pc = "run", WorkerDies
  PROVE  late' \subseteq LateCalls
<1>1. ctl.for \in StepStates /\ ctl.mine \in SUBSET Items
  BY DEF TypeInv, Running, Runners
<1> QED BY <1>1 DEF WorkerDies, LateCalls, TypeInv

\* The shapes that the runner is left in between its calls.
LEMMA Resting ==
  /\ ctl' = Idle => Rests("idle")
  /\ \A pc \in PCs : ctl' = [Idle EXCEPT !.pc = pc] => Rests(pc)
  /\ \A pc \in PCs, by \in {"none", "advance", "tick"} :
       ctl' = [Idle EXCEPT !.pc = pc, !.by = by] => Rests(pc)
<1>1. ctl' = Idle => Rests("idle")
  BY DEF Idle, Rests, Runners, PCs
<1>2. ASSUME NEW pc \in PCs, ctl' = [Idle EXCEPT !.pc = pc] PROVE Rests(pc)
  BY <1>2 DEF Idle, Rests, Runners
<1>3. ASSUME NEW pc \in PCs, NEW by \in {"none", "advance", "tick"},
             ctl' = [Idle EXCEPT !.pc = pc, !.by = by]
      PROVE  Rests(pc)
  BY <1>3 DEF Idle, Rests, Runners
<1> QED BY <1>1, <1>2, <1>3

\* A committed transition: the answer arrived, was lost, or came too late.
LEMMA MovedMoves ==
  ASSUME TypeInv, NEW replied, ctl.pc = "cas", ctl.fresh, Moved(ctl.to, replied),
         disturb' \in {disturb, disturb + 1},
         NEW pc \in {"idle", "alert", "giveup", "dead"}, Rests(pc),
         ctl.to = "handed_off" => ~replied \/ pc = "alert"
  PROVE  Moves
<1>1. ctl'.pc = pc
  BY DEF Rests
<1>2. \E q \in {"idle", "alert", "giveup", "dead"} : Rests(q)
  OBVIOUS
<1>3. returns' = IF state = "judging" /\ ctl.to = "recommending" THEN returns + 1 ELSE returns
  BY DEF Moved
<1> QED BY <1>1, <1>2, <1>3 DEF Moves, Moved

\* Every step is of one of these kinds.
LEMMA StepKinds ==
  ASSUME TypeInv, [Next]_vars
  PROVE  /\ late' \subseteq LateCalls
         /\ \/ Works \/ ArrivesLate \/ Moves \/ Resolve \/ StartStep \/ EndStep
            \/ Records \/ Decides \/ Drops \/ Intrudes \/ Aside
<1> USE DEF record, outside, history
<1>0. UNCHANGED late => late' \subseteq LateCalls
  BY DEF TypeInv
<1>1. CASE BundleEnded
  <2>1. Chooses("handed_off")
    BY <1>1 DEF BundleEnded, Advancing, Chooses
  <2> QED BY <1>0, <1>1, <2>1, StateNames DEF BundleEnded, Decides, Try
<1>2. CASE BundleCorrupt
  BY <1>0, <1>2 DEF BundleCorrupt, Aside
<1>3. CASE Begin
  <2>1. Chooses("diagnosing")
    BY <1>3 DEF Begin, Advancing, Chooses
  <2> QED BY <1>0, <1>3, <2>1, StateNames DEF Begin, Decides, Try
<1>4. CASE StartStep
  BY <1>0, <1>4 DEF StartStep
<1>5. CASE EndStep
  BY <1>0, <1>5, DyingWorker DEF EndStep
<1>6. CASE RecordStep
  BY <1>0, <1>6 DEF RecordStep, Records
<1>7. CASE AfterFailure
  <2>1. CASE Try("handed_off", "advance")
    <3>1. Chooses("handed_off")
      BY <1>7 DEF AfterFailure, Chooses
    <3> QED BY <1>0, <1>7, <2>1, <3>1, StateNames DEF AfterFailure, Decides, Try
  <2>2. CASE ctl' = Idle /\ ~(ctl.out = "limit" \/ fails > P08)
    <3>1. fails <= P08
      BY <2>2 DEF TypeInv, P08
    <3>2. Done
      BY <1>7, <3>1 DEF AfterFailure, Done
    <3> QED BY <1>0, <1>7, <2>2, <3>2, Resting DEF AfterFailure, Drops
  <2> QED BY <1>7, <2>1, <2>2 DEF AfterFailure
<1>8. CASE AfterSuccess
  BY <1>0, <1>8, SuccessDecides DEF AfterSuccess
<1>9. CASE GiveUp
  <2>1. CASE Try("handed_off", "tick")
    <3>1. Chooses("handed_off")
      BY <1>9 DEF GiveUp, Chooses
    <3> QED BY <1>0, <1>9, <2>1, <3>1, StateNames DEF GiveUp, Decides, Try
  <2>2. CASE ctl' = Idle
    <3>1. Done
      BY <1>9 DEF GiveUp, Done
    <3> QED BY <1>0, <1>9, <2>2, <3>1, Resting DEF GiveUp, Drops
  <2> QED BY <1>9, <2>1, <2>2 DEF GiveUp
<1>10. CASE Swap
  <2>1. late' \subseteq LateCalls
    BY <1>0, <1>10 DEF Swap, Moved
  <2>2. ctl.by \in {"none", "advance", "tick"}
    BY DEF TypeInv, Runners
  <2>3. CASE ctl.to = "handed_off"
    <3>1. Rests("alert")
      BY <1>10, <2>2, <2>3, Resting DEF Swap, PCs
    <3> QED BY <1>10, <2>1, <2>3, <3>1, MovedMoves DEF Swap
  <2>4. CASE ctl.to # "handed_off"
    <3>1. Rests("idle")
      BY <1>10, <2>4, Resting DEF Swap
    <3> QED BY <1>10, <2>1, <2>4, <3>1, MovedMoves DEF Swap
  <2> QED BY <2>3, <2>4
<1>11. CASE Conflict
  BY <1>0, <1>11, Resting DEF Conflict, Drops, Done
<1>12. CASE Alert
  BY <1>0, <1>12, Resting DEF Alert, Drops, Done
<1>13. CASE WorkerStep
  <2>1. late' \subseteq LateCalls /\ ctl.for \in StepStates
    BY <1>0, <1>13 DEF WorkerStep, TypeInv, Running
  <2> QED BY <1>13, <2>1, CallEffect DEF WorkerStep, Works
<1>14. CASE LateStep
  <2>1. \A c \in late : c.for \in StepStates
    BY DEF TypeInv, LateCalls
  <2> QED BY <1>14, <2>1, CallEffect DEF LateStep, Disturb, ArrivesLate
<1>15. CASE ForeignAppend
  BY <1>0, <1>15 DEF ForeignAppend, Disturb, Intrudes
<1>16. CASE RecoveryObserved
  BY <1>0, <1>16 DEF RecoveryObserved, Disturb, Intrudes
<1>17. CASE Resolve
  BY <1>0, <1>17 DEF Resolve
<1>18. CASE Outage
  <2>1. late' \subseteq LateCalls
    BY <1>0, <1>18, DyingWorker DEF Outage
  <2> QED BY <1>18, <2>1, Resting DEF Outage, Disturb, Drops
<1>19. CASE LostReply
  <2>1. CASE ctl.pc = "cas" /\ ctl.fresh /\ Moved(ctl.to, FALSE)
    <3>1. late' \subseteq LateCalls
      BY <1>0, <2>1 DEF Moved
    <3>2. Rests("idle") /\ disturb' = disturb + 1
      BY <1>19, Resting DEF LostReply, Disturb
    <3> QED BY <2>1, <3>1, <3>2, MovedMoves
  <2>2. CASE ctl.pc = "record"
    BY <1>0, <1>19, <2>2 DEF LostReply, Disturb, Records
  <2> QED BY <1>19, <2>1, <2>2 DEF LostReply
<1>20. CASE Crash
  <2>1. late' \subseteq LateCalls
    BY <1>0, <1>20, DyingWorker DEF Crash
  <2> QED BY <1>20, <2>1, Resting DEF Crash, Disturb, Drops, AlertLost
<1>21. CASE BundleEvent
  BY <1>0, <1>21 DEF BundleEvent, Disturb, Aside
<1>22. CASE Restore
  BY <1>0, <1>22 DEF Restore, Aside
<1>23. CASE Fault
  <2>1. late' \subseteq LateCalls
    BY <1>0, <1>23, DyingWorker DEF Fault
  <2>2. Rests("giveup")
    BY <1>23, Resting DEF Fault, PCs
  <2> QED BY <1>23, <2>1, <2>2 DEF Fault, Disturb, Drops
<1>24. CASE Hang
  <2>1. PICK pc \in {"giveup", "dead"} :
          /\ Rests(pc)
          /\ pc = "giveup" => ctl.pc \notin {"idle", "dead"}
    BY <1>24, Resting DEF Hang, PCs
  <2>2. disturb' = disturb + 1
    BY <1>24 DEF Hang, Disturb
  <2>3. CASE AlertLost /\ UNCHANGED <<record, params, bundle, observe, late, history>>
    BY <1>0, <2>1, <2>2, <2>3 DEF Drops, AlertLost
  <2>4. CASE ctl.pc = "cas" /\ ctl.fresh /\ Moved(ctl.to, FALSE)
    <3>1. late' \subseteq LateCalls
      BY <1>0, <2>4 DEF Moved
    <3> QED BY <2>1, <2>2, <2>4, <3>1, MovedMoves
  <2> QED BY <1>24, <2>3, <2>4 DEF Hang
<1>25. CASE UNCHANGED vars
  BY <1>0, <1>25 DEF vars, Aside
<1> QED
  BY <1>1, <1>2, <1>3, <1>4, <1>5, <1>6, <1>7, <1>8, <1>9, <1>10, <1>11, <1>12, <1>13, <1>14,
     <1>15, <1>16, <1>17, <1>18, <1>19, <1>20, <1>21, <1>22, <1>23, <1>24, <1>25
  DEF Next, Controller, Environment

-----------------------------------------------------------------------------
(* Types, and what the runner knows of its own step.                       *)

\* A decided transition, and the start of a step.
LEMMA CasShape ==
  ASSUME NEW to \in STATES, NEW by \in {"advance", "tick"},
         ctl' = [Idle EXCEPT !.pc = "cas", !.to = to, !.by = by, !.fresh = TRUE]
  PROVE  ctl' \in Runners /\ ctl'.pc = "cas" /\ ctl'.mine = {} /\ ctl'.to = to /\ ctl'.fresh
BY DEF Idle, Runners, PCs

\* run_step: a step that starts, refused by the launch or not, has written nothing yet.
LEMMA StartShape ==
  ASSUME TypeInv, StartStep
  PROVE  /\ ctl' \in Runners /\ ctl'.pc \in {"run", "record"} /\ ctl'.mine = {}
         /\ ctl'.for = state /\ ctl'.out # "ok" /\ state \in StepStates
         /\ ctl.pc = "idle" /\ attempts' = attempts + 1
         /\ state = "resolved" => ~Closed /\ fails <= P08
         /\ UNCHANGED <<record, outside, late, disturb, returns, delivered>>
<1>1. state \in StepStates
  BY StateNames DEF StartStep, Advancing, StepWanted, TypeInv
<1>2. PICK refusal \in {"none", "failed", "limit"} :
        ctl' = [Idle EXCEPT !.pc = IF refusal = "none" THEN "run" ELSE "record",
                            !.for = state, !.out = refusal]
  BY DEF StartStep
<1>3. /\ ctl' \in Runners /\ ctl'.pc \in {"run", "record"} /\ ctl'.mine = {}
      /\ ctl'.for = state /\ ctl'.out # "ok"
  <2>1. CASE refusal = "none"
    <3>1. ctl' = [Idle EXCEPT !.pc = "run", !.for = state, !.out = "none"]
      BY <1>2, <2>1
    <3> QED BY <1>1, <3>1 DEF Idle, Runners, PCs
  <2>2. CASE refusal # "none"
    <3>1. ctl' = [Idle EXCEPT !.pc = "record", !.for = state, !.out = refusal]
      BY <1>2, <2>2
    <3> QED BY <1>1, <2>2, <3>1 DEF Idle, Runners, PCs
  <2> QED BY <2>1, <2>2
<1> QED BY <1>1, <1>3 DEF StartStep, Advancing, StepWanted

\* What artefacts.validate_* ask of the session of a step.
Complete(for, mine) ==
  /\ for = "recommending" => "artefact" \in mine
  /\ for = "judging" => "verdict" \in mine
  /\ for \in {"reporting", "resolved"} => {"report", "alert"} \subseteq mine

\* validate: a step that passes has the entries its role must leave.
LEMMA ValidComplete == Valid => Complete(ctl.for, ctl.mine)
<1>1. Valid /\ ctl.for = "recommending" => "artefact" \in ctl.mine
  BY Zenon DEF Valid
<1>2. Valid /\ ctl.for = "judging" => "verdict" \in ctl.mine
  BY Zenon DEF Valid
<1>3. Valid /\ ctl.for \in {"reporting", "resolved"} => {"report", "alert"} \subseteq ctl.mine
  BY Zenon DEF Valid
<1> QED BY <1>1, <1>2, <1>3 DEF Complete

\* The end of a step: what it left is complete, or it does not count.
LEMMA EndShape ==
  ASSUME TypeInv, EndStep
  PROVE  /\ ctl.pc = "run" /\ ctl' \in Runners /\ ctl'.pc = "record"
         /\ ctl'.for = ctl.for /\ ctl'.mine \subseteq ctl.mine
         /\ ctl'.out = "ok" => Complete(ctl'.for, ctl'.mine)
         /\ UNCHANGED <<record, outside, disturb, history>>
<1>1. CASE Valid /\ ctl' = [ctl EXCEPT !.pc = "record", !.out = "ok"]
  BY <1>1, ValidComplete DEF EndStep, TypeInv, Runners, PCs
<1>2. CASE \E out \in {"failed", "limit"} :
             ctl' = [ctl EXCEPT !.pc = "record", !.mine = {}, !.out = out]
  BY <1>2 DEF EndStep, TypeInv, Runners, PCs
<1> QED BY <1>1, <1>2 DEF EndStep

\* The step is for the state that the episode is in, and what its session has
\* left is in the record.
StepInv ==
  /\ Running => ctl.for = state
  /\ ~Running => ctl.mine = {}
  /\ ctl.pc \in {"record", "decide"} /\ ctl.out = "ok" => Complete(ctl.for, ctl.mine)
  /\ "artefact" \in ctl.mine => state = "recommending"
  /\ "verdict" \in ctl.mine => state = "judging"
  /\ "report" \in ctl.mine => ReportKind(ctl.for) \in reports

\* A call extends the record by what it writes.
LEMMA EffectTypes ==
  ASSUME TypeInv, NEW for \in StepStates, NEW has, NEW item \in Items, Effect(for, has, item)
  PROVE  /\ arts' \in Nat /\ arts <= arts' /\ verdicts' \in Seq(Verdicts)
         /\ reports \subseteq reports'
         /\ item # "artefact" => arts' = arts
         /\ item # "verdict" => verdicts' = verdicts
         /\ delivered \subseteq delivered'
<1>1. ASSUME NEW result \in {"PASS", "FAIL"}
      PROVE  Append(verdicts, [result |-> result, art |-> arts]) \in Seq(Verdicts)
  BY DEF TypeInv, Verdicts
<1>2. delivered \subseteq delivered'
  BY DEF Effect
<1>3. CASE item = "verdict" /\ \E result \in {"PASS", "FAIL"} :
             verdicts' = Append(verdicts, [result |-> result, art |-> arts])
  BY <1>1, <1>2, <1>3 DEF Effect, TypeInv
<1>4. CASE item # "verdict"
  BY <1>2, <1>4 DEF Effect, TypeInv
<1> QED BY <1>3, <1>4 DEF Effect

\* The states, counters and parameters keep their types.
LEMMA TypeStep == TypeInv /\ [Next]_vars => TypeInv'
<1> SUFFICES ASSUME TypeInv, [Next]_vars PROVE TypeInv'
  OBVIOUS
<1> USE DEF TypeInv, record, outside, history, Running
<1>0. late' \subseteq LateCalls
  BY StepKinds
<1>1. CASE Works
  <2>1. PICK item \in Items : /\ Effect(ctl.for, ctl.mine, item)
                              /\ ctl' = [ctl EXCEPT !.mine = @ \union {item}]
    BY <1>1 DEF Works
  <2>2. arts' \in Nat /\ verdicts' \in Seq(Verdicts)
    BY <1>1, <2>1, EffectTypes DEF Works
  <2>3. ctl' \in Runners /\ ctl'.pc = "run" /\ ctl'.for = ctl.for
    BY <1>1, <2>1 DEF Works, Runners
  <2> QED BY <1>0, <1>1, <2>2, <2>3 DEF Works
<1>2. CASE ArrivesLate
  <2>1. PICK c \in late, item \in Items : /\ Effect(c.for, c.has, item)
                                          /\ ctl' = [ctl EXCEPT !.fresh = @ /\ item = "alert"]
    BY <1>2 DEF ArrivesLate
  <2>2. arts' \in Nat /\ verdicts' \in Seq(Verdicts)
    BY <2>1, EffectTypes DEF LateCalls
  <2>3. ctl' \in Runners /\ ctl'.pc = ctl.pc /\ ctl'.for = ctl.for
    BY <2>1 DEF Runners
  <2> QED BY <1>0, <1>2, <2>2, <2>3 DEF ArrivesLate
<1>3. CASE Moves
  BY <1>0, <1>3, AllowedState DEF Moves, Rests
<1>4. CASE Resolve
  BY <1>0, <1>4, StateNames DEF Resolve, Runners
<1>5. CASE StartStep
  BY <1>0, <1>5, StartShape
<1>6. CASE EndStep
  BY <1>0, <1>6, EndShape
<1>7. CASE Records
  <2>1. CASE ctl' = Idle
    <3>1. fails' \in Nat /\ disturb' \in Nat
      BY <1>7 DEF Records
    <3>2. ctl' \in Runners /\ ctl'.pc = "idle"
      BY <2>1, Resting DEF Rests
    <3> QED BY <1>0, <1>7, <3>1, <3>2 DEF Records
  <2>2. CASE ctl.for # "resolved" /\ ctl' = [ctl EXCEPT !.pc = "decide"]
    BY <1>0, <1>7, <2>2 DEF Records, Runners, PCs
  <2> QED BY <1>7, <2>1, <2>2 DEF Records
<1>8. CASE Decides
  BY <1>0, <1>8, CasShape DEF Decides
<1>9. CASE Drops
  BY <1>0, <1>9 DEF Drops, Rests
<1>10. CASE Intrudes
  <2>1. ctl' \in Runners /\ ctl'.pc = ctl.pc /\ ctl'.for = ctl.for
    BY <1>10 DEF Intrudes, Runners
  <2> QED BY <1>0, <1>10, <2>1 DEF Intrudes
<1>11. CASE Aside
  BY <1>0, <1>11 DEF Aside
<1> QED BY <1>1, <1>2, <1>3, <1>4, <1>5, <1>6, <1>7, <1>8, <1>9, <1>10, <1>11, StepKinds

\* The types hold in every initial state.
LEMMA TypeInit == Init => TypeInv
<1> SUFFICES ASSUME Init PROVE TypeInv
  OBVIOUS
<1>1. verdicts \in Seq(Verdicts)
  BY DEF Init
<1>2. params \in [P08 : Nat, P09 : Nat]
  BY BudgetsAssumption DEF Init
<1>3. ctl \in Runners /\ ctl.pc = "idle"
  BY DEF Init, Idle, Runners, PCs
<1>4. late \subseteq LateCalls
  BY DEF Init
<1> QED BY <1>1, <1>2, <1>3, <1>4, StateNames DEF Init, TypeInv, Running

\* A late call and a foreign append leave the runner where it is, at most with
\* a read that is stale now.
LEMMA KeptShape ==
  ASSUME TypeInv, ArrivesLate \/ Intrudes \/ Resolve
  PROVE  /\ ctl'.pc = ctl.pc /\ ctl'.for = ctl.for /\ ctl'.mine = ctl.mine
         /\ ctl'.out = ctl.out /\ ctl'.to = ctl.to
         /\ ctl'.fresh => ctl.fresh
<1>1. CASE ArrivesLate
  <2>1. PICK c \in late, item \in Items : ctl' = [ctl EXCEPT !.fresh = @ /\ item = "alert"]
    BY <1>1 DEF ArrivesLate
  <2> QED BY <2>1 DEF TypeInv, Runners
<1>2. CASE Intrudes
  BY <1>2 DEF Intrudes, TypeInv, Runners
<1>3. CASE Resolve
  BY <1>3 DEF Resolve, TypeInv, Runners
<1> QED BY <1>1, <1>2, <1>3

\* A call of the worker adds its item to what the session has left.
LEMMA WorkShape ==
  ASSUME TypeInv, Works
  PROVE  \E item \in Items :
           /\ Effect(ctl.for, ctl.mine, item)
           /\ ctl.pc = "run" /\ ctl.for \in StepStates
           /\ ctl'.pc = "run" /\ ctl'.for = ctl.for /\ ctl'.mine = ctl.mine \union {item}
<1>1. PICK item \in Items : /\ Effect(ctl.for, ctl.mine, item)
                            /\ ctl' = [ctl EXCEPT !.mine = @ \union {item}]
  BY DEF Works
<1>2. ctl.pc = "run" /\ ctl.for \in StepStates
  BY DEF Works, TypeInv, Running
<1>3. ctl'.pc = "run" /\ ctl'.for = ctl.for /\ ctl'.mine = ctl.mine \union {item}
  BY <1>1, <1>2 DEF TypeInv, Runners
<1> QED BY <1>1, <1>2, <1>3

\* The step is written down: the runner decides next, or is through with it.
LEMMA RecordShape ==
  ASSUME TypeInv, Records
  PROVE  \/ ctl'.pc = "idle" /\ ctl'.mine = {}
         \/ /\ ctl'.pc = "decide" /\ ctl'.for = ctl.for /\ ctl'.mine = ctl.mine
            /\ ctl'.out = ctl.out /\ ctl.for # "resolved"
<1>1. CASE ctl' = Idle
  BY <1>1 DEF Idle
<1>2. CASE ctl.for # "resolved" /\ ctl' = [ctl EXCEPT !.pc = "decide"]
  BY <1>2 DEF TypeInv, Runners
<1> QED BY <1>1, <1>2 DEF Records

\* Every step preserves what the runner knows of its step.
LEMMA StepStep == TypeInv /\ StepInv /\ [Next]_vars => StepInv'
<1> SUFFICES ASSUME TypeInv, StepInv, [Next]_vars PROVE StepInv'
  OBVIOUS
<1> USE DEF StepInv, Running, record, history
<1>1. CASE Works
  <2>1. PICK item \in Items :
           /\ Effect(ctl.for, ctl.mine, item)
           /\ ctl.pc = "run" /\ ctl.for \in StepStates
           /\ ctl'.pc = "run" /\ ctl'.for = ctl.for /\ ctl'.mine = ctl.mine \union {item}
    BY <1>1, WorkShape
  <2>2. state' = state
    BY <1>1 DEF Works
  <2>3. reports \subseteq reports' /\ (item = "report" => ReportKind(ctl.for) \in reports')
    BY <2>1 DEF Effect
  <2>4. ReportKind(ctl'.for) = ReportKind(ctl.for)
    BY <2>1 DEF ReportKind
  <2> QED BY <2>1, <2>2, <2>3, <2>4 DEF Effect
<1>2. CASE ArrivesLate
  <2>1. reports \subseteq reports' /\ state' = state
    BY <1>2 DEF ArrivesLate, Effect
  <2> QED BY <1>2, <2>1, KeptShape DEF Complete, ReportKind
<1>3. CASE Moves
  BY <1>3 DEF Moves, Rests
<1>4. CASE Resolve
  <2>1. ctl.pc \notin {"run", "record", "decide"}
    BY <1>4 DEF Resolve, TypeInv, StepStates
  <2> QED BY <1>4, <2>1, KeptShape
<1>5. CASE StartStep
  BY <1>5, StartShape
<1>6. CASE EndStep
  BY <1>6, EndShape DEF Complete, ReportKind
<1>7. CASE Records
  <2>1. state' = state /\ reports' = reports /\ ctl.pc = "record"
    BY <1>7 DEF Records
  <2> QED BY <1>7, <2>1, RecordShape DEF Complete, ReportKind
<1>8. CASE Decides
  BY <1>8, CasShape DEF Decides
<1>9. CASE Drops
  BY <1>9 DEF Drops, Rests
<1>10. CASE Intrudes
  <2>1. state' = state /\ reports' = reports
    BY <1>10 DEF Intrudes
  <2> QED BY <1>10, <2>1, KeptShape DEF Complete, ReportKind
<1>11. CASE Aside
  BY <1>11 DEF Aside, Complete, ReportKind
<1> QED BY <1>1, <1>2, <1>3, <1>4, <1>5, <1>6, <1>7, <1>8, <1>9, <1>10, <1>11, StepKinds

\* The runner starts idle.
LEMMA StepInit == Init => StepInv
<1>1. Init => ctl.pc = "idle" /\ ctl.mine = {}
  BY DEF Init, Idle
<1> QED BY <1>1 DEF StepInv, Running

-----------------------------------------------------------------------------
(* Recovery seen during the analysis.                                      *)

\* The compare-and-swap to state to is under way, on a read that is not stale.
Swapping(to) == ctl.pc = "cas" /\ ctl.fresh /\ ctl.to = to

RecoveryInv == Swapping("recommending") /\ state = "diagnosing" => ~recovery

\* A recovery observation is an append: it makes the read stale.
LEMMA RecoveryStep == TypeInv /\ StepInv /\ RecoveryInv /\ [Next]_vars => RecoveryInv'
<1> SUFFICES ASSUME TypeInv, StepInv, RecoveryInv, [Next]_vars PROVE RecoveryInv'
  OBVIOUS
<1> USE DEF RecoveryInv, Swapping, record, history, outside
<1>1. CASE Works
  BY <1>1, WorkShape
<1>2. CASE ArrivesLate
  BY <1>2, KeptShape DEF ArrivesLate
<1>3. CASE Moves
  BY <1>3 DEF Moves, Rests
<1>4. CASE Resolve
  BY <1>4 DEF Resolve
<1>5. CASE StartStep
  BY <1>5, StartShape
<1>6. CASE EndStep
  BY <1>6, EndShape
<1>7. CASE Records
  BY <1>7, RecordShape
<1>8. CASE Decides
  <2>1. PICK to \in STATES : Chooses(to) /\ ctl'.to = to
    BY <1>8, CasShape DEF Decides
  <2> QED BY <1>8, <2>1 DEF Decides, Chooses, StepInv, Running
<1>9. CASE Drops
  BY <1>9 DEF Drops, Rests
<1>10. CASE Intrudes
  <2>1. ~ctl'.fresh
    BY <1>10 DEF Intrudes, TypeInv, Runners
  <2> QED BY <2>1
<1>11. CASE Aside
  BY <1>11 DEF Aside
<1> QED BY <1>1, <1>2, <1>3, <1>4, <1>5, <1>6, <1>7, <1>8, <1>9, <1>10, <1>11, StepKinds

\* Section 7.3: no episode goes on to recommendation once a recovery observation
\* is in its record, also when the verifier wrote it between the runner's read and
\* its transition.
THEOREM RecoverySkips == Spec => RecoverySkipsPlanning
<1>1. Init => RecoveryInv
  BY DEF Init, RecoveryInv
<1>2. TypeInv /\ RecoveryInv /\ [Next]_vars =>
        [(state = "diagnosing" /\ state' = "recommending") => ~recovery]_vars
  <2> SUFFICES ASSUME TypeInv, RecoveryInv, [Next]_vars,
                      state = "diagnosing", state' = "recommending"
               PROVE  ~recovery
    OBVIOUS
  <2>1. Moves
    BY StepKinds, StartShape, EndShape DEF Works, ArrivesLate, Resolve, Records, Decides,
       Drops, Intrudes, Aside, record
  <2> QED BY <2>1 DEF Moves, RecoveryInv, Swapping
<1> QED
  BY <1>1, <1>2, TypeInit, TypeStep, StepInit, StepStep, RecoveryStep, PTL
  DEF Spec, RecoverySkipsPlanning

-----------------------------------------------------------------------------
(* An episode that waits has been reported.                                *)

DeliverInv ==
  /\ {"report", "alert"} \subseteq ctl.mine => ReportKind(ctl.for) \in delivered
  /\ ctl.pc = "cas" /\ ctl.to = "awaiting_operator" => "incident" \in delivered
  /\ WaitingIsReported

\* Deliveries are not forgotten, and the transition is decided on after one.
LEMMA DeliverStep == TypeInv /\ StepInv /\ DeliverInv /\ [Next]_vars => DeliverInv'
<1> SUFFICES ASSUME TypeInv, StepInv, DeliverInv, [Next]_vars PROVE DeliverInv'
  OBVIOUS
<1> USE DEF DeliverInv, WaitingIsReported, record, history, outside
<1>0. \A f, g : f = g => ReportKind(f) = ReportKind(g)
  OBVIOUS
<1>1. CASE Works
  <2>1. PICK item \in Items :
           /\ Effect(ctl.for, ctl.mine, item)
           /\ ctl.pc = "run" /\ ctl.for \in StepStates
           /\ ctl'.pc = "run" /\ ctl'.for = ctl.for /\ ctl'.mine = ctl.mine \union {item}
    BY <1>1, WorkShape
  <2>2. state' = state
    BY <1>1 DEF Works
  <2>3. /\ delivered \subseteq delivered'
        /\ {"report", "alert"} \subseteq ctl'.mine => ReportKind(ctl'.for) \in delivered'
    BY <2>1 DEF Effect
  <2> QED BY <2>1, <2>2, <2>3
<1>2. CASE ArrivesLate
  <2>1. delivered \subseteq delivered' /\ state' = state
    BY <1>2 DEF ArrivesLate, Effect
  <2> QED BY <1>0, <1>2, <2>1, KeptShape
<1>3. CASE Moves
  <2>1. /\ state' = ctl.to /\ ctl.pc = "cas" /\ delivered' = delivered /\ ctl'.mine = {}
        /\ ctl'.pc # "cas" /\ state \in NONTERMINAL /\ Allowed("controller", state, ctl.to)
    BY <1>3, AllowedState DEF Moves, Rests
  <2>2. state' # "resolved"
    BY <2>1 DEF Allowed, CONTROLLER, NONTERMINAL
  <2> QED BY <2>1, <2>2
<1>4. CASE Resolve
  <2>1. delivered' = delivered /\ "incident" \in delivered
    BY <1>4 DEF Resolve
  <2> QED BY <1>0, <1>4, <2>1, KeptShape
<1>5. CASE StartStep
  BY <1>5, StartShape
<1>6. CASE EndStep
  BY <1>0, <1>6, EndShape
<1>7. CASE Records
  <2>1. delivered' = delivered /\ state' = state
    BY <1>7 DEF Records
  <2> QED BY <1>0, <1>7, <2>1, RecordShape
<1>8. CASE Decides
  <2>1. PICK to \in STATES : Chooses(to) /\ ctl'.to = to /\ ctl'.mine = {}
    BY <1>8, CasShape DEF Decides
  <2>2. to = "awaiting_operator" => "incident" \in delivered
    <3> SUFFICES ASSUME to = "awaiting_operator" PROVE "incident" \in delivered
      OBVIOUS
    <3>1. ctl.pc = "decide" /\ ctl.out = "ok" /\ ctl.for = "reporting"
      BY <2>1 DEF Chooses
    <3>2. {"report", "alert"} \subseteq ctl.mine
      BY <3>1 DEF StepInv, Complete
    <3> QED BY <3>1, <3>2 DEF ReportKind
  <2>3. delivered' = delivered /\ state' = state
    BY <1>8 DEF Decides
  <2> QED BY <2>1, <2>2, <2>3
<1>9. CASE Drops
  BY <1>9 DEF Drops, Rests
<1>10. CASE Intrudes
  <2>1. delivered' = delivered /\ state' = state
    BY <1>10 DEF Intrudes
  <2> QED BY <1>0, <1>10, <2>1, KeptShape
<1>11. CASE Aside
  BY <1>0, <1>11 DEF Aside
<1> QED BY <1>1, <1>2, <1>3, <1>4, <1>5, <1>6, <1>7, <1>8, <1>9, <1>10, <1>11, StepKinds

\* An episode waits for the operator only when one session wrote its incident
\* report and had the alert acknowledged: half a report of one session and half of
\* another do not add up, and neither does a call that arrives late.
THEOREM WaitingReported == Spec => []WaitingIsReported
<1>1. Init => DeliverInv
  BY DEF Init, Idle, DeliverInv, WaitingIsReported
<1>2. DeliverInv => WaitingIsReported
  BY DEF DeliverInv
<1> QED
  BY <1>1, <1>2, TypeInit, TypeStep, StepInit, StepStep, DeliverStep, PTL DEF Spec

-----------------------------------------------------------------------------
(* A report follows a PASS on the newest artefact.                         *)

Newest(results) ==
  verdicts # <<>> /\ NewestVerdict.result \in results /\ NewestVerdict.art = arts

PassInv ==
  /\ state \in {"open", "diagnosing"} => arts = 0
  /\ "verdict" \in ctl.mine => Newest({"PASS", "FAIL"})
  /\ Swapping("reporting") /\ state = "judging" => Newest({"PASS"})
  /\ ReportFollowsPass

\* What a call does to artefacts and verdicts: it adds an artefact in recommending,
\* or a verdict on the newest one in judging, or neither.
LEMMA EffectCases ==
  ASSUME TypeInv, NEW for \in StepStates, NEW has, NEW item \in Items, Effect(for, has, item)
  PROVE  \/ /\ item = "artefact" /\ state = "recommending"
            /\ arts' = arts + 1 /\ verdicts' = verdicts
         \/ /\ item = "verdict" /\ state = "judging" /\ arts' = arts
            /\ \E result \in {"PASS", "FAIL"} :
                 /\ Len(verdicts) \in Nat /\ Len(verdicts') = Len(verdicts) + 1
                 /\ verdicts' # <<>>
                 /\ verdicts'[Len(verdicts) + 1] = [result |-> result, art |-> arts]
                 /\ \A i \in 1..Len(verdicts) : verdicts'[i] = verdicts[i]
         \/ item \notin {"artefact", "verdict"} /\ UNCHANGED <<arts, verdicts>>
<1>1. ASSUME NEW result \in {"PASS", "FAIL"},
             verdicts' = Append(verdicts, [result |-> result, art |-> arts])
      PROVE  /\ Len(verdicts) \in Nat /\ Len(verdicts') = Len(verdicts) + 1
             /\ verdicts' # <<>>
             /\ verdicts'[Len(verdicts) + 1] = [result |-> result, art |-> arts]
             /\ \A i \in 1..Len(verdicts) : verdicts'[i] = verdicts[i]
  <2>1. verdicts \in Seq(Verdicts) /\ [result |-> result, art |-> arts] \in Verdicts
    BY DEF TypeInv, Verdicts
  <2> DEFINE v == [result |-> result, art |-> arts]
  <2> HIDE DEF v
  <2>2. verdicts' = Append(verdicts, v) /\ v \in Verdicts
    BY <1>1, <2>1 DEF v
  <2>3. /\ Len(verdicts) \in Nat /\ Len(verdicts') = Len(verdicts) + 1
        /\ verdicts' # <<>> /\ verdicts'[Len(verdicts) + 1] = v
        /\ \A i \in 1..Len(verdicts) : verdicts'[i] = verdicts[i]
    BY <2>1, <2>2
  <2> QED BY <2>3 DEF v
<1>2. CASE item = "verdict"
  BY <1>1, <1>2 DEF Effect
<1>3. CASE item # "verdict"
  BY <1>3 DEF Effect
<1> QED BY <1>2, <1>3

\* A call keeps the newest verdict on the newest artefact where it must be.
LEMMA EffectPass ==
  ASSUME TypeInv, PassInv, NEW for \in StepStates, NEW has, NEW item \in Items,
         Effect(for, has, item), state' = state
  PROVE  /\ state \in {"open", "diagnosing"} => arts' = 0
         /\ item = "verdict" \/ (Newest({"PASS", "FAIL"}) /\ state = "judging") =>
              Newest({"PASS", "FAIL"})'
         /\ state = "judging" /\ Newest({"PASS"}) /\ item # "verdict" => Newest({"PASS"})'
         /\ ReportFollowsPass'
<1>1. CASE item = "artefact" /\ state = "recommending" /\ verdicts' = verdicts
  BY <1>1 DEF ReportFollowsPass
<1>2. CASE /\ item = "verdict" /\ state = "judging" /\ arts' = arts
           /\ \E result \in {"PASS", "FAIL"} :
                 /\ Len(verdicts) \in Nat /\ Len(verdicts') = Len(verdicts) + 1
                 /\ verdicts' # <<>>
                 /\ verdicts'[Len(verdicts) + 1] = [result |-> result, art |-> arts]
  BY <1>2 DEF ReportFollowsPass, Newest, NewestVerdict
<1>3. CASE item \notin {"artefact", "verdict"} /\ UNCHANGED <<arts, verdicts>>
  BY <1>3 DEF ReportFollowsPass, Newest, NewestVerdict, PassInv
<1> QED BY <1>1, <1>2, <1>3, EffectCases

\* Every step preserves it.
LEMMA PassStep == TypeInv /\ StepInv /\ PassInv /\ [Next]_vars => PassInv'
<1> SUFFICES ASSUME TypeInv, StepInv, PassInv, [Next]_vars PROVE PassInv'
  OBVIOUS
<1> USE DEF PassInv, Swapping, record, history, outside
<1>0. UNCHANGED <<arts, verdicts>> =>
        /\ Newest({"PASS", "FAIL"}) => Newest({"PASS", "FAIL"})'
        /\ Newest({"PASS"}) => Newest({"PASS"})'
        /\ state' = state => ReportFollowsPass'
  BY DEF Newest, NewestVerdict, ReportFollowsPass
<1>1. CASE Works
  <2>1. PICK item \in Items :
           /\ Effect(ctl.for, ctl.mine, item)
           /\ ctl.pc = "run" /\ ctl.for \in StepStates
           /\ ctl'.pc = "run" /\ ctl'.for = ctl.for /\ ctl'.mine = ctl.mine \union {item}
    BY <1>1, WorkShape
  <2>2. state' = state
    BY <1>1 DEF Works
  <2> QED BY <2>1, <2>2, EffectPass DEF StepInv
<1>2. CASE ArrivesLate
  <2>1. PICK c \in late, item \in Items : /\ Effect(c.for, c.has, item)
                                          /\ ctl' = [ctl EXCEPT !.fresh = @ /\ item = "alert"]
    BY <1>2 DEF ArrivesLate
  <2>2. state' = state /\ c.for \in StepStates
    BY <1>2 DEF ArrivesLate, TypeInv, LateCalls
  <2>3. ctl'.fresh => item = "alert"
    BY <2>1 DEF TypeInv, Runners
  <2> QED BY <1>2, <2>1, <2>2, <2>3, EffectPass, KeptShape DEF StepInv
<1>3. CASE Moves
  <2>1. /\ state' = ctl.to /\ ctl.pc = "cas" /\ ctl.fresh /\ ctl'.mine = {} /\ ctl'.pc # "cas"
        /\ Allowed("controller", state, ctl.to) /\ UNCHANGED <<arts, verdicts>>
    BY <1>3 DEF Moves, Rests
  <2>2. state' \in {"open", "diagnosing"} => arts' = 0
    BY <2>1 DEF Allowed, CONTROLLER
  <2>3. ReportFollowsPass'
    <3>1. CASE state' = "reporting"
      <4>1. state \in {"diagnosing", "judging"}
        BY <2>1, <3>1 DEF Allowed, CONTROLLER
      <4>2. state = "judging" => Newest({"PASS"})'
        BY <1>0, <2>1, <3>1
      <4> QED BY <2>1, <4>1, <4>2 DEF ReportFollowsPass, Newest, TypeInv
    <3>2. CASE state' = "awaiting_operator"
      <4>1. state = "reporting"
        BY <2>1, <3>2 DEF Allowed, CONTROLLER
      <4> QED BY <2>1, <4>1 DEF ReportFollowsPass, NewestVerdict
    <3>3. state' # "resolved"
      BY <2>1 DEF Allowed, CONTROLLER, NONTERMINAL
    <3> QED BY <3>1, <3>2, <3>3 DEF ReportFollowsPass
  <2> QED BY <2>1, <2>2, <2>3
<1>4. CASE Resolve
  <2>1. ReportFollowsPass' /\ UNCHANGED <<arts, verdicts>> /\ state' = "resolved"
    BY <1>4 DEF Resolve, ReportFollowsPass, NewestVerdict
  <2> QED BY <1>0, <1>4, <2>1, KeptShape
<1>5. CASE StartStep
  BY <1>0, <1>5, StartShape
<1>6. CASE EndStep
  BY <1>0, <1>6, EndShape
<1>7. CASE Records
  <2>1. UNCHANGED <<arts, verdicts, state>>
    BY <1>7 DEF Records
  <2> QED BY <1>0, <1>7, <2>1, RecordShape
<1>8. CASE Decides
  <2>1. PICK to \in STATES : Chooses(to) /\ ctl'.to = to /\ ctl'.mine = {}
    BY <1>8, CasShape DEF Decides
  <2>2. to = "reporting" /\ state = "judging" => Newest({"PASS"})
    <3> SUFFICES ASSUME to = "reporting", state = "judging" PROVE Newest({"PASS"})
      OBVIOUS
    <3>1. ctl.pc = "decide" /\ ctl.out = "ok" /\ ctl.for \in {"judging", "diagnosing"}
      BY <2>1 DEF Chooses
    <3>2. ctl.for = "judging" /\ "verdict" \in ctl.mine
      BY <3>1 DEF StepInv, Complete, Running
    <3>3. NewestVerdict.result = "PASS"
      BY <2>1, <3>2 DEF Chooses
    <3> QED BY <3>2, <3>3 DEF Newest
  <2>3. UNCHANGED <<arts, verdicts, state>>
    BY <1>8 DEF Decides
  <2> QED BY <1>0, <2>1, <2>2, <2>3
<1>9. CASE Drops
  BY <1>0, <1>9 DEF Drops, Rests
<1>10. CASE Intrudes
  <2>1. UNCHANGED <<arts, verdicts, state>>
    BY <1>10 DEF Intrudes
  <2> QED BY <1>0, <1>10, <2>1, KeptShape
<1>11. CASE Aside
  BY <1>0, <1>11 DEF Aside
<1> QED BY <1>1, <1>2, <1>3, <1>4, <1>5, <1>6, <1>7, <1>8, <1>9, <1>10, <1>11, StepKinds

\* There is no artefact at the start.
LEMMA PassInit == Init => PassInv
BY DEF Init, Idle, PassInv, Swapping, ReportFollowsPass

\* R-8, section 7.2: past judging, the newest verdict is a PASS on the newest
\* artefact, whatever conflicts, crashes and late calls came between the verdict,
\* its validation and the transition.
THEOREM ReportsFollowPass == Spec => []ReportFollowsPass
<1>1. PassInv => ReportFollowsPass
  BY DEF PassInv
<1> QED
  BY <1>1, PassInit, TypeInit, TypeStep, StepInit, StepStep, PassStep, PTL DEF Spec

-----------------------------------------------------------------------------
(* Retries.  The Judge sends an episode back at most as often as it failed *)
(* an artefact that has been replaced since.                               *)

Fails == {i \in 1..Len(verdicts) : verdicts[i].result = "FAIL"}

\* The FAILs that have been acted on: in judging, the ones on older artefacts.
ActedOn == {i \in Fails : state = "judging" => verdicts[i].art < arts}

\* Every verdict is on an artefact that the newest one has replaced.
Replaced == \A i \in 1..Len(verdicts) : verdicts[i].art < arts

ReturnInv ==
  /\ \A i \in 1..Len(verdicts) : verdicts[i].art <= arts
  /\ "artefact" \in ctl.mine => Replaced
  /\ Swapping("judging") /\ state = "recommending" => Replaced
  /\ Swapping("recommending") /\ state = "judging" =>
       Newest({"FAIL"}) /\ CountFails <= P09
  /\ returns <= Cardinality(ActedOn)
  /\ returns <= P09

\* The sets that are counted are finite.
LEMMA FailsFinite ==
  ASSUME TypeInv
  PROVE  /\ IsFiniteSet(Fails) /\ Cardinality(Fails) \in Nat
         /\ \A S \in SUBSET Fails : /\ IsFiniteSet(S) /\ Cardinality(S) \in Nat
                                    /\ Cardinality(S) <= Cardinality(Fails)
         /\ CountFails = Cardinality(Fails)
<1>1. Len(verdicts) \in Nat
  BY DEF TypeInv
<1>2. IsFiniteSet(1..Len(verdicts))
  BY <1>1, FS_Interval
<1>3. IsFiniteSet(Fails)
  <2>1. Fails \subseteq 1..Len(verdicts)
    BY DEF Fails
  <2> QED BY <1>2, <2>1, FS_Subset
<1>4. Cardinality(Fails) \in Nat
  BY <1>3, FS_CardinalityType
<1>5. ASSUME NEW S \in SUBSET Fails
      PROVE  IsFiniteSet(S) /\ Cardinality(S) \in Nat /\ Cardinality(S) <= Cardinality(Fails)
  BY <1>3, FS_Subset, FS_CardinalityType
<1> QED BY <1>3, <1>4, <1>5 DEF CountFails, Fails

\* A call leaves the FAILs that have been acted on as they are: an artefact is
\* written outside judging, and a verdict is on the newest artefact.
LEMMA EffectReturns ==
  ASSUME TypeInv, ReturnInv, NEW for \in StepStates, NEW has, NEW item \in Items,
         Effect(for, has, item), state' = state
  PROVE  /\ \A i \in 1..Len(verdicts') : verdicts'[i].art <= arts'
         /\ item = "artefact" \/ (Replaced /\ state = "recommending") => Replaced'
         /\ ActedOn' = ActedOn
         /\ item \notin {"artefact", "verdict"} => UNCHANGED <<arts, verdicts>>
<1>0. /\ Len(verdicts) \in Nat /\ arts \in Nat
      /\ \A i \in 1..Len(verdicts) : verdicts[i].art \in Nat /\ verdicts[i].art <= arts
  <2>1. \A i \in 1..Len(verdicts) : verdicts[i] \in Verdicts
    BY DEF TypeInv
  <2>2. \A v \in Verdicts : v.art \in Nat
    BY DEF Verdicts
  <2> QED BY <2>1, <2>2 DEF TypeInv, ReturnInv
<1>1. CASE /\ item = "artefact" /\ state = "recommending"
           /\ arts' = arts + 1 /\ verdicts' = verdicts
  BY <1>0, <1>1 DEF Replaced, ActedOn, Fails
<1>2. CASE /\ item = "verdict" /\ state = "judging" /\ arts' = arts
           /\ \E result \in {"PASS", "FAIL"} :
                 /\ Len(verdicts) \in Nat /\ Len(verdicts') = Len(verdicts) + 1
                 /\ verdicts' # <<>>
                 /\ verdicts'[Len(verdicts) + 1] = [result |-> result, art |-> arts]
                 /\ \A i \in 1..Len(verdicts) : verdicts'[i] = verdicts[i]
  <2>1. \A i \in 1..Len(verdicts') : i \in 1..Len(verdicts) \/ i = Len(verdicts) + 1
    BY <1>0, <1>2
  <2>2. verdicts'[Len(verdicts) + 1].art = arts
    BY <1>2
  <2>3. \A i \in 1..Len(verdicts') : verdicts'[i].art <= arts'
    BY <1>0, <1>2, <2>1, <2>2
  <2>4. \A i : i \in ActedOn' <=> i \in ActedOn
    BY <1>0, <1>2, <2>1, <2>2 DEF ActedOn, Fails
  <2> QED BY <1>2, <2>3, <2>4
<1>3. CASE item \notin {"artefact", "verdict"} /\ UNCHANGED <<arts, verdicts>>
  <2>1. ActedOn' = ActedOn /\ (Replaced => Replaced')
    BY <1>3 DEF Replaced, ActedOn, Fails
  <2> QED BY <1>0, <1>3, <2>1
<1> QED BY <1>1, <1>2, <1>3, EffectCases

\* A return acts on a FAIL that had not been acted on.
LEMMA ReturnCounts ==
  ASSUME TypeInv, ReturnInv, state = "judging", Newest({"FAIL"})
  PROVE  Cardinality(ActedOn) + 1 <= Cardinality(Fails)
<1> DEFINE n == Len(verdicts)
<1>1. n \in Nat /\ n > 0
  BY DEF TypeInv, Newest
<1>2. n \in Fails /\ n \notin ActedOn
  BY <1>1 DEF Newest, NewestVerdict, Fails, ActedOn, TypeInv, Verdicts
<1>3. ActedOn \union {n} \in SUBSET Fails /\ ActedOn \in SUBSET Fails
  BY <1>2 DEF ActedOn
<1> HIDE DEF n
<1>4. IsFiniteSet(ActedOn)
  BY <1>3, FailsFinite
<1>5. Cardinality(ActedOn \union {n}) = Cardinality(ActedOn) + 1
  BY <1>2, <1>4, FS_AddElement
<1>6. Cardinality(ActedOn \union {n}) <= Cardinality(Fails)
  BY <1>3, FailsFinite
<1> QED BY <1>5, <1>6

\* Every step preserves it.
LEMMA ReturnStep == TypeInv /\ StepInv /\ PassInv /\ ReturnInv /\ [Next]_vars => ReturnInv'
<1> SUFFICES ASSUME TypeInv, StepInv, PassInv, ReturnInv, [Next]_vars PROVE ReturnInv'
  OBVIOUS
<1> USE DEF Swapping, record, history, outside
<1>0. UNCHANGED <<arts, verdicts, params, returns, state>> =>
        /\ \A i \in 1..Len(verdicts') : verdicts'[i].art <= arts'
        /\ Replaced => Replaced'
        /\ Newest({"FAIL"}) => Newest({"FAIL"})'
        /\ CountFails' <= P09' <=> CountFails <= P09
        /\ returns' <= Cardinality(ActedOn') /\ returns' <= P09'
  BY DEF ReturnInv, Replaced, Newest, NewestVerdict, CountFails, P09, ActedOn, Fails
<1>1. CASE Works
  <2>1. PICK item \in Items :
           /\ Effect(ctl.for, ctl.mine, item)
           /\ ctl.pc = "run" /\ ctl.for \in StepStates
           /\ ctl'.pc = "run" /\ ctl'.for = ctl.for /\ ctl'.mine = ctl.mine \union {item}
    BY <1>1, WorkShape
  <2>2. UNCHANGED <<state, returns, params>>
    BY <1>1 DEF Works
  <2>3. /\ \A i \in 1..Len(verdicts') : verdicts'[i].art <= arts'
        /\ item = "artefact" \/ (Replaced /\ state = "recommending") => Replaced'
        /\ ActedOn' = ActedOn
    BY <2>1, <2>2, EffectReturns
  <2> QED BY <2>1, <2>2, <2>3 DEF StepInv, ReturnInv, P09
<1>2. CASE ArrivesLate
  <2>1. PICK c \in late, item \in Items : /\ Effect(c.for, c.has, item)
                                          /\ ctl' = [ctl EXCEPT !.fresh = @ /\ item = "alert"]
    BY <1>2 DEF ArrivesLate
  <2>2. c.for \in StepStates /\ UNCHANGED <<state, returns, params>>
    BY <1>2 DEF ArrivesLate, TypeInv, LateCalls
  <2>3. ctl'.fresh => item = "alert"
    BY <2>1 DEF TypeInv, Runners
  <2>4. /\ \A i \in 1..Len(verdicts') : verdicts'[i].art <= arts'
        /\ Replaced /\ state = "recommending" => Replaced'
        /\ ActedOn' = ActedOn
        /\ item \notin {"artefact", "verdict"} => UNCHANGED <<arts, verdicts>>
    BY <2>1, <2>2, EffectReturns
  <2> QED BY <1>0, <1>2, <2>2, <2>3, <2>4, KeptShape DEF StepInv, ReturnInv, P09
<1>3. CASE Moves
  <2>1. /\ state' = ctl.to /\ ctl.pc = "cas" /\ ctl.fresh /\ ctl'.mine = {} /\ ctl'.pc # "cas"
        /\ Allowed("controller", state, ctl.to) /\ UNCHANGED <<arts, verdicts, params>>
        /\ returns' = IF state = "judging" /\ ctl.to = "recommending" THEN returns + 1 ELSE returns
    BY <1>3 DEF Moves, Rests
  <2>2. /\ \A i \in 1..Len(verdicts') : verdicts'[i].art <= arts'
        /\ P09' = P09
    BY <2>1 DEF ReturnInv, P09
  <2>3. returns' <= Cardinality(ActedOn') /\ returns' <= P09
    <3>0. P09 \in Nat /\ returns \in Nat /\ ActedOn \in SUBSET Fails
      BY DEF TypeInv, P09, ActedOn
    <3>1. CASE state = "judging" /\ ctl.to = "recommending"
      <4>1. ActedOn' = Fails
        BY <2>1, <3>1 DEF ActedOn, Fails
      <4>2. Newest({"FAIL"}) /\ CountFails <= P09
        BY <2>1, <3>1 DEF ReturnInv
      <4>3. Cardinality(ActedOn) + 1 <= Cardinality(Fails)
        BY <3>1, <4>2, ReturnCounts
      <4>4. /\ Cardinality(ActedOn) \in Nat /\ Cardinality(Fails) \in Nat
            /\ CountFails = Cardinality(Fails)
        BY <3>0, FailsFinite
      <4>5. returns <= Cardinality(ActedOn) /\ returns' = returns + 1
        BY <2>1, <3>1 DEF ReturnInv
      <4> QED BY <3>0, <4>1, <4>2, <4>3, <4>4, <4>5
    <3>2. CASE state = "judging" /\ ctl.to # "recommending"
      <4>1. state' # "judging"
        BY <2>1, <3>2 DEF Allowed, CONTROLLER
      <4>2. ActedOn' = Fails
        BY <2>1, <4>1 DEF ActedOn, Fails
      <4>3. /\ Cardinality(ActedOn) \in Nat /\ Cardinality(Fails) \in Nat
            /\ Cardinality(ActedOn) <= Cardinality(Fails)
        BY <3>0, FailsFinite
      <4>4. returns <= Cardinality(ActedOn) /\ returns' = returns /\ returns <= P09
        BY <2>1, <3>2 DEF ReturnInv
      <4> QED BY <3>0, <4>2, <4>3, <4>4
    <3>3. CASE state # "judging"
      <4>1. state' = "judging" => Replaced
        <5>1. state' = "judging" => state = "recommending"
          BY <2>1 DEF Allowed, CONTROLLER
        <5> QED BY <2>1, <5>1 DEF ReturnInv
      <4>2. ActedOn' = ActedOn
        BY <2>1, <3>3, <4>1 DEF ActedOn, Fails, Replaced
      <4> QED BY <2>1, <3>3, <4>2 DEF ReturnInv
    <3> QED BY <3>1, <3>2, <3>3
  <2> QED BY <2>1, <2>2, <2>3 DEF ReturnInv
<1>4. CASE Resolve
  <2>1. UNCHANGED <<arts, verdicts, params, returns>> /\ state' = "resolved"
        /\ state = "awaiting_operator"
    BY <1>4 DEF Resolve
  <2>2. ActedOn' = ActedOn /\ P09' = P09
    BY <2>1 DEF ActedOn, Fails, P09
  <2> QED BY <1>4, <2>1, <2>2, KeptShape DEF ReturnInv, Replaced
<1>5. CASE StartStep
  BY <1>0, <1>5, StartShape DEF ReturnInv
<1>6. CASE EndStep
  BY <1>0, <1>6, EndShape DEF ReturnInv
<1>7. CASE Records
  <2>1. UNCHANGED <<arts, verdicts, params, returns, state>>
    BY <1>7 DEF Records
  <2> QED BY <1>0, <1>7, <2>1, RecordShape DEF ReturnInv
<1>8. CASE Decides
  <2>1. PICK to \in STATES : Chooses(to) /\ ctl'.to = to /\ ctl'.mine = {}
    BY <1>8, CasShape DEF Decides
  <2>2. UNCHANGED <<arts, verdicts, params, returns, state>>
    BY <1>8 DEF Decides
  <2>3. to = "judging" => Replaced
    BY <2>1 DEF Chooses, StepInv, Complete, ReturnInv
  <2>4. ASSUME to = "recommending", state = "judging" PROVE Newest({"FAIL"}) /\ CountFails <= P09
    <3>1. ctl.pc = "decide" /\ ctl.out = "ok" /\ ctl.for \in {"judging", "diagnosing"}
      BY <2>1, <2>4 DEF Chooses
    <3>2. ctl.for = "judging" /\ "verdict" \in ctl.mine
      BY <2>4, <3>1 DEF StepInv, Complete, Running
    <3>3. NewestVerdict.result # "PASS" /\ CountFails <= P09
      BY <2>1, <2>4, <3>2 DEF Chooses
    <3> QED BY <3>2, <3>3 DEF Newest, PassInv
  <2> QED BY <1>0, <2>1, <2>2, <2>3, <2>4 DEF ReturnInv
<1>9. CASE Drops
  BY <1>0, <1>9 DEF Drops, Rests, ReturnInv
<1>10. CASE Intrudes
  <2>1. UNCHANGED <<arts, verdicts, params, returns, state>>
    BY <1>10 DEF Intrudes
  <2> QED BY <1>0, <1>10, <2>1, KeptShape DEF ReturnInv
<1>11. CASE Aside
  BY <1>0, <1>11 DEF Aside, ReturnInv
<1> QED BY <1>1, <1>2, <1>3, <1>4, <1>5, <1>6, <1>7, <1>8, <1>9, <1>10, <1>11, StepKinds

-----------------------------------------------------------------------------
(* Steps started in one visit of a state: each but the last is a recorded  *)
(* failure or was disturbed.                                               *)

Counted == attempts <= fails + disturb /\ attempts <= P08 + disturb
Counting == attempts <= fails + 1 + disturb /\ attempts <= P08 + 1 + disturb

\* The closure step is not wanted any more.
Finished == state = "resolved" /\ (Closed \/ fails > P08)

AttemptInv ==
  /\ ctl.pc \in {"idle", "dead"} => Counted \/ Finished
  /\ ctl.pc \in {"run", "record", "decide", "cas"} => Counting
  /\ ctl.pc = "decide" /\ ctl.out # "ok" => attempts <= fails + disturb
  /\ ctl.pc \in {"giveup", "alert"} => Counted
  /\ ctl.pc = "cas" /\ ~ctl.fresh => Counted
  /\ attempts <= P08 + 1 + disturb

\* A completed closure step leaves its report.
LEMMA ClosureLeavesReport ==
  ASSUME StepInv, ctl.pc = "record", ctl.out = "ok", ctl.for = "resolved"
  PROVE  Closed
BY DEF StepInv, Complete, ReportKind, Closed

\* Every step preserves it.
LEMMA AttemptStep == TypeInv /\ StepInv /\ AttemptInv /\ [Next]_vars => AttemptInv'
<1> SUFFICES ASSUME TypeInv, StepInv, AttemptInv, [Next]_vars PROVE AttemptInv'
  OBVIOUS
<1> USE DEF Counted, Counting, P08, record, history, outside
<1>0. /\ attempts \in Nat /\ fails \in Nat /\ disturb \in Nat /\ params.P08 \in Nat
      /\ ctl.pc \in PCs
  BY DEF TypeInv, Runners
<1>1. CASE Works
  BY <1>0, <1>1, WorkShape DEF Works, AttemptInv
<1>2. CASE ArrivesLate
  <2>1. /\ reports \subseteq reports' /\ disturb' = disturb + 1
        /\ UNCHANGED <<state, fails, attempts, params>>
    BY <1>2 DEF ArrivesLate, Effect
  <2>2. Finished => Finished'
    BY <2>1 DEF Finished, Closed
  <2> QED BY <1>0, <1>2, <2>1, <2>2, KeptShape DEF AttemptInv
<1>3. CASE Moves
  <2>1. attempts' = 0 /\ fails' = 0 /\ disturb' \in {disturb, disturb + 1} /\ params' = params
    BY <1>3 DEF Moves
  <2>2. Counted' /\ Counting'
    <3>1. CASE disturb' = disturb
      BY <1>0, <2>1, <3>1
    <3>2. CASE disturb' = disturb + 1
      BY <1>0, <2>1, <3>2
    <3> QED BY <2>1, <3>1, <3>2
  <2> QED BY <1>0, <2>1, <2>2 DEF AttemptInv
<1>4. CASE Resolve
  <2>1. attempts' = 0 /\ fails' = 0 /\ disturb' = disturb /\ params' = params
    BY <1>4 DEF Resolve
  <2>2. Counted' /\ Counting'
    BY <1>0, <2>1
  <2> QED BY <1>0, <2>1, <2>2 DEF AttemptInv
<1>5. CASE StartStep
  BY <1>0, <1>5, StartShape DEF AttemptInv, Finished
<1>6. CASE EndStep
  BY <1>0, <1>6, EndShape DEF AttemptInv
<1>7. CASE Records
  <2>1. /\ fails' = (IF ctl.out = "ok" THEN fails ELSE fails + 1) /\ ctl.pc = "record"
        /\ UNCHANGED <<state, reports, attempts, params>> /\ Counting
    BY <1>7 DEF Records, AttemptInv
  <2>2. CASE ctl' = Idle /\ ctl.for = "resolved" /\ disturb' = disturb
    <3>1. state = "resolved" /\ ctl'.pc = "idle"
      BY <2>1, <2>2 DEF StepInv, Running, Idle
    <3>2. ctl.out = "ok" => Finished'
      BY <2>1, <2>2, <3>1, ClosureLeavesReport DEF Finished, Closed
    <3>3. ctl.out # "ok" => Counted' \/ Finished'
      BY <1>0, <2>1, <2>2, <3>1 DEF Finished
    <3> QED BY <1>0, <2>1, <2>2, <3>1, <3>2, <3>3 DEF AttemptInv
  <2>3. CASE ctl' = Idle /\ ctl.out # "ok" /\ disturb' = disturb + 1
    <3>1. ctl'.pc = "idle"
      BY <2>3 DEF Idle
    <3> QED BY <1>0, <2>1, <2>3, <3>1 DEF AttemptInv
  <2>4. CASE ctl.for # "resolved" /\ ctl' = [ctl EXCEPT !.pc = "decide"] /\ disturb' = disturb
    <3>1. ctl'.pc = "decide" /\ ctl'.out = ctl.out
      BY <2>4 DEF TypeInv, Runners
    <3> QED BY <1>0, <2>1, <2>4, <3>1 DEF AttemptInv
  <2> QED BY <1>7, <2>2, <2>3, <2>4 DEF Records
<1>8. CASE Decides
  <2>1. PICK to \in STATES : Chooses(to) /\ ctl'.pc = "cas" /\ ctl'.fresh
    BY <1>8, CasShape DEF Decides
  <2>2. UNCHANGED <<fails, attempts, params, disturb>>
    BY <1>8 DEF Decides
  <2>3. Counting
    BY <1>0, <2>1 DEF Chooses, AttemptInv, Finished
  <2> QED BY <1>0, <2>1, <2>2, <2>3 DEF AttemptInv
<1>9. CASE Drops
  <2>1. PICK pc \in {"idle", "giveup", "dead"} :
          /\ ctl'.pc = pc
          /\ pc = "giveup" => ctl.pc \notin {"idle", "dead"}
          /\ \/ disturb' = disturb + 1
             \/ disturb' = disturb /\ Done /\ pc = "idle"
    BY <1>9 DEF Drops, Rests
  <2>2. UNCHANGED <<fails, attempts, params, state, reports>>
    BY <1>9 DEF Drops
  <2>3. Finished => Finished'
    BY <2>2 DEF Finished, Closed
  <2>4. CASE disturb' = disturb + 1
    <3>1. ctl.pc \notin {"idle", "dead"} => Counting
      BY <1>0 DEF AttemptInv, PCs
    <3> QED BY <1>0, <2>1, <2>2, <2>3, <2>4, <3>1 DEF AttemptInv
  <2>5. CASE disturb' = disturb /\ Done /\ pc = "idle"
    <3>1. Counted
      BY <1>0, <2>5 DEF Done, AttemptInv
    <3> QED BY <1>0, <2>1, <2>2, <2>5, <3>1 DEF AttemptInv
  <2> QED BY <2>1, <2>4, <2>5
<1>10. CASE Intrudes
  <2>1. disturb' = disturb + 1 /\ UNCHANGED <<fails, attempts, params, state, reports>>
    BY <1>10 DEF Intrudes
  <2>2. Finished => Finished'
    BY <2>1 DEF Finished, Closed
  <2>3. (Counted => Counted') /\ (Counting => Counting' /\ Counted')
    BY <1>0, <2>1
  <2> QED BY <1>0, <1>10, <2>1, <2>2, <2>3, KeptShape DEF AttemptInv
<1>11. CASE Aside
  <2>1. disturb' \in {disturb, disturb + 1}
        /\ UNCHANGED <<ctl, fails, attempts, params, state, reports>>
    BY <1>11 DEF Aside
  <2>2. Finished => Finished'
    BY <2>1 DEF Finished, Closed
  <2>3. CASE disturb' = disturb
    BY <1>0, <2>1, <2>2, <2>3 DEF AttemptInv
  <2>4. CASE disturb' = disturb + 1
    BY <1>0, <2>1, <2>2, <2>4 DEF AttemptInv
  <2> QED BY <2>1, <2>3, <2>4
<1> QED BY <1>1, <1>2, <1>3, <1>4, <1>5, <1>6, <1>7, <1>8, <1>9, <1>10, <1>11, StepKinds

\* R-3: the Judge sends an episode back at most P-09 times.  P-08: in one visit of a
\* state a step is started once and retried P-08 times, and once more for every
\* disturbance; for all budgets and any number of disturbances.
THEOREM RetriesAreBounded == Spec => []RetriesBounded
<1>1. Init => ReturnInv /\ AttemptInv
  <2> SUFFICES ASSUME Init PROVE ReturnInv /\ AttemptInv
    OBVIOUS
  <2>1. TypeInv /\ verdicts = <<>> /\ returns = 0 /\ attempts = 0 /\ fails = 0 /\ disturb = 0
        /\ ctl.pc = "idle" /\ ctl.mine = {}
    BY TypeInit DEF Init, Idle
  <2>2. P08 \in Nat /\ P09 \in Nat
    BY <2>1 DEF TypeInv, P08, P09
  <2>3. Cardinality(ActedOn) \in Nat
    BY <2>1, FailsFinite DEF ActedOn
  <2>4. ReturnInv
    BY <2>1, <2>2, <2>3 DEF ReturnInv, Swapping
  <2>5. AttemptInv
    BY <2>1, <2>2 DEF AttemptInv, Counted
  <2> QED BY <2>4, <2>5
<1>2. ReturnInv /\ AttemptInv => RetriesBounded
  BY DEF ReturnInv, AttemptInv, RetriesBounded
<1> QED
  BY <1>1, <1>2, TypeInit, TypeStep, StepInit, StepStep, PassInit, PassStep, ReturnStep,
     AttemptStep, PTL DEF Spec
=============================================================================
