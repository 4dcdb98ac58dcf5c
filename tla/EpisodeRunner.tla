---------------------------- MODULE EpisodeRunner ----------------------------
(***************************************************************************)
(* The controller's episode runner (valops/controller/runner.py) driving   *)
(* one episode, composed with the store that serves it, the workers it     *)
(* launches, the sentinel and the verifier that write to the same episode, *)
(* and the failures it meets.                                              *)
(*                                                                         *)
(* The store is represented by the parts of the episode record that the    *)
(* runner reads (EpisodeStore has the store itself).  Every remote call of *)
(* the runner is one step.  A transition is a compare-and-swap on the      *)
(* revision, and every append increments the revision, so a transition     *)
(* conflicts exactly when something was appended since the runner's last   *)
(* read: ctl.fresh says that nothing was.                                  *)
(***************************************************************************)
EXTENDS Transitions, Naturals, Sequences, FiniteSets

CONSTANTS
  MaxBudget,     \* bound: P-08 and P-09 of the bundle together
  BundleEvents,  \* what can happen to the bound bundle: revoked, drained, corrupt
  CallsHang,     \* a remote call may time out instead of failing as "unavailable"
  MaxDisturb     \* bound: late calls, foreign appends, faults, outages,
                 \* crashes and bundle events

ASSUME BudgetsAssumption ==
  /\ MaxBudget \in Nat /\ MaxDisturb \in Nat
  /\ CallsHang \in BOOLEAN
  /\ BundleEvents \subseteq {"revoked", "drained", "corrupt"}

VARIABLES
  state,      \* record: state
  fails,      \* record: failed steps since the state was entered
  arts,       \* record: number of recommendations and no-action records
  verdicts,   \* record: verdicts in order, art is the artefact each judged
  reports,    \* record: kinds of the reports
  recovery,   \* record: recovery_observations is not empty
  alerted,    \* the alert of the hand-off: none, sent, or lost with its call or reply
  params,     \* registry: the parameters of the bound bundle
  bundle,     \* registry: the bound bundle
  observe,    \* the persisted observe-only flag
  ctl,        \* the runner: pc; of its step the state it is for, what its session has
              \* left in the record and the outcome; of a transition to, who makes
              \* it, and that nothing was appended since the read it rests on
  late,       \* a broker call that outlives its worker (at most one at a time)
  disturb,    \* disturbances so far
  attempts,   \* history: steps started since the state was entered
  returns,    \* history: times judging returned to recommending
  delivered   \* history: kinds that one session both reported and had alerted

record == <<state, fails, arts, verdicts, reports, recovery>>
history == <<attempts, returns, delivered>>
outside == <<alerted, params, bundle, observe>>
vars == <<record, outside, ctl, late, disturb, history>>

P08 == params.P08   \* step retry budget
P09 == params.P09   \* Judge FAIL retry budget

RoleOf == [diagnosing |-> "diagnostician", recommending |-> "change_planner",
           judging |-> "proposal_judge", reporting |-> "reporter",
           resolved |-> "reporter"]

ReportKind(s) == IF s = "resolved" THEN "closure" ELSE "incident"

Idle == [pc |-> "idle", for |-> "none", mine |-> {}, out |-> "none", to |-> "none", by |-> "none",
         fresh |-> FALSE]

Init ==
  /\ params \in {p \in [P08: 0..MaxBudget, P09: 0..MaxBudget] : p.P08 + p.P09 <= MaxBudget}
  /\ state = "open" /\ fails = 0 /\ arts = 0 /\ verdicts = <<>>
  /\ reports = {} /\ recovery = FALSE
  /\ alerted = "none" /\ bundle = "ok" /\ observe = FALSE
  /\ ctl = Idle /\ late = {} /\ disturb = 0
  /\ attempts = 0 /\ returns = 0
  /\ delivered = {}

\* The runner has read the record and decided on a transition.
Try(to, by) ==
  ctl' = [Idle EXCEPT !.pc = "cas", !.to = to, !.by = by, !.fresh = TRUE]

-----------------------------------------------------------------------------
(* advance(), from tick() to the start of a step.                          *)

\* Read the record; nothing is done for an episode that waits or was handed
\* off.  That return comes before the bundle is looked at.
Advancing == ctl.pc = "idle" /\ state \notin {"handed_off", "awaiting_operator"}

BundleRevoked ==   \* mutant of BundleEnded: the drain deadline is not acted on
  /\ Advancing /\ bundle = "revoked" /\ state # "resolved"
  /\ Try("handed_off", "advance")
  /\ UNCHANGED <<record, outside, late, disturb, history>>

\* _bundle_problem: revoked or past the drain deadline.  In resolved the store
\* refuses the transition and the runner drops the error.
BundleEnded ==
  /\ Advancing /\ bundle \in {"revoked", "drained"} /\ state # "resolved"
  /\ Try("handed_off", "advance")
  /\ UNCHANGED <<record, outside, late, disturb, history>>

\* _bundle_problem: integrity failure, which is alerted too.
BundleCorrupt ==
  /\ Advancing /\ bundle = "corrupt"
  /\ observe' = TRUE
  /\ UNCHANGED <<record, alerted, params, bundle, ctl, late, disturb, history>>

Usable == bundle = "ok" \/ (bundle = "drained" /\ state = "resolved")

\* The pre-flight of this tick. The other reasons not to start (a broker, the audit
\* path, the anchor lag, the sandbox) pass: the step is taken in a later tick.
LlmAllowed == ~observe

Begin ==
  /\ Advancing /\ Usable /\ LlmAllowed /\ state = "open"
  /\ Try("diagnosing", "advance")
  /\ UNCHANGED <<record, outside, late, disturb, history>>

\* _closure: one closure report is enough, and its retries are bounded; that they are
\* used up is alerted.
Closed == "closure" \in reports

StepWantedWhileLive == state \notin {"open", "resolved"}   \* mutant: no closure step
StepWanted == state # "open" /\ (state = "resolved" => ~Closed /\ fails <= P08)

\* run_step up to the launch: mint a token for a new session and open a model
\* session, which the broker can refuse for good ("limit") or not ("failed").
StartStep ==
  /\ Advancing /\ Usable /\ LlmAllowed /\ StepWanted
  /\ attempts' = attempts + 1
  /\ \E refusal \in {"none", "failed", "limit"} :
       ctl' = [Idle EXCEPT !.pc = IF refusal = "none" THEN "run" ELSE "record",
                           !.for = state, !.out = refusal]
  /\ UNCHANGED <<record, outside, late, disturb, returns, delivered>>

-----------------------------------------------------------------------------
(* Workers.  A write passes the store's gate only in the state of its tool *)
(* and while the bound bundle verifies; it is an append.                   *)

Gate(kind, for) == bundle \in {"ok", "drained"} /\ state \in ToolStates(kind)
                   /\ RoleOf[for] = ToolRole(kind)

\* Each of these is a call of a session whose step is for state for and that has
\* left the items in has; it adds item.  The diagnosis a session leaves is summed
\* up: ranks contiguous from 1 or not, every hypothesis of it refuted or not.
WriteHypotheses(for, has, item) ==
  /\ Gate("hypothesis", for)
  /\ has = {} /\ item \in {"sound", "refuted", "gaps"}
  /\ UNCHANGED <<arts, verdicts, reports>>

WriteArtefact(for, has, item) ==
  /\ Gate("recommendation", for)
  /\ has = {} /\ item = "artefact"
  /\ arts' = arts + 1
  /\ UNCHANGED <<verdicts, reports>>

\* A verdict is about the newest artefact.
WriteVerdict(for, has, item) ==
  /\ Gate("verdict", for)
  /\ has = {} /\ item = "verdict" /\ arts > 0
  /\ \E result \in {"PASS", "FAIL"} :
       verdicts' = Append(verdicts, [result |-> result, art |-> arts])
  /\ UNCHANGED <<arts, reports>>

WriteReport(for, has, item) ==
  /\ Gate("report", for)
  /\ ReportKind(state) = ReportKind(for)
  /\ item = "report" /\ item \notin has
  /\ reports' = reports \union {ReportKind(for)}
  /\ UNCHANGED <<arts, verdicts>>

\* send_alert: needs a report of the kind, from whichever session, and repeats
\* nothing; the sink acknowledges, or the call fails and nothing is kept.
SendAlert(for, has, item) ==
  /\ RoleOf[for] = "reporter" /\ bundle \in {"ok", "drained"}
  /\ ReportKind(for) \in reports
  /\ item = "alert" /\ item \notin has
  /\ UNCHANGED <<arts, verdicts, reports>>

WorkerCall(for, has, item) ==
  /\ \/ WriteHypotheses(for, has, item)
     \/ WriteArtefact(for, has, item)
     \/ WriteVerdict(for, has, item)
     \/ WriteReport(for, has, item)
     \/ SendAlert(for, has, item)
  /\ delivered' = IF {"report", "alert"} \subseteq has \union {item}
                  THEN delivered \union {ReportKind(for)} ELSE delivered

Items == {"sound", "refuted", "gaps", "artefact", "verdict", "report", "alert"}

WorkerStep ==
  /\ ctl.pc = "run"
  /\ \E item \in Items :
       /\ WorkerCall(ctl.for, ctl.mine, item)
       /\ ctl' = [ctl EXCEPT !.mine = @ \union {item}]
  /\ UNCHANGED <<state, fails, recovery, outside, late,
                 disturb, attempts, returns>>

Disturb == disturb < MaxDisturb /\ disturb' = disturb + 1

\* A call that a broker had under way when its worker died reaches the store.
LateStep ==
  /\ Disturb
  /\ \E c \in late, item \in Items :
       /\ WorkerCall(c.for, c.has, item)
       /\ ctl' = [ctl EXCEPT !.fresh = @ /\ item = "alert"]   \* which is not an append
  /\ late' = {}
  /\ UNCHANGED <<state, fails, recovery, outside, attempts, returns>>

\* The worker is gone; the call it had under way may be on its way still.
WorkerDies ==
  \/ UNCHANGED late
  \/ late = {} /\ disturb < MaxDisturb /\ late' = {[for |-> ctl.for, has |-> ctl.mine]}

-----------------------------------------------------------------------------
(* run_step from the end of the worker to the step record.                 *)

ValidUnacknowledged ==   \* mutant of Valid: the alert is not looked for
  CASE ctl.for = "diagnosing" -> ctl.mine \intersect {"sound", "refuted"} # {}
    [] ctl.for = "recommending" -> "artefact" \in ctl.mine
    [] ctl.for = "judging" -> "verdict" \in ctl.mine
    [] OTHER -> "report" \in ctl.mine

\* artefacts.validate_*: what the session of this step left is complete.
Valid ==
  CASE ctl.for = "diagnosing" -> ctl.mine \intersect {"sound", "refuted"} # {}
    [] ctl.for = "recommending" -> "artefact" \in ctl.mine
    [] ctl.for = "judging" -> "verdict" \in ctl.mine
    [] OTHER -> {"report", "alert"} \subseteq ctl.mine

\* The worker exits or is killed at P-11; the token is revoked, the model
\* session closed, its meter appended as a cost, and the artefact validated
\* from the record.  A step whose artefact is valid still fails when it timed
\* out or its structured output disagrees; the meter tells whether a failed
\* step hit a limit.
EndStep ==
  /\ ctl.pc = "run"
  /\ \/ Valid /\ ctl' = [ctl EXCEPT !.pc = "record", !.out = "ok"] /\ UNCHANGED late
     \/ /\ \E out \in {"failed", "limit"} :
             ctl' = [ctl EXCEPT !.pc = "record", !.mine = {}, !.out = out]
        /\ WorkerDies
  /\ UNCHANGED <<record, outside, disturb, history>>

\* append_step.  The outcome of a closure step is not looked at again.
RecordStep ==
  /\ ctl.pc = "record"
  /\ fails' = IF ctl.out = "ok" THEN fails ELSE fails + 1
  /\ ctl' = IF ctl.for = "resolved" THEN Idle ELSE [ctl EXCEPT !.pc = "decide"]
  /\ UNCHANGED <<state, arts, verdicts, reports, recovery, outside,
                 late, disturb, history>>

-----------------------------------------------------------------------------
(* Decisions, from a new read of the record.                               *)

NewestVerdict == verdicts[Len(verdicts)]
CountFails == Cardinality({i \in 1..Len(verdicts) : verdicts[i].result = "FAIL"})

AfterFailurePatient ==   \* mutant: one retry too many
  /\ ctl.pc = "decide" /\ ctl.out # "ok"
  /\ IF ctl.out = "limit" \/ fails > P08 + 1
     THEN Try("handed_off", "advance")
     ELSE ctl' = Idle
  /\ UNCHANGED <<record, outside, late, disturb, history>>

\* _after_failure: a limit is not retried, other failures up to P-08 times.
AfterFailure ==
  /\ ctl.pc = "decide" /\ ctl.out # "ok"
  /\ IF ctl.out = "limit" \/ fails > P08
     THEN Try("handed_off", "advance")
     ELSE ctl' = Idle
  /\ UNCHANGED <<record, outside, late, disturb, history>>

\* Recovery seen during analysis, or every hypothesis of the completed step
\* refuted: there is nothing to recommend.
AfterDiagnosis ==
  IF recovery \/ "refuted" \in ctl.mine
  THEN Try("reporting", "advance")
  ELSE Try("recommending", "advance")

AfterJudgementAnyPass ==   \* mutant: an older PASS counts
  IF \E i \in 1..Len(verdicts) : verdicts[i].result = "PASS" THEN Try("reporting", "advance")
  ELSE IF CountFails <= P09 THEN Try("recommending", "advance")
  ELSE Try("handed_off", "advance")

\* The newest verdict decides, and every FAIL of the episode counts.
AfterJudgement ==
  IF NewestVerdict.result = "PASS" THEN Try("reporting", "advance")
  ELSE IF CountFails <= P09 THEN Try("recommending", "advance")
  ELSE Try("handed_off", "advance")

AfterSuccess ==
  /\ ctl.pc = "decide" /\ ctl.out = "ok"
  /\ CASE ctl.for = "diagnosing" -> AfterDiagnosis
       [] ctl.for = "recommending" -> Try("judging", "advance")
       [] ctl.for = "judging" -> AfterJudgement
       [] ctl.for = "reporting" -> Try("awaiting_operator", "advance")
  /\ UNCHANGED <<record, outside, late, disturb, history>>

\* tick() is handling an exception of advance().
Handling == ctl.pc = "giveup" \/ ctl.by = "tick"

\* An exception in advance() (judge isolation, a broken spec, a refused call)
\* reaches tick(), which reads the record again and hands the episode off; in
\* a terminal state the store refuses and the error is dropped.
Fault ==
  /\ Disturb
  /\ ctl.pc \in {"run", "record", "decide", "cas"} /\ ~Handling
  /\ IF ctl.pc = "run" THEN WorkerDies ELSE UNCHANGED late
  /\ ctl' = [Idle EXCEPT !.pc = "giveup"]
  /\ UNCHANGED <<record, outside, history>>

GiveUp ==
  /\ ctl.pc = "giveup"
  /\ IF state \in TERMINAL THEN ctl' = Idle
     ELSE Try("handed_off", "tick")
  /\ UNCHANGED <<record, outside, late, disturb, history>>

\* set_state committed: a new state, whose failures are counted from zero. Without
\* the reply the runner does not know, and alerts nobody of a hand-off.
Moved(to, replied) ==
  /\ Allowed("controller", state, to)
  /\ state' = to
  /\ fails' = 0 /\ attempts' = 0
  /\ returns' = IF <<state, to>> = <<"judging", "recommending">> THEN returns + 1 ELSE returns
  /\ alerted' = IF to = "handed_off" /\ ~replied THEN "lost" ELSE alerted
  /\ UNCHANGED <<arts, verdicts, reports, recovery, params, bundle, observe, late, delivered>>

SwapBlind ==   \* mutant: the revision is not compared
  /\ ctl.pc = "cas"
  /\ Moved(ctl.to, TRUE)
  /\ ctl' = IF ctl.to = "handed_off"
            THEN [Idle EXCEPT !.pc = "alert", !.by = ctl.by] ELSE Idle
  /\ UNCHANGED disturb

\* transition(): the compare-and-swap, refused as a conflict when the revision
\* moved; the runner decides again in its next tick.
Swap ==
  /\ ctl.pc = "cas" /\ ctl.fresh
  /\ Moved(ctl.to, TRUE)
  /\ ctl' = IF ctl.to = "handed_off"
            THEN [Idle EXCEPT !.pc = "alert", !.by = ctl.by] ELSE Idle
  /\ UNCHANGED disturb

Conflict ==
  /\ ctl.pc = "cas" /\ ~ctl.fresh
  /\ ctl' = Idle
  /\ UNCHANGED <<record, outside, late, disturb, history>>

\* hand_off: one attempt at the alert, whose failure is only logged.
Alert ==
  /\ ctl.pc = "alert"
  /\ alerted' \in {"sent", "lost"}
  /\ ctl' = Idle
  /\ UNCHANGED <<record, params, bundle, observe, late, disturb, history>>

\* The runner stops where it is, in the call of its alert perhaps.
AlertLost == alerted' = IF ctl.pc = "alert" THEN "lost" ELSE alerted

Controller ==
  \/ BundleEnded \/ BundleCorrupt \/ Begin \/ StartStep
  \/ EndStep \/ RecordStep \/ AfterFailure \/ AfterSuccess
  \/ GiveUp \/ Swap \/ Conflict \/ Alert

-----------------------------------------------------------------------------
(* The rest of the system.                                                 *)

\* The sentinel attaches a signal or an annotation.
ForeignAppend ==
  /\ Disturb /\ state \notin TERMINAL
  /\ ctl' = [ctl EXCEPT !.fresh = FALSE]
  /\ UNCHANGED <<record, outside, late, history>>

\* The verifier sees the predicate hold outside awaiting_operator.
RecoveryObserved ==
  /\ Disturb /\ state # "awaiting_operator" /\ ~recovery
  /\ recovery' = TRUE
  /\ ctl' = [ctl EXCEPT !.fresh = FALSE]
  /\ UNCHANGED <<state, fails, arts, verdicts, reports, outside, late, history>>

\* The verifier confirms recovery (W fresh samples); it loads the bound bundle
\* first, which fails when the bundle does not verify.
Resolve ==
  /\ state = "awaiting_operator" /\ bundle \in {"ok", "drained"}
  /\ state' = "resolved" /\ fails' = 0 /\ attempts' = 0
  /\ ctl' = [ctl EXCEPT !.fresh = FALSE]
  /\ UNCHANGED <<arts, verdicts, reports, recovery, outside, late, disturb,
                 returns, delivered>>

\* A remote call, in a step the read that its validation needs, finds its service
\* down ("unavailable"): the runner goes on to the next episode and assumes
\* nothing was written.
Outage ==
  /\ Disturb
  /\ ctl.pc \in {"run", "record", "decide", "giveup", "cas"}
  /\ IF ctl.pc = "run" THEN WorkerDies ELSE UNCHANGED late
  /\ ctl' = Idle
  /\ UNCHANGED <<record, outside, history>>

\* The same, but the store committed the write before the connection broke.
LostReply ==
  /\ Disturb
  /\ ctl' = Idle
  /\ \/ ctl.pc = "cas" /\ ctl.fresh /\ Moved(ctl.to, FALSE)
     \/ /\ ctl.pc = "record" /\ ctl.out # "ok"
        /\ fails' = fails + 1
        /\ UNCHANGED <<state, arts, verdicts, reports, recovery, outside,
                       late, history>>

\* A remote call times out.  RpcClient raises no RpcError for that: in advance()
\* tick() catches it, but nothing does at the start of tick() (preflight,
\* list_episodes) or in tick()'s own handler, and the thread of the loop ends
\* while the process lives on.
Hang ==
  /\ CallsHang /\ Disturb
  /\ \/ /\ ctl.pc = "idle" \/ Handling
        /\ ctl' = [Idle EXCEPT !.pc = "dead"]
     \/ /\ ctl.pc \in {"cas", "alert"} /\ ~Handling
        /\ ctl' = [Idle EXCEPT !.pc = "giveup"]
  /\ \/ AlertLost /\ UNCHANGED <<record, params, bundle, observe, late, history>>
     \/ ctl.pc = "cas" /\ ctl.fresh /\ Moved(ctl.to, FALSE)   \* the answer came too late

\* The controller dies; the worker dies with it, but a call it had under way in
\* a broker may still arrive.
Crash ==
  /\ Disturb
  /\ ctl.pc # "idle"
  /\ IF ctl.pc = "run" THEN WorkerDies ELSE UNCHANGED late
  /\ ctl' = Idle /\ AlertLost
  /\ UNCHANGED <<record, params, bundle, observe, history>>

BundleEvent ==
  /\ Disturb
  /\ bundle = "ok"
  /\ bundle' \in BundleEvents
  /\ UNCHANGED <<record, alerted, params, observe, ctl, late, history>>

\* The operator restores the bundle and clears the flag (runbook RB-03).
Restore ==
  /\ bundle = "corrupt" /\ observe
  /\ bundle' = "ok" /\ observe' = FALSE
  /\ UNCHANGED <<record, alerted, params, ctl, late, disturb, history>>

Environment ==
  \/ ForeignAppend \/ RecoveryObserved \/ Resolve \/ Outage \/ LostReply \/ Crash
  \/ BundleEvent \/ Restore \/ Fault \/ Hang

Next == Controller \/ WorkerStep \/ LateStep \/ Environment

Spec == Init /\ [][Next]_vars

\* The runner's loop ticks for ever, unless a call hangs; a worker is
\* killed at P-11 at the latest; the degradation that forbids LLM steps ends,
\* and an operator restores a corrupt bundle.  Nothing makes the operator of the
\* validator act, so Resolve has no fairness.
FairSpec == Spec /\ WF_vars(Controller) /\ WF_vars(Restore)

-----------------------------------------------------------------------------
(* Properties.                                                             *)

\* R-8, section 7.2: past judging, the newest verdict is a PASS and it is about
\* the newest artefact, whatever conflicts, crashes and late calls came between
\* the verdict, the validation and the transition.
ReportFollowsPass ==
  (state \in {"reporting", "awaiting_operator", "resolved"} /\ arts > 0) =>
    /\ verdicts # <<>>
    /\ NewestVerdict.result = "PASS"
    /\ NewestVerdict.art = arts

\* An episode waits for the operator only when one session wrote the incident
\* report and had its alert acknowledged.
WaitingIsReported ==
  state \in {"awaiting_operator", "resolved"} =>
    "incident" \in delivered

\* R-4: "Any exception, budget exhaustion, integrity failure, or missing artefact ->
\* handed_off + alert.  Never a silent stop": whoever decides on a hand-off, its alert
\* has been sent or is about to be.
HandOffAlerted == state = "handed_off" => alerted = "sent" \/ ctl.pc = "alert"

\* R-3: the Judge sends an episode back at most P-09 times.  P-08: within one visit of
\* a state, a step is started once and retried P-08 times, plus once for every
\* disturbance (a conflict, an outage, a lost reply or a crash is what makes the
\* runner repeat a step that it does not count).
RetriesBounded ==
  /\ returns <= P09
  /\ attempts <= P08 + 1 + disturb

\* Section 7.3, for a recovery that is recorded before the diagnosis ends: the
\* decision and the compare-and-swap see it, so planning does not begin.
RecoverySkipsPlanning ==
  [][(state = "diagnosing" /\ state' = "recommending") => ~recovery]_vars

\* Section 8, recovery during analysis: "At the next transition the controller
\* routes to `reporting` with the recovery attached", from any step of the analysis.
RecoveryIsReportedNext ==
  [][(recovery /\ state \in {"diagnosing", "recommending", "judging"} /\ state' # state)
       => state' \in {"reporting", "handed_off"}]_vars

\* A call that timed out has ended the runner's thread, and nobody restarts it.
ThreadEnds == <>[](ctl.pc = "dead")

\* Every episode reaches the operator: it waits, is resolved or is handed off,
\* unless a time-out ends the thread of the runner for good.
ReachesOperator ==
  ThreadEnds \/ ((state = "open") ~> (state \in {"awaiting_operator"} \union TERMINAL))

\* A resolved episode gets its closure report, or its retries are used up, or its
\* bundle is not usable any more.
ClosureEnds ==
  ThreadEnds
  \/ ((state = "resolved") ~> (Closed \/ fails > P08 \/ bundle \in {"revoked", "corrupt"}))
=============================================================================
