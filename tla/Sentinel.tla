------------------------------ MODULE Sentinel ------------------------------
(***************************************************************************)
(* The sentinel's thread (valops/sentinel/scheduler.py): probe, samples,   *)
(* rules (sentinel/checks.py), consensus mode (valops/consensus.py),       *)
(* open_episode, signals, alerts and annotations, one remote call a step.  *)
(* Around it: what can be seen of the validator, the store (the live       *)
(* episode of each check), and calls that fail, whose reply is lost, or    *)
(* that outlast the 30 s of RpcClient.                                     *)
(*                                                                         *)
(* delinquency, the rule over consecutive samples of catchup, stands for   *)
(* the validator's rules (the others need one sample), and observer_       *)
(* unreachable for the telemetry rules.  A call that runs into its time-out*)
(* raises an OSError, which no handler inside tick catches: the tick ends  *)
(* there, and loop goes on with the next one.                              *)
(***************************************************************************)
EXTENDS Naturals, Sequences

CONSTANTS
  Samples,       \* P-03: consecutive samples behind
  Declared,      \* declared_consensus_mode of the deployment
  TowerMax,      \* mode_support: the last version with tower ...
  AlpenglowMin,  \* ... and the first with alpenglow
  Versions,      \* versions the validator may run
  MaxFaults,     \* bound: failed calls, lost replies, ticks cut off, restarts
  MaxClosed      \* bound: episodes that end

ASSUME SentinelAssumption ==
  /\ Samples \in Nat \ {0}
  /\ Declared \in {"tower", "alpenglow"}
  /\ TowerMax \in Nat /\ AlpenglowMin \in Nat /\ Versions \subseteq Nat
  /\ MaxFaults \in Nat /\ MaxClosed \in Nat

VARIABLES
  sight,       \* what the sentinel can see of the validator
  behind,      \* validator: a sample of catchup would be a breach
  age,         \* broker: what its telemetry has of catchup
  counter,     \* sentinel: ConsecutiveCounter of delinquency
  annotated,   \* sentinel: it has annotated the delinquency episode
  tick,        \* sentinel: where the tick stands
  live,        \* store: per check its live episode
  closed,      \* episodes ended so far
  faults,      \* faults so far
  received,    \* history: the last samples of catchup that the rules were given
  quiet        \* history: the alert of the live episode's unknown mode went wrong

sentinel == <<counter, annotated, tick>>
history == <<received, quiet>>
vars == <<sight, behind, age, sentinel, live, closed, faults, history>>

\* In the order of the findings.
Checks == <<"delinquency", "observer_unreachable">>

\* clear: samples arrive; partly: catchup fails or is suspended; refuses: the daemon
\* is not reached; silent: the probe, or catchup, does not return within 30 s;
\* unverified: the active bundle fails its verification.
Sights == {"clear", "partly", "refuses", "silent", "unverified"}

NoEpisode == [mode |-> "none", signals |-> FALSE, alerted |-> FALSE, stale |-> FALSE]
Live(c) == live[c].mode # "none"
NoTick == [pc |-> "wait", sample |-> "none", reachable |-> FALSE, todo |-> <<>>,
           stale |-> FALSE, alert |-> FALSE]

Init ==
  /\ sight = "clear" /\ behind \in BOOLEAN
  /\ age = "none" /\ counter = 0 /\ annotated = FALSE /\ tick = NoTick
  /\ live = [c \in {Checks[1], Checks[2]} |-> NoEpisode]
  /\ closed = 0 /\ faults = 0 /\ received = <<>> /\ quiet = FALSE

\* tick has raised; loop logs it.
Raised == [NoTick EXCEPT !.pc = "raised"]

Faulty == faults < MaxFaults /\ faults' = faults + 1

-----------------------------------------------------------------------------
(* tick: probe, samples, findings.                                         *)

\* The active bundle, whose load raises when it does not verify, and the probe, which
\* raises when it runs out of time.
Probe ==
  /\ tick.pc = "wait"
  /\ \/ /\ sight \in {"silent", "unverified"} /\ UNCHANGED faults
        /\ tick' = Raised
     \/ /\ sight \in {"clear", "partly", "refuses"}
        /\ IF sight = "refuses" THEN UNCHANGED faults ELSE Faulty
        /\ tick' = [NoTick EXCEPT !.pc = "rules"]
     \/ /\ sight \in {"clear", "partly"} /\ UNCHANGED faults
        /\ tick' = [NoTick EXCEPT !.pc = "sample", !.reachable = TRUE]
  /\ UNCHANGED <<sight, behind, age, counter, annotated, live, closed, history>>

\* The samples, of which catchup matters here. The broker has catchup in its telemetry
\* from now on, with an age once it succeeded.
SampleCatchup ==
  /\ tick.pc = "sample"
  /\ \/ /\ sight = "silent"
        /\ tick' = Raised /\ UNCHANGED age
     \/ /\ sight \in {"partly", "refuses"}
        /\ \E reachable \in {TRUE, sight = "partly"} :   \* FALSE: two samples in a row failed
             tick' = [tick EXCEPT !.pc = "rules", !.reachable = reachable]
        /\ age' = IF age = "none" THEN "never" ELSE age
     \/ /\ sight \in {"clear", "unverified"}
        /\ tick' = [tick EXCEPT !.pc = "rules", !.sample = IF behind THEN "breach" ELSE "good"]
        /\ age' = "fresh"
  /\ UNCHANGED <<sight, behind, counter, annotated, live, closed, faults, history>>

CountMissing(n, sample) ==   \* mutant: a missing sample counts as a breach
  IF sample = "good" THEN 0 ELSE IF n < Samples THEN n + 1 ELSE n

\* ConsecutiveCounter.update for a sample that arrived; Samples breaches are enough.
Count(n, sample) ==
  CASE sample = "none" -> n
    [] sample = "good" -> 0
    [] sample = "breach" -> IF n < Samples THEN n + 1 ELSE n

\* validator_findings and telemetry_findings.
Findings(n, sample, reachable) ==
  {c \in {"delinquency"} : sample # "none" /\ n >= Samples} \union
  {c \in {"observer_unreachable"} : ~reachable}

\* tick goes through the findings of the validator before those of telemetry.
InOrder(found) ==
  LET One(c) == IF c \in found THEN <<c>> ELSE <<>>
  IN One(Checks[1]) \o One(Checks[2])

\* stale_checks: a sample of catchup that is old, or that never succeeded.
StaleChecks(a) == a \in {"stale", "never"}

\* The newest Samples samples that the rules were given.
Remember(past, sample) ==
  IF sample = "none" THEN past
  ELSE IF Len(past) < Samples THEN Append(past, sample) ELSE Append(Tail(past), sample)

\* The call of telemetry and the rules. When the call fails the observer counts as
\* unreachable and nothing as stale.
Rules ==
  /\ tick.pc = "rules"
  /\ counter' = Count(counter, tick.sample)
  /\ received' = Remember(received, tick.sample)
  /\ \E answered \in BOOLEAN :
       /\ IF answered THEN UNCHANGED faults ELSE Faulty
       /\ tick' = [NoTick EXCEPT
            !.pc = "open", !.stale = answered /\ StaleChecks(age),
            !.todo = InOrder(Findings(counter', tick.sample, tick.reachable /\ answered))]
  /\ UNCHANGED <<sight, behind, age, annotated, live, closed, quiet>>

-----------------------------------------------------------------------------
(* _open for each finding, _annotate_stale.                                *)

\* version_mode: the one mode that the version supports; 0 for no version.
VersionMode(v) ==
  CASE v \in 1..TowerMax /\ v < AlpenglowMin -> "tower"
    [] v >= AlpenglowMin /\ v > TowerMax /\ v > 0 -> "alpenglow"
    [] OTHER -> "none"

\* files_mode: which of the two kinds of state file there are.
FilesMode(files) ==
  CASE files = {"tower"} -> "tower"
    [] files = {"vote_history"} -> "alpenglow"
    [] OTHER -> "none"

\* determine: the declared mode, if the three inputs confirm it.
Determine(version, feature, files) ==
  IF {VersionMode(version), feature, FilesMode(files)} = {Declared} THEN Declared ELSE "unknown"

\* _mode, over all that the three samples may give, missing ones included; telemetry
\* episodes go without.
ModesFor(c) ==
  IF c # "delinquency" THEN {"unknown"}
  ELSE {Determine(v, f, s) : v \in Versions \union {0}, f \in {"tower", "alpenglow", "none"},
                             s \in SUBSET {"tower", "vote_history"}}

NextFinding == [tick EXCEPT !.pc = "open", !.todo = Tail(@), !.alert = FALSE]

\* open_episode of the store: the live episode of the check, or a new one, for a
\* bundle that verifies.
StoreOpens(c, m) == live' = IF Live(c) THEN live ELSE [live EXCEPT ![c].mode = m]

\* A new episode of unknown mode is to be alerted.
ToAlert(c, m) == ~Live(c) /\ m = "unknown" /\ c = "delinquency"

\* The call may be refused, not arrive, or lose its reply, which ends the work on this
\* finding: the next tick finds the episode live, and has nothing to alert.
Open ==
  LET c == Head(tick.todo)
  IN
  /\ tick.pc = "open" /\ tick.todo # <<>>
  /\ \E m \in ModesFor(c) :
       \/ /\ sight # "unverified" /\ StoreOpens(c, m)
          /\ tick' = [tick EXCEPT !.pc = "signal", !.alert = ToAlert(c, m)]
          /\ UNCHANGED <<faults, quiet>>
       \/ /\ sight = "silent" /\ c = "delinquency" /\ tick' = Raised   \* a sample for _mode
          /\ UNCHANGED <<faults, live, quiet>>
       \/ /\ sight = "unverified" /\ tick' = NextFinding
          /\ UNCHANGED <<faults, live, quiet>>
       \/ /\ sight # "unverified" /\ Faulty /\ tick' = NextFinding
          /\ \/ UNCHANGED <<live, quiet>>
             \/ StoreOpens(c, m) /\ quiet' = (quiet \/ ToAlert(c, m))
  /\ UNCHANGED <<sight, behind, age, counter, annotated, closed, received>>

GivesUp(ok) ==   \* mutant: a failed signal ends the work on the finding
  IF ok /\ tick.alert THEN [tick EXCEPT !.pc = "alert"] ELSE NextFinding
AfterSignal(ok) ==
  IF tick.alert THEN [tick EXCEPT !.pc = "alert"] ELSE NextFinding

\* append_signal with what was sampled; an episode that has ended refuses it.
Signal ==
  LET c == Head(tick.todo)
  IN
  /\ tick.pc = "signal"
  /\ \/ /\ live' = [live EXCEPT ![c].signals = Live(c)]
        /\ tick' = AfterSignal(TRUE) /\ UNCHANGED faults
     \/ Faulty /\ UNCHANGED live /\ tick' = AfterSignal(FALSE)
  /\ UNCHANGED <<sight, behind, age, counter, annotated, closed, history>>

\* _alert. The episode may have ended meanwhile.
Alert ==
  LET c == Head(tick.todo)
  IN
  /\ tick.pc = "alert"
  /\ \/ UNCHANGED <<faults, quiet>> /\ live' = [live EXCEPT ![c].alerted = Live(c)]
     \/ Faulty /\ UNCHANGED live /\ quiet' = TRUE
  /\ tick' = NextFinding
  /\ UNCHANGED <<sight, behind, age, counter, annotated, closed, received>>

ToAnnotate == tick.stale /\ Live("delinquency") /\ ~annotated

NotedFirst == annotated' = TRUE   \* mutant: remembered before the call has succeeded
NotNoted == UNCHANGED annotated

\* _annotate_stale for the live validator-health episode.
Annotate ==
  /\ tick.pc = "open" /\ tick.todo = <<>> /\ ToAnnotate
  /\ \/ /\ UNCHANGED faults
        /\ live' = [live EXCEPT !["delinquency"].stale = TRUE]
        /\ annotated' = TRUE
     \/ Faulty /\ NotNoted /\ UNCHANGED live
  /\ tick' = NoTick
  /\ UNCHANGED <<sight, behind, age, counter, closed, history>>

EndTickUnguarded ==   \* mutant: loop does not catch what tick raises
  /\ tick.pc = "open" /\ tick.todo = <<>> /\ ~ToAnnotate
  /\ tick' = NoTick
  /\ UNCHANGED <<sight, behind, age, counter, annotated, live, closed, faults, history>>

\* The audit's entry ends the tick, whether or not it can be made; loop waits P-01.
EndTick ==
  /\ \/ tick.pc = "open" /\ tick.todo = <<>> /\ ~ToAnnotate
     \/ tick.pc = "raised"
  /\ tick' = NoTick
  /\ UNCHANGED <<sight, behind, age, counter, annotated, live, closed, faults, history>>

\* A call outlasts its time-out: the rest of the tick does not take place.
TickRaises ==
  /\ tick.pc \notin {"wait", "raised"} /\ Faulty
  /\ tick' = Raised
  /\ quiet' = (quiet \/ tick.alert)
  /\ UNCHANGED <<sight, behind, age, counter, annotated, live, closed, received>>

\* The controller process starts again.
Restart ==
  /\ Faulty
  /\ counter' = 0 /\ annotated' = FALSE /\ tick' = NoTick
  /\ quiet' = (quiet \/ tick.alert)
  /\ UNCHANGED <<sight, behind, age, live, closed, received>>

-----------------------------------------------------------------------------
(* The validator, the daemon, the broker, the bundle and the episodes.     *)

SightChanges ==
  /\ sight' \in Sights \ {sight}
  /\ UNCHANGED <<behind, age, sentinel, live, closed, faults, history>>

BehindChanges ==
  /\ behind' = ~behind
  /\ UNCHANGED <<sight, age, sentinel, live, closed, faults, history>>

\* P-15 intervals pass without a good sample.
Ages ==
  /\ age = "fresh" /\ age' = "stale"
  /\ UNCHANGED <<sight, behind, sentinel, live, closed, faults, history>>

\* The broker starts again, without telemetry.
BrokerRestarts ==
  /\ Faulty /\ age' = "none"
  /\ UNCHANGED <<sight, behind, sentinel, live, closed, history>>

\* An episode ends; the next one of its check has an id that no annotation is known of.
Closes(c) ==
  /\ Live(c) /\ closed < MaxClosed /\ closed' = closed + 1
  /\ live' = [live EXCEPT ![c] = NoEpisode]
  /\ annotated' = (annotated /\ c # "delinquency")
  /\ quiet' = (quiet /\ c # "delinquency")
  /\ UNCHANGED <<sight, behind, age, counter, tick, faults, received>>

Tick == Probe \/ SampleCatchup \/ Rules \/ Open \/ Signal \/ Alert \/ Annotate \/ EndTick

Next ==
  \/ Tick \/ TickRaises \/ Restart
  \/ SightChanges \/ BehindChanges \/ Ages \/ BrokerRestarts
  \/ \E c \in DOMAIN live : Closes(c)

Spec == Init /\ [][Next]_vars

\* loop catches what tick raises and goes on.
FairSpec == Spec /\ WF_vars(Tick)

-----------------------------------------------------------------------------
(* Properties.                                                             *)

\* TH-2: "Missing data never opens ... a validator_health episode", and P-03: a
\* delinquency episode opens only when the newest samples that the rules were given all
\* are breaches, however many were missing in between and whatever was restarted.
OpensOnSustainedData ==
  [][(live'["delinquency"].mode # "none" /\ ~Live("delinquency")) =>
       Len(received) = Samples /\ \A i \in 1..Samples : received[i] = "breach"]_vars

\* FR-1, TH-1: a validator that stays behind while samples arrive, and an observer that
\* stays unreachable, have a live episode with evidence, again after every end of it,
\* though a failed call, a lost reply or a tick cut off may have lost any part of it.
TroubleHasEpisode ==
  LET Recorded(c) == Live(c) /\ live[c].signals
  IN /\ <>[](sight = "clear" /\ behind) => []<>Recorded("delinquency")
     /\ <>[](sight = "refuses") => []<>Recorded("observer_unreachable")

\* TH-3: "A validator-health episode whose signals have gone stale is annotated as
\* such", for as long as the broker still knows of the sample that is stale. It is about
\* a daemon that refuses connections: the one sight in which ticks run to their end
\* while samples stay missing. A silent host ends every tick before the annotation.
StaleIsAnnotated ==
  <>[](sight = "refuses" /\ StaleChecks(age) /\ Live("delinquency"))
    => <>[]live["delinquency"].stale

\* HLD 5.10: "Any disagreement sets unknown ... raises an alert": a live episode of
\* unknown mode has been alerted unless its own open or alert call went wrong, or the
\* tick that opened it was cut off; a failure of anything else does not silence it.
UnknownModeAlerted ==
  LET e == live["delinquency"]
  IN (e.mode = "unknown" /\ ~e.alerted) => tick.alert \/ quiet

\* HLD 9: "Observer daemon unreachable, slow, or stale ... opens a telemetry_health
\* episode (TH-1)": also when its host does not answer at all.
OutageHasEpisode == <>[](sight = "silent") => []<>Live("observer_unreachable")
=============================================================================
