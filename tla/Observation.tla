----------------------------- MODULE Observation -----------------------------
(***************************************************************************)
(* Observation of the validator: the observer daemon on its host (circuit  *)
(* breaker, rate limit, one run per command: valops/observer/daemon.py),   *)
(* the observer broker with its telemetry (valops/brokers/                 *)
(* observer_broker.py), workers and the verifier, which sample and probe   *)
(* through the broker, and the tick of the sentinel, which probes, samples,*)
(* reads the telemetry and states its findings (valops/sentinel/).         *)
(*                                                                         *)
(* Two commands stand for the table: rpc_latency, which feeds the breaker  *)
(* and which only the sentinel calls, and catchup, which the open breaker  *)
(* suspends. A call is the daemon's admission, the run under the command's *)
(* lock and the record that the broker keeps of the reply, each a step of  *)
(* its own for the workers and the verifier; for the sentinel the record   *)
(* comes with the end of the run, as replies to the others may still       *)
(* overtake its replies.                                                   *)
(***************************************************************************)
EXTENDS Naturals

CONSTANTS
  Rate,          \* P-14: calls per command and minute
  Recover,       \* breaker_recover_samples
  MaxDisturb     \* bound: lost messages and restarts of the broker

ASSUME ObservationAssumption ==
  /\ Rate \in Nat \ {0} /\ Recover \in Nat \ {0}
  /\ MaxDisturb \in Nat

VARIABLES
  healthy,     \* validator: its RPC answers in time
  link,        \* the daemon is "up", its host "refused" connections, or is "silent"
  breaker,     \* daemon: open, good samples since the last bad one
  window,      \* daemon: calls of each command in the last minute
  other,       \* broker: the call of a worker or of the verifier under way
  telemetry,   \* broker: unreachable calls in a row, last breaker state seen
  tick,        \* sentinel: what it asks for, whether that runs, its probe's answer
  found,       \* sentinel: the telemetry findings of its last tick
  unsaid,      \* history: the breaker tripped and no tick has found anything since
  cut,         \* history: a good sample since then was the last of a tick that was cut off
  disturb      \* disturbances so far

daemon == <<breaker, window>>
broker == <<other, telemetry>>
sentinel == <<tick, found>>
history == <<unsaid, cut>>
observationVars == <<healthy, link, daemon, broker, sentinel, history, disturb>>

Commands == {"catchup", "rpc_latency"}

\* command_table.yaml: what the open breaker suspends.
RpcBackedAll == Commands   \* mutant: the sample that closes the breaker is suspended too
RpcBacked == {"catchup"}

NoCall == [pc |-> "idle", command |-> "none", status |-> "none", breaker |-> "none"]
NewBreaker == [open |-> FALSE, good |-> 0]
NewTelemetry == [unreachable |-> 0, breaker |-> "none"]
NoTick == [at |-> "wait", running |-> FALSE, probe |-> "none"]
State(b) == IF b.open THEN "open" ELSE "closed"

ObservationInit ==
  /\ healthy \in BOOLEAN /\ link = "up"
  /\ breaker = NewBreaker /\ window = [c \in Commands |-> 0]
  /\ other = NoCall /\ telemetry = NewTelemetry
  /\ tick = NoTick /\ found = {} /\ unsaid = FALSE /\ cut = FALSE
  /\ disturb = 0

Disturb == disturb < MaxDisturb /\ disturb' = disturb + 1

\* ObserverClient: no connection, or an answer that is cut off; or no answer in time.
Fails(how) == IF link = "up" THEN Disturb ELSE link \in how /\ UNCHANGED disturb
Refuses == Fails({"refused"})
Silent == Fails({"silent"})

-----------------------------------------------------------------------------
(* The daemon: observe and /health.                                        *)

SampleForgetful(b, good) ==   \* mutant: one good sample is enough to forget the trip
  [open |-> ~good, good |-> 0]

\* Breaker.sample. The count is of no use once the breaker is closed.
Sample(b, good) ==
  IF ~good THEN [open |-> TRUE, good |-> 0]
  ELSE IF b.open /\ b.good + 1 < Recover THEN [open |-> TRUE, good |-> b.good + 1]
  ELSE NewBreaker

Running(c) ==
  \/ tick.running /\ tick.at = c
  \/ other.pc = "running" /\ other.command = c

Suspended(c) == c \in RpcBacked /\ breaker.open

\* observe refuses: the open breaker, the rate, the lock of the command.
Refused(c) == Suspended(c) \/ window[c] >= Rate \/ Running(c)

\* _rate_ok: a call that then finds the lock taken has used up the rate too.
Count(c) ==
  window' = IF Suspended(c) \/ window[c] >= Rate THEN window
            ELSE [window EXCEPT ![c] = @ + 1]

\* What a run ends with. catchup asks the validator's RPC, and may fail when that does
\* not answer.
Outcomes(c) == IF c = "catchup" /\ ~healthy THEN {"ok", "failed"} ELSE {"ok"}

\* Or it waits for the RPC for its 30 s, the time that its callers allow.
Late(c) == link = "up" /\ c = "catchup" /\ ~healthy /\ UNCHANGED disturb

\* A call leaves the window after a minute.
Expire(c) ==
  /\ window[c] > 0 /\ window' = [window EXCEPT ![c] = @ - 1]
  /\ UNCHANGED <<healthy, link, breaker, broker, sentinel, history, disturb>>

-----------------------------------------------------------------------------
(* The broker: _sample, sys_probe, _tool, Telemetry.                       *)

\* Telemetry.record, and the breaker state that rpc_latency and the probe report:
\* none when rpc_latency was refused. Two unreachable calls are enough to count.
Record(t, r) ==
  [t EXCEPT
    !.unreachable = IF r.status # "unreachable" THEN 0 ELSE IF @ < 2 THEN @ + 1 ELSE @,
    !.breaker = IF r.command \in {"health", "rpc_latency"} /\ r.status # "unreachable"
                THEN r.breaker ELSE @]

Reply(c, status, seen) ==
  [pc |-> "reply", command |-> c, status |-> status, breaker |-> seen]

\* _sample for a worker or for the verifier, up to the daemon's lock.
AskCatchup ==
  /\ other = NoCall
  /\ \/ /\ Refuses \/ Silent
        /\ other' = Reply("catchup", "unreachable", "none") /\ UNCHANGED window
     \/ /\ link = "up" /\ UNCHANGED disturb
        /\ Count("catchup")
        /\ other' = IF Refused("catchup") THEN Reply("catchup", "failed", "none")
                    ELSE [NoCall EXCEPT !.pc = "running", !.command = "catchup"]
  /\ UNCHANGED <<healthy, link, breaker, telemetry, sentinel, history>>

\* _tool: each step of an episode has a session, with a quota, of its own, so that
\* quotas bound no worker for long. The daemon may also refuse the arguments of a worker.
ToolCall ==
  \/ AskCatchup
  \/ /\ other = NoCall /\ link = "up" /\ other' = Reply("catchup", "failed", "none")
     /\ UNCHANGED <<healthy, link, daemon, telemetry, sentinel, history, disturb>>

\* The verifier's rules for delinquency and version: sys_sample, without any quota.
VerifierSample == AskCatchup

\* The command ends and its lock is released, whether or not the reply arrives.
OtherRun ==
  /\ other.pc = "running"
  /\ \/ /\ Refuses \/ Silent \/ Late("catchup")
        /\ other' = Reply("catchup", "unreachable", "none")
     \/ link = "up" /\ UNCHANGED disturb
        /\ \E s \in Outcomes("catchup") : other' = Reply("catchup", s, "none")
  /\ UNCHANGED <<healthy, link, daemon, telemetry, sentinel, history>>

\* The verifier's rule for telemetry: sys_probe, up to the daemon's answer.
VerifierProbe ==
  /\ other = NoCall
  /\ \/ (Refuses \/ Silent) /\ other' = Reply("health", "unreachable", "none")
     \/ link = "up" /\ UNCHANGED disturb /\ other' = Reply("health", "ok", State(breaker))
  /\ UNCHANGED <<healthy, link, daemon, telemetry, sentinel, history>>

\* The broker records the reply, which others may have overtaken.
Returns ==
  /\ other.pc = "reply"
  /\ telemetry' = Record(telemetry, other)
  /\ other' = NoCall
  /\ UNCHANGED <<healthy, link, daemon, sentinel, history, disturb>>

-----------------------------------------------------------------------------
(* tick of the sentinel.                                                   *)

\* VALIDATOR_SAMPLES in their order.
After == [catchup |-> "rpc_latency", rpc_latency |-> "telemetry"]

\* The sentinel has waited for the broker as long as the broker's client for the daemon,
\* from a little earlier on: its time-out is no RpcError and ends the tick, which has
\* found nothing. Then the broker notices, too.
CutOff(c) ==
  /\ tick' = NoTick /\ found' = {}
  /\ telemetry' = Record(telemetry, Reply(c, "unreachable", "none"))

\* The probe; nothing is sampled after a failed one.
Probe ==
  /\ tick.at = "wait"
  /\ \/ /\ Refuses /\ UNCHANGED found
        /\ tick' = [NoTick EXCEPT !.at = "telemetry"]
        /\ telemetry' = Record(telemetry, Reply("health", "unreachable", "none"))
     \/ Silent /\ CutOff("health")
     \/ /\ link = "up" /\ UNCHANGED <<found, disturb>>
        /\ tick' = [NoTick EXCEPT !.at = "catchup", !.probe = State(breaker)]
        /\ telemetry' = Record(telemetry, Reply("health", "ok", State(breaker)))
  /\ UNCHANGED <<healthy, link, daemon, other, history>>

\* The tick goes on with the reply r to its sample.
Take(r) ==
  /\ telemetry' = Record(telemetry, r)
  /\ tick' = [tick EXCEPT !.at = After[@], !.running = FALSE]
  /\ UNCHANGED found

\* A sample, up to the daemon's lock.
AskSample ==
  LET c == tick.at
  IN
  /\ c \in Commands /\ ~tick.running
  /\ \/ Refuses /\ Take(Reply(c, "unreachable", "none")) /\ UNCHANGED window
     \/ Silent /\ CutOff(c) /\ UNCHANGED window
     \/ /\ link = "up" /\ UNCHANGED disturb
        /\ Count(c)
        /\ IF Refused(c) THEN Take(Reply(c, "failed", "none"))
           ELSE tick' = [tick EXCEPT !.running = TRUE] /\ UNCHANGED <<telemetry, found>>
  /\ UNCHANGED <<healthy, link, breaker, other, history>>

\* The run of the command ends, or not yet: rpc_latency has measured the validator's RPC.
\* Its tick may be cut off.
Measure(ends, off) ==
  LET tripped == breaker'.open /\ ~breaker.open
  IN
  /\ breaker' = IF ends /\ tick.running /\ tick.at = "rpc_latency"
                THEN Sample(breaker, healthy) ELSE breaker
  /\ unsaid' = (unsaid \/ tripped)
  /\ cut' = (~tripped /\ (cut \/ (off /\ unsaid /\ healthy /\ breaker' # breaker)))

\* On a host that is not reached it may end as well.
RunSample ==
  LET c == tick.at
  IN
  /\ tick.running
  /\ \/ /\ \E ends \in {link = "up", TRUE} : Measure(ends, FALSE)
        /\ Refuses /\ Take(Reply(c, "unreachable", "none"))
     \/ /\ \E ends \in {link = "up", TRUE} : Measure(ends, TRUE)
        /\ (Silent \/ Late(c)) /\ CutOff(c)
     \/ /\ Measure(TRUE, FALSE)
        /\ link = "up" /\ UNCHANGED disturb
        /\ \E s \in Outcomes(c) :
             Take(Reply(c, s, IF c = "rpc_latency" THEN State(breaker') ELSE "none"))
  /\ UNCHANGED <<healthy, link, window, other>>

FindingsLastSeen(t, probe) ==   \* mutant: no falling back on the probe
  IF probe = "none" \/ t.unreachable >= 2 THEN {"observer_unreachable"}
  ELSE {f \in {"rpc_breaker_open"} : t.breaker = "open"}

\* telemetry_findings. The breaker state is what the telemetry has, or else the
\* probe's. Rates of errors, slowness, stale samples and the watchtower's heartbeat,
\* which hide nothing else, are left out.
Findings(t, probe) ==
  LET seen == IF t.breaker # "none" THEN t.breaker ELSE probe
  IN IF probe = "none" \/ t.unreachable >= 2 THEN {"observer_unreachable"}
     ELSE {f \in {"rpc_breaker_open"} : seen = "open"}

Conclude ==
  /\ tick.at = "telemetry"
  /\ found' = Findings(telemetry, tick.probe)
  /\ tick' = NoTick
  /\ unsaid' = (unsaid /\ found' = {}) /\ cut' = (cut /\ unsaid')
  /\ UNCHANGED <<healthy, link, daemon, broker, disturb>>

-----------------------------------------------------------------------------
(* The validator, its host and the processes.                              *)

HealthChanges ==
  /\ healthy' = ~healthy
  /\ UNCHANGED <<link, daemon, broker, sentinel, history, disturb>>

\* The daemon is stopped, or its host or the link is down.
GoesDown ==
  /\ link' \in {"refused", "silent"} \ {link}
  /\ UNCHANGED <<healthy, daemon, broker, sentinel, history, disturb>>

\* Back after a restart, which forgets, or with the link. What ran when it went down
\* has failed before it is back.
ComesUp ==
  /\ link # "up" /\ link' = "up" /\ ~tick.running /\ other.pc # "running"
  /\ \/ breaker' = NewBreaker /\ window' = [c \in Commands |-> 0] /\ unsaid' = FALSE /\ cut' = FALSE
     \/ UNCHANGED <<daemon, history>>
  /\ UNCHANGED <<healthy, broker, sentinel, disturb>>

\* The broker restarts: its telemetry is new, calls fail; to the sentinel a failed call
\* is a missing sample.
BrokerRestarts ==
  /\ Disturb
  /\ other' = NoCall /\ telemetry' = NewTelemetry
  /\ tick' = IF tick.at \notin Commands THEN tick
             ELSE [tick EXCEPT !.at = After[@], !.running = FALSE]
  /\ \E ends \in BOOLEAN : Measure(ends, FALSE)
  /\ UNCHANGED <<healthy, link, window, found>>

Sentinel == Probe \/ AskSample \/ RunSample \/ Conclude

ObservationNext ==
  \/ Sentinel \/ ToolCall \/ VerifierSample \/ OtherRun \/ VerifierProbe \/ Returns
  \/ \E c \in Commands : Expire(c)
  \/ HealthChanges \/ GoesDown \/ ComesUp \/ BrokerRestarts

ObservationSpec == ObservationInit /\ [][ObservationNext]_observationVars

\* The sentinel's loop ticks for ever, calls that were made are answered or time
\* out, and a minute passes. Nothing makes workers call, the daemon come back or
\* the validator's RPC recover.
ObservationFairSpec ==
  /\ ObservationSpec /\ WF_observationVars(Sentinel) /\ WF_observationVars(OtherRun) /\ WF_observationVars(Returns)
  /\ \A c \in Commands : WF_observationVars(Expire(c))

-----------------------------------------------------------------------------
(* Properties.                                                             *)

\* TH-4: "the system does not go quiet to protect itself without saying so": while
\* the daemon is reachable, what the ticks report of the breaker comes to agree with
\* it, though refused, overtaken and lost replies overwrite what the broker has seen.
\* TH-1: a lasting outage of a host that refuses connections is found, as that and
\* nothing else, and the finding goes away when the daemon is back and the validator's
\* RPC answers: calls of catchup that wait for it too long count as unanswered. (The
\* outage of a host that is silent is not found: OutageHasEpisode in module Sentinel.)
FindingsSettle ==
  /\ <>[](link = "up" /\ breaker.open) => <>[]("rpc_breaker_open" \in found)
  /\ <>[](link = "up" /\ ~breaker.open) => <>[]("rpc_breaker_open" \notin found)
  /\ <>[](link = "refused") => <>[](found = {"observer_unreachable"})
  /\ <>[](link = "up" /\ healthy) => <>[]("observer_unreachable" \notin found)

\* "Trips are reported, never silent" (Breaker): the samples that close the breaker
\* cannot all be taken before a tick has found it open, or an outage that hides it,
\* though replies are lost and overtaken, unless a silent link has cut off a tick right
\* after one of them; only a restart of the daemon forgets a trip.
TripsReported == unsaid => breaker.open \/ cut

\* RB-06: "polling resumes automatically": with the RPC answering again the breaker
\* closes, whatever workers and the verifier do, and once they leave the command alone
\* the sentinel's samples of what was suspended run again and again: its own calls do
\* not use up the rate for good, nor do what was refused and what was left running.
PollingResumes ==
  /\ <>[](link = "up" /\ healthy) => <>[]~breaker.open
  /\ <>[](link = "up" /\ healthy /\ other.command # "catchup") =>
       []<>(tick.running /\ tick.at = "catchup")

\* RB-06: "polling resumes automatically", whoever else samples: the sentinel is not
\* kept from its samples. Workers and the verifier can keep it from them: rate and lock
\* are the daemon's, for all of its callers, and nothing keeps a share of them.
PollingNotStarved ==
  <>[](link = "up" /\ healthy) => []<>(tick.running /\ tick.at = "catchup")

\* OD-9: "when the validator's own RPC latency exceeds the owner's threshold, polling of
\* RPC-backed commands is suspended". An RPC that does not answer at all may hold up
\* catchup for so long that every tick ends before its sample of the latency.
BadRpcOpensBreaker == <>[](link = "up" /\ ~healthy) => <>[]breaker.open
=============================================================================
