# valops: TLA+ models, model checks and proofs

`valops` (under `src/valops/`) is an operations agent for Agave validators in milestone M0:
it observes a validator, opens an *episode* for an anomaly, has LLM workers diagnose it and
recommend an action, has another worker judge the recommendation, reports to the operator, and
closes the episode once the validator has recovered.  It never changes the validator.  The
programs around the workers are deterministic services that talk over Unix sockets
(`common/rpc.py`).  This directory models those services in TLA+, checks small instances with
TLC, and proves their safety properties with TLAPS for every value of the constants.

Contents: [parts](#the-system-and-its-parts), [modules](#modules-and-how-they-correspond-to-the-code),
[runs](#what-the-runs-show), [bounds](#bounds), [fairness](#fairness), [proofs](#what-is-proved),
[divergences](#where-code-and-documents-disagree), [not modelled](#what-is-not-modelled),
[plan](#plan).

To repeat a check: `tlc -config EpisodeRunner_run.cfg EpisodeRunner` (the name of a cfg starts
with its module), and for the proofs `tlapm EpisodeStoreProofs.tla`, likewise for each of the
eight modules whose name ends in `Proofs`.  The cfgs that `PROJECT.json` does not list under `runs`
show counterexamples to sentences of the documents; see
[divergences](#where-code-and-documents-disagree).

## The system and its parts

| part | state it keeps | operations | who calls it |
|---|---|---|---|
| episode store (`store/`) | append-only table of entries per episode, table of open requests; in-memory record of each episode (fold of the rows) | `open_episode`, `set_state`, the `append_*` handlers, rebuild at start | sentinel and controller (control endpoint), verifier, brokers on behalf of workers |
| runner (`controller/runner.py`, `artefacts.py`) | nothing but the persisted observe-only flag: it reads every decision from the record | `tick`, `advance`, `run_step`, `hand_off`, `_closure` | its own loop |
| workers and brokers (`worker/`, `brokers/episode_broker.py`) | capability tokens, quotas | tool calls; a call may outlive its worker | launched by the runner |
| verifier (`verifier/`) | streaks, escalated and recovered sets, in memory only | sampling loop, `append_recovery_observation`, `append_verification`, `set_state(resolved)`, deadline alert | its own loop |
| report broker (`brokers/report_broker.py`) | `alerts.jsonl` and a copy, recent send times | `send_alert`, `system_alert`, `ack`, escalation loop | workers, controller, operator |
| model broker (`brokers/model_broker.py`) | one meter per session | `open_session`, HTTP `handle`, `close_session` | controller, workers |
| bundle registry (`bundle/registry.py`) | pointer file, history, revocation list | `activate`, `rollback`, `revoke`, `verify`, `superseded_at` | administrators' processes, sentinel, store, controller |
| audit sequencer and clients (`audit/`) | hash-chained file, head and seq in memory, external anchors; per process a buffer of submissions | `submit`, `anchor_now`, `verify_chain`, `record_daemon_checkpoint` | every service |
| observer daemon (`observer/`) | its own hash-chained file on the validator host; circuit breaker, recent calls and a lock per command | `observe`, `health`, `checkpoint` | observer broker |
| observer broker (`brokers/observer_broker.py`) | telemetry (unreachable calls in a row, last breaker state, age of samples) | `sample`, `probe`, `telemetry`, tool calls, checkpoint loop | sentinel, verifier, workers |
| sentinel (`sentinel/`, `consensus.py`) | consecutive counters, annotations made, in memory only | `tick`: probe, samples, rules, `open_episode`, signals, alert, annotation | its own loop |
| pre-flight (`controller/preflight.py`) | observe-only flag | tiered checks before an LLM step | runner |

The parts share no memory.  They meet in the store's record (compare-and-swap on its revision),
in the files of the registry, and in the audit chain.

**What is hard here.**  A service may die between any two durable effects (audit submission,
row, open request, pointer, history row, chain line, anchor).  Calls are repeated after lost
replies, and workers' calls arrive after the worker was killed.  Sentinel, controller, verifier
and brokers write to the same episode between another's read and write.  Loops catch `RpcError`
but a socket time-out is an `OSError`.  Checks and effects are in different lock sections
(`append_verification`, admission and metering of the model broker, `anchor_now`).  Budgets
(P-08 retries, P-09 Judge returns, session limits, alert cap, P-12 drain deadline) must hold
across all of that, and an episode must never stop silently.  Replies of concurrent observations
overtake each other on their way into the telemetry, and what the sentinel cannot see must not
look like health, nor like trouble.  The list with its source lines is
under `hazards` in `PROJECT.json`.

**What makes each part correct.**

- *Store*: the record equals the fold of the log at all times; transitions are compare-and-swaps
  along the table of their principal; an idempotency key names one row; one live episode per
  dedupe key; a terminal episode stays terminal, and what was not decided before its end is not
  written after it; verdicts refer to what stood in the record; a
  revoked bundle stops agents, but for a write that is under way; no row without its audit submission.
- *Runner*: retries and Judge returns are bounded; nothing is reported that did not pass; an
  episode waits for the operator only after its report was delivered; every episode reaches the
  operator or is handed off.
- *Verifier*: an episode is resolved on a full window of fresh samples of a recovered validator;
  a lasting recovery does resolve it; a missed deadline is alerted.
- *Report broker*: one alert per deduplication key; silence after an acknowledgement; an
  unacknowledged alert does reach the backup.
- *Model broker*: requests within the session's limit, output and money beyond theirs only by what
  requests under way at the same time and several completions of one request add.
- *Registry*: no episode is drained early; the analysis of episodes on superseded or revoked
  bundles ends.
- *Daemon's commands and observer broker*: a trip of the breaker is reported; what is reported
  comes to agree with what is so; polling resumes by itself.
- *Sentinel*: an episode opens on sustained data only, never on missing data; lasting trouble has
  an episode with evidence; an unknown consensus mode is alerted; stale episodes say so.
- *Audit*: submissions are chained in order and durably, nothing that was accepted is forgotten,
  honest histories raise no alarm, and the loss of a recorded line does.

## Modules and how they correspond to the code

`PROJECT.json`, `map`, gives for every definition the source lines that it stands for.
Definitions whose comment says "mutant" are plausible mistakes: each replaces the definition that
follows it to show that a property depends on it; no specification uses them.

**`Transitions`** — `store/transitions.py` and the write tools of `common/tools.py`: who may move
an episode where, which role may write which kind of entry in which states.

**`EpisodeLifecycle`** — the abstract specification: what the store promises about states and
dedupe keys of episodes, without rows, memory, callers or crashes.

**`EpisodeStore`** — `store/service.py`, `fold.py`.  `entries`, `opens` are the two tables,
`audited` the submissions, `records` is `self._records`, `phase` whether `_rebuild` is done,
`checking` the verification requests between the two lock sections of `append_verification`.
There is one action per handler of each endpoint.  Handlers run under one lock, hence are one
step, except that `Write` may be cut after the audit submission or after the INSERT (a crash, or
an INSERT that fails), `OpenNew` between the two INSERTs, that verification is two actions, and
that a handler finds the bundle of its call good in one step (`BundleOk`, `passed`) and goes on in
another: the revocations are a file that other processes write, without a lock in common.  `late`
(history) counts the rows per bundle that follow its revocation.
`RebuildRow` and `Serve` are the restart.  `TokenGate` and `AgentGate` are `_token_gate` and
`_agent_gate`.  Callers are arbitrary: any endpoint calls at any time with any argument it can
send.  Calls that are refused, and calls that repeat a key, leave the state unchanged.
Idempotency keys are tuples `<<operation, who, number>>`, as the callers build them from those
parts; entry bodies are reduced to ids, ranks, references, targets and results.

**`MCEpisodeStore`** — instances of it.  The store starts on an empty database or on one of three
logs that it writes itself (an episode in diagnosis, in its second round of planning after a FAIL,
in reporting), so that late stages of an episode are explored with all callers active and not only
in the order of a single path.

**`EpisodeRunner`** — `controller/runner.py`, `artefacts.py`, with the services around it.  One
step per remote call of the runner: `ctl.pc` is where `tick` is (`run` a worker, `record` its
step, `decide`, `cas`, `alert`, `giveup`, or `dead` when an exception has left the loop).  The
store is the part of the record that the runner reads.  Every append increments the revision, so a
transition conflicts exactly when something was appended since the runner's last read; `ctl.fresh`
says that nothing was.  `params` are the retry budgets of the bound bundle, `LlmAllowed` is the
pre-flight.  Workers may leave any subset of what their role can write, may die at any point
(`WorkerDies`), and may have one call arriving after their death (`LateStep`).  Around it: appends
by sentinel and verifier, `Outage`, `LostReply`, `Hang`, `Crash`, and what happens to the bundle.
A diagnosis is summed up as sound, refuted or gaps.  Variables marked *history* are there for
properties only.

**`RecoveryVerifier`** — `verifier/verifier.py`, `rules.py` for one episode, call by call;
`current` is the compare-and-swap as above.  A sample is a pair: fresh or not, predicate holds or
not.  Streaks, `escalated` and `recovered` are memory that a restart loses.  The verifier
writes a verification row only when the window holds, so its result is always a pass.

**`BundleRegistry`** — `bundle/registry.py`, `_bundle_problem` of the runner, the sentinel's and
the store's binding of an episode.  `activate` and `rollback` go file by file (pointer, then
history), in any number of processes at a time, since the lock of the registry is one per process.
Signatures and manifests are one predicate per bundle; time is a counter.  An episode is analysed
(`live`), waits for the operator, where `advance` does not examine it, or has ended.  History
variables say when the pointer left a bundle (`left`), where it came back (`back`), which bundles
wait for a row (`unrecorded`) and whether activations overlapped (`crossed`).

**`AuditTrail`** — `audit/sequencer.py`, `client.py`, `anchor.py` and the controller's timed
`verify_chain`.  A line is its seq, time, predecessor and body; its hash is its place in the file
and its time, which tells apart two lines written at the same place before and after a crash.
A crash loses what no fsync covered and may cut the last line anywhere: part of a line (`torn`)
keeps the sequencer from starting; a line that lacks its newline only (`bare`) is read like any
other, and the next one is written behind it on the same physical line.

**`ModelSession`** — `brokers/model_broker.py`: one session, its handler threads, the meter, and
what the provider really generated.  The size of a request is what the broker estimates; the
provider may count up to `Slack` tokens more, and generates up to `Fan` completions, each as long
as the clamp allows (`n`, `candidateCount`, which the broker passes on).

**`AlertDesk`** — `brokers/report_broker.py`, `alerts.py`: callers' threads, acknowledgements and
the escalation thread, against a sink and an audit that may fail.  An alert is named by its call;
that its acknowledgement window has run out is a flag (`due`).  A crash inside `_log` may leave a
line on which the broker does not start again (`Down`).

**`DaemonChain`** — `observer/chain.py`, the checkpoint loop of `observer_broker.py`, and
`record_daemon_checkpoint` of the sequencer.  The hash at a line stands for all lines up to it,
so equal hashes mean equal prefixes.  The last line may be cut, by a crash or with the file
(`ending`): the daemon starts on one that lacks only its newline, and refuses a broken one.

**`Observation`** — the daemon's admission of commands and its breaker (`observer/daemon.py`,
`builtins.py`), the observer broker's samples, probe, tool calls and telemetry, and the sentinel's
tick as far as it observes and judges telemetry (`telemetry_findings`).  Two commands stand for
the table: `rpc_latency`, which feeds the breaker, and `catchup`, which the open breaker suspends
and which sentinel and workers share.  A call is three steps: admission, the run under the
command's lock, and the broker's record of the reply, which others may overtake.  The verifier
samples as the workers do, and nothing limits either but the daemon: a quota is per session, and
each step of an episode opens a new one.  The host of the daemon may refuse connections or be
silent (`link`); then, and while `catchup` uses its 30 s, the sentinel's call times out before the
broker's does, and the tick is cut off (`CutOff`).  `unsaid` (history) says that the breaker has
tripped and no tick has found anything since, `cut` that a silent link cut off a tick right after
one of the samples that close it.

**`Sentinel`** — `sentinel/scheduler.py`, `checks.py`, `consensus.py`, one remote call a step,
with the store as the live episode per check.  `sight` sums up what the daemon and the bundle let
the sentinel see: samples, no samples of `catchup`, a daemon that refuses, a daemon that does not
answer within 30 s, a bundle that does not verify.  `delinquency` stands for the validator's
rules, being the one over consecutive samples, and `observer_unreachable` for the telemetry
rules.  `received` and `quiet` are history: the newest samples that the rules were given, and that
a fault hit the call that opens or alerts.

**`EpisodeStoreProofs`, `EpisodeRunnerProofs`, `RecoveryVerifierProofs`, `BundleRegistryProofs`,
`AuditTrailProofs`, `DaemonChainProofs`, `SentinelProofs`** — the theorems about the module of
that name; **`BrokerProofs`** — those about the three brokers, `AlertDesk`, `ModelSession` and
`Observation`, which it extends together (their `Init`, `Next` and `Spec` have a prefix for that
reason); see [below](#what-is-proved).

How they compose: `EpisodeStore` implements `EpisodeLifecycle`; `EpisodeRunner`,
`RecoveryVerifier` and `BundleRegistry` each contain what they use of the store (its
compare-and-swap, transition table and tool rules, taken from `Transitions`), justified by
`TransitionsAreCAS`, `KeysNameOneRow` and `RecordMatchesLog`, which are proved of the store.
`Sentinel` contains its `open_episode` (one live episode per key: `OneLivePerKey`, proved), and
takes as given whether a sample arrives, which is what `Observation` is about.

## What the runs show

Passing runs (distinct states in parentheses):

| run | question | properties |
|---|---|---|
| `store_episode` (237k) | one episode from its opening to its end, agents, sentinel, controller and verifier calling in any order and repeating keys, the bundle revoked at any moment, also between a handler's look at it and its row | `TypeOK`; `TransitionsAreCAS`: every transition starts where the rows before it ended and was decided on the revision just before it; `KeysNameOneRow`; `VerdictJudgesStandingArtefact`; `TerminalIsFinal`: only closing kinds of rows follow the terminal one, and verifications decided on a record in which the episode was open; `RevocationStopsAgents`: at most one row follows the revocation of a bundle |
| `store_open` (181k) | several open requests, crashes at every point of `_append`, of `open_episode` and of rebuilds | `RecordMatchesLog`, `AuditCoversLog`, `OneLivePerKey`, refinement `ImplementsLifecycle` |
| `runner` (673k) | the runner's thread under conflicts, outages, lost replies, late calls of dead workers, crashes, hanging calls, the bundle revoked, drained or corrupted | `ReportFollowsPass`, `WaitingIsReported`, `RetriesBounded` (retries and Judge returns), `RecoverySkipsPlanning` (diagnosis does not lead to planning with a recovery in the record); liveness `ReachesOperator`, `ClosureEnds` |
| `audit` (1,857k) | two threads of a buffering client, two anchorers and `verify_chain` against a sequencer that crashes at any byte of a line, times out and fails to write | `FlushedInOrder`, `NothingForgotten`, `AckedIsDurable` (acknowledged lines keep their place, and can be read unless written behind one that lost its newline), `NoFalseAlarm` (but for torn and joined lines, a failed write, and an anchor stored for a line that a restart took from the page cache before any fsync covered it) |
| `verifier` (231k) | failing calls, hangs, restarts, foreign writes, changing samples | `ResolvedOnRecovery`; liveness `RecoveryResolves`, `DeadlineEscalates` |
| `registry` (1,085k) | two administrators' activations, rollbacks and revocations, cut off anywhere, while episodes are opened | `DrainNotEarly`: P-12 has passed since the pointer left the bundle, unless it had come back or activations overlapped; liveness `OldBundlesEnd` |
| `model` (2,352k) | four requests, two at a time, with two completions each, inputs above their estimate, missing usage, broken streams, close under way | `SpendWithinLimits`: exact for the number of requests, and otherwise off by no more than what overlapped, broke off or was asked for as a second completion |
| `alert` (525k) | concurrent calls, acknowledgements, escalation, failing sinks, audit errors, restarts, a torn log | `AlertedOnce`, `AckSilences`; liveness `UnackedIsEscalated` |
| `daemon` (1,190k) | crashes and restarts of daemon, broker and sequencer, lost and hanging calls, checkpoints that are not written, the file cut anywhere or rewritten while the daemon is down | `NoFalseAlarm`, `RecordedExtends`; liveness `LossIsReported` |
| `observation` (300k) | sentinel, workers and verifier observing through one broker, replies lost, refused and overtaken, the RPC failing and recovering, the daemon refusing, silent or restarted, the broker restarted | `TripsReported`: the samples that close the breaker cannot all pass before a tick has found it, unless a silent link cut off one of those ticks; liveness `FindingsSettle`, `PollingResumes` |
| `sentinel` (520k) | failed calls, lost replies, ticks cut off, restarts of controller and broker, episodes that end, samples missing or the bundle unverified at any moment | `OpensOnSustainedData`, `UnknownModeAlerted`; liveness `TroubleHasEpisode`, `StaleIsAnnotated` (for a daemon that refuses connections) |

One more run (`sentinel_outage`, `expect: violation`) checks a sentence of a document that the
code does not keep; it is described [below](#where-code-and-documents-disagree).

Deadlock is checked in `observation` and `sentinel`, whose loops go on for ever.  It is off in the
other runs: their models are bounded by counters of faults, calls or rows, and the behaviours they
allow end where a bound is used up; the systems modelled also rest between requests.  Where the
code must not stop, a liveness property says so.

## Bounds

- *Store*: one episode (two in `store_open`, where sharing a key is the question), one live
  session per role next to one that has ended, one or two call identities per caller (two are
  needed to repeat a call under a new key), at most two to four rows beyond the starting database
  (`MaxRev`), one fault.  One fault suffices to cut a handler at each of its points, and after the
  rebuild nothing remembers that there was a crash.  `MaxLag` bounds how old the verifier's
  revision is: older ones are refused the same way.  The consensus mode is known in
  `store_episode`, so that a skill bound to a mode can be recommended.
- *Runner*: P-08 and P-09 with a sum of at most `MaxBudget` = 1, chosen in the initial state, so
  that the first retry, the first return and exhaustion all happen; two disturbances of any kind,
  in any combination.
- *Verifier*: window 2 (first sample and full window differ), two rules, two faults.
- *Registry*: two bundles, the content of one of which may change (`Fragile`), two
  administrators with three commands between them (activate, replace, roll back; or two that
  overlap and one more), a clock that runs past the deadline.
- *Audit*: four submissions and lines and two faults: a buffer of two that is flushed in order,
  or overflows, and a line before the crash, one that the crash loses and its replacement.  The
  constraint `Bounded` stops at two submissions and lines where somebody anchors or verifies, or a
  write has failed: order and retention in the client do not depend on those.  Threads, and
  anchorers, run the same code and are symmetric; the run has no liveness property.
- *Daemon*: four lines, three faults, for the same reasons.
- *Model session*: four requests against a limit of three, two under way at a time (so that one is
  made after two that overlapped), two completions a request, and token limits that one request can
  use up.  Requests are
  symmetric.
- *Alerts*: two calls with one key, so that the second finds the first at each of its steps, and a
  cap of one per hour.  None is critical, since those pass the cap.
- *Observation*: a rate of one call, so that one of a worker or of the verifier keeps the sentinel
  out; three good samples to close the breaker, more than one tick; one lost reply or broker restart, while
  the validator's RPC and the daemon fail and recover without bound.
- *Sentinel*: two samples in a row (the first and the last differ); versions below, in and above
  the overlap of the two modes; two faults, so that one may hit the retry of what another has
  broken; one episode that ends.  What can be seen of the validator changes without bound.  The
  run of the outage needs no fault.

Counters are bounded in the guards of the actions (`MaxFaults`, `MaxDisturb`, `MaxRev`,
`MaxLines`, ...).  In the modules with liveness properties a bound forbids only what the
environment may do (a fault, a command, a new line), never a step of the program that is due; in
the store and the audit trail, whose properties are safety, it also ends the growth of the log.

## Fairness

Only the liveness properties assume any, and only weak fairness of what the code keeps doing:

- `EpisodeRunner`: `WF(Controller)`, the loop ticks for ever and `wait_worker` kills at P-11;
  `WF(Restore)`, an administrator restores a corrupt bundle, without which the runner waits on
  purpose.  Nobody has to resolve the episode.
- `RecoveryVerifier`: `WF(Thread)`, the loop samples for ever.  Nothing about the validator or the
  deadline is assumed; the properties say what follows once they have happened.
- `BundleRegistry`: started commands go on, time passes, the runner looks at each live episode.
  The validator need not recover, so an episode may wait for the operator for good.
- `AlertDesk`: `WF(Desk)` and `WF(WindowEnds)`, time.  Nobody has to acknowledge.
- `DaemonChain`: broker loop and handlers run, the service manager starts the daemon again, where
  its file lets it.
- `Observation`: `WF(Sentinel)`, the loop ticks for ever; a call under way ends, as every client
  has a time-out; a minute passes (`Expire`).  Nothing makes the RPC or the daemon recover.
- `Sentinel`: `WF(Tick)`; its loop catches every exception of a tick and goes on.

A loop ends when a call times out, because its handlers catch `RpcError` only, and the escalation
loop when the audit answers with an error.  No fairness brings it back: the liveness properties
except exactly the behaviours in which the thread has ended for good (`ThreadEnds` and
`<>[](... = "dead")`), and likewise those in which a torn file keeps a process down for good
(`AlertDesk`, `DaemonChain`).  A process that is restarted, or a
loop that only met failing calls, is not excepted.

## What is proved

The theorems hold for *every* value of the constants, that is for any sets of episodes, callers,
bundles, calls, threads and so on, every budget, window and buffer size, and every bound on
faults and lengths, from the assumption that each module names after its CONSTANTS (bounds are
naturals, windows and buffers are not empty, `None` is none of the values it stands beside). One
theorem has a hypothesis more, `TripsAreReported`; see below.

| theorem | statement |
|---|---|
| *store* `TypeCorrect` | `Spec => []TypeOK` |
| `RecordIsFold` | `Spec => []RecordMatchesLog`: the served record is the fold of a prefix of the log at every moment of a rebuild and of the whole log while the store serves |
| `AuditCoverage` | `Spec => []AuditCoversLog` |
| `KeysUnique` | `Spec => []KeysNameOneRow` |
| `TransitionsCAS` | `Spec => []TransitionsAreCAS` |
| `FinalTerminal` | `Spec => []TerminalIsFinal` |
| `OneLive` | `Spec => []OneLivePerKey` |
| `VerdictsJudge` | `Spec => []VerdictJudgesStandingArtefact` |
| `RevocationHolds` | `Spec => []RevocationStopsAgents` |
| `StoreImplementsLifecycle` | `Spec => ImplementsLifecycle`: the store refines `EpisodeLifecycle` |
| *runner* `RecoverySkips` | `Spec => RecoverySkipsPlanning` (an action property) |
| `WaitingReported` | `Spec => []WaitingIsReported` |
| `ReportsFollowPass` | `Spec => []ReportFollowsPass` |
| `RetriesAreBounded` | `Spec => []RetriesBounded`, for all P-08 and P-09 |
| *verifier* `ResolvedIsRecovered` | `Spec => []ResolvedOnRecovery`, for every window |
| *alerts* `AlertIsOnce` | `DeskSpec => []AlertedOnce` |
| `AckIsSilence` | `DeskSpec => []AckSilences` |
| *model session* `LimitsHold` | `SessionSpec => []SpendWithinLimits`, for all limits, prices, request sizes and numbers of completions, and any number of requests at a time |
| *observation* `TripsAreReported` | `ASSUME Recover >= 3 PROVE ObservationSpec => []TripsReported`, for every rate and any number of disturbances |
| *audit* `AckedDurable` | `Spec => []AckedIsDurable` |
| `NoAlarm` | `Spec => []NoFalseAlarm` |
| `NothingIsForgotten` | `Spec => []NothingForgotten` |
| `FlushesInOrder` | `Spec => []FlushedInOrder` |
| *daemon* `ChainNotBlamed` | `Spec => []NoFalseAlarm` |
| `RecordExtends` | `Spec => RecordedExtends` (an action property) |
| *sentinel* `UnknownIsAlerted` | `Spec => []UnknownModeAlerted` |
| `SustainedOpens` | `Spec => OpensOnSustainedData` (an action property), for every P-03 |
| *registry* `NotDrainedEarly` | `Spec => DrainNotEarly` (an action property), for any number of administrators |

The proofs have one shape.  A lemma reduces the actions to a few *kinds* of step, by what they do
to the state that the property speaks of; each conjunct of the inductive invariant is then shown
to survive each kind.  What has to be added to a property to make it inductive says why the code
keeps it:

- *Store*.  That a row is numbered correctly, or that a transition starts in the right state,
  depends on memory agreeing with the table, and that in turn on the phase of the restart.
  `TypeInv == LogInv /\ MemInv` says what is known of the table (an opening row first and only
  first, known kinds and principals, transitions into known states) and of memory (a record is
  behind its log by at most the rows not yet rebuilt, and not at all while the store serves);
  `Folded` is the inductive form of `RecordMatchesLog`.  `NextCases` reduces the actions to
  `Appends` (one row that satisfies `RowOK`, possibly cut by a crash), `Aside`, `Crash`,
  `RebuildRow` and `Serve`, and a lemma per handler shows that its gate establishes `RowOK`.  The
  invariants speak of rows and the rows before them; an append preserves them once they hold of
  the new row.  For verdicts `JudgedInv` adds that artefacts are written in `recommending` only and
  that a log with artefacts has a last one, which `under_judgement` finds.  The refinement reads
  the abstract state off the log: an append of an opening row is `Open`, of a transition `Move`,
  and every other step, a rebuild among them, stutters, as the mapping looks at the table and not
  at memory.  `LateInv`: a bundle whose check still stands in a handler has no late row yet; that
  the store's lock lets one handler at a time stand there makes one the bound.
- *Runner*.  `StepInv`: a step is for the state the episode is in, and what its session has left
  is in the record.  It is what makes the decisions sound, since the record may have moved on
  otherwise.  Each property adds what is known of a transition that is decided and not yet made:
  while the read it rests on is fresh (`Swapping`) there is no recovery observation, the newest
  verdict is a PASS on the newest artefact, the FAILs are within P-09 (`RecoveryInv`, `PassInv`,
  `ReturnInv`).  `ReturnInv` counts returns against the FAILs on artefacts that have been
  replaced, `AttemptInv` the starts of a step against recorded failures and disturbances.
- *Verifier*.  `StreakInv`: a streak never claims more than the window of samples; a restart
  forgets the first and not the second.  `ResolveInv`: the rule that is being resolved stays
  steady, as nothing is sampled meanwhile.
- *Alerts*.  `LogInv`: an alert is logged by its own call.  `ToldInv`: a caller that was
  preceded by a told key never pages.  `AckInv`: the page after the acknowledgement was under way
  when it came, and the desk is past it.
- *Model session*.  The meter lags behind the provider, so the limits do not bound the charge by
  themselves.  `RequestInv`: the requests that were counted are those that were charged and those
  under way.  `Balanced` is the invariant of an account, of output tokens or of money: what the
  provider has charged, plus what the requests under way reserve, is within the limit once for each
  of the `peak` requests that were under way together, plus what is forgiven (broken streams,
  input above its estimate);
  and what was charged is metered, about to be metered, or forgiven.  An admission reserves no
  more than what the meter leaves; with the newcomer the requests under way at most reach `peak`,
  which rises with them.  Sums over the requests under way are cardinalities of sets of units
  (`Total`), since a fold over a set cannot be unrolled by the provers; four lemmas about them and
  one each for admission, answer and metering are stated for any account and used for both.
- *Observation*.  `TripInv`: while a trip is unsaid the breaker is open, and a tick that began
  after the trip can end without saying so only if a reply from before the trip overwrites what
  its probe and its sample told the broker (`Misled`), or the link cuts it off.  A tick that is cut
  off before its good sample changes nothing, and after it sets `cut`.  No reply made after the trip
  says "closed", and at most one call of others is under way, so such a reply is still to come
  (`Outdated`) or it has done its harm: one tick, with one good sample, passes in silence, and the
  next one, with the second, finds the breaker.  Hence `Recover >= 3`: with two the property is
  false (TLC shows it).  The daemon's default is five (`observer/daemon.py:71`), and nothing in
  the repository passes another number.
- *Audit*.  `DurableInv`: acknowledged lines are synced at their place.  `BareInv`: none of them is
  the one that lost its newline, since a crash cuts only what no fsync covers.  `LockInv`: the flushing
  thread holds the lock and the head of the buffer.  `ReturnInv`: what returned is settled or
  buffered.  `OrderInv`: what came before a submission is settled before that one is on its way,
  and ahead of it in the buffer.  `ChainInv`: until something excused happens, the file is linked
  and memory and anchors agree with it.
- *Daemon*.  `OrderInv`: the record is behind what the sequencer remembers, and that behind a
  checked request, while no request is stray.  `SoundInv`: while nothing excused has happened, all
  heads that are remembered or on their way are in the file and continue each other.
- *Sentinel*.  `CountInv`: the newest samples given to the rules are breaches, as many as are
  counted.  `FoundInv`, `PendingInv`: a finding, and an alert that is due, are still what the
  rules said when they were made.
- *Registry*.  `RowInv`: a bundle with a row in the history is active, or the pointer left it, or
  came back to it, before the row that superseded it; `AdminInv`: between moving the pointer and
  writing the row the pointer stays.  Both hold until activations of two processes overlap
  (`crossed`), which the property excepts and the theorem does not assume away.

TLC has checked each of these inductive invariants on the instance of the module's run.

Every invariant and every action property of a passing run is thus stated by a theorem.  Checked by
TLC only:

- Liveness: `ReachesOperator`, `ClosureEnds`, `RecoveryResolves`, `DeadlineEscalates`,
  `OldBundlesEnd`, `UnackedIsEscalated`, `LossIsReported`, `FindingsSettle`, `PollingResumes`,
  `TroubleHasEpisode`, `StaleIsAnnotated`.  Fairness and `ENABLED` are out of the proof system's
  reach.

What a recursive definition computes for every input is out of its reach too; no module here
declares a RECURSIVE operator.

## Where code and documents disagree

The run `sentinel_outage` refutes a sentence of the documents; `PROJECT.json`, `findings`, has
quotation and lines.  HLD section 9 has an unreachable daemon open a `telemetry_health` episode.
When its host refuses connections it does (`TroubleHasEpisode`).  When the host does not answer,
the sentinel waits for the broker as long as the broker waits for the daemon (30 s each, the
sentinel's having started first); its call raises `TimeoutError`, which is no `RpcError`, and each
tick ends before anything is found.  The same happens while `catchup` uses its 30 s.

The following sentences are refuted by cfgs beside those of the runs.  Each has one property, which
says what the sentence says, and TLC finds it violated within a minute.

| cfg | property | sentence | code |
|---|---|---|---|
| `MCEpisodeStore_terminal` | `TerminalAcceptsNoOther` | HLD 5.3, line 410: a terminal episode accepts reports, recovery observations, bookkeeping, "and no other write"; so `store/service.py:20-21` | `append_verification` looks at the state in one lock section and writes in another (`store/service.py:447`) |
| `EpisodeRunner_alert` | `HandOffAlerted` | R-4, HLD line 353: "`handed_off` + alert. Never a silent stop" | the alert follows the transition, its failure is logged, and `advance` returns at once for a handed-off episode (`controller/runner.py:104`, 79, 287) |
| `EpisodeRunner_recovery` | `RecoveryIsReportedNext` | HLD section 8, line 902: after a recovery during analysis "at the next transition the controller routes to `reporting`" | only the branch for `diagnosing` looks; judging starts, and a FAIL sends back to recommending (`controller/runner.py:320`, 328) |
| `AuditTrail_readable` | `AckedIsReadable` | `audit/sequencer.py:7`: "fsyncs before acknowledging" | a line that lost its newline in a crash is loaded, and the next acknowledged line is joined to it (`audit/sequencer.py:71`, 90): neither can be read at the next start |
| `BundleRegistry_rollback` | `DrainsOldBundlesOnly` | HLD 5.4, line 444: P-12 "bounds how long old bundles stay live" | `superseded_at` reports the first supersession, so after a rollback episodes on the active bundle, new ones included, are drained (`bundle/registry.py:203`) |
| `BundleRegistry_revoked` | `RevokedEpisodesEnd` | RB-04: "No live episode is bound to a revoked bundle"; HLD lines 446 and 819 | `advance` returns for `awaiting_operator` before it looks at the bundle (`controller/runner.py:287`) |
| `ModelSession_overlap` | `CutsOffExactly` | HLD line 975: "limits cut off exactly"; `brokers/model_broker.py:11` | requests are checked before they are forwarded and metered after (`brokers/model_broker.py:243`) |
| `ModelSession_completions` | `CutsOffExactly` | the same, and `brokers/providers.py:47` | one field is clamped; `n` and `candidateCount` pass (`brokers/providers.py:55`) |
| `DaemonChain_torn` | `TruncationIsReported` | `observer/chain.py:5`: truncation "is detectable from the ops host"; HLD line 972 | cut inside a line, the file keeps the daemon from starting, and without a checkpoint there is nothing to compare (`observer/chain.py:31`) |
| `Observation_starved` | `PollingNotStarved` | RB-06: "polling resumes automatically" | rate and lock of a command are shared with workers and the verifier, without a share for the sentinel (`observer/daemon.py:132`) |
| `Observation_latency` | `BadRpcOpensBreaker` | OD-9, HLD line 579: with a bad RPC latency RPC-backed polling "is suspended" | an RPC that does not answer lets `catchup` use its 30 s, which cuts every tick off before it measures the latency (`sentinel/scheduler.py:24`, 43) |

Other differences met while modelling:

- HLD 7.3 says that a request delivered twice appends nothing.  `open_episode` inserts the opening
  row and the row of `opens` in two statements; after a crash between them, and the end of the
  episode, a retry with the same key opens a second episode (`store/service.py:354`).
- R-4 says "never a silent stop".  A call that times out in `tick` itself, or in its handlers,
  which catch `RpcError` only, leaves `loop`: the runner's thread ends and no episode advances
  (`controller/runner.py:386`).  The verifier's and the checkpoint loop end the same way.
- HLD 5.4 says that after a verification failure "sentinel, store and verifier keep running".  The
  sentinel loads the active bundle before it observes, so it observes nothing
  (`sentinel/scheduler.py:60`).
- `preflight` remembers that it has alerted a degradation also when the alert failed
  (`controller/runner.py:124`).

The properties of the passing runs are stated as the code keeps them.  Where that is less than a
reader of the documents may expect, the exception is in the property, and reads as follows:

- *Store*: `TerminalIsFinal` admits a verification row after the terminal row if the revision that
  it was decided on is from before; `RevocationStopsAgents` one row per revoked bundle.
- *Runner*: `RetriesBounded` adds one attempt per disturbance (a limit is retried when the
  hand-off's compare-and-swap conflicts); `RecoverySkipsPlanning` is about the end of the diagnosis,
  not about the way back from judging; `ClosureEnds` is about the report, a
  closure whose alert failed is not repeated.  FAIL verdicts of repeated judge steps count towards
  P-09, so that bound may be reached with fewer returns.
- *Registry*: `OldBundlesEnd` excepts bundles that a cut-off `activate` left out of the history and
  activations that overlapped, whose rows may be in another order than the pointer's moves, and is
  about the analysis: a waiting episode is not examined.  `DrainNotEarly` excepts a bundle to which
  the pointer has come back, and overlapping activations.
- *Model broker*: `SpendWithinLimits` grows with the requests that overlapped, the completions of a
  request, and what broken streams did not state.  The broker checks money only through the output price
  (`brokers/model_broker.py:245`): when that is zero the limit in USD is not checked at all, and
  the property says nothing of it.
- *Audit and daemon*: `NoFalseAlarm` excepts failed writes (which leave a line that the next one
  repeats the seq of, or a checkpoint that a restart forgets) and, for the daemon, a request that
  outlived its broker; such a request may also set the record back (`RecordedExtends`).
- *Report broker*: `AlertedOnce` is about callers that ask after somebody was told; two that look
  the key up at the same time both page.
- *Observation*: a restart of the daemon forgets a trip that no tick has found, and so do samples
  whose ticks were cut off.  `FindingsSettle` finds the outage of a host that refuses connections;
  `PollingResumes` is about samples that workers and verifier leave alone.
- *Daemon*: `LossIsReported` excepts a daemon that its torn file keeps down for good.
- *Sentinel*: `OpensOnSustainedData` is about the samples that the rules were given: a good sample
  in a tick that is cut off before its rules is forgotten, so the breaches around it count as
  consecutive.  `UnknownModeAlerted` excepts a lost reply of `open_episode`, after which the next
  tick finds the episode live and alerts nothing.  `StaleIsAnnotated` speaks of samples that the
  broker knows of: after its restart during an outage it knows of none.

## What is not modelled

- Worker processes, the sandbox, adapters and hooks: model conversations and process I/O.  Their
  effect on the services is any sequence of tool calls, which the models admit.
- The daemon's subprocesses, parsers, redaction and the loader of its command table: pure
  functions over text or I/O.
- Rules of the sentinel that compare one sample with a threshold; latency and error rates.
- Pre-flight tiers: each tick of the runner runs all checks anew and keeps only the observe-only
  flag, which `EpisodeRunner` has, and the alerts already sent (see above).
- Token signatures, JSON schemas, quotas of episode writes, headers and routes, texts of reports
  and alerts, the payload store, the object-lock anchor backend.
- Bundle builder, configuration, command line, evaluation tools and fixtures: sequential tools and
  wiring, without state of their own at run time.
- Quotas of the observer broker's tools: they are per session, each step of an episode opens a new
  session, and the verifier's samples have none, so they bound nobody over time.
- Failing writes of the daemon's chain and of the alert log: crashes in the middle of them are.

## Plan

The modules are in place: store and lifecycle, runner, audit trail, verifier, registry, model
session, alerts, daemon chain, observation, sentinel.  Their safety properties are proved, their
liveness properties checked.  What could follow:

1. the composition: runner, verifier and sentinel beside one `EpisodeStore`, instead of each with
   the part of the record that it reads; the refinement would take the place of the argument under
   [modules](#modules-and-how-they-correspond-to-the-code);
2. the command table and the rules of the bundle as data, when more than one shape of them is in
   use.
