-------------------------- MODULE RecoveryVerifier --------------------------
(***************************************************************************)
(* The verifier thread (valops/verifier/verifier.py) at work on one        *)
(* episode: sampling, streaks, recovery observations, resolving and        *)
(* escalation, while the controller moves the episode and other writers    *)
(* append to it.                                                           *)
(*                                                                         *)
(* The compare-and-swap of set_state is represented by `current`: TRUE     *)
(* from the verifier's read of the record until the next append.           *)
(***************************************************************************)
EXTENDS Naturals, Sequences, Transitions

CONSTANTS
  NRules,     \* rules of the bundle that apply to the episode
  W,          \* window of every rule
  MaxFaults,  \* bound: failed calls, foreign appends, restarts, relapses
  CallsHang   \* a call may time out, which is not an RpcError

ASSUME VerifierAssumption ==
  /\ NRules \in Nat \ {0} /\ W \in Nat \ {0}
  /\ MaxFaults \in Nat /\ CallsHang \in BOOLEAN

VARIABLES
  state,      \* the episode's state in the store
  verified,   \* rules with a verification row
  current,
  healthy,    \* the validator has recovered: samples are fresh and every rule holds
  late,       \* the deadline P-17 has passed in awaiting_operator
  bundleOK,   \* the bound bundle verifies
  pc, rule,   \* where check_episode is
  listed,     \* the state that list_episodes reported
  streak, escalated, recovered,   \* the memory of the process
  faults,
  window      \* history: the last W samples of each rule, TRUE if fresh and held

store == <<state, verified>>
world == <<healthy, late, bundleOK>>
memory == <<streak, escalated, recovered>>
vars == <<store, current, world, pc, rule, listed, memory, faults, window>>

Rules == 1..NRules
Faulting == faults < MaxFaults /\ faults' = faults + 1

Init ==
  /\ state = "open" /\ verified = {} /\ current = FALSE
  /\ healthy \in BOOLEAN /\ late = FALSE /\ bundleOK = TRUE
  /\ pc = "idle" /\ rule = 1 /\ listed = "open"
  /\ streak = [r \in Rules |-> 0] /\ escalated = FALSE /\ recovered = FALSE
  /\ faults = 0
  /\ window = [r \in Rules |-> <<>>]

-----------------------------------------------------------------------------
(* tick and check_episode.                                                 *)

Goes(p) == pc' = p /\ UNCHANGED rule

\* The end of check_episode: _maybe_escalate, which looks at the listed state.
Finish ==
  IF listed = "awaiting_operator" /\ ~escalated THEN Goes("escalate") ELSE Goes("idle")

NextRule == IF rule < NRules THEN pc' = "sample" /\ rule' = rule + 1 ELSE Finish

\* A bundle that does not verify ends the check of the episode with an exception.
Tick ==
  /\ pc = "idle" /\ bundleOK
  /\ state # "resolved" /\ ~(state = "handed_off" /\ recovered)
  /\ pc' = "sample" /\ rule' = 1 /\ listed' = state
  /\ UNCHANGED <<store, current, world, memory, faults, window>>

\* A sample is fresh or not and the predicate holds on what arrived or not; a
\* missing answer is not fresh, an any_of predicate may hold without it.
Outcomes == IF healthy THEN {<<TRUE, TRUE>>} ELSE BOOLEAN \X BOOLEAN
Push(seq, x) == IF Len(seq) < W THEN Append(seq, x) ELSE Append(Tail(seq), x)
\* Nothing tells streaks above the window apart.
Longer(n) == IF n > W THEN n ELSE n + 1

HeldUnlessStale(o) == o[2]   \* mutant: freshness is not looked at
Held(o) == o[1] /\ o[2]

WindowReachedOnce(n) == n = W   \* mutant
WindowReached(n) == n >= W

NotesStreak(n) == n = 1

ReturnForContinue == Goes("idle")   \* mutant
Continue == NextRule

Sample ==
  /\ pc = "sample"
  /\ \E o \in Outcomes :
       LET held == Held(o)
           n == IF held THEN Longer(streak[rule]) ELSE 0
       IN /\ streak' = [streak EXCEPT ![rule] = n]
          /\ window' = [window EXCEPT ![rule] = Push(@, o[1] /\ o[2])]
          /\ CASE ~held -> Continue
               [] held /\ listed = "awaiting_operator" ->
                    IF WindowReached(n) THEN Goes("read") ELSE Continue
               [] held /\ listed # "awaiting_operator" ->
                    IF NotesStreak(n) THEN Goes("observe") ELSE Continue
  /\ UNCHANGED <<store, current, world, listed, escalated, recovered, faults>>

\* append_recovery_observation is accepted in every state.
NoteRow == current' = FALSE

Observe ==
  /\ pc = "observe"
  /\ NoteRow
  /\ recovered' = (recovered \/ listed = "handed_off")
  /\ NextRule
  /\ UNCHANGED <<store, world, listed, streak, escalated, faults, window>>

-----------------------------------------------------------------------------
(* _resolve: read, verify, read again, compare and swap.                   *)

Read ==
  /\ pc = "read"
  /\ Goes(IF state = "awaiting_operator" THEN "check" ELSE "idle")
  /\ UNCHANGED <<store, current, world, listed, memory, faults, window>>

\* append_verification refuses a terminal episode, and then writes in a second
\* section of the store's lock.
CheckVerification ==
  /\ pc = "check"
  /\ Goes(IF state \in TERMINAL THEN "idle" ELSE "verify")
  /\ UNCHANGED <<store, current, world, listed, memory, faults, window>>

VerificationRow == verified' = verified \union {rule} /\ current' = FALSE /\ UNCHANGED state

WriteVerification ==
  /\ pc = "verify"
  /\ VerificationRow /\ Goes("reread")
  /\ UNCHANGED <<world, listed, memory, faults, window>>

Reread ==
  /\ pc = "reread"
  /\ current' = TRUE /\ Goes("cas")
  /\ UNCHANGED <<store, world, listed, memory, faults, window>>

CAS == current /\ Allowed("verifier", state, "resolved")
ResolvedRow == state' = "resolved" /\ current' = FALSE /\ UNCHANGED verified

\* A conflict is left to the next tick.
SetResolved ==
  /\ pc = "cas" /\ Goes("idle")
  /\ IF CAS THEN ResolvedRow ELSE UNCHANGED <<store, current>>
  /\ UNCHANGED <<world, listed, memory, faults, window>>

Escalate ==
  /\ pc = "escalate" /\ Goes("idle")
  /\ escalated' = (escalated \/ late)
  /\ UNCHANGED <<store, current, world, listed, streak, recovered, faults, window>>

-----------------------------------------------------------------------------
(* Failing calls.                                                          *)

\* The exception ends the check of this episode; the write may have been made.
CallFails ==
  /\ Faulting /\ pc # "idle" /\ pc # "dead"
  /\ Goes("idle")
  /\ \/ UNCHANGED <<store, current>>
     \/ pc = "observe" /\ NoteRow /\ UNCHANGED store
     \/ pc = "verify" /\ VerificationRow
     \/ pc = "cas" /\ CAS /\ ResolvedRow
  /\ UNCHANGED <<world, listed, memory, window>>

\* The call of list_episodes times out: loop catches an RpcError only.
Hang ==
  /\ CallsHang /\ Faulting /\ pc = "idle" /\ Goes("dead")
  /\ UNCHANGED <<store, current, world, listed, memory, window>>

Restart ==
  /\ Faulting /\ Goes("idle")
  /\ streak' = [r \in Rules |-> 0] /\ escalated' = FALSE /\ recovered' = FALSE
  /\ UNCHANGED <<store, current, world, listed, window>>

-----------------------------------------------------------------------------
(* The rest of the system.                                                 *)

ControllerMoves ==
  /\ \E to \in STATES : Allowed("controller", state, to) /\ state' = to
  /\ current' = FALSE
  /\ UNCHANGED <<verified, world, pc, rule, listed, memory, faults, window>>

ForeignAppend ==
  /\ Faulting /\ current /\ current' = FALSE
  /\ UNCHANGED <<store, world, pc, rule, listed, memory, window>>

Recovers ==
  /\ ~healthy /\ healthy' = TRUE
  /\ UNCHANGED <<store, current, late, bundleOK, pc, rule, listed, memory, faults, window>>

Relapses ==
  /\ Faulting /\ healthy /\ healthy' = FALSE
  /\ UNCHANGED <<store, current, late, bundleOK, pc, rule, listed, memory, window>>

DeadlinePasses ==
  /\ state = "awaiting_operator" /\ ~late /\ late' = TRUE
  /\ UNCHANGED <<store, current, healthy, bundleOK, pc, rule, listed, memory, faults, window>>

BundleFails ==
  /\ bundleOK /\ bundleOK' = FALSE
  /\ UNCHANGED <<store, current, healthy, late, pc, rule, listed, memory, faults, window>>

Thread == Tick \/ Sample \/ Observe \/ Read \/ CheckVerification \/ WriteVerification
          \/ Reread \/ SetResolved \/ Escalate

Next ==
  \/ Thread \/ CallFails \/ Hang \/ Restart
  \/ ControllerMoves \/ ForeignAppend \/ Recovers \/ Relapses
  \/ DeadlinePasses \/ BundleFails

Spec == Init /\ [][Next]_vars

\* loop ticks for as long as the thread lives.
FairSpec == Spec /\ WF_vars(Thread)

-----------------------------------------------------------------------------
(* Properties.                                                             *)

\* TH-3 and the transition table of HLD 7.2: an episode is resolved only with a
\* verification of a rule whose last W samples were fresh and held, whatever
\* restarts, conflicts and failed calls came between them.
ResolvedOnRecovery ==
  state = "resolved" =>
    \E r \in verified : Len(window[r]) = W /\ \A i \in 1..W : window[r][i]

\* The thread was ended by a call that timed out, and nobody restarts the process.
ThreadEnds == <>[](pc = "dead")

\* A validator that stays recovered gets its waiting episode resolved, over
\* conflicts, failed calls and restarts, for as long as the thread lives.
RecoveryResolves ==
  ThreadEnds \/
  (<>[](healthy /\ bundleOK) =>
     (state = "awaiting_operator" ~> state # "awaiting_operator"))

\* "past the P-17 deadline the episode stays awaiting_operator and the alert
\* escalates", for as long as the thread lives.
DeadlineEscalates ==
  ThreadEnds \/
  (<>[]bundleOK =>
     (state = "awaiting_operator" /\ late ~> escalated \/ state # "awaiting_operator"))
=============================================================================
