--------------------------- MODULE BundleRegistry ---------------------------
(***************************************************************************)
(* The registry of policy bundles (valops/bundle/registry.py): activation, *)
(* rollback and revocation by administrators, each a process of its own    *)
(* (valops bundle ...), the binding of episodes by the sentinel and the    *)
(* store, and the drain and revocation rules of the controller             *)
(* (_bundle_problem in controller/runner.py).                              *)
(***************************************************************************)
EXTENDS Naturals, Sequences

CONSTANTS
  Bundles,       \* built bundles
  Retired,       \* those signed with a retired key
  Fragile,       \* bound: those whose content may change
  Admins,        \* processes that run `valops bundle` at the same time
  Episodes,
  Deadline,      \* P-12 in ticks of the clock
  MaxClock,      \* bound: time
  MaxCommands,   \* bound: commands of administrators
  Crashes,       \* administrators' processes may die between two steps
  None

ASSUME RegistryAssumption ==
  /\ Retired \subseteq Bundles /\ Fragile \subseteq Bundles
  /\ Deadline \in Nat /\ MaxClock \in Nat /\ MaxCommands \in Nat
  /\ Crashes \in BOOLEAN
  /\ None \notin Bundles \union Nat

VARIABLES
  active,    \* the pointer file
  history,   \* active.history: rows [ts, active, previous]
  revoked,   \* the revocation list
  broken,    \* bundles whose content no longer verifies
  clock,
  commands,  \* commands started so far
  admin,     \* per process: pc, the bundle to activate, the previous one it read
  episode,   \* per episode: status, bound bundle, when it was opened
  left,      \* history: when the pointer left a bundle that is not active now
  back,      \* history: bundles to which the pointer has come back
  unrecorded,   \* history: bundles whose arrival or departure has no row yet
  crossed    \* history: the pointer moved between another activation's two writes

registry == <<active, history, revoked, broken>>
ghosts == <<left, back, unrecorded, crossed>>
vars == <<registry, clock, commands, admin, episode, ghosts>>

IdleAdmin == [pc |-> "idle", target |-> None, previous |-> None, rows |-> 0]
NoEpisode == [status |-> "none", bundle |-> None]

Init ==
  /\ active = None /\ history = <<>> /\ revoked = {} /\ broken = {}
  /\ clock = 0 /\ commands = 0
  /\ admin = [a \in Admins |-> IdleAdmin]
  /\ episode = [e \in Episodes |-> NoEpisode]
  /\ left = [b \in Bundles |-> None] /\ back = {} /\ unrecorded = {} /\ crossed = FALSE

-----------------------------------------------------------------------------
(* verify, superseded_at.                                                  *)

VerifiesIntegrity(b) == b \notin broken
Verifies(b) == b \in Bundles /\ b \notin revoked /\ VerifiesIntegrity(b)

SupersededAtFirstOther(b) ==   \* mutant: rows before the bundle's own count
  LET others == {i \in 1..Len(history) : history[i].active # b}
  IN IF others = {} THEN None
     ELSE history[CHOOSE i \in others : \A j \in others : i <= j].ts

\* The time of the first row of another bundle after the first row of b.
SupersededAt(b) ==
  LET rows == 1..Len(history)
      later == {i \in rows : history[i].active # b /\ \E j \in rows : j < i /\ history[j].active = b}
  IN IF later = {} THEN None
     ELSE history[CHOOSE i \in later : \A j \in later : i <= j].ts

-----------------------------------------------------------------------------
(* activate: verify, read the pointer, replace it, append to the history.  *)

Step(a, f) == admin' = [admin EXCEPT ![a] = f]

\* Commands are started and finish while there is time for the deadline to pass.
InTime == clock + Deadline < MaxClock
Starts == InTime /\ commands < MaxCommands /\ commands' = commands + 1

Activate(a) ==
  /\ admin[a].pc = "idle" /\ Starts
  /\ \E b \in Bundles : Step(a, [admin[a] EXCEPT !.pc = "verify", !.target = b])
  /\ UNCHANGED <<registry, clock, episode, ghosts>>

VerifyTarget(a) ==
  /\ admin[a].pc = "verify"
  /\ Step(a, IF Verifies(admin[a].target) /\ admin[a].target \notin Retired
             THEN [admin[a] EXCEPT !.pc = "read"] ELSE IdleAdmin)
  /\ UNCHANGED <<registry, clock, commands, episode, ghosts>>

ReadActive(a) ==
  /\ admin[a].pc = "read"
  /\ Step(a, [admin[a] EXCEPT !.pc = "replace", !.previous = active])
  /\ UNCHANGED <<registry, clock, commands, episode, ghosts>>

Replace(a) ==
  /\ admin[a].pc = "replace"
  /\ active' = admin[a].target
  /\ Step(a, [admin[a] EXCEPT !.pc = "record"])
  /\ left' = IF active' = active THEN left
             ELSE [b \in Bundles |-> IF b = active' THEN None
                                     ELSE IF b = active THEN clock ELSE left[b]]
  /\ back' = IF left[active'] = None THEN back ELSE back \union {active'}
  /\ unrecorded' = unrecorded \union ({active, active'} \ {None})
  /\ crossed' = (crossed \/ \E o \in Admins \ {a} : admin[o].pc = "record")
  /\ UNCHANGED <<history, revoked, broken, clock, commands, episode>>

RecordOnce(a) ==   \* mutant of Record: a bundle that has a row gets no other
  /\ admin[a].pc = "record" /\ Step(a, IdleAdmin)
  /\ history' = IF \E i \in 1..Len(history) : history[i].active = admin[a].target THEN history
                ELSE Append(history, [ts |-> clock, active |-> admin[a].target,
                                      previous |-> admin[a].previous])
  /\ unrecorded' = unrecorded \ {history'[i].active : i \in 1..Len(history')}
  /\ UNCHANGED <<active, revoked, broken, clock, commands, episode, left, back, crossed>>

Record(a) ==
  /\ admin[a].pc = "record" /\ Step(a, IdleAdmin)
  /\ history' = Append(history, [ts |-> clock, active |-> admin[a].target,
                                 previous |-> admin[a].previous])
  /\ unrecorded' = unrecorded \ {history'[i].active : i \in 1..Len(history')}
  /\ UNCHANGED <<active, revoked, broken, clock, commands, episode, left, back, crossed>>

\* rollback reads the history, then the pointer, and activates the `previous` of
\* the newest row of the current bundle that has one.
Rollback(a) ==
  /\ admin[a].pc = "idle" /\ Starts
  /\ Step(a, [admin[a] EXCEPT !.pc = "rollback", !.rows = Len(history)])
  /\ UNCHANGED <<registry, clock, episode, ghosts>>

PreviousOf(b, rows) ==
  LET own == {i \in 1..rows : history[i].active = b /\ history[i].previous # None}
  IN IF own = {} THEN None
     ELSE history[CHOOSE i \in own : \A j \in own : j <= i].previous

RollbackTo(a) ==
  /\ admin[a].pc = "rollback"
  /\ LET b == PreviousOf(active, admin[a].rows)
     IN Step(a, IF b = None THEN IdleAdmin
                ELSE [admin[a] EXCEPT !.pc = "verify", !.target = b, !.rows = 0])
  /\ UNCHANGED <<registry, clock, commands, episode, ghosts>>

Revoke ==
  /\ \E b \in Bundles \ revoked : revoked' = revoked \union {b}
  /\ UNCHANGED <<active, history, broken, clock, commands, admin, episode, ghosts>>

AdminDies(a) ==
  /\ Crashes /\ admin[a].pc # "idle" /\ Step(a, IdleAdmin)
  /\ UNCHANGED <<registry, clock, commands, episode, ghosts>>

-----------------------------------------------------------------------------
(* Binding, draining, revoking.                                            *)

Becomes(e, status) == episode' = [episode EXCEPT ![e].status = status]

\* The sentinel reads and loads the active bundle; the store verifies it again.
SentinelBinds(e) ==
  /\ episode[e] = NoEpisode /\ active # None /\ Verifies(active)
  /\ episode' = [episode EXCEPT ![e] = [status |-> "opening", bundle |-> active]]
  /\ UNCHANGED <<registry, clock, commands, admin, ghosts>>

OpenEpisode(e) ==
  /\ episode[e].status = "opening"
  /\ IF Verifies(episode[e].bundle) THEN Becomes(e, "live")
     ELSE episode' = [episode EXCEPT ![e] = NoEpisode]
  /\ UNCHANGED <<registry, clock, commands, admin, ghosts>>

\* advance examines the bundle of a live episode, not of one in awaiting_operator.
RevocationHandsOff(e) ==
  /\ episode[e].status = "live" /\ episode[e].bundle \in revoked
  /\ Becomes(e, "handed_off")
  /\ UNCHANGED <<registry, clock, commands, admin, ghosts>>

DrainHandsOff(e) ==
  /\ episode[e].status = "live" /\ Verifies(episode[e].bundle)
  /\ LET at == SupersededAt(episode[e].bundle) IN at # None /\ clock > at + Deadline
  /\ Becomes(e, "handed_off")
  /\ UNCHANGED <<registry, clock, commands, admin, ghosts>>

\* The analysis ends in awaiting_operator, out of which only the verifier leads, when
\* the validator recovers; or it ends in a hand-off for another reason.
EpisodeWaits(e) ==
  /\ episode[e].status = "live" /\ Becomes(e, "awaiting_operator")
  /\ UNCHANGED <<registry, clock, commands, admin, ghosts>>

EpisodeEnds(e) ==
  /\ episode[e].status \in {"live", "awaiting_operator"} /\ Becomes(e, "ended")
  /\ UNCHANGED <<registry, clock, commands, admin, ghosts>>

ContentChanges ==
  /\ \E b \in Fragile \ broken : broken' = broken \union {b}
  /\ UNCHANGED <<active, history, revoked, clock, commands, admin, episode, ghosts>>

TimePasses ==
  /\ clock < MaxClock /\ clock' = clock + 1
  /\ InTime' \/ \A a \in Admins : admin[a] = IdleAdmin
  /\ UNCHANGED <<registry, commands, admin, episode, ghosts>>

AdminSteps(a) == VerifyTarget(a) \/ ReadActive(a) \/ Replace(a) \/ Record(a) \/ RollbackTo(a)
Controller(e) == RevocationHandsOff(e) \/ DrainHandsOff(e)

Next ==
  \/ \E a \in Admins : Activate(a) \/ Rollback(a) \/ AdminSteps(a) \/ AdminDies(a)
  \/ Revoke \/ ContentChanges \/ TimePasses
  \/ \E e \in Episodes : SentinelBinds(e) \/ OpenEpisode(e) \/ Controller(e) \/ EpisodeWaits(e) \/ EpisodeEnds(e)

Spec == Init /\ [][Next]_vars

\* A command that was started goes on, time passes, and the runner looks at every
\* live episode again and again.
FairSpec ==
  /\ Spec /\ WF_vars(TimePasses)
  /\ \A a \in Admins : WF_vars(AdminSteps(a))
  /\ \A e \in Episodes : WF_vars(Controller(e))

-----------------------------------------------------------------------------
(* Properties.                                                             *)

\* Episode e, on a bundle that nobody has revoked, is handed off.
Drained(e) == /\ episode[e].status = "live" /\ episode'[e].status = "handed_off"
              /\ episode[e].bundle \notin revoked

\* The drain deadline has passed since the pointer left bundle b for another one.
Overdue(b) == b # active /\ left[b] # None /\ clock > left[b] + Deadline

\* An episode is handed off for the drain deadline only P-12 after the pointer left its
\* bundle, however long the activation took and wherever it was cut off. Excepted are
\* bundles to which the pointer has come back, whose first departure superseded_at goes
\* on to report, and histories in which two processes' activations overlapped.
DrainNotEarly ==
  [][\A e \in Episodes : Drained(e) =>
        Overdue(episode[e].bundle) \/ episode[e].bundle \in back \/ crossed]_vars

\* HLD 5.4, "bounds how long old bundles stay live", without these exceptions: only an
\* episode on an old bundle is drained. Violated: after a rollback superseded_at still
\* reports when the bundle that is active again was superseded the first time.
DrainsOldBundlesOnly == [][\A e \in Episodes : Drained(e) => Overdue(episode[e].bundle)]_vars

\* The drain deadline or a revocation is due to end the analysis of episode e: it is on
\* a revoked bundle, or on one that is not active any more.  The latter excepts bundles
\* whose departure or whose successor's arrival has no row, and histories in which two
\* activations overlapped and may have left their rows in the other order.
DueToEnd(e) ==
  LET b == episode[e].bundle
  IN /\ episode[e].status = "live"
     /\ \/ b \in revoked
        \/ b # active /\ Verifies(b) /\ b \notin unrecorded /\ ~crossed

\* HLD 5.4: the deadline "bounds how long old bundles stay live": no episode is analysed
\* for good on a bundle that is old or revoked.  Where the analysis ends in
\* awaiting_operator nothing is said of what comes then.
OldBundlesEnd == \A e \in Episodes : []<>~DueToEnd(e)

\* RB-04, "No live episode is bound to a revoked bundle", of every episode that is not
\* terminal. Violated: advance returns before it looks at the bundle of an episode in
\* awaiting_operator, which stays there until the validator recovers.
RevokedEpisodesEnd ==
  \A e \in Episodes :
    (episode[e].bundle \in revoked) ~> (episode[e].status \notin {"live", "awaiting_operator"})
=============================================================================
