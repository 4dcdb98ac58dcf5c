--------------------------- MODULE MCEpisodeStore ---------------------------
(***************************************************************************)
(* Small instances of EpisodeStore.  A run starts a store process on an    *)
(* empty database or on one of the databases below, each a log that the    *)
(* store itself would have written, so that every stage of an episode is   *)
(* explored with all callers active.                                       *)
(***************************************************************************)
EXTENDS EpisodeStore

CONSTANTS
  e1, e2, e3, dk1, b1, restart, inspect,
  d1, d2, d3, p2, j2,         \* sessions that have ended
  diag, plan, judge, rep,     \* sessions at work
  Starts         \* databases to start on: "empty", or the stage of its episode

\* The episode that each database holds, and the sessions of the episodes: the
\* ones with a number have ended.
EpisodeIn == [diagnosing |-> e1, replanning |-> e2, reporting |-> e3]
MCExpired == Sessions \intersect {d1, d2, d3, p2, j2}
MCCapOf ==
  [s \in Sessions |->
     [episode |-> IF s \in {d1, diag} THEN e1 ELSE IF s \in {d3, rep} THEN e3 ELSE e2,
      role |-> CASE s \in {d1, d2, d3, diag} -> "diagnostician"
                 [] s \in {p2, plan} -> "change_planner"
                 [] s \in {j2, judge} -> "proposal_judge"
                 [] s = rep -> "reporter",
      bundle |-> b1]]
MCSkills == {restart, inspect}
MCModesOf == [s \in MCSkills |-> IF s = restart THEN {"tower"} ELSE {"any"}]

Move(from, to, rev) ==
  Entry("state", "controller", None, <<"state", to, rev>>, [from |-> from, to |-> to])
Written(s, kind, body) == Entry(kind, CapOf[s].role, s, <<kind, s, 1>>, body)
Spent(s) ==
  << Entry("cost", "controller", s, <<"cost", s, 0>>, [n |-> 0]),
     Entry("step", "controller", s, <<"step", s, 0>>, [outcome |-> "failed", state |-> "diagnosing"]) >>
Stale(n) == Entry("annotation", "controller", None, <<"stale", None, n>>, [n |-> 0])

Opened(mode) ==
  Entry("opened", "controller", None, <<"open", dk1, 1>>,
        [to |-> "open", dk |-> dk1, bundle |-> b1, mode |-> mode])
Diagnosed(s, mode) ==
  << Opened(mode),
     Entry("signal", "controller", None, <<"sig", None, 0>>, [id |-> 1]),
     Move("open", "diagnosing", 2),
     Written(s, "hypothesis", [id |-> 1, rank |-> 1]) >>

\* An episode whose first diagnosis failed, one that the Judge has sent back,
\* and one without a plan that is being reported; of the same length.
LogOf(start, mode) ==
  CASE start = "diagnosing" ->
         Diagnosed(d1, mode) \o Spent(d1) \o <<Stale(5), Stale(6), Stale(7)>>
    [] start = "replanning" ->
         Diagnosed(d2, mode) \o
         << Move("diagnosing", "recommending", 4),
            Written(p2, "no_action", [id |-> <<"n", 1>>, refs |-> {1}]),
            Move("recommending", "judging", 6),
            Written(j2, "verdict", [target |-> <<"n", 1>>, result |-> "FAIL"]),
            Move("judging", "recommending", 8) >>
    [] start = "reporting" ->
         Diagnosed(d3, mode) \o Spent(d3) \o
         <<Stale(5), Stale(6), Move("diagnosing", "reporting", 8)>>

StartsWith(e, log) ==
  /\ entries = [f \in Episodes |-> IF f = e THEN log ELSE <<>>]
  /\ opens = {[key |-> <<"open", dk1, 1>>, episode |-> e, dedup |-> FALSE]}
  /\ audited = {<<e, i, log[i].kind>> : i \in 1..Len(log)}
  /\ checking = {} /\ faults = 0
  /\ passed = None /\ revoked = {} /\ late = [b \in Bundles |-> 0]
  /\ records = [f \in Episodes |-> EmptyRecord]
  /\ phase = "rebuilding"

MCInit ==
  \/ "empty" \in Starts /\ Init
  \/ \E start \in Starts \ {"empty"}, mode \in OpenModes :
       /\ StartsWith(EpisodeIn[start], LogOf(start, mode))
MCSpec == MCInit /\ [][Next]_vars
=============================================================================
