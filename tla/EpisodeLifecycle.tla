-------------------------- MODULE EpisodeLifecycle --------------------------
(***************************************************************************)
(* What the episode store promises about episodes, whatever its tables,    *)
(* its memory, its callers and its crashes: an episode is opened only when *)
(* no live one has its dedupe key, it moves only along the tables of       *)
(* transitions.py, and a terminal episode stays where it is.               *)
(***************************************************************************)
EXTENDS Transitions

CONSTANTS Episodes, DedupeKeys, None

VARIABLES
  state,   \* the state of each episode, None before it is opened
  key      \* its dedupe key, None before it is opened

lifecycle == <<state, key>>

Init ==
  /\ state = [e \in Episodes |-> None]
  /\ key = [e \in Episodes |-> None]

Open(e, dk) ==
  /\ state[e] = None
  /\ \A f \in Episodes : key[f] = dk => state[f] \notin NONTERMINAL
  /\ state' = [state EXCEPT ![e] = "open"]
  /\ key' = [key EXCEPT ![e] = dk]

Move(e, by, to) ==
  /\ Allowed(by, state[e], to)
  /\ state' = [state EXCEPT ![e] = to]
  /\ UNCHANGED key

Next == \E e \in Episodes :
          \/ \E dk \in DedupeKeys : Open(e, dk)
          \/ \E by \in {"controller", "verifier"}, to \in STATES : Move(e, by, to)

Spec == Init /\ [][Next]_lifecycle
=============================================================================
