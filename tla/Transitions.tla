---------------------------- MODULE Transitions ----------------------------
(***************************************************************************)
(* The state transition table with its authorised principals               *)
(* (valops/store/transitions.py) and the role and state rules of the agent *)
(* tools (valops/common/tools.py) that the store enforces.                 *)
(***************************************************************************)

NONTERMINAL == {"open", "diagnosing", "recommending", "judging", "reporting",
                "awaiting_operator"}
TERMINAL == {"resolved", "handed_off"}
STATES == NONTERMINAL \union TERMINAL

\* The transitions of the controller: the analysis path, and giving up.
CONTROLLER ==
  {<<"open", "diagnosing">>,
   <<"diagnosing", "recommending">>, <<"diagnosing", "reporting">>,
   <<"recommending", "judging">>,
   <<"judging", "recommending">>, <<"judging", "reporting">>,
   <<"reporting", "awaiting_operator">>}
  \union (NONTERMINAL \X {"handed_off"})

\* The verifier's only transition, which nobody else has.
VERIFIER == {<<"awaiting_operator", "resolved">>}

\* allowed(): a principal without a table may make no transition.
Allowed(principal, frm, to) ==
  \/ principal = "controller" /\ <<frm, to>> \in CONTROLLER
  \/ principal = "verifier" /\ <<frm, to>> \in VERIFIER

ROLES == {"diagnostician", "change_planner", "proposal_judge", "reporter"}

\* The entry kinds written by agents, and the tool rule that guards each.
AGENT_KINDS == {"hypothesis", "hypothesis_status", "recommendation",
                "no_action", "verdict", "report"}

ToolRole(kind) ==
  CASE kind \in {"hypothesis", "hypothesis_status"} -> "diagnostician"
    [] kind \in {"recommendation", "no_action"} -> "change_planner"
    [] kind = "verdict" -> "proposal_judge"
    [] kind = "report" -> "reporter"

ToolStates(kind) ==
  CASE kind \in {"hypothesis", "hypothesis_status"} -> {"diagnosing"}
    [] kind \in {"recommendation", "no_action"} -> {"recommending"}
    [] kind = "verdict" -> {"judging"}
    [] kind = "report" -> {"reporting", "resolved"}
=============================================================================
