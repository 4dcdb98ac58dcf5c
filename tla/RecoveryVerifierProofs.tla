----------------------- MODULE RecoveryVerifierProofs -----------------------
(***************************************************************************)
(* Proofs about RecoveryVerifier, for every number of rules, every window  *)
(* and any number of restarts, relapses, conflicts and failed calls.       *)
(***************************************************************************)
EXTENDS RecoveryVerifier, TLAPS

Sampling == {"sample", "observe"}
Resolving == {"read", "check", "verify", "reread", "cas"}
PCs == {"idle", "dead", "escalate"} \union Sampling \union Resolving

\* The whole window of rule r was fresh and held.
Steady(r) == Len(window[r]) = W /\ \A i \in 1..W : window[r][i]

\* The last n samples of a window held, as many of them as the window keeps.
EndsIn(seq, n) == \A k \in 0..(W - 1) : k < n => k < Len(seq) /\ seq[Len(seq) - k]

TypeInv ==
  /\ state \in STATES /\ verified \subseteq Rules
  /\ pc \in PCs /\ rule \in Rules
  /\ streak \in [Rules -> Nat]
  /\ window \in [Rules -> Seq(BOOLEAN)]

\* A streak never claims more than the samples: a restart forgets the streak.
StreakInv == \A r \in Rules : Len(window[r]) <= W /\ EndsIn(window[r], streak[r])

\* The rule that is being resolved stays steady, as nothing is sampled meanwhile.
ResolveInv ==
  /\ pc \in Resolving => Steady(rule)
  /\ pc \in {"reread", "cas"} => rule \in verified

\* A resolved episode is not sampled any more.
RestInv == state = "resolved" => pc \in {"idle", "dead"}

Inv == TypeInv /\ StreakInv /\ ResolveInv /\ RestInv /\ ResolvedOnRecovery

-----------------------------------------------------------------------------
(* The kinds of steps.                                                     *)

\* Sample: the sample is pushed and counted, and only a streak as long as the
\* window leads to _resolve.
Measures ==
  /\ pc = "sample" /\ state' = state /\ verified' = verified
  /\ \E held \in BOOLEAN :
       LET n == IF held THEN Longer(streak[rule]) ELSE 0
       IN /\ streak' = [streak EXCEPT ![rule] = n]
          /\ window' = [window EXCEPT ![rule] = Push(window[rule], held)]
          /\ \/ pc' \in {"sample", "observe", "idle", "escalate"} /\ rule' \in Rules
             \/ pc' = "read" /\ rule' = rule /\ n >= W

\* The next rule, or the end of check_episode, or of the thread.
Leaves ==
  /\ state' = state /\ window' = window
  /\ streak' = streak \/ streak' = [r \in Rules |-> 0]
  /\ verified' = verified \/ verified' = verified \union {rule}
  /\ pc' \in {"idle", "dead", "escalate", "sample"} /\ rule' \in Rules
  /\ state = "resolved" => pc' \in {"idle", "dead"}

\* A step of _resolve to the next one.
Climbs ==
  /\ pc \in Resolving /\ pc' \in Resolving
  /\ state' = state /\ window' = window /\ streak' = streak /\ rule' = rule
  /\ verified' = verified \/ verified' = verified \union {rule}
  /\ pc' \in {"reread", "cas"} => pc = "reread" \/ rule \in verified'

\* The compare-and-swap succeeds.
Resolves ==
  /\ pc = "cas" /\ pc' = "idle" /\ state' = "resolved"
  /\ UNCHANGED <<window, streak, rule, verified>>

\* A step of the rest of the system.
Elsewhere ==
  /\ UNCHANGED <<pc, rule, window, streak, verified>>
  /\ state' = state \/ state' \in STATES \ {"resolved"}

\* A sample is counted and leads on as Measures says.
LEMMA SampleMeasures ==
  ASSUME TypeInv, Sample
  PROVE  Measures
<1>1. PICK o \in Outcomes :
        LET held == Held(o)
            n == IF held THEN Longer(streak[rule]) ELSE 0
        IN /\ streak' = [streak EXCEPT ![rule] = n]
           /\ window' = [window EXCEPT ![rule] = Push(@, o[1] /\ o[2])]
           /\ CASE ~held -> Continue
                [] held /\ listed = "awaiting_operator" ->
                     IF WindowReached(n) THEN Goes("read") ELSE Continue
                [] held /\ listed # "awaiting_operator" ->
                     IF NotesStreak(n) THEN Goes("observe") ELSE Continue
  BY DEF Sample
<1> DEFINE held == o[1] /\ o[2]
           n == IF held THEN Longer(streak[rule]) ELSE 0
<1>2. held \in BOOLEAN
  BY DEF Outcomes
<1>3. /\ streak' = [streak EXCEPT ![rule] = n]
      /\ window' = [window EXCEPT ![rule] = Push(window[rule], held)]
  BY <1>1 DEF Held
<1>4. Continue \/ (held /\ WindowReached(n) /\ Goes("read")) \/ Goes("observe")
  <2>1. ~held => Continue
    BY <1>1, Zenon DEF Held
  <2>2. held /\ listed = "awaiting_operator" =>
          IF WindowReached(n) THEN Goes("read") ELSE Continue
    BY <1>1, Zenon DEF Held
  <2>3. held /\ listed # "awaiting_operator" =>
          IF NotesStreak(n) THEN Goes("observe") ELSE Continue
    BY <1>1, Zenon DEF Held
  <2> QED BY <2>1, <2>2, <2>3
<1>5. \/ pc' \in {"sample", "observe", "idle", "escalate"} /\ rule' \in Rules
      \/ pc' = "read" /\ rule' = rule /\ n >= W
  <2> HIDE DEF n
  <2> QED BY <1>4, VerifierAssumption
        DEF Continue, NextRule, Finish, Goes, WindowReached, TypeInv, Rules
<1>6. pc = "sample" /\ state' = state /\ verified' = verified
  BY DEF Sample, store
<1> QED BY <1>2, <1>3, <1>5, <1>6, Zenon DEF Measures

\* Every step is of one of the kinds.
LEMMA StepKinds ==
  ASSUME TypeInv, ResolveInv, RestInv, [Next]_vars
  PROVE  Measures \/ Leaves \/ Climbs \/ Resolves \/ Elsewhere
<1> USE VerifierAssumption DEF Goes, store, world, memory, TypeInv
<1>1. CASE Tick
  BY <1>1 DEF Tick, Leaves, Rules
<1>2. CASE Sample
  BY <1>2, SampleMeasures
<1>3. CASE Observe
  BY <1>3 DEF Observe, NextRule, Finish, Leaves, Rules, RestInv
<1>4. CASE Read
  BY <1>4 DEF Read, Leaves, Climbs, Resolving
<1>5. CASE CheckVerification
  BY <1>5 DEF CheckVerification, Leaves, Climbs, Resolving
<1>6. CASE WriteVerification
  BY <1>6 DEF WriteVerification, VerificationRow, Climbs, Resolving
<1>7. CASE Reread
  BY <1>7 DEF Reread, Climbs, Resolving
<1>8. CASE SetResolved
  BY <1>8 DEF SetResolved, ResolvedRow, Leaves, Resolves
<1>9. CASE Escalate
  BY <1>9 DEF Escalate, Leaves
<1>10. CASE CallFails
  BY <1>10 DEF CallFails, NoteRow, VerificationRow, ResolvedRow, Leaves, Resolves
<1>11. CASE Hang
  BY <1>11 DEF Hang, Leaves
<1>12. CASE Restart
  BY <1>12 DEF Restart, Leaves
<1>13. CASE ControllerMoves
  BY <1>13 DEF ControllerMoves, Allowed, CONTROLLER, STATES, NONTERMINAL, TERMINAL, Elsewhere
<1>14. CASE ForeignAppend \/ Recovers \/ Relapses \/ DeadlinePasses \/ BundleFails
  BY <1>14 DEF ForeignAppend, Recovers, Relapses, DeadlinePasses, BundleFails, Elsewhere
<1>15. CASE UNCHANGED vars
  BY <1>15 DEF vars, Elsewhere
<1> QED BY <1>1, <1>2, <1>3, <1>4, <1>5, <1>6, <1>7, <1>8, <1>9, <1>10, <1>11,
           <1>12, <1>13, <1>14, <1>15 DEF Next, Thread

-----------------------------------------------------------------------------
(* The window of samples and the streak that stands for it.                *)

\* A window keeps the last W samples.
LEMMA PushWindow ==
  ASSUME NEW seq \in Seq(BOOLEAN), Len(seq) <= W, NEW x \in BOOLEAN
  PROVE  /\ Push(seq, x) \in Seq(BOOLEAN)
         /\ Len(Push(seq, x)) <= W /\ Len(Push(seq, x)) > 0
         /\ Push(seq, x)[Len(Push(seq, x))] = x
         /\ \A k \in Nat : /\ k + 1 < W /\ k < Len(seq)
                           => /\ k + 1 < Len(Push(seq, x))
                              /\ Push(seq, x)[Len(Push(seq, x)) - (k + 1)] = seq[Len(seq) - k]
<1> USE VerifierAssumption
<1>1. CASE Len(seq) < W
  BY <1>1 DEF Push
<1>2. CASE Len(seq) = W
  <2>1. seq # <<>>
    BY <1>2
  <2>2. /\ Tail(seq) \in Seq(BOOLEAN) /\ Len(Tail(seq)) = W - 1
        /\ \A i \in 1..(W - 1) : Tail(seq)[i] = seq[i + 1]
    BY <1>2, <2>1
  <2>3. Push(seq, x) = Append(Tail(seq), x)
    BY <1>2 DEF Push
  <2> QED BY <1>2, <2>2, <2>3
<1> QED BY <1>1, <1>2

\* Longer counts one more, unless the streak is past the window already.
LEMMA LongerCounts ==
  ASSUME NEW n \in Nat
  PROVE  /\ Longer(n) \in Nat
         /\ \A k \in Nat : k + 1 < W /\ k + 1 < Longer(n) => k < n
BY VerifierAssumption DEF Longer

\* A sample leaves a window that ends in the new streak.
LEMMA PushStreak ==
  ASSUME NEW seq \in Seq(BOOLEAN), Len(seq) <= W, NEW n \in Nat, EndsIn(seq, n),
         NEW x \in BOOLEAN
  PROVE  EndsIn(Push(seq, x), IF x THEN Longer(n) ELSE 0)
<1>1. CASE x = FALSE
  BY <1>1, VerifierAssumption DEF EndsIn
<1>2. CASE x = TRUE
  <2> DEFINE p == Push(seq, x)
  <2> SUFFICES ASSUME NEW j \in 0..(W - 1), j < Longer(n)
               PROVE  j < Len(p) /\ p[Len(p) - j]
    BY <1>2, Zenon DEF EndsIn
  <2>1. p \in Seq(BOOLEAN) /\ Len(p) > 0 /\ p[Len(p)] = TRUE
    BY <1>2, PushWindow
  <2>2. CASE j = 0
    <3>1. Len(p) - 0 = Len(p)
      BY <2>1
    <3> HIDE DEF p
    <3> QED BY <2>1, <2>2, <3>1
  <2>3. CASE j # 0
    <3>1. PICK k \in Nat : j = k + 1 /\ k \in 0..(W - 1)
      <4> WITNESS j - 1 \in Nat
      <4> QED BY <2>3, VerifierAssumption
    <3>2. k < n
      BY <3>1, LongerCounts, VerifierAssumption
    <3>3. k < Len(seq) /\ seq[Len(seq) - k]
      BY <3>1, <3>2 DEF EndsIn
    <3>4. k + 1 < W
      BY <3>1, VerifierAssumption
    <3>5. k + 1 < Len(p) /\ p[Len(p) - (k + 1)] = seq[Len(seq) - k]
      BY <3>3, <3>4, PushWindow
    <3> HIDE DEF p
    <3> QED BY <3>1, <3>3, <3>5
  <2> QED BY <2>2, <2>3
<1> QED BY <1>1, <1>2

\* A streak as long as the window means that the whole window held.
LEMMA StreakFillsWindow ==
  ASSUME NEW seq \in Seq(BOOLEAN), Len(seq) <= W, NEW n \in Nat, n >= W, EndsIn(seq, n)
  PROVE  Len(seq) = W /\ \A i \in 1..W : seq[i]
<1> USE VerifierAssumption
<1>1. Len(seq) = W
  <2>1. W - 1 \in 0..(W - 1) /\ W - 1 < n
    OBVIOUS
  <2>2. W - 1 < Len(seq)
    BY <2>1 DEF EndsIn
  <2> QED BY <2>2
<1>2. ASSUME NEW i \in 1..W
      PROVE  seq[i]
  <2>1. W - i \in 0..(W - 1) /\ W - i < n /\ Len(seq) - (W - i) = i
    BY <1>1
  <2>2. seq[Len(seq) - (W - i)]
    BY <2>1 DEF EndsIn
  <2> QED BY <2>1, <2>2
<1> QED BY <1>1, <1>2

-----------------------------------------------------------------------------
(* The invariant.                                                          *)

\* A sample keeps types and streaks, and a full streak is a steady rule.
LEMMA MeasuresKeeps ==
  ASSUME Inv, Measures
  PROVE  Inv'
<1> USE DEF Inv
<1>1. PICK held \in BOOLEAN :
        LET n == IF held THEN Longer(streak[rule]) ELSE 0
        IN /\ streak' = [streak EXCEPT ![rule] = n]
           /\ window' = [window EXCEPT ![rule] = Push(window[rule], held)]
           /\ \/ pc' \in {"sample", "observe", "idle", "escalate"} /\ rule' \in Rules
              \/ pc' = "read" /\ rule' = rule /\ n >= W
  BY Zenon DEF Measures
<1> DEFINE n == IF held THEN Longer(streak[rule]) ELSE 0
           w == Push(window[rule], held)
<1>2. /\ streak' = [streak EXCEPT ![rule] = n] /\ window' = [window EXCEPT ![rule] = w]
      /\ \/ pc' \in {"sample", "observe", "idle", "escalate"} /\ rule' \in Rules
         \/ pc' = "read" /\ rule' = rule /\ n >= W
  BY <1>1
<1>3. rule \in Rules /\ streak[rule] \in Nat /\ window[rule] \in Seq(BOOLEAN)
      /\ Len(window[rule]) <= W /\ EndsIn(window[rule], streak[rule])
  BY DEF TypeInv, StreakInv
<1>4. n \in Nat
  BY <1>3, LongerCounts
<1>5. w \in Seq(BOOLEAN) /\ Len(w) <= W
  BY <1>3, PushWindow
<1>6. EndsIn(w, n)
  BY <1>3, PushStreak, Zenon
<1> HIDE DEF n, w
<1>7. /\ streak'[rule] = n /\ window'[rule] = w
      /\ \A r \in Rules \ {rule} : streak'[r] = streak[r] /\ window'[r] = window[r]
      /\ streak' \in [Rules -> Nat] /\ window' \in [Rules -> Seq(BOOLEAN)]
  BY <1>2, <1>3, <1>4, <1>5 DEF TypeInv
<1>8. TypeInv'
  <2>1. pc' \in PCs /\ rule' \in Rules
    BY <1>2, <1>3 DEF PCs, Sampling, Resolving
  <2> QED BY <1>7, <2>1 DEF TypeInv, Measures, Rules
<1>9. StreakInv'
  <2> SUFFICES ASSUME NEW r \in Rules
               PROVE  Len(window'[r]) <= W /\ EndsIn(window'[r], streak'[r])
    BY DEF StreakInv, Rules, EndsIn
  <2>1. CASE r = rule
    BY <2>1, <1>5, <1>6, <1>7
  <2>2. CASE r # rule
    BY <2>2, <1>7 DEF StreakInv
  <2> QED BY <2>1, <2>2
<1>10. ResolveInv'
  <2>1. CASE pc' = "read" /\ rule' = rule /\ n >= W
    <3>1. Len(w) = W /\ \A i \in 1..W : w[i]
      BY <2>1, <1>4, <1>5, <1>6, StreakFillsWindow
    <3> QED BY <2>1, <3>1, <1>7 DEF ResolveInv, Steady
  <2>2. CASE pc' \in {"sample", "observe", "idle", "escalate"}
    BY <2>2 DEF ResolveInv, Resolving
  <2> QED BY <2>1, <2>2, <1>2
<1>11. state # "resolved" /\ state' # "resolved"
  BY DEF Measures, RestInv
<1> QED BY <1>8, <1>9, <1>10, <1>11 DEF RestInv, ResolvedOnRecovery

\* So do the steps that sample nothing.
LEMMA QuietKeeps ==
  ASSUME Inv, Leaves \/ Climbs \/ Resolves \/ Elsewhere
  PROVE  Inv'
<1> USE DEF Inv
<1>1. /\ window' = window
      /\ streak' = streak \/ streak' = [r \in Rules |-> 0]
      /\ verified' = verified \/ verified' = verified \union {rule}
  BY DEF Leaves, Climbs, Resolves, Elsewhere
<1>2. TypeInv'
  <2>1. streak' \in [Rules -> Nat] /\ verified' \subseteq Rules
    BY <1>1 DEF TypeInv
  <2>2. state' \in STATES /\ pc' \in PCs /\ rule' \in Rules
    <3>1. CASE Leaves
      BY <3>1 DEF Leaves, TypeInv, PCs, Sampling
    <3>2. CASE Climbs
      BY <3>2 DEF Climbs, TypeInv, PCs
    <3>3. CASE Resolves
      BY <3>3 DEF Resolves, TypeInv, PCs, STATES, TERMINAL
    <3>4. CASE Elsewhere
      BY <3>4 DEF Elsewhere, TypeInv
    <3> QED BY <3>1, <3>2, <3>3, <3>4
  <2> QED BY <1>1, <2>1, <2>2 DEF TypeInv, Rules
<1>3. StreakInv'
  <2> SUFFICES ASSUME NEW r \in Rules
               PROVE  Len(window[r]) <= W /\ EndsIn(window[r], streak'[r])
    BY <1>1 DEF StreakInv, Rules, EndsIn
  <2>1. Len(window[r]) <= W /\ EndsIn(window[r], streak[r])
    BY DEF StreakInv
  <2>2. EndsIn(window[r], 0)
    BY VerifierAssumption DEF EndsIn
  <2> QED BY <1>1, <2>1, <2>2
<1>4. ResolveInv'
  <2>1. \A r : Steady(r) => Steady(r)'
    BY <1>1 DEF Steady
  <2>2. CASE Leaves \/ Resolves
    BY <2>2 DEF Leaves, Resolves, ResolveInv, Resolving
  <2>3. CASE Climbs
    <3>1. Steady(rule)'
      BY <2>1, <2>3 DEF Climbs, ResolveInv, Steady
    <3>2. pc' \in {"reread", "cas"} => rule' \in verified'
      BY <2>3, <1>1 DEF Climbs, ResolveInv
    <3> QED BY <3>1, <3>2 DEF ResolveInv
  <2>4. CASE Elsewhere
    BY <2>1, <2>4 DEF Elsewhere, ResolveInv, Steady
  <2> QED BY <2>2, <2>3, <2>4
<1>5. RestInv'
  BY DEF Leaves, Climbs, Resolves, Elsewhere, RestInv, Resolving
<1>6. ResolvedOnRecovery'
  <2>1. CASE state' = "resolved" /\ state # "resolved"
    <3>1. Resolves
      BY <2>1 DEF Leaves, Climbs, Elsewhere
    <3>2. rule \in verified /\ Steady(rule)
      BY <3>1 DEF Resolves, ResolveInv, Resolving
    <3> QED BY <1>1, <3>2 DEF ResolvedOnRecovery, Steady
  <2>2. CASE state = "resolved"
    <3>1. PICK r \in verified : Steady(r)
      BY <2>2 DEF ResolvedOnRecovery, Steady
    <3>2. r \in verified'
      BY <1>1
    <3> QED BY <1>1, <3>1, <3>2 DEF ResolvedOnRecovery, Steady
  <2> QED BY <2>1, <2>2 DEF ResolvedOnRecovery
<1> QED BY <1>2, <1>3, <1>4, <1>5, <1>6

\* The invariant is inductive.
LEMMA InvInductive ==
  ASSUME Inv, [Next]_vars
  PROVE  Inv'
<1>1. Measures \/ Leaves \/ Climbs \/ Resolves \/ Elsewhere
  BY StepKinds DEF Inv
<1> QED BY <1>1, MeasuresKeeps, QuietKeeps

\* The verifier starts with empty windows.
LEMMA InitInv == Init => Inv
<1> SUFFICES ASSUME Init PROVE Inv
  OBVIOUS
<1> USE VerifierAssumption DEF Init
<1>1. TypeInv
  BY DEF TypeInv, STATES, NONTERMINAL, PCs, Rules
<1>2. StreakInv
  BY DEF StreakInv, EndsIn
<1>3. ResolveInv /\ RestInv /\ ResolvedOnRecovery
  BY DEF ResolveInv, RestInv, ResolvedOnRecovery, Resolving
<1> QED BY <1>1, <1>2, <1>3 DEF Inv

\* TH-3: _resolve leaves an episode resolved only with a verification of a rule whose
\* whole window was fresh and held, for every window and every number of rules, over
\* any restarts, relapses, conflicts and failed calls.
THEOREM ResolvedIsRecovered == Spec => []ResolvedOnRecovery
<1>1. Spec => []Inv
  BY InitInv, InvInductive, PTL DEF Spec
<1>2. Inv => ResolvedOnRecovery
  BY DEF Inv
<1> QED BY <1>1, <1>2, PTL
=============================================================================
