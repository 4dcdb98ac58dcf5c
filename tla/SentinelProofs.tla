--------------------------- MODULE SentinelProofs ---------------------------
(***************************************************************************)
(* Proofs about Sentinel, for every number of samples that P-03 asks for,  *)
(* every declared mode and table of versions, and any number of faults and *)
(* of episodes that end.                                                   *)
(***************************************************************************)
EXTENDS Sentinel, TLAPS

CheckNames == {"delinquency", "observer_unreachable"}
Modes == {"none", "tower", "alpenglow", "unknown"}
EpisodeRecords == [mode : Modes, signals : BOOLEAN, alerted : BOOLEAN, stale : BOOLEAN]
TickPCs == {"wait", "sample", "rules", "open", "signal", "alert", "raised"}
Results == {"good", "breach"}
TickRecords == [pc : TickPCs, sample : Results \union {"none"}, reachable : BOOLEAN,
                todo : Seq(CheckNames), stale : BOOLEAN, alert : BOOLEAN]

TypeInv ==
  /\ tick \in TickRecords
  /\ live \in [CheckNames -> EpisodeRecords]
  /\ counter \in 0..Samples
  /\ received \in Seq(Results)

\* The newest samples that the rules were given are breaches, as many as are counted.
CountInv ==
  /\ counter <= Len(received) /\ Len(received) <= Samples
  /\ \A i \in 1..Len(received) : i > Len(received) - counter => received[i] = "breach"

Sustained == Len(received) = Samples /\ \A i \in 1..Samples : received[i] = "breach"

\* delinquency is among the findings only when they are P-03 in a row.
FoundInv == (\E i \in 1..Len(tick.todo) : tick.todo[i] = "delinquency") => Sustained

\* An alert is pending only for the finding in hand, between its open and its alert call.
PendingInv ==
  /\ tick.pc \in {"signal", "alert"} => tick.todo # <<>>
  /\ tick.alert => tick.pc \in {"signal", "alert"} /\ Head(tick.todo) = "delinquency"
  /\ tick.pc = "alert" => tick.alert

Inv == TypeInv /\ CountInv /\ FoundInv /\ PendingInv /\ UnknownModeAlerted

-----------------------------------------------------------------------------
(* Operators.                                                              *)

\* _mode gives the declared mode or unknown.
LEMMA ModesAreModes ==
  ASSUME NEW c, NEW m \in ModesFor(c)
  PROVE  m \in Modes \ {"none"}
<1>1. \A v, f, s : Determine(v, f, s) \in {Declared, "unknown"}
  BY DEF Determine
<1>2. m \in {Declared, "unknown"}
  BY <1>1 DEF ModesFor
<1> QED BY <1>2, SentinelAssumption DEF Modes

\* The findings in order are findings.
LEMMA InOrderIsFound ==
  ASSUME NEW found
  PROVE  /\ InOrder(found) \in Seq(CheckNames)
         /\ \A i \in 1..Len(InOrder(found)) : InOrder(found)[i] \in found
<1> DEFINE one == IF "delinquency" \in found THEN <<"delinquency">> ELSE <<>>
           two == IF "observer_unreachable" \in found THEN <<"observer_unreachable">> ELSE <<>>
<1>1. InOrder(found) = one \o two
  <2>1. Checks[1] = "delinquency" /\ Checks[2] = "observer_unreachable"
    BY DEF Checks
  <2> QED BY <2>1, Zenon DEF InOrder
<1>2. /\ one \in Seq(CheckNames) /\ two \in Seq(CheckNames)
      /\ \A i \in 1..Len(one) : one[i] \in found
      /\ \A i \in 1..Len(two) : two[i] \in found
  <2>1. ASSUME NEW c \in CheckNames, NEW s, s = IF c \in found THEN <<c>> ELSE <<>>
        PROVE  s \in Seq(CheckNames) /\ \A i \in 1..Len(s) : s[i] \in found
    <3>1. CASE c \in found
      <4>1. s = <<c>>
        BY <2>1, <3>1
      <4>2. s \in Seq(CheckNames) /\ Len(s) = 1 /\ s[1] = c
        BY <4>1
      <4> QED BY <3>1, <4>2
    <3>2. CASE c \notin found
      BY <2>1, <3>2
    <3> QED BY <3>1, <3>2
  <2>2. "delinquency" \in CheckNames /\ "observer_unreachable" \in CheckNames
    BY DEF CheckNames
  <2> QED BY <2>1, <2>2, Zenon
<1> HIDE DEF one, two
<1>3. /\ one \o two \in Seq(CheckNames) /\ Len(one) \in Nat /\ Len(two) \in Nat
      /\ Len(one \o two) = Len(one) + Len(two)
      /\ \A i \in 1..Len(one) : (one \o two)[i] = one[i]
      /\ \A i \in (Len(one) + 1)..(Len(one) + Len(two)) : (one \o two)[i] = two[i - Len(one)]
  BY <1>2
<1>4. ASSUME NEW i \in 1..Len(one \o two)
      PROVE  (one \o two)[i] \in found
  <2>1. CASE i \in 1..Len(one)
    BY <1>2, <1>3, <2>1
  <2>2. CASE i \in (Len(one) + 1)..(Len(one) + Len(two))
    <3>1. i - Len(one) \in 1..Len(two)
      BY <1>3, <2>2
    <3> QED BY <1>2, <1>3, <2>2, <3>1
  <2> QED BY <1>3, <2>1, <2>2
<1> QED BY <1>1, <1>3, <1>4

\* A new sample is counted as it is remembered.
LEMMA CountRemembered ==
  ASSUME TypeInv, CountInv, NEW s \in Results \union {"none"},
         counter' = Count(counter, s), received' = Remember(received, s)
  PROVE  counter' \in 0..Samples /\ received' \in Seq(Results) /\ CountInv'
<1>0. /\ counter \in 0..Samples /\ received \in Seq(Results) /\ Samples \in Nat \ {0}
      /\ counter <= Len(received) /\ Len(received) <= Samples
      /\ \A i \in 1..Len(received) : i > Len(received) - counter => received[i] = "breach"
      /\ Len(received) \in Nat
  BY SentinelAssumption DEF TypeInv, CountInv
<1>1. CASE s = "none"
  <2>1. counter' = counter
    BY <1>1, Zenon DEF Count
  <2>2. received' = received
    BY <1>1 DEF Remember
  <2> QED BY <1>0, <2>1, <2>2 DEF CountInv
<1>2. CASE s # "none"
  <2>1. s \in Results
    BY <1>2
  <2> DEFINE past == IF Len(received) < Samples THEN received ELSE Tail(received)
             gone == IF Len(received) < Samples THEN 0 ELSE 1
  <2>2. received' = Append(past, s)
    BY <1>2 DEF Remember
  <2>3. /\ past \in Seq(Results) /\ Len(past) \in Nat /\ Len(past) + 1 <= Samples
        /\ Len(past) = Len(received) - gone /\ gone \in {0, 1}
        /\ gone = 1 => Len(received) = Samples
        /\ \A i \in 1..Len(past) : past[i] = received[i + gone]
    BY <1>0
  <2> HIDE DEF past, gone
  <2>4. /\ received' \in Seq(Results) /\ Len(received') = Len(past) + 1
        /\ \A i \in 1..Len(past) : received'[i] = past[i]
        /\ received'[Len(past) + 1] = s
    BY <2>1, <2>2, <2>3
  <2>5. CASE s = "good"
    <3>1. counter' = 0
      BY <2>5, Zenon DEF Count
    <3> QED BY <1>0, <2>3, <2>4, <3>1 DEF CountInv
  <2>6. CASE s = "breach"
    <3>1. counter' = IF counter < Samples THEN counter + 1 ELSE counter
      BY <2>6, Zenon DEF Count
    <3>2. counter' \in 0..Samples /\ counter' <= Len(received')
      BY <1>0, <2>3, <2>4, <3>1
    <3>3. ASSUME NEW i \in 1..Len(received'), i > Len(received') - counter'
          PROVE  received'[i] = "breach"
      <4>1. CASE i = Len(past) + 1
        BY <2>4, <2>6, <4>1
      <4>2. CASE i # Len(past) + 1
        <5>1. i \in 1..Len(past) /\ i + gone \in 1..Len(received)
          BY <2>3, <2>4, <4>2, <1>0
        <5>2. i + gone > Len(received) - counter
          BY <1>0, <2>3, <2>4, <3>1, <3>3, <5>1
        <5> QED BY <1>0, <2>3, <2>4, <5>1, <5>2
      <4> QED BY <4>1, <4>2
    <3> QED BY <2>3, <2>4, <3>2, <3>3 DEF CountInv
  <2> QED BY <2>1, <2>5, <2>6 DEF Results
<1> QED BY <1>1, <1>2

-----------------------------------------------------------------------------
(* The kinds of steps.                                                     *)

Same(c) == live'[c].mode = live[c].mode /\ live'[c].alerted = live[c].alerted
AllSame == \A c \in CheckNames : Same(c)

\* The tick comes to pc p with the findings todo.
Comes(p, todo) == tick'.pc = p /\ tick'.todo = todo
Quieter == (quiet \/ tick.alert) => quiet'

\* Nothing changes for the sentinel.
Rests == UNCHANGED <<tick, live, counter, received, quiet>>

\* The tick goes on without a finding in hand, ends or is cut off.
Moves ==
  /\ \E p \in TickPCs \ {"signal", "alert"} : Comes(p, tick.todo) \/ Comes(p, <<>>)
  /\ ~tick'.alert /\ Quieter /\ AllSame
  /\ counter' \in {counter, 0} /\ received' = received

\* The rules have the sample.
Judges ==
  /\ tick'.pc = "open" /\ ~tick.alert /\ ~tick'.alert
  /\ (\E i \in 1..Len(tick'.todo) : tick'.todo[i] = "delinquency") => counter' >= Samples
  /\ counter' = Count(counter, tick.sample) /\ received' = Remember(received, tick.sample)
  /\ UNCHANGED <<live, quiet>>

\* The store opens an episode for finding c, or has one; or the call goes wrong.
Opens(c) ==
  /\ tick.pc = "open" /\ tick.todo # <<>> /\ c = Head(tick.todo) /\ ~tick.alert
  /\ \A d \in CheckNames \ {c} : Same(d)
  /\ Live(c) => Same(c)
  /\ \/ Comes("signal", tick.todo)
     \/ Comes("open", Tail(tick.todo)) /\ ~tick'.alert
  /\ tick'.alert => c = "delinquency"
  /\ quiet => quiet'
  /\ Same(c) \/ live'[c].mode # "unknown" \/ c # "delinquency" \/ tick'.alert \/ quiet'
  /\ UNCHANGED <<counter, received>>

Signals ==
  /\ tick.pc = "signal" /\ tick.todo # <<>> /\ AllSame
  /\ \/ tick.alert /\ tick'.alert /\ Comes("alert", tick.todo)
     \/ ~tick.alert /\ ~tick'.alert /\ Comes("open", Tail(tick.todo))
  /\ UNCHANGED <<counter, received, quiet>>

Alerts ==
  /\ tick.pc = "alert" /\ tick.todo # <<>>
  /\ ~tick'.alert /\ Comes("open", Tail(tick.todo))
  /\ \A c \in CheckNames : live'[c].mode = live[c].mode
  /\ quiet' \/ (Live("delinquency") => live'["delinquency"].alerted)
  /\ UNCHANGED <<counter, received>>

\* The episode of c ends.
Ends(c) ==
  /\ live'[c].mode = "none" /\ \A d \in CheckNames \ {c} : Same(d)
  /\ c # "delinquency" /\ quiet => quiet'
  /\ UNCHANGED <<tick, counter, received>>

Kinds ==
  \/ Rests \/ Moves \/ Judges \/ Signals \/ Alerts
  \/ \E c \in CheckNames : Opens(c) \/ Ends(c)

\* A field of one episode changes.
LEMMA LiveRecord ==
  ASSUME TypeInv, NEW c \in CheckNames, NEW r \in EpisodeRecords, live' = [live EXCEPT ![c] = r]
  PROVE  /\ live' \in [CheckNames -> EpisodeRecords] /\ live'[c] = r
         /\ \A d \in CheckNames \ {c} : Same(d)
BY DEF TypeInv, Same

\* The finding in hand.
LEMMA InHand ==
  ASSUME TypeInv, tick.todo # <<>>
  PROVE  /\ Head(tick.todo) \in CheckNames /\ Tail(tick.todo) \in Seq(CheckNames)
         /\ \A i \in 1..Len(Tail(tick.todo)) :
              i + 1 \in 1..Len(tick.todo) /\ Tail(tick.todo)[i] = tick.todo[i + 1]
         /\ 1 \in 1..Len(tick.todo) /\ Head(tick.todo) = tick.todo[1]
<1>1. tick.todo \in Seq(CheckNames)
  BY DEF TypeInv, TickRecords
<1> DEFINE s == tick.todo
<1> HIDE DEF s
<1>2. s \in Seq(CheckNames) /\ s # <<>>
  BY <1>1 DEF s
<1>3. /\ Head(s) \in CheckNames /\ Tail(s) \in Seq(CheckNames)
      /\ \A i \in 1..Len(Tail(s)) : i + 1 \in 1..Len(s) /\ Tail(s)[i] = s[i + 1]
      /\ 1 \in 1..Len(s) /\ Head(s) = s[1]
  BY <1>2
<1> QED BY <1>3 DEF s

\* The work on the finding in hand is over.
LEMMA NextFindingFields ==
  ASSUME TypeInv, tick.todo # <<>>, tick' = NextFinding
  PROVE  tick' \in TickRecords /\ Comes("open", Tail(tick.todo)) /\ tick'.alert = FALSE
<1>1. tick \in TickRecords /\ Tail(tick.todo) \in Seq(CheckNames)
  BY InHand DEF TypeInv
<1>2. tick' = [tick EXCEPT !.pc = "open", !.todo = Tail(tick.todo), !.alert = FALSE]
  BY DEF NextFinding
<1> QED BY <1>1, <1>2 DEF Comes, TickRecords, TickPCs

\* A tick without findings.
LEMMA NoTickFields ==
  /\ NoTick \in TickRecords /\ NoTick.pc = "wait"
  /\ NoTick.todo = <<>> /\ NoTick.alert = FALSE /\ NoTick.sample = "none"
<1>1. <<>> \in Seq(CheckNames)
  OBVIOUS
<1> QED BY <1>1 DEF NoTick, TickRecords, TickPCs

\* Every step is of one of the kinds.
LEMMA StepKinds ==
  ASSUME TypeInv, PendingInv, [Next]_vars
  PROVE  tick' \in TickRecords /\ live' \in [CheckNames -> EpisodeRecords] /\ Kinds
<1> DEFINE Typed == tick' \in TickRecords /\ live' \in [CheckNames -> EpisodeRecords]
<1>0. /\ tick \in TickRecords /\ live \in [CheckNames -> EpisodeRecords]
      /\ tick.pc \in TickPCs /\ tick.todo \in Seq(CheckNames)
      /\ tick.pc \notin {"signal", "alert"} => ~tick.alert
  BY DEF TypeInv, TickRecords, PendingInv
<1>1. live' = live => AllSame
  BY DEF AllSame, Same
<1>2. /\ Raised \in TickRecords /\ Raised.pc = "raised" /\ Raised.todo = <<>>
      /\ ~Raised.alert
  BY NoTickFields DEF Raised, TickRecords, TickPCs
<1>3. CASE Probe
  <2>1. /\ tick' \in TickRecords /\ tick'.pc \in TickPCs \ {"signal", "alert"}
        /\ tick'.todo = <<>> /\ ~tick'.alert
    <3>1. CASE tick' = Raised
      BY <1>2, <3>1 DEF TickPCs
    <3>2. CASE tick' = [NoTick EXCEPT !.pc = "rules"]
      BY <3>2, NoTickFields DEF TickRecords, TickPCs
    <3>3. CASE tick' = [NoTick EXCEPT !.pc = "sample", !.reachable = TRUE]
      BY <3>3, NoTickFields DEF TickRecords, TickPCs
    <3> QED BY <1>3, <3>1, <3>2, <3>3 DEF Probe
  <2>2. tick.pc = "wait" /\ UNCHANGED <<live, counter, received, quiet>>
    BY <1>3 DEF Probe, history
  <2>3. Moves
    BY <1>0, <1>1, <2>1, <2>2 DEF Moves, Comes, Quieter
  <2> QED BY <1>0, <2>1, <2>2, <2>3 DEF Kinds
<1>4. CASE SampleCatchup
  <2>1. tick.pc = "sample" /\ ~tick.alert /\ UNCHANGED <<live, counter, received, quiet>>
    BY <1>0, <1>4 DEF SampleCatchup, history
  <2>2. /\ tick' \in TickRecords /\ ~tick'.alert
        /\ Comes("raised", <<>>) \/ Comes("rules", tick.todo)
    <3>1. CASE tick' = Raised
      BY <1>2, <3>1 DEF Comes
    <3>2. ASSUME NEW r \in BOOLEAN, tick' = [tick EXCEPT !.pc = "rules", !.reachable = r]
          PROVE  tick' \in TickRecords /\ ~tick'.alert /\ Comes("rules", tick.todo)
      BY <1>0, <2>1, <3>2 DEF Comes, TickRecords, TickPCs
    <3>3. ASSUME NEW s \in Results, tick' = [tick EXCEPT !.pc = "rules", !.sample = s]
          PROVE  tick' \in TickRecords /\ ~tick'.alert /\ Comes("rules", tick.todo)
      BY <1>0, <2>1, <3>3 DEF Comes, TickRecords, TickPCs
    <3>4. (sight = "partly") \in BOOLEAN /\ (IF behind THEN "breach" ELSE "good") \in Results
      BY DEF Results
    <3> QED BY <1>4, <3>1, <3>2, <3>3, <3>4 DEF SampleCatchup
  <2>3. Moves
    BY <1>1, <2>1, <2>2 DEF Moves, TickPCs, Quieter
  <2> QED BY <1>0, <2>1, <2>2, <2>3 DEF Kinds
<1>5. CASE Rules
  <2>1. PICK answered \in BOOLEAN :
          tick' = [NoTick EXCEPT
            !.pc = "open", !.stale = answered /\ StaleChecks(age),
            !.todo = InOrder(Findings(counter', tick.sample, tick.reachable /\ answered))]
    BY <1>5 DEF Rules
  <2> DEFINE found == Findings(counter', tick.sample, tick.reachable /\ answered)
             stale == answered /\ StaleChecks(age)
  <2>2. /\ InOrder(found) \in Seq(CheckNames)
        /\ \A i \in 1..Len(InOrder(found)) : InOrder(found)[i] \in found
    BY InOrderIsFound
  <2>3. "delinquency" \in found => counter' >= Samples
    BY DEF Findings
  <2>4. tick' = [NoTick EXCEPT !.pc = "open", !.stale = stale, !.todo = InOrder(found)]
    BY <2>1
  <2>5. stale \in BOOLEAN
    BY DEF StaleChecks
  <2> HIDE DEF found, stale
  <2>6. /\ tick' \in TickRecords /\ tick'.pc = "open" /\ tick'.todo = InOrder(found)
        /\ ~tick'.alert
    BY <2>2, <2>4, <2>5, NoTickFields DEF TickRecords, TickPCs
  <2>7. /\ tick.pc = "rules" /\ UNCHANGED <<live, quiet>>
        /\ counter' = Count(counter, tick.sample) /\ received' = Remember(received, tick.sample)
    BY <1>5 DEF Rules
  <2>8. Judges
    BY <1>0, <2>2, <2>3, <2>6, <2>7 DEF Judges
  <2> QED BY <1>0, <2>6, <2>7, <2>8 DEF Kinds
<1>6. CASE Signal
  <2> DEFINE c == Head(tick.todo)
  <2>0. tick.pc = "signal" /\ tick.todo # <<>> /\ UNCHANGED <<counter, received, quiet>>
    BY <1>6 DEF Signal, PendingInv, history
  <2>1. live' \in [CheckNames -> EpisodeRecords] /\ AllSame
    <3>1. CASE live' = live
      BY <1>0, <1>1, <3>1
    <3>2. CASE live' = [live EXCEPT ![c].signals = Live(c)]
      <4>1. c \in CheckNames /\ Live(c) \in BOOLEAN
        BY <2>0, InHand DEF Live
      <4>2. live[c] \in EpisodeRecords
        BY <1>0, <4>1
      <4> DEFINE r == [live[c] EXCEPT !.signals = Live(c)]
      <4>3. r \in EpisodeRecords /\ r.mode = live[c].mode /\ r.alerted = live[c].alerted
        BY <4>1, <4>2 DEF EpisodeRecords
      <4>4. live' = [live EXCEPT ![c] = r]
        BY <3>2
      <4> HIDE DEF r, c
      <4> QED BY <4>1, <4>3, <4>4, LiveRecord DEF AllSame, Same
    <3> QED BY <1>6, <3>1, <3>2 DEF Signal
  <2>2. tick' = AfterSignal(TRUE) \/ tick' = AfterSignal(FALSE)
    BY <1>6 DEF Signal
  <2>3. CASE tick.alert
    <3>1. tick' = [tick EXCEPT !.pc = "alert"]
      BY <2>2, <2>3 DEF AfterSignal
    <3>2. tick' \in TickRecords /\ tick'.alert = tick.alert /\ Comes("alert", tick.todo)
      BY <1>0, <3>1 DEF Comes, TickRecords, TickPCs
    <3>3. Signals
      BY <2>0, <2>1, <2>3, <3>2 DEF Signals
    <3> QED BY <2>1, <3>2, <3>3 DEF Kinds
  <2>4. CASE ~tick.alert
    <3>1. tick' = NextFinding
      BY <2>2, <2>4 DEF AfterSignal
    <3>2. tick' \in TickRecords /\ tick'.alert = FALSE /\ Comes("open", Tail(tick.todo))
      BY <2>0, <3>1, NextFindingFields
    <3>3. Signals
      BY <2>0, <2>1, <2>4, <3>2 DEF Signals
    <3> QED BY <2>1, <3>2, <3>3 DEF Kinds
  <2> QED BY <2>3, <2>4
<1>7. CASE Alert
  <2> DEFINE c == Head(tick.todo)
  <2>0. tick.pc = "alert" /\ tick.todo # <<>> /\ c = "delinquency"
        /\ UNCHANGED <<counter, received>>
    BY <1>7 DEF Alert, PendingInv
  <2>1. tick' \in TickRecords /\ Comes("open", Tail(tick.todo)) /\ ~tick'.alert
    BY <1>7, <2>0, NextFindingFields DEF Alert
  <2>2. CASE quiet' = TRUE /\ live' = live
    <3>1. Alerts
      BY <2>0, <2>1, <2>2 DEF Alerts
    <3> QED BY <1>0, <2>1, <2>2, <3>1 DEF Kinds
  <2>3. CASE live' = [live EXCEPT ![c].alerted = Live(c)]
    <3>1. c \in CheckNames /\ Live(c) \in BOOLEAN
      BY <2>0, InHand DEF Live
    <3>2. live[c] \in EpisodeRecords
      BY <1>0, <3>1
    <3> DEFINE r == [live[c] EXCEPT !.alerted = Live(c)]
    <3>3. r \in EpisodeRecords /\ r.mode = live[c].mode /\ r.alerted = Live(c)
      BY <3>1, <3>2 DEF EpisodeRecords
    <3>4. live' = [live EXCEPT ![c] = r]
      BY <2>3
    <3> HIDE DEF r
    <3>5. /\ live' \in [CheckNames -> EpisodeRecords] /\ live'[c] = r
          /\ \A d \in CheckNames \ {c} : Same(d)
      BY <3>1, <3>3, <3>4, LiveRecord
    <3> HIDE DEF c
    <3>6. Alerts
      BY <2>0, <2>1, <3>3, <3>5 DEF Alerts, Same
    <3> QED BY <2>1, <3>5, <3>6 DEF Kinds
  <2> QED BY <1>7, <2>2, <2>3 DEF Alert
<1>8. CASE Annotate
  <2>1. /\ tick.pc = "open" /\ tick' = NoTick /\ UNCHANGED <<counter, received, quiet>>
        /\ live' = live \/ live' = [live EXCEPT !["delinquency"].stale = TRUE]
    BY <1>8 DEF Annotate, history
  <2>2. live' \in [CheckNames -> EpisodeRecords] /\ AllSame
    <3>1. CASE live' = live
      BY <1>0, <1>1, <3>1
    <3>2. CASE live' = [live EXCEPT !["delinquency"].stale = TRUE]
      <4> DEFINE c == "delinquency"
                 r == [live[c] EXCEPT !.stale = TRUE]
      <4>1. c \in CheckNames
        BY DEF CheckNames
      <4>2. live[c] \in EpisodeRecords
        BY <1>0, <4>1
      <4>3. r \in EpisodeRecords /\ r.mode = live[c].mode /\ r.alerted = live[c].alerted
        BY <4>2 DEF EpisodeRecords
      <4>4. live' = [live EXCEPT ![c] = r]
        BY <3>2
      <4> HIDE DEF r, c
      <4> QED BY <4>1, <4>3, <4>4, LiveRecord DEF AllSame, Same
    <3> QED BY <2>1, <3>1, <3>2
  <2>3. Moves
    BY <1>0, <2>1, <2>2, NoTickFields DEF Moves, Comes, Quieter, TickPCs
  <2> QED BY <2>1, <2>2, <2>3, NoTickFields DEF Kinds
<1>9. CASE EndTick \/ TickRaises \/ Restart
  <2>1. /\ tick' = NoTick \/ tick' = Raised
        /\ UNCHANGED <<live, received>> /\ counter' \in {counter, 0}
    BY <1>9 DEF EndTick, TickRaises, Restart, history
  <2>2. Quieter
    <3>1. CASE EndTick
      <4>1. tick.pc \in {"open", "raised"} /\ quiet' = quiet
        BY <3>1 DEF EndTick, history
      <4> QED BY <1>0, <4>1 DEF Quieter
    <3>2. CASE TickRaises \/ Restart
      BY <3>2 DEF TickRaises, Restart, Quieter
    <3> QED BY <1>9, <3>1, <3>2
  <2>3. /\ tick' \in TickRecords /\ tick'.pc \in {"wait", "raised"}
        /\ tick'.todo = <<>> /\ ~tick'.alert
    BY <1>2, <2>1, NoTickFields
  <2>4. Moves
    BY <1>1, <2>1, <2>2, <2>3 DEF Moves, Comes, TickPCs
  <2> QED BY <1>0, <2>1, <2>3, <2>4 DEF Kinds
<1>10. ASSUME NEW c \in DOMAIN live, Closes(c)
       PROVE  Typed /\ Kinds
  <2>1. c \in CheckNames
    BY <1>0
  <2>2. /\ live' = [live EXCEPT ![c] = NoEpisode] /\ quiet' = (quiet /\ c # "delinquency")
        /\ UNCHANGED <<tick, counter, received>>
    BY <1>10 DEF Closes
  <2>3. NoEpisode \in EpisodeRecords /\ NoEpisode.mode = "none"
    BY DEF NoEpisode, EpisodeRecords, Modes
  <2> HIDE DEF NoEpisode
  <2>4. /\ live' \in [CheckNames -> EpisodeRecords] /\ live'[c] = NoEpisode
        /\ \A d \in CheckNames \ {c} : Same(d)
    BY <2>1, <2>2, <2>3, LiveRecord
  <2>5. c # "delinquency" /\ quiet => quiet'
    BY <2>2
  <2>6. Ends(c)
    BY <2>2, <2>3, <2>4, <2>5 DEF Ends
  <2> QED BY <1>0, <2>1, <2>2, <2>4, <2>6 DEF Kinds
<1>11. CASE SightChanges \/ BehindChanges \/ Ages \/ BrokerRestarts \/ UNCHANGED vars
  <2>1. Rests
    BY <1>11 DEF SightChanges, BehindChanges, Ages, BrokerRestarts, vars, sentinel, history, Rests
  <2> QED BY <1>0, <2>1 DEF Rests, Kinds
<1>12. CASE Open
  <2> DEFINE c == Head(tick.todo)
  <2>1. /\ tick.pc = "open" /\ tick.todo # <<>> /\ UNCHANGED <<counter, received>>
    BY <1>12 DEF Open
  <2>2. PICK m \in ModesFor(c) :
       \/ /\ StoreOpens(c, m)
          /\ tick' = [tick EXCEPT !.pc = "signal", !.alert = ToAlert(c, m)]
          /\ UNCHANGED <<faults, quiet>>
       \/ tick' = Raised /\ UNCHANGED <<faults, live, quiet>>
       \/ tick' = NextFinding /\ UNCHANGED <<faults, live, quiet>>
       \/ /\ tick' = NextFinding
          /\ \/ UNCHANGED <<live, quiet>>
             \/ StoreOpens(c, m) /\ quiet' = (quiet \/ ToAlert(c, m))
    BY <1>12 DEF Open
  <2>3. m \in Modes \ {"none"} /\ c \in CheckNames
    BY <2>1, <2>2, ModesAreModes, InHand
  <2>4. ASSUME StoreOpens(c, m)
        PROVE  /\ live' \in [CheckNames -> EpisodeRecords]
               /\ \A d \in CheckNames \ {c} : Same(d)
               /\ Live(c) => Same(c)
               /\ ~Live(c) => live'[c].mode = m
    <3>1. CASE Live(c)
      BY <1>0, <1>1, <2>3, <2>4, <3>1 DEF StoreOpens, AllSame
    <3>2. CASE ~Live(c)
      <4> DEFINE r == [live[c] EXCEPT !.mode = m]
      <4>1. live[c] \in EpisodeRecords
        BY <1>0, <2>3
      <4>2. r \in EpisodeRecords /\ r.mode = m
        BY <2>3, <4>1 DEF EpisodeRecords
      <4>3. live' = [live EXCEPT ![c] = r]
        BY <2>4, <3>2 DEF StoreOpens
      <4> HIDE DEF r, c
      <4> QED BY <2>3, <3>2, <4>2, <4>3, LiveRecord
    <3> QED BY <3>1, <3>2
  <2> HIDE DEF c
  <2>5. CASE tick' = Raised /\ UNCHANGED <<live, quiet>>
    <3>1. Moves
      BY <1>0, <1>1, <1>2, <2>1, <2>5 DEF Moves, Comes, TickPCs, Quieter
    <3> QED BY <1>0, <1>2, <2>5, <3>1 DEF Kinds
  <2>6. CASE tick' = NextFinding /\ UNCHANGED <<live, quiet>>
    <3>1. tick' \in TickRecords /\ Comes("open", Tail(tick.todo)) /\ ~tick'.alert
      BY <2>1, <2>6, NextFindingFields
    <3>2. Opens(c)
      BY <1>0, <1>1, <2>1, <2>3, <2>6, <3>1 DEF Opens, AllSame, c
    <3> QED BY <1>0, <2>3, <2>6, <3>1, <3>2 DEF Kinds
  <2>7. CASE tick' = NextFinding /\ StoreOpens(c, m) /\ quiet' = (quiet \/ ToAlert(c, m))
    <3>1. tick' \in TickRecords /\ Comes("open", Tail(tick.todo)) /\ ~tick'.alert
      BY <2>1, <2>7, NextFindingFields
    <3>2. (quiet => quiet') /\ (ToAlert(c, m) => quiet')
      BY <2>7
    <3>3. Same(c) \/ live'[c].mode # "unknown" \/ c # "delinquency" \/ quiet'
      BY <2>4, <2>7, <3>2 DEF ToAlert
    <3>4. Opens(c)
      BY <1>0, <2>1, <2>4, <2>7, <3>1, <3>2, <3>3 DEF Opens, c
    <3> QED BY <2>3, <2>4, <2>7, <3>1, <3>4 DEF Kinds
  <2>8. CASE /\ StoreOpens(c, m) /\ quiet' = quiet
             /\ tick' = [tick EXCEPT !.pc = "signal", !.alert = ToAlert(c, m)]
    <3>1. ToAlert(c, m) \in BOOLEAN
      BY DEF ToAlert
    <3>2. /\ tick' \in TickRecords /\ Comes("signal", tick.todo)
          /\ tick'.alert = ToAlert(c, m)
      BY <1>0, <2>8, <3>1 DEF TickRecords, TickPCs, Comes
    <3>3. Same(c) \/ live'[c].mode # "unknown" \/ c # "delinquency" \/ tick'.alert
      BY <2>4, <2>8, <3>2 DEF ToAlert
    <3>4. tick'.alert => c = "delinquency"
      BY <3>2 DEF ToAlert
    <3>5. Opens(c)
      BY <1>0, <2>1, <2>4, <2>8, <3>2, <3>3, <3>4 DEF Opens, c
    <3> QED BY <2>3, <2>4, <2>8, <3>2, <3>5 DEF Kinds
  <2> QED BY <2>2, <2>5, <2>6, <2>7, <2>8
<1> QED BY <1>3, <1>4, <1>5, <1>6, <1>7, <1>8, <1>9, <1>10, <1>11, <1>12 DEF Next, Tick

-----------------------------------------------------------------------------
(* The invariant.                                                          *)

\* Nothing is sampled, found or opened yet.
LEMMA InitInv == Init => Inv
<1> SUFFICES ASSUME Init
             PROVE  Inv
  OBVIOUS
<1>1. NoEpisode \in EpisodeRecords /\ NoEpisode.mode = "none"
  BY DEF NoEpisode, EpisodeRecords, Modes
<1>2. live = [c \in CheckNames |-> NoEpisode]
  <2>1. Checks[1] = "delinquency" /\ Checks[2] = "observer_unreachable"
    BY DEF Checks
  <2> QED BY <2>1 DEF Init, CheckNames
<1> HIDE DEF NoEpisode
<1>3. live \in [CheckNames -> EpisodeRecords] /\ live["delinquency"].mode = "none"
  BY <1>1, <1>2 DEF CheckNames
<1>4. counter = 0 /\ received = <<>> /\ tick = NoTick
  BY DEF Init
<1>5. counter \in 0..Samples /\ received \in Seq(Results) /\ Len(received) = 0 /\ Samples \in Nat
  BY <1>4, SentinelAssumption
<1>6. TypeInv
  BY <1>3, <1>4, <1>5, NoTickFields DEF TypeInv
<1>7. CountInv
  BY <1>4, <1>5 DEF CountInv
<1>8. FoundInv /\ PendingInv
  BY <1>4, NoTickFields DEF FoundInv, PendingInv
<1>9. UnknownModeAlerted
  BY <1>3 DEF UnknownModeAlerted
<1> QED BY <1>6, <1>7, <1>8, <1>9 DEF Inv

\* The samples are counted as they are remembered, and findings rest on them.
LEMMA SamplesKept ==
  ASSUME TypeInv, CountInv, FoundInv, tick' \in TickRecords, Kinds
  PROVE  /\ counter' \in 0..Samples /\ received' \in Seq(Results)
         /\ CountInv' /\ FoundInv'
<1>0. /\ counter \in 0..Samples /\ received \in Seq(Results) /\ Samples \in Nat \ {0}
      /\ tick.sample \in Results \union {"none"} /\ tick.todo \in Seq(CheckNames)
      /\ Len(received) \in Nat
  BY SentinelAssumption DEF TypeInv, TickRecords
<1>1. CASE Judges
  <2>1. counter' \in 0..Samples /\ received' \in Seq(Results) /\ CountInv'
    BY <1>0, <1>1, CountRemembered DEF Judges
  <2>2. CASE \E i \in 1..Len(tick'.todo) : tick'.todo[i] = "delinquency"
    <3>1. counter' = Samples
      BY <1>0, <1>1, <2>1, <2>2 DEF Judges
    <3>2. Len(received') = Samples /\ \A i \in 1..Len(received') : i > 0 => received'[i] = "breach"
      BY <1>0, <2>1, <3>1 DEF CountInv
    <3> QED BY <1>0, <2>1, <3>2 DEF FoundInv, Sustained
  <2> QED BY <2>1, <2>2 DEF FoundInv
<1>2. CASE ~Judges
  <2>1. counter' \in {counter, 0} /\ received' = received
    BY <1>2 DEF Kinds, Rests, Moves, Signals, Alerts, Opens, Ends
  <2>2. counter' \in 0..Samples /\ received' \in Seq(Results) /\ CountInv'
    BY <1>0, <2>1 DEF CountInv
  <2>3. \/ tick'.todo = <<>> \/ tick'.todo = tick.todo
        \/ tick.todo # <<>> /\ tick'.todo = Tail(tick.todo)
    BY <1>2 DEF Kinds, Rests, Moves, Signals, Alerts, Opens, Ends, Comes
  <2>4. ASSUME NEW i \in 1..Len(tick'.todo), tick'.todo[i] = "delinquency"
        PROVE  \E j \in 1..Len(tick.todo) : tick.todo[j] = "delinquency"
    <3>1. CASE tick'.todo = <<>>
      BY <2>4, <3>1
    <3>2. CASE tick'.todo = tick.todo
      BY <2>4, <3>2
    <3>3. CASE tick.todo # <<>> /\ tick'.todo = Tail(tick.todo)
      <4>1. i + 1 \in 1..Len(tick.todo) /\ tick.todo[i + 1] = "delinquency"
        BY <2>4, <3>3, InHand
      <4> QED BY <4>1
    <3> QED BY <2>3, <3>1, <3>2, <3>3
  <2>5. FoundInv'
    BY <2>1, <2>4 DEF FoundInv, Sustained
  <2> QED BY <2>2, <2>5
<1> QED BY <1>1, <1>2

\* An alert stays pending until it is made or the work on its finding is given up.
LEMMA PendingKept ==
  ASSUME TypeInv, PendingInv, Kinds
  PROVE  PendingInv'
<1>1. CASE Rests \/ \E c \in CheckNames : Ends(c)
  BY <1>1 DEF Rests, Ends, PendingInv
<1>2. CASE Moves
  BY <1>2 DEF Moves, Comes, PendingInv
<1>3. CASE Judges
  BY <1>3 DEF Judges, PendingInv
<1>4. CASE \E c \in CheckNames : Opens(c)
  BY <1>4 DEF Opens, Comes, PendingInv
<1>5. CASE Signals
  BY <1>5 DEF Signals, Comes, PendingInv
<1>6. CASE Alerts
  BY <1>6 DEF Alerts, Comes, PendingInv
<1> QED BY <1>1, <1>2, <1>3, <1>4, <1>5, <1>6 DEF Kinds

\* An episode of unknown mode is alerted, to be alerted, or quiet for a reason.
LEMMA UnknownKept ==
  ASSUME TypeInv, PendingInv, UnknownModeAlerted, Kinds
  PROVE  UnknownModeAlerted'
<1> DEFINE d == "delinquency"
<1> SUFFICES ASSUME live'[d].mode = "unknown", ~live'[d].alerted
             PROVE  tick'.alert \/ quiet'
  BY DEF UnknownModeAlerted
<1>0. d \in CheckNames
  BY DEF CheckNames
<1>1. live[d].mode = "unknown" /\ ~live[d].alerted => tick.alert \/ quiet
  BY DEF UnknownModeAlerted
<1>2. Same(d) => tick.alert \/ quiet
  BY <1>1 DEF Same
<1>3. CASE Rests
  BY <1>1, <1>3 DEF Rests
<1>4. CASE Moves
  BY <1>0, <1>2, <1>4 DEF Moves, Quieter, AllSame
<1>5. CASE Judges
  BY <1>1, <1>5 DEF Judges
<1>6. ASSUME NEW c \in CheckNames, Opens(c)
      PROVE  tick'.alert \/ quiet'
  <2>1. ~tick.alert /\ (quiet => quiet')
    BY <1>6 DEF Opens
  <2>2. CASE Same(d)
    BY <1>2, <2>1, <2>2
  <2>3. CASE ~Same(d)
    BY <1>0, <1>6, <2>3 DEF Opens
  <2> QED BY <2>2, <2>3
<1>7. CASE Signals
  BY <1>0, <1>2, <1>7 DEF Signals, AllSame
<1>8. CASE Alerts
  BY <1>0, <1>8 DEF Alerts, Live
<1>9. ASSUME NEW c \in CheckNames, Ends(c)
      PROVE  tick'.alert \/ quiet'
  <2>1. c # d
    BY <1>9 DEF Ends
  <2>2. Same(d) /\ (quiet => quiet') /\ tick' = tick
    BY <1>0, <1>9, <2>1 DEF Ends
  <2> QED BY <1>2, <2>2
<1> QED BY <1>3, <1>4, <1>5, <1>6, <1>7, <1>8, <1>9 DEF Kinds

\* The invariant holds throughout.
LEMMA InvHolds == Spec => []Inv
<1>1. ASSUME Inv, [Next]_vars
      PROVE  Inv'
  <2>1. TypeInv /\ CountInv /\ FoundInv /\ PendingInv /\ UnknownModeAlerted
    BY <1>1 DEF Inv
  <2>2. tick' \in TickRecords /\ live' \in [CheckNames -> EpisodeRecords] /\ Kinds
    BY <1>1, <2>1, StepKinds
  <2>3. /\ counter' \in 0..Samples /\ received' \in Seq(Results)
        /\ CountInv' /\ FoundInv'
    BY <2>1, <2>2, SamplesKept
  <2>4. PendingInv' /\ UnknownModeAlerted'
    BY <2>1, <2>2, PendingKept, UnknownKept
  <2> QED BY <2>2, <2>3, <2>4 DEF Inv, TypeInv
<1> QED BY <1>1, InitInv, PTL DEF Spec

-----------------------------------------------------------------------------
(* Theorems.                                                               *)

\* A live validator-health episode of unknown mode has been alerted, unless its own open
\* or alert call went wrong or the tick that opened it was cut off: _open goes on to its
\* alert though append_signal has failed.
THEOREM UnknownIsAlerted == Spec => []UnknownModeAlerted
<1>1. Inv => UnknownModeAlerted
  BY DEF Inv
<1> QED BY <1>1, InvHolds, PTL

\* A delinquency episode opens only after P-03 breaches in a row among the samples that
\* arrived: missing samples, failed calls and restarts open none.
THEOREM SustainedOpens == Spec => OpensOnSustainedData
<1>1. ASSUME Inv, [Next]_vars, live'["delinquency"].mode # "none", ~Live("delinquency")
      PROVE  Len(received) = Samples /\ \A i \in 1..Samples : received[i] = "breach"
  <2> DEFINE d == "delinquency"
  <2>0. d \in CheckNames
    BY DEF CheckNames
  <2>1. Kinds /\ TypeInv /\ FoundInv
    BY <1>1, StepKinds DEF Inv
  <2>2. ~Same(d)
    BY <1>1 DEF Same, Live
  <2>3. PICK c \in CheckNames : Opens(c)
    BY <1>1, <2>0, <2>1, <2>2 DEF Kinds, Rests, Moves, AllSame, Judges, Signals, Alerts, Ends,
                                  Same, Live
  <2>4. c = d /\ tick.todo # <<>> /\ c = Head(tick.todo)
    BY <2>0, <2>2, <2>3 DEF Opens
  <2>5. 1 \in 1..Len(tick.todo) /\ tick.todo[1] = "delinquency"
    BY <2>1, <2>4, InHand
  <2> QED BY <2>1, <2>5 DEF FoundInv, Sustained
<1>2. Inv /\ [Next]_vars =>
        [(live'["delinquency"].mode # "none" /\ ~Live("delinquency")) =>
           Len(received) = Samples /\ \A i \in 1..Samples : received[i] = "breach"]_vars
  BY <1>1
<1> QED BY <1>2, InvHolds, PTL DEF Spec, OpensOnSustainedData
=============================================================================
