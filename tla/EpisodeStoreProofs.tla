------------------------- MODULE EpisodeStoreProofs -------------------------
(***************************************************************************)
(* Proofs about EpisodeStore, for every set of episodes, callers, bundles  *)
(* and sessions and every bound.                                           *)
(*                                                                         *)
(* Every step of the store leaves the log alone or appends to it one row   *)
(* that the gate of its operation let through (NextCases).  The invariants *)
(* speak of rows and of the rows before them, so each is preserved by an   *)
(* append once it holds of the appended row.                               *)
(***************************************************************************)
EXTENDS EpisodeStore, TLAPS

\* A sequence, whatever its elements are.
IsLog(s) == \E S : s \in Seq(S)

\* The inductive form of TypeOK.  The table: a log starts with its opening and
\* has no second one, and every move leads to a state.
LogInv ==
  /\ entries = [e \in Episodes |-> entries[e]]
  /\ \A e \in Episodes : IsLog(entries[e])
  /\ \A e \in Episodes : \A i \in Rows(e) :
       /\ Row(e, i).kind \in KINDS /\ Row(e, i).by \in Principals
       /\ Row(e, i).kind = "opened" <=> i = 1
       /\ Row(e, i).kind \in {"opened", "state"} => Row(e, i).body.to \in STATES

UpToDate == phase = "serving" => \A e \in Episodes : records[e].rev = Len(entries[e])

\* The memory: a record is the fold of some prefix of its log, and of the whole
\* log while the store serves.
IsLists(l) == l = [k \in KINDS |-> l[k]]

RecordShape(rec, n) ==
  /\ rec.rev \in 0..n
  /\ rec.state \in STATES \union {None}
  /\ IsLists(rec.list)

MemInv ==
  /\ records = [e \in Episodes |-> records[e]]
  /\ \A e \in Episodes : RecordShape(records[e], Len(entries[e]))
  /\ UpToDate
  /\ \A v \in checking : v.episode \in Episodes
  /\ phase \in {"rebuilding", "serving"}
  /\ passed \in Bundles \union {None} /\ revoked \subseteq Bundles
  /\ faults \in 0..MaxFaults

TypeInv == LogInv /\ MemInv

\* The rows that _simple writes.
BookKinds == {"recovery_observation", "verification", "cost", "step", "annotation"}

\* What the gates of the operations establish about the row they append, next to
\* the form of the row: where the episode stands, and what its bundle is.
Gated(e, row) ==
  /\ row.kind = "opened" => /\ row.body.dk \in DedupeKeys
                            /\ LiveWith(row.body.dk) = {}
                            /\ row.body.bundle = passed
  /\ row.kind # "opened" /\ records[e].state \in TERMINAL =>
       AfterEnd(row) \/ row.kind = "verification"
  /\ row.kind = "verification" => \E v \in checking : v.episode = e /\ v.rev = row.key[3]
  /\ row.kind \in {"recommendation", "no_action"} => records[e].state = "recommending"
  /\ row.kind = "verdict" => /\ records[e].state = "judging"
                             /\ Candidates(records[e]) # {}
                             /\ row.body.target = UnderJudgement(records[e]).body.id
  /\ row.kind \in AGENT_KINDS \/ row.by = "observer_broker" => records[e].bundle = passed

\* What the gates of all operations establish about the row they append.
RowOK(e, row) ==
  /\ phase = "serving"
  /\ Gated(e, row)
  /\ row.kind \in KINDS /\ row.by \in Principals
  /\ Fresh(e, row.key)
  /\ row.kind = "opened" <=> Len(entries[e]) = 0
  /\ row.kind = "opened" => row.body.to = "open"
  /\ row.kind = "state" => /\ row.body.to \in STATES
                           /\ row.body.from = records[e].state
                           /\ Allowed(row.by, row.body.from, row.body.to)
                           /\ row.key[3] = records[e].rev

Appends == \E e \in Episodes : \E row, left :
             /\ RowOK(e, row)
             /\ left \subseteq checking
             /\ Write(e, row, left)

\* The verification request v can have passed the first lock section just now.
Checked(v) ==
  /\ v.episode \in Episodes
  /\ Serving(v.episode)
  /\ v.rev \in Nat /\ v.rev <= records[v.episode].rev
  /\ records[v.episode].state \notin TERMINAL

\* Steps that touch neither the log nor the memory.
Aside ==
  /\ UNCHANGED <<entries, audited, records, phase, late, faults>>
  /\ revoked \subseteq revoked' /\ revoked' \subseteq revoked \union Bundles
  /\ passed' \in {passed, None} \/ passed' \in Bundles \ revoked'
  /\ \A v \in checking' : v \in checking \/ Checked(v)

-----------------------------------------------------------------------------
(* Sequences.                                                              *)

\* Append extends a log by one element and leaves the others where they are.
LEMMA AppendLog ==
  ASSUME NEW s, IsLog(s), NEW x
  PROVE  /\ IsLog(Append(s, x))
         /\ Len(s) \in Nat
         /\ Len(Append(s, x)) = Len(s) + 1
         /\ \A i \in 1..Len(s) : Append(s, x)[i] = s[i]
         /\ Append(s, x)[Len(s) + 1] = x
<1>1. PICK R : s \in Seq(R)
  BY DEF IsLog
<1> DEFINE S == R \union {x}
<1>2. s \in Seq(S) /\ x \in S
  <2>1. R \subseteq S /\ x \in S
    OBVIOUS
  <2> HIDE DEF S
  <2> QED BY <1>1, <2>1
<1> HIDE DEF S
<1>3. /\ Append(s, x) \in Seq(S)
      /\ Len(s) \in Nat
      /\ Len(Append(s, x)) = Len(s) + 1
      /\ \A i \in 1..Len(s) : Append(s, x)[i] = s[i]
      /\ Append(s, x)[Len(s) + 1] = x
  BY <1>2
<1> QED BY <1>3 DEF IsLog

-----------------------------------------------------------------------------
(* Every step is an append of a checked row, part of a restart, or neither. *)

\* _agent_gate: what AgentWrite appends behind the gate is a checked row.
LEMMA AgentAppends ==
  ASSUME TypeInv, NEW s \in Sessions, NEW e \in Episodes, NEW c,
         NEW kind \in AGENT_KINDS, NEW body,
         AgentGate(s, e, kind), AgentWrite(s, e, kind, c, body),
         kind = "verdict" => /\ Candidates(records[e]) # {}
                             /\ body.target = UnderJudgement(records[e]).body.id,
         kind = "report" => records[e].state = "reporting" \/ body.which = "closure"
  PROVE  Appends
<1> DEFINE row == Entry(kind, CapOf[s].role, s, <<kind, s, c>>, body)
<1>1. CapOf[s].role \in ROLES
  BY ConstantsAssumption
<1>2. kind # "opened" /\ kind # "state" /\ kind \in KINDS
  BY DEF AGENT_KINDS, KINDS
<1>3. Len(entries[e]) # 0 /\ phase = "serving"
  BY DEF AgentGate, TokenGate, Serving, TypeInv, MemInv, UpToDate
<1>4. /\ row.kind = kind /\ row.by = CapOf[s].role /\ row.key = <<kind, s, c>>
      /\ row.body = body
  BY DEF Entry
<1>5. Fresh(e, <<kind, s, c>>) /\ Write(e, row, checking)
  BY DEF AgentWrite
<1> HIDE DEF row
<1>6. Gated(e, row)
  <2>1. records[e].state \in ToolStates(kind) /\ records[e].bundle = passed
    BY DEF AgentGate, TokenGate
  <2>2. /\ kind \in {"hypothesis", "hypothesis_status", "recommendation", "no_action", "verdict"} =>
             records[e].state \notin TERMINAL
        /\ kind \in {"recommendation", "no_action"} => records[e].state = "recommending"
        /\ kind = "verdict" => records[e].state = "judging"
    BY <2>1 DEF ToolStates, TERMINAL
  <2>3. kind = "report" /\ records[e].state \in TERMINAL => body.which = "closure"
    BY DEF TERMINAL
  <2> QED BY <1>2, <1>4, <2>1, <2>2, <2>3 DEF Gated, AfterEnd, AGENT_KINDS
<1>7. RowOK(e, row)
  BY <1>1, <1>2, <1>3, <1>4, <1>5, <1>6 DEF RowOK, Principals
<1> QED BY <1>5, <1>7 DEF Appends

\* The other operations on an episode that exists.
LEMMA PlainAppends ==
  ASSUME TypeInv, NEW e \in Episodes, NEW kind \in BookKinds \union {"signal"},
         NEW by \in Principals, NEW s, NEW key, NEW body, NEW left \in SUBSET checking,
         Serving(e), Fresh(e, key), Write(e, Entry(kind, by, s, key, body), left),
         kind = "signal" => records[e].state \notin TERMINAL,
         kind = "verification" => \E v \in checking : v.episode = e /\ v.rev = key[3],
         by = "observer_broker" => records[e].bundle = passed
  PROVE  Appends
<1> DEFINE row == Entry(kind, by, s, key, body)
<1>1. Len(entries[e]) # 0 /\ phase = "serving"
  BY DEF Serving, TypeInv, MemInv, UpToDate
<1>2. row.kind = kind /\ row.by = by /\ row.key = key
  BY DEF Entry
<1>3. Write(e, row, left)
  OBVIOUS
<1>4. kind \in KINDS \ {"opened", "state"} /\ kind \notin AGENT_KINDS
  BY DEF BookKinds, KINDS, AGENT_KINDS
<1> HIDE DEF row
<1>5. Gated(e, row)
  BY <1>2, <1>4 DEF Gated, AfterEnd, AGENT_KINDS, BookKinds
<1>6. RowOK(e, row)
  BY <1>1, <1>2, <1>4, <1>5 DEF RowOK
<1> QED BY <1>3, <1>6 DEF Appends

\* _simple: bookkeeping rows.
LEMMA SimpleAppends ==
  ASSUME TypeInv, NEW e \in Episodes, NEW kind \in BookKinds,
         NEW by \in {"controller", "verifier"}, NEW s, NEW key, NEW body,
         Simple(e, kind, by, s, key, body), kind # "verification"
  PROVE  Appends
<1>1. by \in Principals /\ by # "observer_broker" /\ kind # "signal"
  BY DEF Principals, BookKinds
<1>2. Serving(e) /\ Fresh(e, key) /\ Write(e, Entry(kind, by, s, key, body), checking)
  BY DEF Simple, Idle
<1> QED BY <1>1, <1>2, PlainAppends

\* Signals, of the sentinel and of the observer broker.
LEMMA SignalAppends ==
  ASSUME TypeInv, NEW e \in Episodes, NEW by \in Principals, NEW s, NEW key,
         Serving(e), SignalWrite(e, by, s, key),
         by = "observer_broker" => records[e].bundle = passed
  PROVE  Appends
<1> DEFINE body == [id |-> NextId(records[e], "signal")]
<1>1. /\ Fresh(e, key) /\ records[e].state \notin TERMINAL
      /\ Write(e, Entry("signal", by, s, key, body), checking)
  BY DEF SignalWrite
<1> HIDE DEF body
<1> QED BY <1>1, PlainAppends

\* set_state, by either principal.
LEMMA SetStateAppends ==
  ASSUME TypeInv, NEW e \in Episodes, NEW by \in {"controller", "verifier"},
         NEW to \in STATES, NEW expected, SetState(by, e, to, expected)
  PROVE  Appends
<1> DEFINE row == StateRow(by, e, to, expected)
<1>1. Len(entries[e]) # 0 /\ phase = "serving"
  BY DEF SetState, Idle, Serving, TypeInv, MemInv, UpToDate
<1>2. /\ row.kind = "state" /\ row.by = by /\ row.key = <<"state", to, expected>>
      /\ row.body.to = to /\ row.body.from = records[e].state
  BY DEF StateRow, Entry
<1>3. row.key[3] = expected
  BY <1>2
<1>4. /\ Fresh(e, <<"state", to, expected>>) /\ expected = records[e].rev
      /\ Allowed(by, records[e].state, to) /\ Write(e, row, checking)
      /\ records[e].state \notin TERMINAL
  BY DEF SetState
<1> HIDE DEF row
<1>5. Gated(e, row)
  BY <1>2, <1>4 DEF Gated, AGENT_KINDS
<1>6. RowOK(e, row)
  BY <1>1, <1>2, <1>3, <1>4, <1>5 DEF RowOK, KINDS, Principals
<1> QED BY <1>4, <1>6 DEF Appends

\* open_episode when no live episode has the key.
LEMMA OpenAppends ==
  ASSUME TypeInv, NEW e \in Episodes, NEW dk \in DedupeKeys, NEW b, NEW mode, NEW key,
         OpenNew(dk, b, mode, key, e)
  PROVE  Appends
<1> DEFINE row == Entry("opened", "controller", None, key,
                        [to |-> "open", dk |-> dk, bundle |-> b, mode |-> mode])
<1>1. /\ phase = "serving" /\ entries[e] = <<>> /\ Write(e, row, checking)
      /\ LiveWith(dk) = {} /\ b = passed
  BY DEF OpenNew
<1>2. Len(entries[e]) = 0
  BY <1>1
<1>3. /\ row.kind = "opened" /\ row.by = "controller" /\ row.key = key
      /\ row.body.to = "open" /\ row.body.dk = dk /\ row.body.bundle = b
  BY DEF Entry
<1>4. Fresh(e, key)
  BY <1>2 DEF Fresh
<1> HIDE DEF row
<1>5. Gated(e, row)
  BY <1>1, <1>3 DEF Gated, AGENT_KINDS
<1>6. RowOK(e, row)
  BY <1>1, <1>2, <1>3, <1>4, <1>5 DEF RowOK, KINDS, Principals
<1> QED BY <1>1, <1>6 DEF Appends

\* The calls of one worker session.
LEMMA AgentCallAppends ==
  ASSUME TypeInv, NEW s \in Sessions, NEW e \in Episodes, NEW c, AgentCall(s, e, c)
  PROVE  Appends
<1>1. CASE \E rank \in Ranks : AppendHypothesis(s, e, c, rank)
  <2>1. PICK rank \in Ranks : AppendHypothesis(s, e, c, rank)
    BY <1>1
  <2> QED BY <2>1, AgentAppends DEF AppendHypothesis, AGENT_KINDS
<1>2. CASE \E hid \in Numbers, status \in {"supported", "refuted"}, refs \in SUBSET Numbers :
             AppendHypothesisStatus(s, e, c, hid, status, refs)
  <2>1. PICK hid \in Numbers, status \in {"supported", "refuted"}, refs \in SUBSET Numbers :
          AppendHypothesisStatus(s, e, c, hid, status, refs)
    BY <1>2
  <2> QED BY <2>1, AgentAppends DEF AppendHypothesisStatus, AGENT_KINDS
<1>3. CASE \E hid \in Numbers, skill \in Skills, refs \in SUBSET Numbers :
             AppendRecommendation(s, e, c, hid, skill, refs)
  <2>1. PICK hid \in Numbers, skill \in Skills, refs \in SUBSET Numbers :
          AppendRecommendation(s, e, c, hid, skill, refs)
    BY <1>3
  <2> QED BY <2>1, AgentAppends DEF AppendRecommendation, AGENT_KINDS
<1>4. CASE \E refs \in SUBSET Numbers : AppendNoAction(s, e, c, refs)
  <2>1. PICK refs \in SUBSET Numbers : AppendNoAction(s, e, c, refs)
    BY <1>4
  <2> QED BY <2>1, AgentAppends DEF AppendNoAction, AGENT_KINDS
<1>5. CASE \E target \in {"r", "n"} \X Numbers, result \in {"PASS", "FAIL"} :
             AppendVerdict(s, e, c, target, result)
  <2>1. PICK target \in {"r", "n"} \X Numbers, result \in {"PASS", "FAIL"} :
          AppendVerdict(s, e, c, target, result)
    BY <1>5
  <2> QED BY <2>1, AgentAppends DEF AppendVerdict, AGENT_KINDS
<1>6. CASE \E which \in {"incident", "closure"} : AppendReport(s, e, c, which)
  <2>1. PICK which \in {"incident", "closure"} : AppendReport(s, e, c, which)
    BY <1>6
  <2> QED BY <2>1, AgentAppends DEF AppendReport, AGENT_KINDS
<1>7. CASE AppendObservation(s, e, c)
  BY <1>7, SignalAppends DEF AppendObservation, TokenGate, Principals
<1> QED BY <1>1, <1>2, <1>3, <1>4, <1>5, <1>6, <1>7 DEF AgentCall

\* A call of store-control appends one row that its gate let through, or none.
LEMMA ControlCallCases ==
  ASSUME TypeInv, NEW e \in Episodes, ControlCall(e)
  PROVE  Appends \/ Aside
<1>1. CASE \E dk \in DedupeKeys, b \in Bundles, c \in Calls :
             OpenDeduplicated(dk, b, <<"open", dk, c>>, e)
  BY <1>1 DEF OpenDeduplicated, Aside, TypeInv, MemInv
<1>2. CASE \E dk \in DedupeKeys, b \in Bundles, c \in Calls, mode \in OpenModes :
             OpenNew(dk, b, mode, <<"open", dk, c>>, e)
  <2>1. PICK dk \in DedupeKeys, b \in Bundles, c \in Calls, mode \in OpenModes :
          OpenNew(dk, b, mode, <<"open", dk, c>>, e)
    BY <1>2
  <2> QED BY <2>1, OpenAppends
<1>3. CASE \E to \in STATES, expected \in 0..MaxRev : SetState("controller", e, to, expected)
  <2>1. PICK to \in STATES, expected \in 0..MaxRev : SetState("controller", e, to, expected)
    BY <1>3
  <2> QED BY <2>1, SetStateAppends
<1>4. CASE \E c \in Calls : AppendSignal(e, c)
  BY <1>4, SignalAppends DEF AppendSignal, Idle, Principals
<1>5. CASE \E c \in Calls : Annotate(e, c)
  BY <1>5, SimpleAppends DEF Annotate, BookKinds
<1>6. CASE \E s \in Sessions : AppendCost(s, e)
  BY <1>6, SimpleAppends DEF AppendCost, BookKinds
<1>7. CASE \E s \in Sessions, outcome \in {"ok", "failed"} : AppendStep(s, e, outcome)
  <2>1. PICK s \in Sessions, outcome \in {"ok", "failed"} : AppendStep(s, e, outcome)
    BY <1>7
  <2> QED BY <2>1, SimpleAppends DEF AppendStep, BookKinds
<1> QED BY <1>1, <1>2, <1>3, <1>4, <1>5, <1>6, <1>7 DEF ControlCall

\* So does a call of store-verify.
LEMMA VerifierCallCases ==
  ASSUME TypeInv, NEW e \in Episodes, VerifierCall(e)
  PROVE  Appends \/ Aside
<1>1. CASE \E expected \in 0..MaxRev : SetState("verifier", e, "resolved", expected)
  BY <1>1, SetStateAppends DEF STATES, TERMINAL
<1>2. CASE \E rule \in Rules, c \in Calls : AppendRecoveryObservation(e, rule, c)
  BY <1>2, SimpleAppends DEF AppendRecoveryObservation, BookKinds
<1>3. CASE \E rule \in Rules, rev \in 1..MaxRev : CheckVerification(e, rule, rev)
  <2>1. PICK rule \in Rules, rev \in 1..MaxRev : CheckVerification(e, rule, rev)
    BY <1>3
  <2> DEFINE v == [episode |-> e, rule |-> rule, rev |-> rev]
  <2>2. /\ UNCHANGED <<entries, audited, records, phase, passed, revoked, late, faults>>
        /\ checking' = checking \union {v}
    BY <2>1 DEF CheckVerification, durable, gate
  <2>3. Checked(v)
    BY <2>1 DEF CheckVerification, Idle, Checked
  <2> HIDE DEF v
  <2> QED BY <2>2, <2>3 DEF Aside
<1> QED BY <1>1, <1>2, <1>3 DEF VerifierCall

\* The second lock section of append_verification appends one row, or none if
\* its key is taken.
LEMMA WriteVerificationCases ==
  ASSUME TypeInv, NEW v \in checking, WriteVerification(v)
  PROVE  Appends \/ Aside
<1> DEFINE key == <<"verif", v.rule, v.rev>>
           body == [rule |-> v.rule]
<1>1. v.episode \in Episodes /\ Serving(v.episode) /\ key[3] = v.rev
  BY DEF TypeInv, MemInv, WriteVerification, Idle
<1>2. CASE /\ Fresh(v.episode, key)
           /\ Write(v.episode, Entry("verification", "verifier", None, key, body), checking \ {v})
  <2>1. "verification" \in BookKinds /\ "verifier" \in Principals
    BY DEF BookKinds, Principals
  <2> HIDE DEF key, body
  <2> QED BY <1>1, <1>2, <2>1, PlainAppends
<1>3. CASE checking' = checking \ {v} /\ UNCHANGED <<entries, audited, records, phase, gate, faults>>
  BY <1>3 DEF Aside, gate
<1> QED BY <1>2, <1>3 DEF WriteVerification

\* Every step of the store is one of these.
LEMMA NextCases ==
  ASSUME TypeInv, [Next]_vars
  PROVE  \/ Appends
         \/ Aside
         \/ Crash
         \/ Serve
         \/ \E e \in Episodes : RebuildRow(e)
<1>1. ASSUME NEW e \in Episodes, NEW s \in Sessions, NEW c \in Calls, AgentCall(s, e, c)
      PROVE  Appends
  BY <1>1, AgentCallAppends
<1>2. ASSUME NEW b \in Bundles, RevokeBundle(b) \/ BundleOk(b)
      PROVE  Aside
  BY <1>2 DEF RevokeBundle, BundleOk, Aside, durable
<1>3. CASE Leave
  BY <1>3 DEF Leave, Aside, durable
<1>4. CASE UNCHANGED vars
  BY <1>4 DEF vars, gate, Aside
<1> QED
  BY <1>1, <1>2, <1>3, <1>4, ControlCallCases, VerifierCallCases, WriteVerificationCases DEF Next

-----------------------------------------------------------------------------
(* What an append does to the log and to the memory.                       *)

\* The log of e has row at its end; nothing else changed in the table.
Grown(e, row) ==
  /\ entries' = [x \in Episodes |-> entries'[x]]
  /\ \A f \in Episodes : IsLog(entries'[f])
  /\ \A f \in Episodes \ {e} : entries'[f] = entries[f]
  /\ Len(entries[e]) \in Nat
  /\ Len(entries'[e]) = Len(entries[e]) + 1
  /\ \A i \in 1..Len(entries[e]) : entries'[e][i] = entries[e][i]
  /\ entries'[e][Len(entries[e]) + 1] = row

\* The INSERT adds the row to the end of one log.
LEMMA InsertGrows ==
  ASSUME TypeInv, NEW e \in Episodes, NEW row, Insert(e, row)
  PROVE  Grown(e, row)
<1>1. IsLog(entries[e])
  BY DEF TypeInv, LogInv
<1>2. /\ entries' = [x \in Episodes |-> entries'[x]]
      /\ entries'[e] = Append(entries[e], row)
      /\ \A f \in Episodes \ {e} : entries'[f] = entries[f]
  BY DEF Insert, TypeInv, LogInv
<1>3. /\ IsLog(entries'[e]) /\ Len(entries[e]) \in Nat
      /\ Len(entries'[e]) = Len(entries[e]) + 1
      /\ \A i \in 1..Len(entries[e]) : entries'[e][i] = entries[e][i]
      /\ entries'[e][Len(entries[e]) + 1] = row
  <2>1. /\ IsLog(Append(entries[e], row))
        /\ Len(entries[e]) \in Nat
        /\ Len(Append(entries[e], row)) = Len(entries[e]) + 1
        /\ \A i \in 1..Len(entries[e]) : Append(entries[e], row)[i] = entries[e][i]
        /\ Append(entries[e], row)[Len(entries[e]) + 1] = row
    BY <1>1, AppendLog
  <2> QED BY <2>1, <1>2, Zenon
<1>4. ASSUME NEW f \in Episodes PROVE IsLog(entries'[f])
  <2>1. CASE f = e
    BY <2>1, <1>3
  <2>2. CASE f # e
    BY <2>2, <1>2 DEF TypeInv, LogInv
  <2> QED BY <2>1, <2>2
<1> QED BY <1>2, <1>3, <1>4 DEF Grown

\* fold.apply counts the row, moves only on opened and state rows, and touches
\* only the list of the row's kind.
LEMMA ApplyShape ==
  ASSUME NEW rec, NEW row, row.kind \in KINDS, IsLists(rec.list)
  PROVE  /\ Apply(rec, row).rev = rec.rev + 1
         /\ row.kind \in {"opened", "state"} => Apply(rec, row).state = row.body.to
         /\ row.kind \notin {"opened", "state"} => Apply(rec, row).state = rec.state
         /\ IsLists(Apply(rec, row).list)
         /\ Apply(rec, row).list[row.kind] = rec.list[row.kind] \union {Item(rec.rev + 1, row)}
         /\ \A k \in KINDS \ {row.kind} : Apply(rec, row).list[k] = rec.list[k]
<1> DEFINE item == Item(rec.rev + 1, row)
<1>1. /\ Apply(rec, row).rev = rec.rev + 1
      /\ row.kind \in {"opened", "state"} => Apply(rec, row).state = row.body.to
      /\ row.kind \notin {"opened", "state"} => Apply(rec, row).state = rec.state
      /\ Apply(rec, row).list = [rec.list EXCEPT ![row.kind] = @ \union {item}]
  BY DEF Apply
<1> HIDE DEF item
<1>2. /\ IsLists(Apply(rec, row).list)
      /\ Apply(rec, row).list[row.kind] = rec.list[row.kind] \union {item}
      /\ \A k \in KINDS \ {row.kind} : Apply(rec, row).list[k] = rec.list[k]
  BY <1>1 DEF IsLists
<1> QED BY <1>1, <1>2 DEF item

-----------------------------------------------------------------------------
(* The type invariant.                                                     *)

\* The length of a log is a number.
LEMMA LogLength ==
  ASSUME NEW s, IsLog(s)
  PROVE  Len(s) \in Nat
BY DEF IsLog

\* A checked row keeps the table well formed.
LEMMA GrownLog ==
  ASSUME TypeInv, NEW e \in Episodes, NEW row, RowOK(e, row), Grown(e, row)
  PROVE  LogInv'
<1> SUFFICES ASSUME NEW f \in Episodes, NEW i \in 1..Len(entries'[f])
             PROVE  /\ entries'[f][i].kind \in KINDS /\ entries'[f][i].by \in Principals
                    /\ entries'[f][i].kind = "opened" <=> i = 1
                    /\ entries'[f][i].kind \in {"opened", "state"} =>
                         entries'[f][i].body.to \in STATES
  BY DEF LogInv, Grown, Rows, Row
<1>1. CASE f # e
  BY <1>1 DEF TypeInv, LogInv, Grown, Rows, Row
<1>2. CASE f = e /\ i \in 1..Len(entries[e])
  BY <1>2 DEF TypeInv, LogInv, Grown, Rows, Row
<1>3. CASE f = e /\ i = Len(entries[e]) + 1
  <2>1. entries'[f][i] = row /\ Len(entries[e]) \in Nat
    BY <1>3 DEF Grown
  <2>2. "open" \in STATES
    BY DEF STATES, NONTERMINAL
  <2> QED BY <1>3, <2>1, <2>2 DEF RowOK
<1>4. i \in 1..Len(entries[e]) \/ i = Len(entries[e]) + 1 \/ f # e
  BY DEF Grown
<1> QED BY <1>1, <1>2, <1>3, <1>4

\* A crash wipes the memory, which is correct for any log.
LEMMA WipedMemory ==
  ASSUME TypeInv, LogInv', Crashing, UNCHANGED revoked
  PROVE  MemInv'
<1>1. \A e \in Episodes : Len(entries'[e]) \in Nat
  BY LogLength DEF LogInv
<1>2. \A e \in Episodes : records'[e] = EmptyRecord
  BY DEF Crashing, Faulting
<1>3. \A n \in Nat : RecordShape(EmptyRecord, n)
  BY DEF EmptyRecord, RecordShape, IsLists
<1>4. faults' \in 0..MaxFaults
  BY ConstantsAssumption DEF Crashing, Faulting, TypeInv, MemInv
<1>5. /\ records' = [e \in Episodes |-> records'[e]]
      /\ phase' = "rebuilding" /\ checking' = {} /\ passed' = None
  BY DEF Crashing, Faulting
<1>6. \A e \in Episodes : RecordShape(records'[e], Len(entries'[e]))
  BY <1>1, <1>2, <1>3
<1> QED BY <1>4, <1>5, <1>6 DEF MemInv, UpToDate, TypeInv

\* An INSERT that fails leaves the memory as it was.
LEMMA KeptMemory ==
  ASSUME TypeInv, Faulting, checking' \subseteq checking, passed' = None,
         UNCHANGED <<entries, records, phase, revoked>>
  PROVE  MemInv'
<1>1. faults' \in 0..MaxFaults
  BY ConstantsAssumption DEF Faulting, TypeInv, MemInv
<1> QED BY <1>1 DEF TypeInv, MemInv, UpToDate

\* fold.apply on a record that is behind its log.
LEMMA AppliedShape ==
  ASSUME NEW rec, NEW row, NEW n \in Nat, RecordShape(rec, n),
         row.kind \in KINDS,
         row.kind \in {"opened", "state"} => row.body.to \in STATES
  PROVE  RecordShape(Apply(rec, row), n + 1)
<1>1. /\ Apply(rec, row).rev = rec.rev + 1
      /\ row.kind \in {"opened", "state"} => Apply(rec, row).state = row.body.to
      /\ row.kind \notin {"opened", "state"} => Apply(rec, row).state = rec.state
      /\ IsLists(Apply(rec, row).list)
  BY ApplyShape DEF RecordShape
<1> QED BY <1>1 DEF RecordShape

\* _append that runs to its end.
LEMMA AppliedMemory ==
  ASSUME TypeInv, NEW e \in Episodes, NEW row, RowOK(e, row), Grown(e, row),
         records' = [records EXCEPT ![e] = Apply(@, row)],
         checking' \subseteq checking, passed' = None, UNCHANGED <<phase, faults, revoked>>
  PROVE  MemInv'
<1>1. /\ records' = [f \in Episodes |-> records'[f]]
      /\ records'[e] = Apply(records[e], row)
      /\ \A f \in Episodes \ {e} : records'[f] = records[f]
  BY DEF TypeInv, MemInv
<1>2. "open" \in STATES
  BY DEF STATES, NONTERMINAL
<1>3. RecordShape(records'[e], Len(entries'[e])) /\ records'[e].rev = Len(entries'[e])
  <2>1. Len(entries[e]) \in Nat /\ Len(entries'[e]) = Len(entries[e]) + 1
    BY DEF Grown
  <2>2. records[e].rev = Len(entries[e]) /\ RecordShape(records[e], Len(entries[e]))
    BY DEF TypeInv, MemInv, UpToDate, RowOK
  <2>3. row.kind \in KINDS /\ (row.kind \in {"opened", "state"} => row.body.to \in STATES)
    BY <1>2 DEF RowOK
  <2>4. RecordShape(Apply(records[e], row), Len(entries[e]) + 1)
    BY <2>1, <2>2, <2>3, AppliedShape
  <2>5. Apply(records[e], row).rev = records[e].rev + 1
    BY DEF Apply
  <2> QED BY <1>1, <2>1, <2>2, <2>4, <2>5
<1>4. \A f \in Episodes : RecordShape(records'[f], Len(entries'[f])) /\ records'[f].rev = Len(entries'[f])
  BY <1>1, <1>3 DEF TypeInv, MemInv, UpToDate, Grown, RowOK
<1> QED BY <1>1, <1>4 DEF TypeInv, MemInv, UpToDate

\* A store that starts on an empty database satisfies the invariant.
LEMMA TypeInit == Init => TypeInv
<1> SUFFICES ASSUME Init PROVE TypeInv
  OBVIOUS
<1>1. \A e \in Episodes : entries[e] = <<>> /\ records[e] = EmptyRecord
  BY DEF Init
<1>2. IsLog(<<>>) /\ Len(<<>>) = 0
  BY DEF IsLog
<1>3. LogInv
  BY <1>1, <1>2 DEF LogInv, Init, Rows
<1>4. RecordShape(EmptyRecord, 0)
  BY DEF RecordShape, EmptyRecord, IsLists
<1>5. MemInv
  BY <1>1, <1>2, <1>4, ConstantsAssumption DEF MemInv, Init, UpToDate
<1> QED BY <1>3, <1>5 DEF TypeInv

\* Every step of the store preserves it: one case per kind of step.
LEMMA TypeStep == TypeInv /\ [Next]_vars => TypeInv'
<1> SUFFICES ASSUME TypeInv, [Next]_vars PROVE TypeInv'
  OBVIOUS
<1>0. UNCHANGED entries => LogInv'
  BY DEF TypeInv, LogInv, Rows, Row
<1>1. CASE Appends
  <2>0. PICK e \in Episodes :
          \E row, left : RowOK(e, row) /\ left \subseteq checking /\ Write(e, row, left)
    BY <1>1 DEF Appends
  <2>1. PICK row, left : RowOK(e, row) /\ left \subseteq checking /\ Write(e, row, left)
    BY <2>0
  <2>2. UNCHANGED revoked /\ passed' = None
    BY <2>1 DEF Write
  <2>3. CASE Insert(e, row) /\ records' = [records EXCEPT ![e] = Apply(@, row)]
             /\ checking' = left /\ UNCHANGED <<phase, faults>>
    BY <2>1, <2>2, <2>3, InsertGrows, GrownLog, AppliedMemory DEF TypeInv
  <2>4. CASE Insert(e, row) /\ Crashing
    BY <2>1, <2>2, <2>4, InsertGrows, GrownLog, WipedMemory DEF TypeInv
  <2>5. CASE UNCHANGED entries /\ Crashing
    BY <1>0, <2>2, <2>5, WipedMemory DEF TypeInv
  <2>6. CASE Faulting /\ checking' = left /\ UNCHANGED <<entries, records, phase>>
    BY <1>0, <2>1, <2>2, <2>6, KeptMemory DEF TypeInv
  <2> QED BY <2>1, <2>3, <2>4, <2>5, <2>6 DEF Write
<1>2. CASE Aside
  BY <1>0, <1>2 DEF TypeInv, MemInv, Aside, Checked, UpToDate
<1>3. CASE Crash
  BY <1>0, <1>3, WipedMemory DEF Crash, durable, TypeInv
<1>4. CASE Serve
  BY <1>0, <1>4 DEF Serve, durable, gate, TypeInv, MemInv, UpToDate
<1>5. ASSUME NEW e \in Episodes, RebuildRow(e) PROVE TypeInv'
  <2>1. /\ phase = "rebuilding" /\ records[e].rev < Len(entries[e])
        /\ records' = [records EXCEPT ![e] = Apply(@, entries[e][records[e].rev + 1])]
        /\ UNCHANGED <<entries, phase, checking, passed, revoked, faults>>
    BY <1>5 DEF RebuildRow, durable, gate
  <2> DEFINE n == records[e].rev
             row == entries[e][n + 1]
  <2>2. n \in Nat /\ n + 1 \in Rows(e) /\ Len(entries[e]) \in Nat /\ RecordShape(records[e], n)
    BY <2>1, LogLength DEF TypeInv, LogInv, MemInv, RecordShape, Rows
  <2>3. row.kind \in KINDS /\ (row.kind \in {"opened", "state"} => row.body.to \in STATES)
    BY <2>2 DEF TypeInv, LogInv, Row
  <2>4. RecordShape(Apply(records[e], row), n + 1)
    BY <2>2, <2>3, AppliedShape
  <2>5. RecordShape(Apply(records[e], row), Len(entries[e]))
    BY <2>1, <2>2, <2>4 DEF RecordShape
  <2>6. \A f \in Episodes : RecordShape(records'[f], Len(entries'[f]))
    BY <2>1, <2>5 DEF TypeInv, MemInv
  <2>7. records' = [f \in Episodes |-> records'[f]]
    BY <2>1 DEF TypeInv, MemInv
  <2> QED BY <1>0, <2>1, <2>6, <2>7 DEF TypeInv, MemInv, UpToDate
<1> QED BY <1>1, <1>2, <1>3, <1>4, <1>5, NextCases

\* Type correctness of the store in every reachable state: rows and records are
\* well formed, whatever interleaving of calls, crashes and rebuilds produced them.
THEOREM TypeCorrect == Spec => []TypeOK
<1>1. TypeInv => TypeOK
  BY DEF TypeInv, LogInv, MemInv, RecordShape, TypeOK
<1> QED BY <1>1, TypeInit, TypeStep, PTL DEF Spec

-----------------------------------------------------------------------------
(* The record is the fold of the log.                                      *)

\* x is refuted by the first n rows: its latest status among them says so.
RefutedIn(log, n, x) ==
  \E i \in 1..n :
    /\ log[i].kind = "hypothesis_status" /\ log[i].body.status = "refuted"
    /\ log[i].body.id = x
    /\ \A j \in 1..n : (log[j].kind = "hypothesis_status" /\ j > i) => log[j].body.id # x

Listed(log, n, k) == {Item(i, log[i]) : i \in {j \in 1..n : log[j].kind = k}}

Bound(rec, log) ==
  /\ rec.bundle = log[1].body.bundle
  /\ rec.mode = log[1].body.mode
  /\ rec.dk = log[1].body.dk

\* RecordOf, by parts.
LEMMA RecordParts ==
  ASSUME NEW rec, NEW log
  PROVE  RecordOf(rec, log) <=>
           /\ rec.rev = 0 => rec = EmptyRecord
           /\ rec.rev > 0 =>
                /\ \E i \in 1..rec.rev : MovedAt(log, rec.rev, i) /\ rec.state = log[i].body.to
                /\ Bound(rec, log)
           /\ \A k \in KINDS : rec.list[k] = Listed(log, rec.rev, k)
           /\ \A x : x \in rec.refuted <=> RefutedIn(log, rec.rev, x)
<1> DEFINE n == rec.rev
           statuses == {i \in 1..n : log[i].kind = "hypothesis_status"}
           last == {i \in statuses : /\ log[i].body.status = "refuted"
                                     /\ \A j \in statuses :
                                          j > i => log[j].body.id # log[i].body.id}
           R == {log[i].body.id : i \in last}
<1>1. \A x : x \in R <=> RefutedIn(log, n, x)
  BY DEF RefutedIn
<1>2. rec.refuted = R <=> \A x : x \in rec.refuted <=> RefutedIn(log, n, x)
  <2> HIDE DEF R
  <2> QED BY <1>1
<1> HIDE DEF R
<1>3. RecordOf(rec, log) <=>
           /\ n = 0 => rec = EmptyRecord
           /\ n > 0 =>
                /\ \E i \in 1..n : MovedAt(log, n, i) /\ rec.state = log[i].body.to
                /\ Bound(rec, log)
           /\ \A k \in KINDS : rec.list[k] = Listed(log, n, k)
           /\ rec.refuted = R
  BY Zenon DEF RecordOf, Bound, Listed, R
<1> QED BY <1>2, <1>3

\* fold.apply carries the fold one row further.
LEMMA FoldStep ==
  ASSUME NEW rec, NEW old, NEW log, NEW row, NEW n \in Nat, n = rec.rev,
         RecordOf(rec, old), RecordShape(rec, n),
         \A i \in 1..n : log[i] = old[i],
         row = log[n + 1], row.kind \in KINDS, row.kind = "opened" <=> n = 0
  PROVE  RecordOf(Apply(rec, row), log)
<1> DEFINE new == Apply(rec, row)
<1>0. n + 1 \in Nat /\ n + 1 > 0 /\ 1..n+1 = 1..n \union {n + 1} /\ n + 1 \notin 1..n
  OBVIOUS
<1>1. /\ n > 0 =>
           /\ \E i \in 1..n : MovedAt(old, n, i) /\ rec.state = old[i].body.to
           /\ Bound(rec, old)
      /\ \A k \in KINDS : rec.list[k] = Listed(old, n, k)
      /\ \A x : x \in rec.refuted <=> RefutedIn(old, n, x)
  BY RecordParts
<1>2. /\ new.rev = n + 1
      /\ row.kind \in {"opened", "state"} => new.state = row.body.to
      /\ row.kind \notin {"opened", "state"} => new.state = rec.state
      /\ new.list[row.kind] = rec.list[row.kind] \union {Item(n + 1, row)}
      /\ \A k \in KINDS \ {row.kind} : new.list[k] = rec.list[k]
  <2>1. /\ Apply(rec, row).rev = rec.rev + 1
        /\ row.kind \in {"opened", "state"} => Apply(rec, row).state = row.body.to
        /\ row.kind \notin {"opened", "state"} => Apply(rec, row).state = rec.state
        /\ Apply(rec, row).list[row.kind] = rec.list[row.kind] \union {Item(rec.rev + 1, row)}
        /\ \A k \in KINDS \ {row.kind} : Apply(rec, row).list[k] = rec.list[k]
    <3>1. IsLists(rec.list) /\ row.kind \in KINDS
      BY DEF RecordShape
    <3>2. Apply(rec, row).rev = rec.rev + 1
      BY <3>1, ApplyShape
    <3>3. row.kind \in {"opened", "state"} => Apply(rec, row).state = row.body.to
      BY <3>1, ApplyShape
    <3>4. row.kind \notin {"opened", "state"} => Apply(rec, row).state = rec.state
      BY <3>1, ApplyShape
    <3>5. Apply(rec, row).list[row.kind] = rec.list[row.kind] \union {Item(rec.rev + 1, row)}
      BY <3>1, ApplyShape
    <3>6. \A k \in KINDS \ {row.kind} : Apply(rec, row).list[k] = rec.list[k]
      BY <3>1, ApplyShape
    <3> QED BY <3>2, <3>3, <3>4, <3>5, <3>6
  <2> QED BY <2>1
<1>3. \E i \in 1..n+1 : MovedAt(log, n + 1, i) /\ new.state = log[i].body.to
  <2>1. CASE row.kind \in {"opened", "state"}
    <3>1. MovedAt(log, n + 1, n + 1)
      BY <2>1, <1>0 DEF MovedAt
    <3> QED BY <3>1, <2>1, <1>0, <1>2
  <2>2. CASE row.kind \notin {"opened", "state"}
    <3>1. PICK i \in 1..n : MovedAt(old, n, i) /\ rec.state = old[i].body.to
      BY <1>1, <2>2
    <3>2. \A j \in i+1..n+1 : j \in i+1..n \/ j = n + 1
      OBVIOUS
    <3>3. MovedAt(log, n + 1, i)
      BY <3>1, <3>2, <2>2 DEF MovedAt
    <3> QED BY <3>1, <3>3, <2>2, <1>0, <1>2
  <2> QED BY <2>1, <2>2
<1>4. Bound(new, log)
  <2>1. CASE row.kind = "opened"
    BY <2>1 DEF Bound, Apply
  <2>2. CASE row.kind # "opened"
    <3>1. new.bundle = rec.bundle /\ new.mode = rec.mode /\ new.dk = rec.dk
      BY <2>2 DEF Apply
    <3> HIDE DEF new
    <3>2. n > 0 /\ log[1] = old[1]
      BY <2>2
    <3> QED BY <1>1, <3>1, <3>2 DEF Bound
  <2> QED BY <2>1, <2>2
<1>5. ASSUME NEW k \in KINDS PROVE new.list[k] = Listed(log, n + 1, k)
  <2>1. Listed(log, n + 1, k) = Listed(old, n, k) \union
          (IF row.kind = k THEN {Item(n + 1, row)} ELSE {})
    BY <1>0 DEF Listed
  <2>2. rec.list[k] = Listed(old, n, k)
    BY <1>1
  <2> HIDE DEF new
  <2>3. CASE k = row.kind
    BY <2>1, <2>2, <2>3, <1>2
  <2>4. CASE k # row.kind
    BY <2>1, <2>2, <2>4, <1>2
  <2> QED BY <2>3, <2>4
<1>6. ASSUME NEW x PROVE x \in new.refuted <=> RefutedIn(log, n + 1, x)
  <2>1. RefutedIn(old, n, x) <=> RefutedIn(log, n, x)
    BY DEF RefutedIn
  <2>2. CASE row.kind # "hypothesis_status"
    <3>1. new.refuted = rec.refuted
      BY <2>2 DEF Apply
    <3>2. RefutedIn(log, n, x) <=> RefutedIn(log, n + 1, x)
      BY <2>2, <1>0 DEF RefutedIn
    <3> QED BY <3>1, <3>2, <2>1, <1>1
  <2>3. CASE row.kind = "hypothesis_status" /\ row.body.id # x
    <3>1. x \in new.refuted <=> x \in rec.refuted
      BY <2>3 DEF Apply
    <3>2. RefutedIn(log, n, x) <=> RefutedIn(log, n + 1, x)
      BY <2>3, <1>0 DEF RefutedIn
    <3> QED BY <3>1, <3>2, <2>1, <1>1
  <2>4. CASE row.kind = "hypothesis_status" /\ row.body.id = x
    <3>1. x \in new.refuted <=> row.body.status = "refuted"
      BY <2>4 DEF Apply
    <3>2. RefutedIn(log, n + 1, x) <=> row.body.status = "refuted"
      BY <2>4, <1>0 DEF RefutedIn
    <3> QED BY <3>1, <3>2
  <2> QED BY <2>2, <2>3, <2>4
<1> HIDE DEF new
<1>7. new.rev # 0 /\ new.rev > 0
  BY <1>0, <1>2
<1>8. RecordOf(new, log)
  BY <1>2, <1>3, <1>4, <1>5, <1>6, <1>7, RecordParts
<1> QED BY <1>8 DEF new

Folded == \A e \in Episodes : RecordOf(records[e], entries[e])

\* A wiped record is the fold of no row, whatever the log.
LEMMA EmptyFold == \A log : RecordOf(EmptyRecord, log)
<1> TAKE log
<1>1. EmptyRecord.rev = 0 /\ EmptyRecord.refuted = {} /\ \A k \in KINDS : EmptyRecord.list[k] = {}
  BY DEF EmptyRecord
<1>2. (\A k \in KINDS : Listed(log, 0, k) = {}) /\ (\A x : ~RefutedIn(log, 0, x))
  BY DEF Listed, RefutedIn
<1>3. /\ EmptyRecord.rev = 0 => EmptyRecord = EmptyRecord
      /\ ~(EmptyRecord.rev > 0)
      /\ \A k \in KINDS : EmptyRecord.list[k] = Listed(log, EmptyRecord.rev, k)
      /\ \A x : x \in EmptyRecord.refuted <=> RefutedIn(log, EmptyRecord.rev, x)
  BY <1>1, <1>2
<1> QED BY <1>3, RecordParts, Zenon

\* Every step keeps each record the fold of the rows it has applied.
LEMMA FoldedStep == TypeInv /\ Folded /\ [Next]_vars => Folded'
<1> SUFFICES ASSUME TypeInv, Folded, [Next]_vars, NEW f \in Episodes
             PROVE  RecordOf(records'[f], entries'[f])
  BY DEF Folded
<1>0. Crashing => RecordOf(records'[f], entries'[f])
  BY EmptyFold DEF Crashing
<1>1. CASE Appends
  <2>0. PICK e \in Episodes :
          \E row, left : RowOK(e, row) /\ left \subseteq checking /\ Write(e, row, left)
    BY <1>1 DEF Appends
  <2>1. PICK row, left : RowOK(e, row) /\ left \subseteq checking /\ Write(e, row, left)
    BY <2>0
  <2>2. CASE Insert(e, row) /\ records' = [records EXCEPT ![e] = Apply(@, row)]
    <3>1. Grown(e, row)
      BY <2>2, InsertGrows
    <3>2. CASE f # e
      BY <2>2, <3>1, <3>2 DEF Folded, Grown, TypeInv, MemInv
    <3>3. CASE f = e
      <4> DEFINE n == Len(entries[e])
      <4>1. n \in Nat /\ n = records[e].rev /\ RecordShape(records[e], n)
        BY <2>1, <3>1 DEF TypeInv, MemInv, UpToDate, RowOK, Grown
      <4>2. (\A i \in 1..n : entries'[e][i] = entries[e][i]) /\ entries'[e][n + 1] = row
        BY <3>1 DEF Grown
      <4>3. row.kind \in KINDS /\ (row.kind = "opened" <=> n = 0)
        BY <2>1 DEF RowOK
      <4>4. RecordOf(records[e], entries[e])
        BY DEF Folded
      <4> HIDE DEF n
      <4>5. RecordOf(Apply(records[e], row), entries'[e])
        BY <4>1, <4>2, <4>3, <4>4, FoldStep
      <4> QED BY <2>2, <3>3, <4>5 DEF TypeInv, MemInv
    <3> QED BY <3>2, <3>3
  <2>3. CASE UNCHANGED <<entries, records>>
    BY <2>3 DEF Folded
  <2> QED BY <1>0, <2>1, <2>2, <2>3 DEF Write
<1>2. CASE Aside
  BY <1>2 DEF Aside, Folded
<1>3. CASE Crash
  BY <1>0, <1>3 DEF Crash
<1>4. CASE Serve
  BY <1>4 DEF Serve, durable, Folded
<1>5. ASSUME NEW e \in Episodes, RebuildRow(e)
      PROVE  RecordOf(records'[f], entries'[f])
  <2> DEFINE n == records[e].rev
             row == entries[e][n + 1]
  <2>1. n < Len(entries[e]) /\ records' = [records EXCEPT ![e] = Apply(@, row)]
        /\ UNCHANGED entries
    BY <1>5 DEF RebuildRow, durable
  <2>2. n \in Nat /\ n + 1 \in Rows(e) /\ RecordShape(records[e], n)
    BY <2>1, LogLength DEF TypeInv, LogInv, MemInv, RecordShape, Rows
  <2>3. row.kind \in KINDS /\ (row.kind = "opened" <=> n = 0)
    BY <2>2 DEF TypeInv, LogInv, Row
  <2>4. RecordOf(records[e], entries[e])
    BY DEF Folded
  <2>5. n = records[e].rev /\ row = entries[e][n + 1]
    OBVIOUS
  <2> HIDE DEF n, row
  <2>6. RecordOf(Apply(records[e], row), entries[e])
    BY <2>2, <2>3, <2>4, <2>5, FoldStep
  <2> QED BY <2>1, <2>6 DEF Folded, TypeInv, MemInv
<1> QED BY <1>1, <1>2, <1>3, <1>4, <1>5, NextCases

\* Empty records are folds of no rows.
LEMMA FoldedInit == Init => Folded
BY EmptyFold DEF Init, Folded

\* The record that the store serves is the fold of its log in every reachable
\* state: after every write, in the middle of a rebuild, and after a crash that
\* separated the INSERT from fold.apply.
THEOREM RecordIsFold == Spec => []RecordMatchesLog
<1>1. TypeInv /\ Folded => RecordMatchesLog
  BY DEF TypeInv, MemInv, UpToDate, Folded, RecordMatchesLog
<1> QED BY <1>1, TypeInit, TypeStep, FoldedInit, FoldedStep, PTL DEF Spec

-----------------------------------------------------------------------------
(* Properties of the rows.                                                 *)

\* A row is appended by a step that submits it to the audit.
LEMMA AuditStep == TypeInv /\ AuditCoversLog /\ [Next]_vars => AuditCoversLog'
<1> SUFFICES ASSUME TypeInv, AuditCoversLog, [Next]_vars PROVE AuditCoversLog'
  OBVIOUS
<1>0. audited \subseteq audited' /\ UNCHANGED entries => AuditCoversLog'
  BY DEF AuditCoversLog, Rows, Row
<1>1. CASE Appends
  <2>0. PICK e \in Episodes :
          \E row, left : RowOK(e, row) /\ left \subseteq checking /\ Write(e, row, left)
    BY <1>1 DEF Appends
  <2>1. PICK row, left : RowOK(e, row) /\ left \subseteq checking /\ Write(e, row, left)
    BY <2>0
  <2>2. audited' = audited \union {<<e, Len(entries[e]) + 1, row.kind>>}
    BY <2>1 DEF Write, Submit, RowOK, TypeInv, MemInv, UpToDate
  <2>3. CASE UNCHANGED entries
    BY <1>0, <2>2, <2>3
  <2>4. CASE Insert(e, row)
    <3>1. Grown(e, row)
      BY <2>4, InsertGrows
    <3> SUFFICES ASSUME NEW f \in Episodes, NEW i \in 1..Len(entries'[f])
                 PROVE  <<f, i, entries'[f][i].kind>> \in audited'
      BY DEF AuditCoversLog, Rows, Row
    <3>2. CASE f # e \/ i \in 1..Len(entries[e])
      BY <2>2, <3>1, <3>2 DEF AuditCoversLog, Grown, Rows, Row
    <3>3. CASE f = e /\ i = Len(entries[e]) + 1
      BY <2>2, <3>1, <3>3 DEF Grown
    <3> QED BY <3>1, <3>2, <3>3 DEF Grown
  <2> QED BY <2>1, <2>3, <2>4 DEF Write
<1> QED BY <1>0, <1>1, NextCases DEF Aside, Crash, Serve, RebuildRow, durable

\* No row without its submission to the audit sequencer, whichever step of
\* _append a crash interrupts.
THEOREM AuditCoverage == Spec => []AuditCoversLog
<1>1. Init => AuditCoversLog
  <2>1. Len(<<>>) = 0
    OBVIOUS
  <2> QED BY <2>1 DEF Init, AuditCoversLog, Rows
<1> QED BY <1>1, TypeInit, TypeStep, AuditStep, PTL DEF Spec

\* A row is only appended under a key that names none.
LEMMA KeysStep == TypeInv /\ KeysNameOneRow /\ [Next]_vars => KeysNameOneRow'
<1> SUFFICES ASSUME TypeInv, KeysNameOneRow, [Next]_vars PROVE KeysNameOneRow'
  OBVIOUS
<1>0. UNCHANGED entries => KeysNameOneRow'
  BY DEF KeysNameOneRow, Rows, Row
<1>1. ASSUME NEW e \in Episodes, NEW row, RowOK(e, row), Insert(e, row)
      PROVE  KeysNameOneRow'
  <2>1. Grown(e, row) /\ Fresh(e, row.key)
    BY <1>1, InsertGrows DEF RowOK
  <2> SUFFICES ASSUME NEW f \in Episodes, NEW i \in 1..Len(entries'[f]),
                      NEW j \in 1..Len(entries'[f]), entries'[f][i].key = entries'[f][j].key
               PROVE  i = j
    BY DEF KeysNameOneRow, Rows, Row
  <2>2. CASE f # e
    BY <2>1, <2>2 DEF Grown, KeysNameOneRow, Rows, Row
  <2>3. CASE f = e
    BY <2>1, <2>3 DEF Grown, Fresh, KeysNameOneRow, Rows, Row
  <2> QED BY <2>2, <2>3
<1>2. CASE Appends
  BY <1>0, <1>1, <1>2 DEF Appends, Write
<1> QED BY <1>0, <1>2, NextCases DEF Aside, Crash, Serve, RebuildRow, durable

\* A duplicate delivery appends nothing: _idem and the UNIQUE constraint keep
\* every idempotency key on one row, across crashes and rebuilds.
THEOREM KeysUnique == Spec => []KeysNameOneRow
<1>1. Init => KeysNameOneRow
  <2>1. Len(<<>>) = 0
    OBVIOUS
  <2> QED BY <2>1 DEF Init, KeysNameOneRow, Rows
<1> QED BY <1>1, TypeInit, TypeStep, KeysStep, PTL DEF Spec

\* Where an episode stood depends on the rows up to there.
LEMMA MovedPrefix ==
  ASSUME NEW old, NEW new, NEW n \in Nat, NEW m \in 0..n, NEW i,
         \A j \in 1..n : new[j] = old[j]
  PROVE  MovedAt(new, m, i) <=> MovedAt(old, m, i)
BY DEF MovedAt

\* One row that the table of the principal that wrote it allows, computed from
\* the revision before it.
IsCAS(log, i) ==
  log[i].kind = "state" =>
    /\ \E j \in 1..Len(log) : MovedAt(log, i - 1, j) /\ log[j].body.to = log[i].body.from
    /\ Allowed(log[i].by, log[i].body.from, log[i].body.to)
    /\ log[i].key[3] = i - 1

\* An appended transition is a compare-and-swap; the ones before it stay so.
LEMMA CASStep == TypeInv /\ Folded /\ TransitionsAreCAS /\ [Next]_vars => TransitionsAreCAS'
<1> SUFFICES ASSUME TypeInv, Folded, TransitionsAreCAS, [Next]_vars
             PROVE  TransitionsAreCAS'
  OBVIOUS
<1>0. UNCHANGED entries => TransitionsAreCAS'
  BY DEF TransitionsAreCAS, Rows, Row
<1>1. ASSUME NEW e \in Episodes, NEW row, RowOK(e, row), Insert(e, row)
      PROVE  TransitionsAreCAS'
  <2>1. Grown(e, row)
    BY <1>1, InsertGrows
  <2> DEFINE n == Len(entries[e])
  <2>2. n \in Nat /\ Len(entries'[e]) = n + 1 /\ entries'[e][n + 1] = row
        /\ \A i \in 1..n : entries'[e][i] = entries[e][i]
    BY <2>1 DEF Grown
  <2> SUFFICES ASSUME NEW f \in Episodes, NEW i \in 1..Len(entries'[f])
               PROVE  IsCAS(entries'[f], i)
    BY DEF TransitionsAreCAS, Rows, Row, IsCAS
  <2>3. \A g \in Episodes : \A k \in 1..Len(entries[g]) : IsCAS(entries[g], k)
    BY DEF TransitionsAreCAS, Rows, Row, IsCAS
  <2>4. CASE f # e
    BY <2>1, <2>3, <2>4 DEF Grown
  <2>5. CASE f = e /\ i \in 1..n
    <3>1. IsCAS(entries[e], i)
      BY <2>3, <2>5
    <3>2. ASSUME NEW j PROVE MovedAt(entries'[e], i - 1, j) <=> MovedAt(entries[e], i - 1, j)
      <4>1. i - 1 \in 0..n
        BY <2>2, <2>5
      <4> HIDE DEF n
      <4> QED BY <4>1, <2>2, MovedPrefix
    <3>3. entries'[e][i] = entries[e][i]
          /\ (\A j \in 1..n : j \in 1..Len(entries'[e]) /\ entries'[e][j] = entries[e][j])
      BY <2>2, <2>5
    <3>4. CASE entries[e][i].kind = "state"
      <4>1. PICK j \in 1..n : MovedAt(entries[e], i - 1, j)
                              /\ entries[e][j].body.to = entries[e][i].body.from
        BY <3>1, <3>4 DEF IsCAS
      <4>2. /\ j \in 1..Len(entries'[e]) /\ MovedAt(entries'[e], i - 1, j)
            /\ entries'[e][j].body.to = entries'[e][i].body.from
        BY <3>2, <3>3, <4>1
      <4> QED BY <2>5, <3>1, <3>3, <3>4, <4>2 DEF IsCAS
    <3>5. CASE entries[e][i].kind # "state"
      BY <2>5, <3>3, <3>5 DEF IsCAS
    <3> QED BY <3>4, <3>5
  <2>6. CASE f = e /\ i = n + 1 /\ row.kind = "state"
    <3>1. n > 0 /\ records[e].rev = n
      BY <1>1, <2>2, <2>6 DEF RowOK, TypeInv, MemInv, UpToDate
    <3>2. PICK j \in 1..n : MovedAt(entries[e], n, j) /\ records[e].state = entries[e][j].body.to
      BY <3>1, RecordParts DEF Folded
    <3>3. MovedAt(entries'[e], n, j)
      <4>1. n \in 0..n
        BY <2>2
      <4> HIDE DEF n
      <4> QED BY <4>1, <2>2, <3>2, MovedPrefix
    <3>4. entries'[e][j].body.to = row.body.from
      BY <1>1, <2>2, <2>6, <3>2 DEF RowOK
    <3>5. Allowed(row.by, row.body.from, row.body.to) /\ row.key[3] = n
      BY <1>1, <2>6, <3>1 DEF RowOK
    <3>6. i - 1 = n /\ entries'[f][i] = row /\ j \in 1..Len(entries'[f])
      BY <2>2, <2>6
    <3> QED BY <2>6, <3>3, <3>4, <3>5, <3>6 DEF IsCAS
  <2>7. CASE f = e /\ i = n + 1 /\ row.kind # "state"
    BY <2>2, <2>7 DEF IsCAS
  <2> QED BY <2>2, <2>4, <2>5, <2>6, <2>7
<1>2. CASE Appends
  BY <1>0, <1>1, <1>2 DEF Appends, Write
<1> QED BY <1>0, <1>2, NextCases DEF Aside, Crash, Serve, RebuildRow, durable

\* R-7: every transition in the log starts where the episode stood, is in the
\* table of its principal and was computed from the revision just before it,
\* also when the store was rebuilt between the caller's read and its set_state.
THEOREM TransitionsCAS == Spec => []TransitionsAreCAS
<1>1. Init => TransitionsAreCAS
  <2>1. Len(<<>>) = 0
    OBVIOUS
  <2> QED BY <2>1 DEF Init, TransitionsAreCAS, Rows
<1> QED
  BY <1>1, TypeInit, TypeStep, FoldedInit, FoldedStep, CASStep, PTL DEF Spec

-----------------------------------------------------------------------------
(* Where an episode stands.                                                *)

\* Only one row is the last that moved the episode.
LEMMA MovedOnce ==
  ASSUME NEW log, NEW n \in Nat, NEW i, NEW j, MovedAt(log, n, i), MovedAt(log, n, j)
  PROVE  i = j
BY DEF MovedAt

\* A served record says where the log leaves the episode, and what it is bound to.
LEMMA Stands ==
  ASSUME TypeInv, Folded, phase = "serving", NEW e \in Episodes, Len(entries[e]) > 0
  PROVE  /\ records[e].rev = Len(entries[e])
         /\ \E i \in 1..Len(entries[e]) : MovedAt(entries[e], Len(entries[e]), i)
         /\ \A i : MovedAt(entries[e], Len(entries[e]), i) =>
                     records[e].state = entries[e][i].body.to
         /\ Bound(records[e], entries[e])
<1>1. records[e].rev = Len(entries[e]) /\ Len(entries[e]) \in Nat
  BY LogLength DEF TypeInv, LogInv, MemInv, UpToDate
<1>2. /\ \E i \in 1..Len(entries[e]) : /\ MovedAt(entries[e], Len(entries[e]), i)
                                       /\ records[e].state = entries[e][i].body.to
      /\ Bound(records[e], entries[e])
  BY <1>1, RecordParts DEF Folded
<1>3. PICK i \in 1..Len(entries[e]) : /\ MovedAt(entries[e], Len(entries[e]), i)
                                      /\ records[e].state = entries[e][i].body.to
  BY <1>2
<1>4. ASSUME NEW j, MovedAt(entries[e], Len(entries[e]), j)
      PROVE  records[e].state = entries[e][j].body.to
  BY <1>1, <1>3, <1>4, MovedOnce
<1> QED BY <1>1, <1>2, <1>3, <1>4

\* new is old with row at its end.
Extends(new, old, row) ==
  /\ Len(old) \in Nat
  /\ Len(new) = Len(old) + 1
  /\ \A i \in 1..Len(old) : new[i] = old[i]
  /\ new[Len(old) + 1] = row

\* The table grows by an append to one log.
LEMMA GrownExtends ==
  ASSUME NEW e \in Episodes, NEW row, Grown(e, row)
  PROVE  /\ Extends(entries'[e], entries[e], row)
         /\ \A f \in Episodes \ {e} : entries'[f] = entries[f]
BY DEF Grown, Extends

\* An opening or a transition is the last move; other rows leave it where it was.
LEMMA ExtendsMoves ==
  ASSUME NEW new, NEW old, NEW row, Extends(new, old, row)
  PROVE  /\ row.kind \in {"opened", "state"} => MovedAt(new, Len(new), Len(new))
         /\ row.kind \notin {"opened", "state"} =>
              \A i : MovedAt(new, Len(new), i) <=> MovedAt(old, Len(old), i)
<1> DEFINE n == Len(old)
<1>1. /\ n \in Nat /\ Len(new) = n + 1 /\ (\A i \in 1..n : new[i] = old[i])
      /\ new[n + 1] = row
  BY DEF Extends
<1> HIDE DEF n
<1>2. row.kind \in {"opened", "state"} => MovedAt(new, n + 1, n + 1)
  BY <1>1 DEF MovedAt
<1>3. ASSUME row.kind \notin {"opened", "state"}, NEW i
      PROVE  MovedAt(new, n + 1, i) <=> MovedAt(old, n, i)
  <2>1. ASSUME MovedAt(old, n, i) PROVE MovedAt(new, n + 1, i)
    <3>1. i \in 1..n /\ new[i] = old[i]
      BY <1>1, <2>1 DEF MovedAt
    <3>2. \A j \in i+1..n+1 : (j \in i+1..n /\ new[j] = old[j]) \/ new[j] = row
      BY <1>1, <3>1
    <3> QED BY <1>1, <1>3, <2>1, <3>1, <3>2 DEF MovedAt
  <2>2. ASSUME MovedAt(new, n + 1, i) PROVE MovedAt(old, n, i)
    <3>1. i \in 1..n
      BY <1>1, <1>3, <2>2 DEF MovedAt
    <3> QED BY <1>1, <2>2, <3>1 DEF MovedAt
  <2> QED BY <2>1, <2>2
<1> QED BY <1>1, <1>2, <1>3 DEF n

\* The rows of the old log, and what had moved before them, are as they were.
LEMMA ExtendsPrefix ==
  ASSUME NEW new, NEW old, NEW row, Extends(new, old, row), NEW i \in 1..Len(old) + 1, NEW j
  PROVE  MovedAt(new, i - 1, j) <=> MovedAt(old, i - 1, j)
<1>1. Len(old) \in Nat /\ i - 1 \in 0..Len(old) /\ \A k \in 1..Len(old) : new[k] = old[k]
  BY DEF Extends
<1> QED BY <1>1, MovedPrefix

\* What an append does to the places of the rows.
LEMMA ExtendsRows ==
  ASSUME NEW new, NEW old, NEW row, Extends(new, old, row)
  PROVE  /\ \A i \in 1..Len(old) : i \in 1..Len(new) /\ new[i] = old[i]
         /\ Len(old) + 1 \in 1..Len(new) /\ new[Len(old) + 1] = row
         /\ \A i \in 1..Len(new) : i \in 1..Len(old) \/ i = Len(old) + 1
         /\ \A i : \A j : MovedAt(old, i, j) /\ i \in 0..Len(old) => j \in 1..Len(old)
BY DEF Extends, MovedAt

\* A step leaves the table alone or appends a checked row to one log.
LEMMA LogStep ==
  ASSUME TypeInv, [Next]_vars
  PROVE  \/ UNCHANGED entries
         \/ \E e \in Episodes : \E row :
              /\ RowOK(e, row)
              /\ Extends(entries'[e], entries[e], row)
              /\ \A f \in Episodes \ {e} : entries'[f] = entries[f]
<1>1. ASSUME NEW e \in Episodes, NEW row, RowOK(e, row), Insert(e, row)
      PROVE  /\ Extends(entries'[e], entries[e], row)
             /\ \A f \in Episodes \ {e} : entries'[f] = entries[f]
  BY <1>1, InsertGrows, GrownExtends
<1>2. CASE Appends
  BY <1>1, <1>2 DEF Appends, Write
<1> QED BY <1>2, NextCases DEF Aside, Crash, Serve, RebuildRow, durable

\* No ended episode among the states that the first n rows left.
OpenAt(log, n) ==
  \A j \in 1..Len(log) : MovedAt(log, n, j) => log[j].body.to \notin TERMINAL

\* Row i is one that an ended episode accepts, if the episode has ended before it;
\* a verification was computed from rows before it that had not ended the episode.
Final(log, i) ==
  /\ \A j \in 1..Len(log) :
       MovedAt(log, i - 1, j) /\ log[j].body.to \in TERMINAL =>
         AfterEnd(log[i]) \/ log[i].kind = "verification"
  /\ log[i].kind = "verification" => /\ log[i].key[3] \in 0..Len(log)
                                     /\ OpenAt(log, log[i].key[3])

\* Once a row has ended the episode it stays the last that moved it.
EndedStays(log) ==
  \A i \in 0..Len(log) : \A j \in 1..Len(log) :
    MovedAt(log, i, j) /\ log[j].body.to \in TERMINAL => MovedAt(log, Len(log), j)

\* The inductive form of TerminalIsFinal: of every log, and of the verification
\* requests that are between their two lock sections.
FinalInv ==
  /\ \A e \in Episodes : EndedStays(entries[e])
  /\ \A e \in Episodes : \A i \in 1..Len(entries[e]) : Final(entries[e], i)
  /\ \A v \in checking : /\ v.rev \in 0..Len(entries[v.episode])
                         /\ OpenAt(entries[v.episode], v.rev)

\* What the first n rows say does not change when a row is appended behind them.
LEMMA OpenAtPrefix ==
  ASSUME NEW new, NEW old, NEW row, Extends(new, old, row), NEW n \in 0..Len(old),
         OpenAt(old, n)
  PROVE  OpenAt(new, n) /\ n \in 0..Len(new)
<1>1. Len(old) \in Nat /\ Len(new) = Len(old) + 1
  BY DEF Extends
<1>2. n + 1 \in 1..Len(old) + 1 /\ (n + 1) - 1 = n
  BY <1>1
<1>3. \A j : MovedAt(new, n, j) <=> MovedAt(old, n, j)
  <2> DEFINE m == n + 1
  <2>1. \A j : MovedAt(new, m - 1, j) <=> MovedAt(old, m - 1, j)
    <3> HIDE DEF m
    <3>1. m \in 1..Len(old) + 1
      BY <1>2 DEF m
    <3> QED BY <3>1, ExtendsPrefix
  <2> QED BY <1>2, <2>1
<1>4. \A j : MovedAt(old, n, j) => j \in 1..Len(old) /\ new[j] = old[j]
  BY ExtendsRows
<1> QED BY <1>1, <1>3, <1>4 DEF OpenAt

\* An append keeps the rows of its log final: the appended one is what an ended
\* episode accepts, and moves no ended episode.
LEMMA FinalAppend ==
  ASSUME TypeInv, Folded, FinalInv, NEW e \in Episodes, NEW row, RowOK(e, row),
         Extends(entries'[e], entries[e], row)
  PROVE  /\ EndedStays(entries'[e])
         /\ \A i \in 1..Len(entries'[e]) : Final(entries'[e], i)
<1> DEFINE old == entries[e]
           new == entries'[e]
<1>1. /\ Len(old) \in Nat /\ Len(new) = Len(old) + 1 /\ new[Len(old) + 1] = row
      /\ \A i \in 1..Len(old) : new[i] = old[i]
  BY DEF Extends
<1>2. \A i \in 1..Len(old) + 1 : \A j : MovedAt(new, i - 1, j) <=> MovedAt(old, i - 1, j)
  BY ExtendsPrefix
<1>3. ASSUME NEW j, MovedAt(old, Len(old), j), old[j].body.to \in TERMINAL
      PROVE  records[e].state \in TERMINAL /\ row.kind # "opened" /\ row.kind # "state"
             /\ (AfterEnd(row) \/ row.kind = "verification")
  <2>1. j \in 1..Len(old)
    BY <1>3 DEF MovedAt
  <2>2. records[e].state \in TERMINAL
    BY <1>1, <1>3, <2>1, Stands DEF RowOK
  <2>3. row.kind # "opened"
    BY <1>1, <2>1 DEF RowOK
  <2> QED BY <2>2, <2>3 DEF RowOK, Gated, AfterEnd
<1>4. EndedStays(new)
  <2> SUFFICES ASSUME NEW i \in 0..Len(new), NEW j \in 1..Len(new),
                      MovedAt(new, i, j), new[j].body.to \in TERMINAL
               PROVE  MovedAt(new, Len(new), j)
    BY DEF EndedStays
  <2>1. CASE i = Len(new)
    BY <2>1
  <2>2. CASE i # Len(new)
    <3>1. i \in 0..Len(old) /\ i + 1 \in 1..Len(old) + 1 /\ (i + 1) - 1 = i
      BY <1>1, <2>2
    <3>2. MovedAt(old, i, j)
      BY <1>2, <3>1
    <3>3. j \in 1..Len(old) /\ new[j] = old[j]
      BY <1>1, <3>1, <3>2 DEF MovedAt
    <3>4. EndedStays(old)
      BY DEF FinalInv
    <3>5. MovedAt(old, Len(old), j)
      BY <3>1, <3>2, <3>3, <3>4 DEF EndedStays
    <3>6. row.kind \notin {"opened", "state"}
      BY <1>3, <3>3, <3>5
    <3> QED BY <3>5, <3>6, ExtendsMoves
  <2> QED BY <2>1, <2>2
<1>5. ASSUME NEW i \in 1..Len(old) PROVE Final(new, i)
  <2>1. /\ Final(old, i) /\ new[i] = old[i] /\ i \in 1..Len(old) + 1
    BY <1>1 DEF FinalInv
  <2>2. \A j : MovedAt(new, i - 1, j) <=> MovedAt(old, i - 1, j)
    BY <1>2, <2>1
  <2>3. \A j : MovedAt(old, i - 1, j) => j \in 1..Len(old) /\ new[j] = old[j]
    BY <1>1 DEF MovedAt
  <2>4. old[i].kind = "verification" =>
          old[i].key[3] \in 0..Len(new) /\ OpenAt(new, old[i].key[3])
    BY <2>1, OpenAtPrefix DEF Final
  <2> HIDE DEF old, new
  <2> QED BY <2>1, <2>2, <2>3, <2>4 DEF Final
<1>6. Final(new, Len(old) + 1)
  <2>1. ASSUME NEW j \in 1..Len(new), MovedAt(new, Len(old) + 1 - 1, j),
               new[j].body.to \in TERMINAL
        PROVE  AfterEnd(row) \/ row.kind = "verification"
    <3>1. Len(old) + 1 - 1 = Len(old) /\ Len(old) + 1 \in 1..Len(old) + 1
      BY <1>1
    <3>2. MovedAt(old, Len(old), j)
      BY <1>2, <2>1, <3>1
    <3>3. new[j] = old[j]
      BY <1>1, <3>2 DEF MovedAt
    <3> QED BY <1>3, <2>1, <3>2, <3>3
  <2>2. ASSUME row.kind = "verification"
        PROVE  row.key[3] \in 0..Len(new) /\ OpenAt(new, row.key[3])
    <3>1. PICK v \in checking : v.episode = e /\ v.rev = row.key[3]
      BY <2>2 DEF RowOK, Gated
    <3>2. v.rev \in 0..Len(old) /\ OpenAt(old, v.rev)
      BY <3>1 DEF FinalInv
    <3> QED BY <3>1, <3>2, OpenAtPrefix
  <2> HIDE DEF old, new
  <2> QED BY <1>1, <2>1, <2>2 DEF Final
<1>7. \A i \in 1..Len(new) : i \in 1..Len(old) \/ i = Len(old) + 1
  BY <1>1
<1> QED BY <1>4, <1>5, <1>6, <1>7

\* A verification that passes its first lock section was computed from rows that
\* had not ended the episode: an end would have stayed.
LEMMA CheckedOpen ==
  ASSUME TypeInv, Folded, FinalInv, NEW v, Checked(v)
  PROVE  v.rev \in 0..Len(entries[v.episode]) /\ OpenAt(entries[v.episode], v.rev)
<1> DEFINE e == v.episode
           log == entries[e]
<1>1. e \in Episodes /\ phase = "serving" /\ records[e].rev > 0
      /\ v.rev \in Nat /\ v.rev <= records[e].rev /\ records[e].state \notin TERMINAL
  BY DEF Checked, Serving
<1>2. Len(log) \in Nat /\ records[e].rev = Len(log)
  BY <1>1, LogLength DEF TypeInv, LogInv, MemInv, UpToDate
<1>3. \A j : MovedAt(log, Len(log), j) => log[j].body.to \notin TERMINAL
  BY <1>1, <1>2, Stands
<1>4. EndedStays(log) /\ v.rev \in 0..Len(log)
  BY <1>1, <1>2 DEF FinalInv
<1> HIDE DEF log
<1>5. OpenAt(log, v.rev)
  BY <1>3, <1>4 DEF EndedStays, OpenAt
<1> QED BY <1>4, <1>5 DEF log

\* A step adds no verification request but one that has passed the first lock
\* section in it, and then leaves the log alone.
LEMMA CheckingStep ==
  ASSUME TypeInv, [Next]_vars
  PROVE  \/ checking' \subseteq checking
         \/ UNCHANGED entries /\ \A v \in checking' : v \in checking \/ Checked(v)
<1>1. CASE Appends
  BY <1>1 DEF Appends, Write, Crashing
<1> QED BY <1>1, NextCases DEF Aside, Crash, Crashing, Serve, RebuildRow

\* Every step keeps FinalInv.
LEMMA FinalStep == TypeInv /\ Folded /\ FinalInv /\ [Next]_vars => FinalInv'
<1> SUFFICES ASSUME TypeInv, Folded, FinalInv, [Next]_vars PROVE FinalInv'
  OBVIOUS
<1>0. \A v \in checking : v.episode \in Episodes
  BY DEF TypeInv, MemInv
<1>1. CASE UNCHANGED entries
  <2>1. \A v \in checking' : v \in checking \/ Checked(v)
    BY CheckingStep
  <2>2. \A v \in checking' : /\ v.rev \in 0..Len(entries[v.episode])
                             /\ OpenAt(entries[v.episode], v.rev)
    BY <2>1, CheckedOpen DEF FinalInv
  <2> QED BY <1>1, <2>2 DEF FinalInv
<1>2. ASSUME ~UNCHANGED entries, NEW e \in Episodes, NEW row, RowOK(e, row),
             Extends(entries'[e], entries[e], row),
             \A f \in Episodes \ {e} : entries'[f] = entries[f]
      PROVE  FinalInv'
  <2>1. checking' \subseteq checking
    BY <1>2, CheckingStep
  <2>2. /\ EndedStays(entries'[e])
        /\ \A i \in 1..Len(entries'[e]) : Final(entries'[e], i)
    BY <1>2, FinalAppend
  <2>3. \A f \in Episodes : /\ EndedStays(entries'[f])
                            /\ \A i \in 1..Len(entries'[f]) : Final(entries'[f], i)
    BY <1>2, <2>2 DEF FinalInv
  <2>4. ASSUME NEW v \in checking'
        PROVE  v.rev \in 0..Len(entries'[v.episode]) /\ OpenAt(entries'[v.episode], v.rev)
    <3>1. v \in checking /\ v.episode \in Episodes
      BY <1>0, <2>1
    <3>2. v.rev \in 0..Len(entries[v.episode]) /\ OpenAt(entries[v.episode], v.rev)
      BY <3>1 DEF FinalInv
    <3>3. CASE v.episode # e
      BY <1>2, <3>1, <3>2, <3>3
    <3>4. CASE v.episode = e
      BY <1>2, <3>2, <3>4, OpenAtPrefix
    <3> QED BY <3>3, <3>4
  <2> QED BY <2>3, <2>4 DEF FinalInv
<1> QED BY <1>1, <1>2, LogStep

\* Only closure reports, bookkeeping and observations of recovery follow the row
\* that ended an episode, next to verifications computed from a record in which it
\* was still open, for any number of calls between the two lock sections of
\* append_verification: what the gates see is where the log left the episode.
THEOREM FinalTerminal == Spec => []TerminalIsFinal
<1>1. Init => FinalInv
  <2>1. Len(<<>>) = 0
    OBVIOUS
  <2> QED BY <2>1 DEF Init, FinalInv, EndedStays
<1>2. FinalInv => TerminalIsFinal
  BY DEF FinalInv, Final, OpenAt, TerminalIsFinal, StateIn, Rows, Row
<1> QED BY <1>1, <1>2, TypeInit, TypeStep, FoldedInit, FoldedStep, FinalStep, PTL DEF Spec


-----------------------------------------------------------------------------
(* One live episode per key.                                               *)

LiveLog(log) ==
  \E i \in 1..Len(log) : MovedAt(log, Len(log), i) /\ log[i].body.to \notin TERMINAL

\* A transition out of a terminal state is in no table.
LEMMA AllowedFromLive ==
  ASSUME NEW by, NEW from, NEW to, Allowed(by, from, to)
  PROVE  from \notin TERMINAL
BY DEF Allowed, CONTROLLER, VERIFIER, TERMINAL, NONTERMINAL

\* An episode that is live in its log is one that open_episode finds.
LEMMA LiveIsFound ==
  ASSUME TypeInv, Folded, phase = "serving", NEW f \in Episodes, LiveLog(entries[f])
  PROVE  f \in LiveWith(entries[f][1].body.dk)
<1>1. PICK i \in 1..Len(entries[f]) : /\ MovedAt(entries[f], Len(entries[f]), i)
                                      /\ entries[f][i].body.to \notin TERMINAL
  BY DEF LiveLog
<1>2. Len(entries[f]) \in Nat /\ Len(entries[f]) > 0
  BY <1>1, LogLength DEF TypeInv, LogInv
<1>3. /\ records[f].rev = Len(entries[f])
      /\ records[f].state = entries[f][i].body.to
      /\ Bound(records[f], entries[f])
  BY <1>1, <1>2, Stands
<1> QED BY <1>1, <1>2, <1>3 DEF LiveWith, Live, Bound

\* An append to an episode that is there does not revive it, and leaves its key.
LEMMA AppendKeepsEnded ==
  ASSUME TypeInv, Folded, NEW e \in Episodes, NEW row, RowOK(e, row),
         Extends(entries'[e], entries[e], row), row.kind # "opened",
         LiveLog(entries'[e])
  PROVE  LiveLog(entries[e]) /\ entries'[e][1] = entries[e][1]
<1> DEFINE old == entries[e]
           new == entries'[e]
<1>1. /\ Len(old) \in Nat /\ Len(old) > 0 /\ Len(new) = Len(old) + 1
      /\ new[1] = old[1] /\ phase = "serving"
  BY DEF Extends, RowOK
<1>2. PICK i \in 1..Len(new) : MovedAt(new, Len(new), i) /\ new[i].body.to \notin TERMINAL
  BY DEF LiveLog
<1>3. CASE row.kind = "state"
  <2>1. records[e].state \notin TERMINAL
    BY <1>3, AllowedFromLive DEF RowOK
  <2>2. PICK j \in 1..Len(old) : MovedAt(old, Len(old), j)
    BY <1>1, Stands
  <2>3. records[e].state = old[j].body.to
    BY <1>1, <2>2, Stands
  <2> QED BY <1>1, <2>1, <2>2, <2>3 DEF LiveLog
<1>4. CASE row.kind # "state"
  <2>1. MovedAt(old, Len(old), i)
    BY <1>2, <1>4, ExtendsMoves
  <2>2. i \in 1..Len(old) /\ new[i] = old[i]
    BY <2>1 DEF MovedAt, Extends
  <2> QED BY <1>1, <1>2, <2>1, <2>2 DEF LiveLog
<1> QED BY <1>3, <1>4

\* An opened row has a key that no live episode has; no other row revives one.
LEMMA OneLiveStep == TypeInv /\ Folded /\ OneLivePerKey /\ [Next]_vars => OneLivePerKey'
<1> SUFFICES ASSUME TypeInv, Folded, OneLivePerKey, [Next]_vars
             PROVE  OneLivePerKey'
  OBVIOUS
<1>0. CASE UNCHANGED entries
  BY <1>0 DEF OneLivePerKey, LiveInLog, Rows, Row
<1>1. ASSUME NEW e \in Episodes, NEW row, RowOK(e, row),
             Extends(entries'[e], entries[e], row),
             \A f \in Episodes \ {e} : entries'[f] = entries[f]
      PROVE  OneLivePerKey'
  <2>1. \A g, h \in Episodes :
          /\ LiveLog(entries[g]) /\ LiveLog(entries[h])
          /\ entries[g][1].body.dk = entries[h][1].body.dk
          => g = h
    BY DEF OneLivePerKey, LiveInLog, LiveLog, Rows, Row
  <2>2. ASSUME row.kind = "opened", NEW f \in Episodes \ {e}, LiveLog(entries'[f]),
               entries'[f][1].body.dk = entries'[e][1].body.dk
        PROVE  FALSE
    <3>1. entries'[e][1] = row /\ entries'[f] = entries[f]
      BY <1>1, <2>2 DEF RowOK, Extends
    <3>2. f \in LiveWith(row.body.dk)
      BY <1>1, <2>2, <3>1, LiveIsFound DEF RowOK
    <3> QED BY <1>1, <2>2, <3>2 DEF RowOK, Gated
  <2> SUFFICES ASSUME NEW g \in Episodes, NEW h \in Episodes,
                      LiveLog(entries'[g]), LiveLog(entries'[h]),
                      entries'[g][1].body.dk = entries'[h][1].body.dk
               PROVE  g = h
    BY DEF OneLivePerKey, LiveInLog, LiveLog, Rows, Row
  <2>3. CASE row.kind = "opened"
    BY <1>1, <2>1, <2>2, <2>3
  <2>4. CASE row.kind # "opened"
    <3>1. \A f \in Episodes : LiveLog(entries'[f]) =>
            LiveLog(entries[f]) /\ entries'[f][1] = entries[f][1]
      BY <1>1, <2>4, AppendKeepsEnded
    <3> QED BY <2>1, <3>1
  <2> QED BY <2>3, <2>4
<1> QED BY <1>0, <1>1, LogStep

\* open_episode: at most one live episode per class, check and validator, however
\* open requests, transitions, crashes and rebuilds interleave.
THEOREM OneLive == Spec => []OneLivePerKey
<1>1. Init => OneLivePerKey
  <2>1. Len(<<>>) = 0
    OBVIOUS
  <2> QED BY <2>1 DEF Init, OneLivePerKey, LiveInLog, Rows
<1> QED BY <1>1, TypeInit, TypeStep, FoldedInit, FoldedStep, OneLiveStep, PTL DEF Spec

-----------------------------------------------------------------------------
(* What a verdict judges.                                                  *)

IsArtefact(row) == row.kind \in {"recommendation", "no_action"}

\* Row i, if it is an artefact, was written while the episode was recommending.
Placed(log, i) ==
  IsArtefact(log[i]) => \E j \in 1..Len(log) : /\ MovedAt(log, i - 1, j)
                                               /\ log[j].body.to = "recommending"

LastArtefact(log, a) ==
  /\ a \in 1..Len(log) /\ IsArtefact(log[a])
  /\ \A j \in a+1..Len(log) : ~IsArtefact(log[j])

\* The property of row i, if it is a verdict.
Judged(log, i) ==
  log[i].kind = "verdict" =>
    \E m, a \in 1..Len(log) :
      /\ MovedAt(log, i - 1, m) /\ log[m].body.to = "judging"
      /\ a < m
      /\ IsArtefact(log[a]) /\ log[a].body.id = log[i].body.target
      /\ \A j \in a+1..i : ~IsArtefact(log[j])

\* Artefacts are written in recommending only, a log with artefacts has a last
\* one, and every verdict of the log judges the standing artefact.
JudgedLog(log) ==
  /\ \A i \in 1..Len(log) : Placed(log, i) /\ Judged(log, i)
  /\ (\E i \in 1..Len(log) : IsArtefact(log[i])) => \E a : LastArtefact(log, a)

JudgedInv == \A e \in Episodes : JudgedLog(entries[e])

\* fold.under_judgement is the last artefact of the log.
LEMMA UnderJudgementIsLast ==
  ASSUME NEW rec, NEW log, NEW n \in Nat, rec.rev = n, Len(log) = n, RecordOf(rec, log),
         Candidates(rec) # {},
         (\E i \in 1..n : IsArtefact(log[i])) => \E a : LastArtefact(log, a)
  PROVE  \E a : LastArtefact(log, a) /\ UnderJudgement(rec).body.id = log[a].body.id
<1>1. Candidates(rec) = Listed(log, n, "recommendation") \union Listed(log, n, "no_action")
  BY RecordParts DEF Candidates, KINDS, AGENT_KINDS
<1>2. \A x : x \in Candidates(rec) <=> \E i \in 1..n : IsArtefact(log[i]) /\ x = Item(i, log[i])
  BY <1>1 DEF Listed, IsArtefact
<1>3. \E i \in 1..n : IsArtefact(log[i])
  BY <1>2
<1>4. PICK a : LastArtefact(log, a)
  BY <1>3
<1>5. \A i : Item(i, log[i]).rev = i /\ Item(i, log[i]).body = log[i].body
  BY DEF Item
<1>6. a \in 1..n /\ IsArtefact(log[a]) /\ \A i \in 1..n : IsArtefact(log[i]) => i <= a
  BY <1>4 DEF LastArtefact
<1> DEFINE best(x) == \A y \in Candidates(rec) : y.rev <= x.rev
<1>7. \E x \in Candidates(rec) : best(x)
  <2>1. Item(a, log[a]) \in Candidates(rec)
    BY <1>2, <1>6
  <2>2. ASSUME NEW y \in Candidates(rec) PROVE y.rev <= Item(a, log[a]).rev
    <3>1. PICK i \in 1..n : IsArtefact(log[i]) /\ y = Item(i, log[i])
      BY <1>2
    <3> QED BY <1>5, <1>6, <3>1
  <2> QED BY <2>1, <2>2
<1> DEFINE u == UnderJudgement(rec)
<1>8. u \in Candidates(rec) /\ best(u)
  BY <1>7, Zenon DEF UnderJudgement
<1>9. Item(a, log[a]).rev <= u.rev
  BY <1>2, <1>6, <1>8
<1> HIDE DEF u
<1>10. PICK i \in 1..n : IsArtefact(log[i]) /\ u = Item(i, log[i])
  BY <1>2, <1>8
<1>11. i = a
  BY <1>5, <1>6, <1>9, <1>10
<1> QED BY <1>4, <1>5, <1>10, <1>11 DEF u

\* The rows that were there keep their properties when the log grows.
LEMMA JudgedPrefix ==
  ASSUME NEW new, NEW old, NEW row, Extends(new, old, row), NEW i \in 1..Len(old),
         Placed(old, i), Judged(old, i)
  PROVE  Placed(new, i) /\ Judged(new, i)
<1>1. /\ Len(old) \in Nat /\ i - 1 \in 0..Len(old) /\ i \in 1..Len(old) + 1
      /\ new[i] = old[i]
  BY DEF Extends
<1>2. \A j : MovedAt(new, i - 1, j) <=> MovedAt(old, i - 1, j)
  BY <1>1, ExtendsPrefix
<1>3. \A j \in 1..Len(old) : j \in 1..Len(new) /\ new[j] = old[j]
  BY ExtendsRows
<1>4. Placed(new, i)
  BY <1>1, <1>2, <1>3 DEF Placed
<1>5. ASSUME new[i].kind = "verdict" PROVE Judged(new, i)
  <2>1. PICK m \in 1..Len(old), a \in 1..Len(old) :
          /\ MovedAt(old, i - 1, m) /\ old[m].body.to = "judging"
          /\ a < m
          /\ IsArtefact(old[a]) /\ old[a].body.id = old[i].body.target
          /\ \A j \in a+1..i : ~IsArtefact(old[j])
    BY <1>1, <1>5 DEF Judged
  <2>2. \A j \in a+1..i : new[j] = old[j]
    BY <1>1, <1>3
  <2>3. /\ m \in 1..Len(new) /\ a \in 1..Len(new)
        /\ MovedAt(new, i - 1, m) /\ new[m].body.to = "judging"
        /\ a < m
        /\ IsArtefact(new[a]) /\ new[a].body.id = new[i].body.target
        /\ \A j \in a+1..i : ~IsArtefact(new[j])
    BY <1>1, <1>2, <1>3, <2>1, <2>2
  <2> QED BY <2>3 DEF Judged
<1> QED BY <1>4, <1>5 DEF Judged

\* An artefact comes before the move to judging: in judging none is written.
LEMMA ArtefactBeforeJudging ==
  ASSUME NEW log, NEW n \in Nat, Len(log) = n, NEW m, MovedAt(log, n, m),
         log[m].body.to = "judging", NEW a, LastArtefact(log, a), Placed(log, a)
  PROVE  a < m
<1>1. a \in 1..n /\ m \in 1..n /\ a # m
  BY DEF LastArtefact, MovedAt, IsArtefact
<1>2. PICK j : MovedAt(log, a - 1, j) /\ log[j].body.to = "recommending"
  BY DEF Placed, LastArtefact
<1>3. a > m => MovedAt(log, a - 1, m)
  BY <1>1 DEF MovedAt
<1>4. a > m => j = m
  <2>1. a - 1 \in Nat
    BY <1>1
  <2> QED BY <1>2, <1>3, <2>1, MovedOnce
<1> QED BY <1>1, <1>2, <1>4

\* The gate of append_verdict makes the appended verdict judge the standing
\* artefact; the gates of the two artefacts place them.
LEMMA JudgedAppend ==
  ASSUME TypeInv, Folded, NEW e \in Episodes, NEW row, RowOK(e, row),
         Extends(entries'[e], entries[e], row), JudgedLog(entries[e])
  PROVE  JudgedLog(entries'[e])
<1> DEFINE old == entries[e]
           new == entries'[e]
           n == Len(entries[e])
<1>1. /\ n \in Nat /\ Len(new) = n + 1 /\ new[n + 1] = row /\ n + 1 - 1 = n
      /\ n + 1 \in 1..n+1 /\ phase = "serving"
  BY DEF Extends, RowOK
<1>2. \A i \in 1..n : i \in 1..Len(new) /\ new[i] = old[i]
  BY ExtendsRows
<1>3. \A j : MovedAt(new, n, j) <=> MovedAt(old, n, j)
  <2>1. n \in Nat /\ n \in 0..n /\ \A i \in 1..n : new[i] = old[i]
    BY <1>1, <1>2
  <2> HIDE DEF n, new, old
  <2> QED BY <2>1, MovedPrefix
<1>4. \A i \in 1..n : Placed(new, i) /\ Judged(new, i)
  BY JudgedPrefix DEF JudgedLog
<1>5. ASSUME row.kind # "opened"
      PROVE  /\ records[e].rev = n
             /\ \E m \in 1..n : MovedAt(old, n, m) /\ old[m].body.to = records[e].state
  <2>1. n > 0
    BY <1>1, <1>5 DEF RowOK
  <2> QED BY <1>1, <2>1, Stands
<1>6. Placed(new, n + 1)
  <2> SUFFICES ASSUME IsArtefact(row)
               PROVE  \E j \in 1..Len(new) : /\ MovedAt(new, n, j)
                                             /\ new[j].body.to = "recommending"
    BY <1>1 DEF Placed
  <2>1. records[e].state = "recommending" /\ row.kind # "opened"
    BY DEF IsArtefact, RowOK, Gated
  <2> QED BY <1>2, <1>3, <1>5, <2>1
<1>7. Judged(new, n + 1)
  <2> SUFFICES ASSUME row.kind = "verdict"
               PROVE  \E m, a \in 1..Len(new) :
                        /\ MovedAt(new, n, m) /\ new[m].body.to = "judging"
                        /\ a < m
                        /\ IsArtefact(new[a]) /\ new[a].body.id = row.body.target
                        /\ \A j \in a+1..n+1 : ~IsArtefact(new[j])
    BY <1>1 DEF Judged
  <2>1. /\ records[e].state = "judging" /\ Candidates(records[e]) # {}
        /\ row.body.target = UnderJudgement(records[e]).body.id
    BY DEF RowOK, Gated
  <2>2. PICK m \in 1..n : MovedAt(old, n, m) /\ old[m].body.to = "judging"
    BY <1>5, <2>1
  <2>3. PICK a : LastArtefact(old, a) /\ UnderJudgement(records[e]).body.id = old[a].body.id
    BY <1>1, <1>5, <2>1, UnderJudgementIsLast DEF Folded, JudgedLog
  <2>4. a \in 1..n /\ Placed(old, a) /\ IsArtefact(old[a])
    BY <2>3 DEF LastArtefact, JudgedLog
  <2>5. a < m
    BY <1>1, <2>2, <2>3, <2>4, ArtefactBeforeJudging
  <2>6. \A j \in a+1..n+1 : ~IsArtefact(new[j])
    <3>1. ~IsArtefact(row)
      BY DEF IsArtefact
    <3>2. \A j \in a+1..n+1 : (j \in a+1..n /\ new[j] = old[j]) \/ new[j] = row
      BY <1>1, <1>2, <2>4
    <3> QED BY <2>3, <3>1, <3>2 DEF LastArtefact
  <2>7. /\ m \in 1..Len(new) /\ a \in 1..Len(new)
        /\ MovedAt(new, n, m) /\ new[m].body.to = "judging"
        /\ IsArtefact(new[a]) /\ new[a].body.id = row.body.target
    BY <1>2, <1>3, <2>1, <2>2, <2>3, <2>4
  <2> QED BY <2>5, <2>6, <2>7
<1>8. (\E i \in 1..Len(new) : IsArtefact(new[i])) => \E a : LastArtefact(new, a)
  <2>1. CASE IsArtefact(row)
    <3>1. LastArtefact(new, n + 1)
      BY <1>1, <2>1 DEF LastArtefact
    <3> QED BY <3>1
  <2>2. CASE ~IsArtefact(row)
    <3> SUFFICES ASSUME NEW i \in 1..Len(new), IsArtefact(new[i])
                 PROVE  \E a : LastArtefact(new, a)
      OBVIOUS
    <3>1. i \in 1..n /\ IsArtefact(old[i])
      BY <1>1, <1>2, <2>2
    <3>2. PICK a : LastArtefact(old, a)
      BY <3>1 DEF JudgedLog
    <3>3. /\ a \in 1..n
          /\ \A j \in a+1..n+1 : (j \in a+1..n /\ new[j] = old[j]) \/ new[j] = row
      BY <1>1, <1>2, <3>2 DEF LastArtefact
    <3>4. LastArtefact(new, a)
      BY <1>1, <1>2, <2>2, <3>2, <3>3 DEF LastArtefact
    <3> QED BY <3>4
  <2> QED BY <2>1, <2>2
<1> HIDE DEF n, new, old
<1>9. \A i \in 1..Len(new) : i \in 1..n \/ i = n + 1
  BY <1>1
<1>10. JudgedLog(new)
  BY <1>4, <1>6, <1>7, <1>8, <1>9 DEF JudgedLog
<1> QED BY <1>10 DEF new

\* Every step keeps it.
LEMMA JudgedStep == TypeInv /\ Folded /\ JudgedInv /\ [Next]_vars => JudgedInv'
<1> SUFFICES ASSUME TypeInv, Folded, JudgedInv, [Next]_vars, NEW f \in Episodes
             PROVE  JudgedLog(entries'[f])
  BY DEF JudgedInv
<1>1. ASSUME NEW e \in Episodes, NEW row, RowOK(e, row),
             Extends(entries'[e], entries[e], row),
             \A g \in Episodes \ {e} : entries'[g] = entries[g]
      PROVE  JudgedLog(entries'[f])
  BY <1>1, JudgedAppend DEF JudgedInv
<1> QED BY <1>1, LogStep DEF JudgedInv

\* A verdict judges the newest artefact of its episode, one that was there before
\* judging began and that nothing replaced since, though the judge read the record
\* in an earlier request than the one that writes.
THEOREM VerdictsJudge == Spec => []VerdictJudgesStandingArtefact
<1>1. Init => JudgedInv
  <2>1. Len(<<>>) = 0
    OBVIOUS
  <2> QED BY <2>1 DEF Init, JudgedInv, JudgedLog
<1>2. JudgedInv => VerdictJudgesStandingArtefact
  BY DEF JudgedInv, JudgedLog, Judged, IsArtefact, VerdictJudgesStandingArtefact, Rows, Row
<1> QED BY <1>1, <1>2, TypeInit, TypeStep, FoldedInit, FoldedStep, JudgedStep, PTL DEF Spec

-----------------------------------------------------------------------------
(* Emergency revocation.                                                   *)

\* The inductive form of RevocationStopsAgents: a bundle that is not revoked has no
\* late row, and neither has one whose check still stands in a handler.
LateInv ==
  /\ late \in [Bundles -> Nat]
  /\ \A b \in Bundles : late[b] <= 1
  /\ \A b \in Bundles : b \notin revoked \/ passed = b => late[b] = 0

\* A row is late only under the bundle that its handler had verified, and writing
\* it ends the handler; no handler verifies a bundle that is revoked.
LEMMA LateStep == TypeInv /\ LateInv /\ [Next]_vars => LateInv'
<1> SUFFICES ASSUME TypeInv, LateInv, [Next]_vars PROVE LateInv'
  OBVIOUS
<1>0. None \notin Bundles
  BY ConstantsAssumption
<1>1. CASE Appends
  <2>0. PICK e \in Episodes :
          \E row, left : RowOK(e, row) /\ left \subseteq checking /\ Write(e, row, left)
    BY <1>1 DEF Appends
  <2>1. PICK row, left : RowOK(e, row) /\ left \subseteq checking /\ Write(e, row, left)
    BY <2>0
  <2>2. passed' = None /\ revoked' = revoked
    BY <2>1 DEF Write
  <2>3. CASE UNCHANGED late
    BY <1>0, <2>2, <2>3 DEF LateInv
  <2>4. CASE CountLate(e, row)
    <3>1. NeedsBundle(row) => BindingOf(e, row) = passed
      BY <2>1 DEF RowOK, Gated, NeedsBundle, BindingOf
    <3>2. ASSUME NEW b \in Bundles
          PROVE  /\ late'[b] \in Nat /\ late'[b] <= 1
                 /\ b \notin revoked => late'[b] = 0
      <4>1. CASE NeedsBundle(row) /\ b = BindingOf(e, row) /\ b \in revoked
        <5>1. late[b] = 0 /\ late'[b] = late[b] + 1
          BY <2>4, <3>1, <4>1 DEF LateInv, CountLate
        <5> QED BY <4>1, <5>1
      <4>2. CASE ~(NeedsBundle(row) /\ b = BindingOf(e, row) /\ b \in revoked)
        <5>1. late'[b] = late[b]
          BY <2>4, <4>2 DEF CountLate
        <5> QED BY <5>1 DEF LateInv
      <4> QED BY <4>1, <4>2
    <3>3. late' = [b \in Bundles |-> late'[b]]
      BY <2>4 DEF CountLate
    <3> QED BY <1>0, <2>2, <3>2, <3>3 DEF LateInv
  <2> QED BY <2>1, <2>3, <2>4 DEF Write, Insert
<1>2. CASE Aside
  BY <1>0, <1>2 DEF Aside, LateInv
<1>3. CASE Crash
  BY <1>0, <1>3 DEF Crash, Crashing, LateInv
<1>4. CASE UNCHANGED gate
  BY <1>4 DEF gate, LateInv
<1> QED BY <1>1, <1>2, <1>3, <1>4, NextCases DEF Serve, RebuildRow

\* Emergency revocation: at most one agent row, observation or opening is written
\* under a bundle after the operator has revoked it, though the gates read the
\* registry's files before they submit and insert and share no lock with the
\* operator: the handler that the revocation overtook is the only one.
THEOREM RevocationHolds == Spec => []RevocationStopsAgents
<1>1. Init => LateInv
  BY DEF Init, LateInv
<1>2. LateInv => RevocationStopsAgents
  BY DEF LateInv, RevocationStopsAgents
<1> QED BY <1>1, <1>2, TypeInit, TypeStep, LateStep, PTL DEF Spec


-----------------------------------------------------------------------------
(* The store implements the lifecycle of episodes.                         *)

LogState(log) ==
  IF log = <<>> THEN None
  ELSE log[CHOOSE i \in 1..Len(log) : MovedAt(log, Len(log), i)].body.to

LogKey(log) == IF log = <<>> THEN None ELSE log[1].body.dk

\* A log is empty exactly if its length is zero.
LEMMA EmptyLog ==
  ASSUME NEW log, IsLog(log)
  PROVE  log = <<>> <=> Len(log) = 0
BY DEF IsLog

\* The state of a log is the one its last move led to.
LEMMA LogStateIs ==
  ASSUME NEW log, IsLog(log), NEW i, MovedAt(log, Len(log), i)
  PROVE  LogState(log) = log[i].body.to
<1>1. Len(log) \in Nat /\ i \in 1..Len(log)
  BY LogLength DEF MovedAt
<1>2. log # <<>>
  BY <1>1, EmptyLog
<1> DEFINE j == CHOOSE k \in 1..Len(log) : MovedAt(log, Len(log), k)
<1>3. MovedAt(log, Len(log), j)
  BY <1>1, Zenon
<1>4. j = i
  <2> HIDE DEF j
  <2> QED BY <1>1, <1>3, MovedOnce
<1>5. LogState(log) = log[j].body.to
  BY <1>2 DEF LogState
<1> HIDE DEF j
<1> QED BY <1>4, <1>5

\* The state in the log is the one that the store serves.
LEMMA LogStateServed ==
  ASSUME TypeInv, Folded, phase = "serving", NEW e \in Episodes, entries[e] # <<>>
  PROVE  /\ LogState(entries[e]) = records[e].state
         /\ LogState(entries[e]) \notin TERMINAL => LiveLog(entries[e])
<1>1. IsLog(entries[e]) /\ Len(entries[e]) \in Nat /\ Len(entries[e]) > 0
  <2>1. IsLog(entries[e])
    BY DEF TypeInv, LogInv
  <2> QED BY <2>1, EmptyLog, LogLength
<1>2. PICK i \in 1..Len(entries[e]) : MovedAt(entries[e], Len(entries[e]), i)
  BY <1>1, Stands
<1>3. records[e].state = entries[e][i].body.to
  BY <1>1, <1>2, Stands
<1>4. LogState(entries[e]) = entries[e][i].body.to
  BY <1>1, <1>2, LogStateIs
<1> QED BY <1>2, <1>3, <1>4 DEF LiveLog

\* What an appended row does to the state and to the key of its episode.
LEMMA AppendMoves ==
  ASSUME TypeInv, Folded, NEW e \in Episodes, NEW row, RowOK(e, row),
         Extends(entries'[e], entries[e], row), IsLog(entries'[e])
  PROVE  /\ row.kind \in {"opened", "state"} => LogState(entries'[e]) = row.body.to
         /\ row.kind \notin {"opened", "state"} => LogState(entries'[e]) = LogState(entries[e])
         /\ row.kind = "opened" => /\ entries[e] = <<>>
                                   /\ LogKey(entries'[e]) = row.body.dk
         /\ row.kind # "opened" => /\ entries[e] # <<>>
                                   /\ LogKey(entries'[e]) = LogKey(entries[e])
<1> DEFINE old == entries[e]
           new == entries'[e]
<1>1. /\ IsLog(old) /\ Len(old) \in Nat /\ Len(new) = Len(old) + 1
      /\ new[Len(new)] = row /\ \A i \in 1..Len(old) : new[i] = old[i]
  BY DEF Extends, TypeInv, LogInv
<1>2. new # <<>> /\ (old = <<>> <=> Len(old) = 0)
  BY <1>1, EmptyLog
<1>3. row.kind = "opened" <=> Len(old) = 0
  BY DEF RowOK
<1>4. row.kind \in {"opened", "state"} => LogState(new) = row.body.to
  <2>1. row.kind \in {"opened", "state"} => MovedAt(new, Len(new), Len(new))
    BY ExtendsMoves
  <2> QED BY <1>1, <2>1, LogStateIs
<1>5. ASSUME row.kind \notin {"opened", "state"} PROVE LogState(new) = LogState(old)
  <2>1. PICK i \in 1..Len(old) : MovedAt(old, Len(old), i)
    BY <1>1, <1>3, <1>5, Stands DEF RowOK
  <2>2. MovedAt(new, Len(new), i)
    BY <1>5, <2>1, ExtendsMoves
  <2> QED BY <1>1, <2>1, <2>2, LogStateIs
<1>6. row.kind = "opened" => LogKey(new) = row.body.dk
  BY <1>1, <1>2, <1>3 DEF LogKey
<1>7. row.kind # "opened" => LogKey(new) = LogKey(old)
  BY <1>1, <1>2, <1>3 DEF LogKey
<1> QED BY <1>2, <1>3, <1>4, <1>5, <1>6, <1>7

\* An append of the store is a step of the lifecycle or leaves it alone.
LEMMA AppendImplements ==
  ASSUME TypeInv, Folded, NEW e \in Episodes, NEW row, RowOK(e, row),
         Extends(entries'[e], entries[e], row), IsLog(entries'[e]),
         \A f \in Episodes \ {e} : entries'[f] = entries[f]
  PROVE  [Lifecycle!Next]_Lifecycle!lifecycle
<1> DEFINE st(f) == LogState(entries[f])
           dk(f) == LogKey(entries[f])
<1>1. /\ \A f \in Episodes : StateInLog(f) = st(f) /\ KeyInLog(f) = dk(f)
      /\ \A f \in Episodes : StateInLog(f)' = st(f)' /\ KeyInLog(f)' = dk(f)'
  BY DEF StateInLog, KeyInLog, LogState, LogKey, Rows, Row
<1>2. \A f \in Episodes \ {e} : st(f)' = st(f) /\ dk(f)' = dk(f)
  OBVIOUS
<1>0. /\ Lifecycle!NONTERMINAL = NONTERMINAL /\ Lifecycle!STATES = STATES
      /\ \A by, from, to : Allowed(by, from, to) => Lifecycle!Allowed(by, from, to)
  BY DEF Lifecycle!NONTERMINAL, NONTERMINAL, Lifecycle!STATES, STATES, Lifecycle!TERMINAL,
         TERMINAL, Lifecycle!Allowed, Allowed, Lifecycle!CONTROLLER, CONTROLLER,
         Lifecycle!VERIFIER, VERIFIER
<1>3. phase = "serving" /\ (row.kind # "opened" => st(e) = records[e].state)
  BY AppendMoves, LogStateServed DEF RowOK
<1>4. CASE row.kind = "opened"
  <2>1. st(e) = None /\ st(e)' = "open" /\ dk(e)' = row.body.dk /\ row.body.dk \in DedupeKeys
    BY <1>4, AppendMoves DEF RowOK, Gated, LogState
  <2>2. ASSUME NEW f \in Episodes, dk(f) = row.body.dk PROVE st(f) \notin NONTERMINAL
    <3>1. CASE entries[f] = <<>>
      BY <3>1, ConstantsAssumption DEF LogState, STATES
    <3>2. CASE entries[f] # <<>>
      <4>1. f \notin LiveWith(row.body.dk) /\ entries[f][1].body.dk = row.body.dk
        BY <1>4, <2>2, <3>2 DEF RowOK, Gated, LogKey
      <4>2. ~LiveLog(entries[f])
        BY <1>3, <4>1, LiveIsFound
      <4>3. st(f) \in TERMINAL
        BY <1>3, <3>2, <4>2, LogStateServed
      <4> QED BY <4>3 DEF TERMINAL, NONTERMINAL
    <3> QED BY <3>1, <3>2
  <2> HIDE DEF st, dk
  <2>3. Lifecycle!Open(e, row.body.dk)
    BY <1>0, <1>1, <1>2, <2>1, <2>2 DEF Lifecycle!Open
  <2> QED BY <2>1, <2>3 DEF Lifecycle!Next
<1>5. CASE row.kind = "state"
  <2>1. /\ st(e)' = row.body.to /\ dk(e)' = dk(e) /\ row.body.to \in STATES
        /\ Allowed(row.by, st(e), row.body.to)
    BY <1>3, <1>5, AppendMoves DEF RowOK
  <2>2. row.by \in {"controller", "verifier"}
    BY <2>1 DEF Allowed
  <2> HIDE DEF st, dk
  <2>3. Lifecycle!Move(e, row.by, row.body.to)
    BY <1>0, <1>1, <1>2, <2>1 DEF Lifecycle!Move
  <2> QED BY <1>0, <2>1, <2>2, <2>3 DEF Lifecycle!Next
<1>6. CASE row.kind \notin {"opened", "state"}
  <2>1. st(e)' = st(e) /\ dk(e)' = dk(e)
    BY <1>6, AppendMoves
  <2> HIDE DEF st, dk
  <2> QED BY <1>1, <1>2, <2>1 DEF Lifecycle!lifecycle
<1> QED BY <1>4, <1>5, <1>6

\* The store implements EpisodeLifecycle: every step of it, crashes and rebuilds
\* included, opens an episode whose key no live one has, moves one along the
\* tables of transitions.py, or leaves all episodes where they are.
THEOREM StoreImplementsLifecycle == Spec => ImplementsLifecycle
<1>1. Init => Lifecycle!Init
  <2> SUFFICES ASSUME Init PROVE Lifecycle!Init
    OBVIOUS
  <2>1. \A e \in Episodes : StateInLog(e) = None /\ KeyInLog(e) = None
    BY DEF Init, StateInLog, KeyInLog
  <2> QED BY <2>1 DEF Lifecycle!Init
<1>2. TypeInv /\ Folded /\ [Next]_vars => [Lifecycle!Next]_Lifecycle!lifecycle
  <2> SUFFICES ASSUME TypeInv, Folded, [Next]_vars
               PROVE  [Lifecycle!Next]_Lifecycle!lifecycle
    OBVIOUS
  <2>1. CASE UNCHANGED entries
    <3>1. \A e \in Episodes : UNCHANGED <<StateInLog(e), KeyInLog(e)>>
      BY <2>1 DEF StateInLog, KeyInLog, Rows, Row
    <3> QED BY <3>1 DEF Lifecycle!lifecycle
  <2>2. ASSUME NEW e \in Episodes, NEW row, RowOK(e, row),
               Extends(entries'[e], entries[e], row),
               \A f \in Episodes \ {e} : entries'[f] = entries[f]
        PROVE  [Lifecycle!Next]_Lifecycle!lifecycle
    <3>1. IsLog(entries'[e])
      BY TypeStep DEF TypeInv, LogInv
    <3> QED BY <2>2, <3>1, AppendImplements
  <2> QED BY <2>1, <2>2, LogStep
<1> QED
  BY <1>1, <1>2, TypeInit, TypeStep, FoldedInit, FoldedStep, PTL
  DEF Spec, ImplementsLifecycle, Lifecycle!Spec
=============================================================================
