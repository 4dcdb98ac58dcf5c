---------------------------- MODULE EpisodeStore ----------------------------
(***************************************************************************)
(* The episode store (valops/store/service.py, fold.py).                   *)
(*                                                                         *)
(* The durable state is an append-only table of entries per episode and a  *)
(* table of open requests.  The served state is the in-memory record of    *)
(* each episode, to which every inserted row is applied, and which a       *)
(* restart rebuilds from the rows.  All handlers run under one lock, so a  *)
(* handler is one step, except that                                        *)
(*   - a crash or an error of the database can separate the audit          *)
(*     submission, the INSERT of the row, the INSERT of the open request   *)
(*     and the reply (Write, OpenNew);                                     *)
(*   - append_verification takes the lock twice, once to look at the state *)
(*     and once to write (CheckVerification, WriteVerification);           *)
(*   - a handler that verifies a bundle reads files of the registry, which *)
(*     `valops bundle revoke` writes from another process: between         *)
(*     BundleOk and the write the lock is held, but not against the        *)
(*     operator (RevokeBundle).                                            *)
(* Callers are arbitrary: any endpoint may call at any time with any       *)
(* arguments it can send.  A refused call and a call that repeats an       *)
(* idempotency key change nothing and are stuttering steps.                *)
(***************************************************************************)
EXTENDS Transitions, Naturals, Sequences, FiniteSets

CONSTANTS
  Episodes,        \* the uuids open_episode may draw
  DedupeKeys,      \* class|check|validator
  Bundles,         \* bundle ids known to the registry
  Sessions,        \* worker sessions
  CapOf,           \* the capability minted for a session: [episode, role, bundle]
  Expired,         \* sessions whose token has expired
  OpenModes,       \* consensus modes that open requests report
  Skills,          \* skills of the bundles with the planner role
  ModesOf,         \* modes a skill applies to; {"any"} when it says "any"
  Rules,           \* verifier rule ids
  Calls,           \* identities a caller gives its calls (its uuids)
  Ranks,           \* hypothesis ranks agents send
  Numbers,         \* numbers agents put into ids: h1, s2, r1, n1
  MaxRev,          \* bound: entries per episode
  MaxFaults,       \* bound: crashes of the store process and failed INSERTs
  MaxLag,          \* bound: rows appended since the verifier read the record
  None             \* no session, no rule, no state yet

MODES == {"tower", "alpenglow", "unknown"}

ASSUME ConstantsAssumption ==
  /\ CapOf \in [Sessions -> [episode: Episodes, role: ROLES, bundle: Bundles]]
  /\ OpenModes \subseteq MODES
  /\ ModesOf \in [Skills -> SUBSET (MODES \union {"any"})]
  /\ Expired \subseteq Sessions
  /\ Calls \subseteq Nat /\ Ranks \subseteq Nat \ {0} /\ Numbers \subseteq Nat
  /\ MaxRev \in Nat /\ MaxFaults \in Nat /\ MaxLag \in Nat
  /\ None \notin STATES /\ None \notin Bundles

VARIABLES
  entries,    \* table entries: per episode the rows in revision order (durable)
  opens,      \* table opens: [key, episode, deduplicated] rows (durable)
  audited,    \* store_write submissions: <<episode, rev, kind>>
  records,    \* self._records: the served record of each episode (memory)
  phase,      \* "rebuilding" until _rebuild is done, then "serving"
  checking,   \* verification requests between their two lock sections
  passed,     \* the bundle that the handler holding the lock has verified, or None
  revoked,    \* bundles the registry refuses (external: BundleRegistry.verify)
  late,       \* history: rows written under a bundle after its revocation
  faults      \* crashes and failed INSERTs so far

durable == <<entries, opens, audited>>
gate == <<passed, revoked, late>>
vars == <<entries, opens, audited, records, phase, checking, gate, faults>>

-----------------------------------------------------------------------------
(* Entries and the record they fold into.                                  *)

KINDS == AGENT_KINDS \union
  {"opened", "state", "signal", "verification", "recovery_observation",
   "cost", "step", "annotation"}

Entry(kind, by, sess, key, body) ==
  [kind |-> kind, by |-> by, sess |-> sess, key |-> key, body |-> body]

\* An item of one of the record's lists; rev is its place in the log.
Item(rev, e) == [rev |-> rev, sess |-> e.sess, body |-> e.body]

EmptyRecord ==
  [rev |-> 0, state |-> None, bundle |-> None, mode |-> None, dk |-> None,
   refuted |-> {}, list |-> [k \in KINDS |-> {}]]

\* fold.apply: one row applied to the record.
Apply(rec, e) ==
  LET rev == rec.rev + 1
      opening == e.kind = "opened"
  IN [rev |-> rev,
      state |-> IF e.kind \in {"opened", "state"} THEN e.body.to ELSE rec.state,
      bundle |-> IF opening THEN e.body.bundle ELSE rec.bundle,
      mode |-> IF opening THEN e.body.mode ELSE rec.mode,
      dk |-> IF opening THEN e.body.dk ELSE rec.dk,
      refuted |-> IF e.kind # "hypothesis_status" THEN rec.refuted
                  ELSE IF e.body.status = "refuted"
                       THEN rec.refuted \union {e.body.id}
                       ELSE rec.refuted \ {e.body.id},
      list |-> [rec.list EXCEPT ![e.kind] = @ \union {Item(rev, e)}]]

Ids(rec, kind) == {x.body.id : x \in rec.list[kind]}

\* _next_id: one more than the length of the list.
NextId(rec, kind) == Cardinality(rec.list[kind]) + 1

\* fold.under_judgement: the latest recommendation or no-action record.
Candidates(rec) == rec.list["recommendation"] \union rec.list["no_action"]
UnderJudgementFirst(rec) ==   \* mutant: the oldest
  CHOOSE x \in Candidates(rec) : \A y \in Candidates(rec) : x.rev <= y.rev
UnderJudgement(rec) ==
  CHOOSE x \in Candidates(rec) : \A y \in Candidates(rec) : y.rev <= x.rev

Live(rec) == rec.rev > 0 /\ rec.state \notin TERMINAL

-----------------------------------------------------------------------------
(* Persistence.                                                            *)

AnyKey(e, key) == TRUE   \* mutant of Fresh: duplicates are written again

\* _idem and UNIQUE(episode_id, idem_key): the key names no row of the episode.
Fresh(e, key) == \A i \in 1..Len(entries[e]) : entries[e][i].key # key

Serving(e) == phase = "serving" /\ records[e].rev > 0

\* Serving, and no other handler is between its gate and its write.
Idle(e) == Serving(e) /\ passed = None

\* The rows that a verified bundle must stand behind, and that bundle.
NeedsBundle(row) == row.kind \in AGENT_KINDS \union {"opened"} \/ row.by = "observer_broker"
BindingOf(e, row) == IF row.kind = "opened" THEN row.body.bundle ELSE records[e].bundle

\* The history of rows that follow the revocation of their bundle.
CountLate(e, row) ==
  late' = [b \in Bundles |->
             IF NeedsBundle(row) /\ b = BindingOf(e, row) /\ b \in revoked
             THEN late[b] + 1 ELSE late[b]]

InsertLost(e, row) == UNCHANGED <<entries, late>>   \* mutant: the INSERT is not committed
Insert(e, row) ==
  /\ entries' = [entries EXCEPT ![e] = Append(@, row)]
  /\ CountLate(e, row)

SubmitBehind(e, row) ==   \* mutant: the revision before the row
  audited' = audited \union {<<e, records[e].rev, row.kind>>}
Submit(e, row) == audited' = audited \union {<<e, records[e].rev + 1, row.kind>>}

Faulting == faults < MaxFaults /\ faults' = faults + 1

Crashing ==
  /\ Faulting
  /\ records' = [x \in Episodes |-> EmptyRecord]
  /\ checking' = {} /\ passed' = None
  /\ phase' = "rebuilding"

\* _append: submit to the audit sequencer, insert the row, apply it.  The store
\* can die after the submission or after the INSERT, and either can end in an
\* error that the caller gets (a submission that timed out counts).  A refusal by the sequencer leaves
\* everything unchanged.  left is the set of verification requests that
\* are still between their lock sections when the call returns.
Write(e, row, left) ==
  /\ Len(entries[e]) < MaxRev
  /\ Submit(e, row)
  /\ \/ /\ Insert(e, row)
        /\ records' = [records EXCEPT ![e] = Apply(@, row)]
        /\ checking' = left
        /\ UNCHANGED <<phase, faults>>
     \/ Insert(e, row) /\ Crashing
     \/ UNCHANGED <<entries, late>> /\ Crashing
     \/ /\ Faulting
        /\ checking' = left
        /\ UNCHANGED <<entries, late, records, phase>>
  /\ passed' = None
  /\ UNCHANGED revoked

\* Any other moment at which the process dies and is started again.
Crash == Crashing /\ UNCHANGED <<durable, revoked, late>>

\* _rebuild: one row of the table applied to the record it belongs to.
RebuildRow(e) ==
  /\ phase = "rebuilding"
  /\ records[e].rev < Len(entries[e])
  /\ records' = [records EXCEPT ![e] = Apply(@, entries[e][@.rev + 1])]
  /\ UNCHANGED <<durable, phase, checking, gate, faults>>

ServeEarly ==   \* mutant: served before the rebuild is done
  /\ phase = "rebuilding" /\ phase' = "serving"
  /\ UNCHANGED <<durable, records, checking, gate, faults>>

\* __init__ returns and the endpoints are served.
Serve ==
  /\ phase = "rebuilding"
  /\ \A e \in Episodes : records[e].rev = Len(entries[e])
  /\ phase' = "serving"
  /\ UNCHANGED <<durable, records, checking, gate, faults>>

-----------------------------------------------------------------------------
(* store-agent and store-agent-report.                                     *)

BundleOkUnread(b) ==   \* mutant: the revocations are not read
  /\ phase = "serving" /\ passed = None
  /\ passed' = b
  /\ UNCHANGED <<durable, records, phase, checking, revoked, late, faults>>

\* bundle_ok in TokenGate.check, verify in open_episode: a handler that has the
\* lock finds the bundle of its call good.  What it writes, it writes later.
BundleOk(b) ==
  /\ phase = "serving" /\ passed = None
  /\ b \notin revoked
  /\ passed' = b
  /\ UNCHANGED <<durable, records, phase, checking, revoked, late, faults>>

\* The handler ends without a write: the rest of its gate refuses the call, its
\* idempotency key is known, or the sequencer refuses the submission.
Leave ==
  /\ passed # None /\ passed' = None
  /\ UNCHANGED <<durable, records, phase, checking, revoked, late, faults>>

\* TokenGate.check and _agent_gate up to the operation's own rules.  A token that
\* expires in the course of a run is a session that makes no further call.
TokenGate(s, e) ==
  /\ Serving(e)
  /\ s \notin Expired
  /\ CapOf[s].episode = e
  /\ CapOf[s].bundle = passed
  /\ CapOf[s].bundle = records[e].bundle

AgentGate(s, e, kind) ==
  /\ TokenGate(s, e)
  /\ CapOf[s].role = ToolRole(kind)
  /\ records[e].state \in ToolStates(kind)

\* The brokers prefix the worker's key with the session of its token.
AgentWrite(s, e, kind, c, body) ==
  /\ Fresh(e, <<kind, s, c>>)
  /\ Write(e, Entry(kind, CapOf[s].role, s, <<kind, s, c>>, body), checking)
  /\ UNCHANGED opens

\* _refs_exist, evidence required.
RefsExist(e, refs) == refs # {} /\ refs \subseteq Ids(records[e], "signal")

OnePerSession(e, s, kinds) ==
  \A k \in kinds : \A x \in records[e].list[k] : x.sess # s

AppendHypothesis(s, e, c, rank) ==
  /\ AgentGate(s, e, "hypothesis")
  /\ \A x \in records[e].list["hypothesis"] : ~(x.sess = s /\ x.body.rank = rank)
  /\ AgentWrite(s, e, "hypothesis", c,
                [id |-> NextId(records[e], "hypothesis"), rank |-> rank])

AppendHypothesisStatus(s, e, c, hid, status, refs) ==
  /\ AgentGate(s, e, "hypothesis_status")
  /\ hid \in Ids(records[e], "hypothesis")
  /\ RefsExist(e, refs)
  /\ AgentWrite(s, e, "hypothesis_status", c,
                [id |-> hid, status |-> status, refs |-> refs])

\* A mode-specific skill needs a confirmed mode, and the one it is for.
SkillApplies(e, skill) ==
  ModesOf[skill] = {"any"} \/ records[e].mode \in ModesOf[skill] \ {"unknown"}

AppendRecommendation(s, e, c, hid, skill, refs) ==
  /\ AgentGate(s, e, "recommendation")
  /\ OnePerSession(e, s, {"recommendation", "no_action"})
  /\ hid \in Ids(records[e], "hypothesis")
  /\ SkillApplies(e, skill)
  /\ RefsExist(e, refs)
  /\ AgentWrite(s, e, "recommendation", c,
                [id |-> <<"r", NextId(records[e], "recommendation")>>,
                 hyp |-> hid, skill |-> skill, refs |-> refs])

AppendNoAction(s, e, c, refs) ==
  /\ AgentGate(s, e, "no_action")
  /\ OnePerSession(e, s, {"recommendation", "no_action"})
  /\ RefsExist(e, refs)
  /\ AgentWrite(s, e, "no_action", c,
                [id |-> <<"n", NextId(records[e], "no_action")>>, refs |-> refs])

\* target is the artefact id the judge names; it must be the one under judgement.
AppendVerdict(s, e, c, target, result) ==
  /\ AgentGate(s, e, "verdict")
  /\ OnePerSession(e, s, {"verdict"})
  /\ Candidates(records[e]) # {}
  /\ target = UnderJudgement(records[e]).body.id
  /\ AgentWrite(s, e, "verdict", c, [target |-> target, result |-> result])

AppendReport(s, e, c, which) ==
  /\ AgentGate(s, e, "report")
  /\ records[e].state = (IF which = "incident" THEN "reporting" ELSE "resolved")
  /\ AgentWrite(s, e, "report", c, [which |-> which])

-----------------------------------------------------------------------------
(* store-control, store-verify and store-observe.                          *)

\* A retry that finds a row of opens changes nothing.
OpenKeyFresh(key) == \A o \in opens : o.key # key

NewWith(dk) ==   \* mutant of LiveWith: only episodes still in "open"
  {e \in Episodes : records[e].rev > 0 /\ records[e].state = "open" /\ records[e].dk = dk}
LiveWith(dk) == {e \in Episodes : Live(records[e]) /\ records[e].dk = dk}

\* open_episode when a live episode has the key: only the opens row is written.
OpenDeduplicated(dk, b, key, e) ==
  /\ phase = "serving" /\ OpenKeyFresh(key) /\ passed = b
  /\ e \in LiveWith(dk)
  /\ opens' = opens \union {[key |-> key, episode |-> e, dedup |-> TRUE]}
  /\ passed' = None
  /\ UNCHANGED <<entries, audited, records, phase, checking, revoked, late, faults>>

\* open_episode otherwise: a new episode, then the opens row.  A fault inside
\* the append, or at the second INSERT, leaves no opens row.
OpenNew(dk, b, mode, key, e) ==
  /\ phase = "serving" /\ OpenKeyFresh(key) /\ passed = b
  /\ LiveWith(dk) = {}
  /\ entries[e] = <<>>
  /\ Write(e, Entry("opened", "controller", None, key,
                    [to |-> "open", dk |-> dk, bundle |-> b, mode |-> mode]),
           checking)
  /\ \/ UNCHANGED opens
     \/ /\ records'[e].rev > 0
        /\ opens' = opens \union {[key |-> key, episode |-> e, dedup |-> FALSE]}

StateRow(by, e, to, expected) ==
  Entry("state", by, None, <<"state", to, expected>>,
        [from |-> records[e].state, to |-> to])

SetStateBlind(by, e, to, expected) ==   \* mutant: no compare-and-swap
  /\ Idle(e)
  /\ Fresh(e, <<"state", to, expected>>)
  /\ records[e].state \notin TERMINAL
  /\ Allowed(by, records[e].state, to)
  /\ Write(e, StateRow(by, e, to, expected), checking)
  /\ UNCHANGED opens

SetStateUnchecked(by, e, to, expected) ==   \* mutant: no transition table
  /\ Idle(e)
  /\ expected = records[e].rev
  /\ Fresh(e, <<"state", to, expected>>)
  /\ records[e].state \notin TERMINAL
  /\ Write(e, StateRow(by, e, to, expected), checking)
  /\ UNCHANGED opens

\* set_state by the principal of the endpoint; store-verify serves only
\* "resolved".  Both clients send the key state:<expected>:<to>.
SetState(by, e, to, expected) ==
  /\ Idle(e)
  /\ expected = records[e].rev
  /\ Fresh(e, <<"state", to, expected>>)
  /\ records[e].state \notin TERMINAL
  /\ Allowed(by, records[e].state, to)
  /\ Write(e, StateRow(by, e, to, expected), checking)
  /\ UNCHANGED opens

SignalWrite(e, by, s, key) ==
  /\ Fresh(e, key)
  /\ records[e].state \notin TERMINAL
  /\ Write(e, Entry("signal", by, s, key, [id |-> NextId(records[e], "signal")]),
           checking)
  /\ UNCHANGED opens

AppendSignal(e, c) ==
  Idle(e) /\ SignalWrite(e, "controller", None, <<"sig", None, c>>)

AppendObservation(s, e, c) ==
  TokenGate(s, e) /\ SignalWrite(e, "observer_broker", s, <<"obs", s, c>>)

\* _simple: bookkeeping rows, accepted in every state.
Simple(e, kind, by, s, key, body) ==
  /\ Idle(e)
  /\ Fresh(e, key)
  /\ Write(e, Entry(kind, by, s, key, body), checking)
  /\ UNCHANGED opens

AppendCost(s, e) == Simple(e, "cost", "controller", s, <<"cost", s, 0>>, [n |-> 0])

AppendStep(s, e, outcome) ==
  Simple(e, "step", "controller", s, <<"step", s, 0>>,
         [outcome |-> outcome, state |-> records[e].state])

Annotate(e, c) ==
  Simple(e, "annotation", "controller", None, <<"stale", None, c>>, [n |-> 0])

AppendRecoveryObservation(e, rule, c) ==
  Simple(e, "recovery_observation", "verifier", None, <<"recov", rule, c>>,
         [rule |-> rule])

CheckVerificationBlind(e, rule, rev) ==   \* mutant: an ended episode is not refused
  /\ Idle(e)
  /\ checking = {}
  /\ rev <= records[e].rev /\ records[e].rev <= rev + MaxLag
  /\ checking' = checking \union {[episode |-> e, rule |-> rule, rev |-> rev]}
  /\ UNCHANGED <<durable, records, phase, gate, faults>>

\* append_verification, first lock section: refuse a terminal episode.  The
\* verifier has one call under way at a time; rev is a revision it has read.
CheckVerification(e, rule, rev) ==
  /\ Idle(e)
  /\ checking = {}
  /\ rev <= records[e].rev /\ records[e].rev <= rev + MaxLag
  /\ records[e].state \notin TERMINAL
  /\ checking' = checking \union {[episode |-> e, rule |-> rule, rev |-> rev]}
  /\ UNCHANGED <<durable, records, phase, gate, faults>>

\* append_verification, second lock section: _simple.  rev is the revision the
\* verifier read, which its idempotency key carries.
WriteVerification(v) ==
  LET key == <<"verif", v.rule, v.rev>>
      row == Entry("verification", "verifier", None, key, [rule |-> v.rule])
  IN /\ v \in checking
     /\ Idle(v.episode)
     /\ \/ Fresh(v.episode, key) /\ Write(v.episode, row, checking \ {v})
        \/ /\ ~Fresh(v.episode, key)
           /\ checking' = checking \ {v}
           /\ UNCHANGED <<entries, audited, records, phase, gate, faults>>
     /\ UNCHANGED opens

\* External: an operator revokes a bundle (BundleRegistry.revoke), whatever the
\* store is doing.
RevokeBundle(b) ==
  /\ revoked' = revoked \union {b}
  /\ UNCHANGED <<durable, records, phase, checking, passed, late, faults>>

-----------------------------------------------------------------------------
Init ==
  /\ entries = [e \in Episodes |-> <<>>]
  /\ opens = {} /\ audited = {} /\ checking = {}
  /\ passed = None /\ revoked = {} /\ late = [b \in Bundles |-> 0]
  /\ records = [e \in Episodes |-> EmptyRecord]
  /\ phase = "rebuilding"
  /\ faults = 0

AgentCall(s, e, c) ==
  /\ TokenGate(s, e)
  /\ \/ \E rank \in Ranks : AppendHypothesis(s, e, c, rank)
     \/ \E hid \in Numbers, status \in {"supported", "refuted"}, refs \in SUBSET Numbers :
          AppendHypothesisStatus(s, e, c, hid, status, refs)
     \/ \E hid \in Numbers, skill \in Skills, refs \in SUBSET Numbers :
          AppendRecommendation(s, e, c, hid, skill, refs)
     \/ \E refs \in SUBSET Numbers : AppendNoAction(s, e, c, refs)
     \/ \E target \in {"r", "n"} \X Numbers, result \in {"PASS", "FAIL"} :
          AppendVerdict(s, e, c, target, result)
     \/ \E which \in {"incident", "closure"} : AppendReport(s, e, c, which)
     \/ AppendObservation(s, e, c)

ControlCall(e) ==
  \/ \E dk \in DedupeKeys, b \in Bundles, c \in Calls :
       \/ OpenDeduplicated(dk, b, <<"open", dk, c>>, e)
       \/ \E mode \in OpenModes : OpenNew(dk, b, mode, <<"open", dk, c>>, e)
  \/ \E to \in STATES, expected \in 0..MaxRev : SetState("controller", e, to, expected)
  \/ \E c \in Calls : AppendSignal(e, c) \/ Annotate(e, c)
  \/ \E s \in Sessions :
       /\ CapOf[s].episode = e /\ s \notin Expired
       /\ AppendCost(s, e) \/ \E outcome \in {"ok", "failed"} : AppendStep(s, e, outcome)

VerifierCall(e) ==
  \/ \E expected \in 0..MaxRev : SetState("verifier", e, "resolved", expected)
  \/ \E rule \in Rules, c \in Calls : AppendRecoveryObservation(e, rule, c)
  \/ \E rule \in Rules, rev \in 1..MaxRev : CheckVerification(e, rule, rev)

Next ==
  \/ \E e \in Episodes :
       \/ ControlCall(e)
       \/ VerifierCall(e)
       \/ RebuildRow(e)
       \/ \E s \in Sessions, c \in Calls : AgentCall(s, e, c)
  \/ \E v \in checking : WriteVerification(v)
  \/ \E b \in Bundles : BundleOk(b) \/ RevokeBundle(b)
  \/ Leave
  \/ Serve
  \/ Crash

Spec == Init /\ [][Next]_vars

-----------------------------------------------------------------------------
(* Properties.                                                             *)

Principals == ROLES \union {"controller", "verifier", "observer_broker"}

Rows(e) == 1..Len(entries[e])
Row(e, i) == entries[e][i]

\* Types of the variables.
TypeOK ==
  /\ \A e \in Episodes : \A i \in Rows(e) :
       Row(e, i).kind \in KINDS /\ Row(e, i).by \in Principals
  /\ \A e \in Episodes : records[e].rev \in 0..Len(entries[e])
  /\ \A e \in Episodes : records[e].state \in STATES \union {None}
  /\ phase \in {"rebuilding", "serving"}
  /\ passed \in Bundles \union {None} /\ revoked \subseteq Bundles
  /\ faults \in 0..MaxFaults

\* Row i is the last of the first n rows of the log that moved the episode.
MovedAt(log, n, i) ==
  /\ i \in 1..n
  /\ log[i].kind \in {"opened", "state"}
  /\ \A j \in i+1..n : log[j].kind \notin {"opened", "state"}

\* What the record of an episode must be, read off the first rec.rev rows of its
\* log: the place it moved to last, the binding of its opening, its lists, and
\* the hypotheses whose latest status is "refuted".
RecordOf(rec, log) ==
  LET n == rec.rev
      statuses == {i \in 1..n : log[i].kind = "hypothesis_status"}
  IN /\ n = 0 => rec = EmptyRecord
     /\ n > 0 => /\ \E i \in 1..n : MovedAt(log, n, i) /\ rec.state = log[i].body.to
                 /\ rec.bundle = log[1].body.bundle
                 /\ rec.mode = log[1].body.mode
                 /\ rec.dk = log[1].body.dk
     /\ \A k \in KINDS :
          rec.list[k] = {Item(i, log[i]) : i \in {j \in 1..n : log[j].kind = k}}
     /\ rec.refuted =
          {log[i].body.id : i \in
             {i \in statuses : /\ log[i].body.status = "refuted"
                               /\ \A j \in statuses :
                                    j > i => log[j].body.id # log[i].body.id}}

\* The record the store serves is what its log says, after every write, in the
\* middle of a rebuild and after a crash between the INSERT and the apply.
RecordMatchesLog ==
  /\ \A e \in Episodes : RecordOf(records[e], entries[e])
  /\ phase = "serving" => \A e \in Episodes : records[e].rev = Len(entries[e])

\* HLD 5.5: no row without its submission to the audit (chained or buffered by
\* the audit client), whichever step of _append a crash or an error interrupts.
AuditCoversLog ==
  \A e \in Episodes : \A i \in Rows(e) : <<e, i, Row(e, i).kind>> \in audited

\* open_episode: one live episode per (class, check, validator), however the
\* open requests, transitions, crashes and rebuilds interleave.  Live is read
\* off the log: the memory may be part-way through a rebuild.
LiveInLog(e) ==
  \E i \in Rows(e) : MovedAt(entries[e], Len(entries[e]), i)
                     /\ Row(e, i).body.to \notin TERMINAL
OneLivePerKey ==
  \A e, f \in Episodes :
    (LiveInLog(e) /\ LiveInLog(f) /\ Row(e, 1).body.dk = Row(f, 1).body.dk) => e = f

\* R-7: every transition in the log starts where the episode stood, is in the
\* table of the principal that made it, and was computed from the revision
\* just before it (the key carries the revision the caller had read).
TransitionsAreCAS ==
  \A e \in Episodes : \A i \in Rows(e) :
    Row(e, i).kind = "state" =>
      /\ \E j \in Rows(e) : MovedAt(entries[e], i - 1, j)
                            /\ Row(e, j).body.to = Row(e, i).body.from
      /\ Allowed(Row(e, i).by, Row(e, i).body.from, Row(e, i).body.to)
      /\ Row(e, i).key[3] = i - 1

\* A duplicate delivery appends nothing: no idempotency key names two rows.
KeysNameOneRow ==
  \A e \in Episodes : \A i, j \in Rows(e) : Row(e, i).key = Row(e, j).key => i = j

\* The state the first n rows left the episode in is one of S.
StateIn(e, n, S) == \E j \in Rows(e) : MovedAt(entries[e], n, j) /\ Row(e, j).body.to \in S

\* What an ended episode accepts in every case.
AfterEnd(row) ==
  \/ row.kind \in {"recovery_observation", "cost", "step", "annotation"}
  \/ row.kind = "report" /\ row.body.which = "closure"

\* Only closure reports, recovery observations and bookkeeping follow the row that
\* closed an episode, and verifications that the verifier computed from a record
\* in which the episode was still open: append_verification looks at the state in
\* one lock section and writes in another.
TerminalIsFinal ==
  \A e \in Episodes : \A i \in Rows(e) :
    StateIn(e, i - 1, TERMINAL) =>
      \/ AfterEnd(Row(e, i))
      \/ /\ Row(e, i).kind = "verification"
         /\ ~StateIn(e, Row(e, i).key[3], TERMINAL)

\* HLD 5.3 (N-9): a terminal episode accepts closure reports, recovery
\* observations and bookkeeping, and "no other write".
TerminalAcceptsNoOther ==
  \A e \in Episodes : \A i \in Rows(e) :
    StateIn(e, i - 1, TERMINAL) => AfterEnd(Row(e, i))

\* A verdict judges the newest artefact, that artefact was there before judging
\* began, and no later row replaces it while the episode stays in judging.
VerdictJudgesStandingArtefact ==
  \A e \in Episodes : \A i \in Rows(e) :
    Row(e, i).kind = "verdict" =>
      \E m, a \in Rows(e) :
        /\ MovedAt(entries[e], i - 1, m) /\ Row(e, m).body.to = "judging"
        /\ a < m
        /\ Row(e, a).kind \in {"recommendation", "no_action"}
        /\ Row(e, a).body.id = Row(e, i).body.target
        /\ \A j \in a+1..i : Row(e, j).kind \notin {"recommendation", "no_action"}

\* HLD 5.4 emergency revocation, as far as the store can keep it: of the agent
\* rows, observations and openings under a bundle, at most one is written after
\* the operator revoked it, the one whose handler had read the registry before.
RevocationStopsAgents == \A b \in Bundles : late[b] <= 1

-----------------------------------------------------------------------------
(* The store implements EpisodeLifecycle: the state and the dedupe key of  *)
(* an episode are read off its log.                                        *)

StateInLog(e) ==
  IF entries[e] = <<>> THEN None
  ELSE Row(e, CHOOSE i \in Rows(e) : MovedAt(entries[e], Len(entries[e]), i)).body.to

KeyInLog(e) == IF entries[e] = <<>> THEN None ELSE Row(e, 1).body.dk

Lifecycle == INSTANCE EpisodeLifecycle WITH
  state <- [e \in Episodes |-> StateInLog(e)],
  key <- [e \in Episodes |-> KeyInLog(e)]

\* Every step of the store, crashes and rebuilds included, is a step of the
\* lifecycle or leaves every episode where it is.
ImplementsLifecycle == Lifecycle!Spec
=============================================================================
