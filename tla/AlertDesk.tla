------------------------------ MODULE AlertDesk ------------------------------
(***************************************************************************)
(* The alerts of the report broker (valops/brokers/report_broker.py): the  *)
(* threads that send an alert for a caller (send_alert, system_alert), the *)
(* operator who acknowledges, and the thread that re-sends and escalates   *)
(* what nobody acknowledged (AW-3). A caller's alert is named by its call. *)
(***************************************************************************)
EXTENDS Naturals, FiniteSets

CONSTANTS
  Calls,         \* calls that ask for an alert
  Keyed,         \* those with the same deduplication key (the others have none)
  NeedsAck,      \* those of an incident, or of severity high or critical
  Critical,      \* those that the rate cap lets through
  MaxPerHour,    \* MAX_ALERTS_PER_HOUR
  AuditErrors,   \* the audit may answer with an error, or not in time
  MaxFaults      \* bound on crashes, sink failures and audit errors

ASSUME DeskAssumption ==
  /\ IsFiniteSet(Calls) /\ Keyed \subseteq Calls
  /\ NeedsAck \subseteq Calls /\ Critical \subseteq NeedsAck
  /\ MaxPerHour \in Nat /\ MaxFaults \in Nat /\ AuditErrors \in BOOLEAN

VARIABLES
  call,      \* per call: where its thread is, what it answered, told: the key had been reported
  alerts,    \* alerts.jsonl, and its copy in memory: the flags of the logged alerts
  recent,    \* _sent_times
  desk,      \* the escalation thread: pc, alerts still to visit, the alert it is at
  due,       \* alerts whose acknowledgement window has run out
  faults,
  pages      \* history: pages per target and pages after the ack

deskVars == <<call, alerts, recent, desk, due, faults, pages>>

None == "none"
Logged == {c \in Calls : alerts[c].logged}
NewAlert == [logged |-> TRUE, acked |-> FALSE, resent |-> FALSE, escalated |-> FALSE]
NoAlert == [NewAlert EXCEPT !.logged = FALSE]
AtRest == [pc |-> "wait", todo |-> {}, at |-> None, what |-> None]
Down == [AtRest EXCEPT !.pc = "down"]

DeskInit ==
  /\ call = [c \in Calls |-> [pc |-> "new", result |-> None, told |-> FALSE]]
  /\ alerts = [c \in Calls |-> NoAlert]
  /\ recent = 0
  /\ desk = AtRest
  /\ due = {}
  /\ faults = 0
  /\ pages = [c \in Calls |-> [primary |-> 0, backup |-> 0, afterAck |-> 0]]

Faulty == faults < MaxFaults /\ faults' = faults + 1

-----------------------------------------------------------------------------
(* A call: look for its key, take a place in the hour, send, log, audit.   *)

Goto(c, pc) == call' = [call EXCEPT ![c].pc = pc]
Answer(c, result) == call' = [call EXCEPT ![c].pc = "done", ![c].result = result]

\* Callers that were told of the alert, by its id or as a duplicate.
ToldOf == {c \in Keyed : call[c].result \in {"alert", "duplicate"}}

KeyTakenUnacked(c) == c \in Keyed /\ \E a \in Keyed \cap Logged : ~alerts[a].acked   \* mutant
KeyTaken(c) == c \in Keyed /\ Keyed \cap Logged # {}

\* The key is looked up under the lock, which is then released.
Check(c) ==
  /\ call[c].pc = "new" /\ desk # Down
  /\ call' = [call EXCEPT ![c] =
       [pc |-> IF KeyTaken(c) THEN "done" ELSE "checked",
        result |-> IF KeyTaken(c) THEN "duplicate" ELSE None,
        told |-> c \in Keyed /\ ToldOf # {}]]
  /\ UNCHANGED <<alerts, recent, desk, due, faults, pages>>

\* _dispatch: the rate cap.

Admit(c) ==
  /\ call[c].pc = "checked"
  /\ \/ /\ recent < MaxPerHour \/ c \in Critical
        /\ recent' = recent + 1 /\ Goto(c, "sending")
     \/ /\ recent >= MaxPerHour /\ c \notin Critical
        /\ Answer(c, "rate_limited") /\ UNCHANGED recent
  /\ UNCHANGED <<alerts, desk, due, faults, pages>>

Paged(c, target) ==
  pages' = [pages EXCEPT
    ![c][target] = @ + 1,
    ![c].afterAck = IF alerts[c].acked THEN @ + 1 ELSE @]

\* A webhook that fails may have delivered the page.
SinkFails(c, target) == Faulty /\ (Paged(c, target) \/ UNCHANGED pages)

Send(c) ==
  /\ call[c].pc = "sending"
  /\ \/ Paged(c, "primary") /\ Goto(c, "sent") /\ UNCHANGED faults
     \/ SinkFails(c, "primary") /\ Answer(c, "alert_failed")
  /\ UNCHANGED <<alerts, recent, desk, due>>

Log(c) ==
  /\ call[c].pc = "sent" /\ Goto(c, "logged")
  /\ alerts' = [alerts EXCEPT ![c] = NewAlert]
  /\ UNCHANGED <<recent, desk, due, faults, pages>>

\* An audit error is the caller's answer, though the alert is out and logged.
AuditSent(c) ==
  /\ call[c].pc = "logged"
  /\ \/ Answer(c, "alert") /\ UNCHANGED faults
     \/ AuditErrors /\ Faulty /\ Answer(c, "error")
  /\ UNCHANGED <<alerts, recent, desk, due, pages>>

Ack(c) ==
  /\ c \in Logged /\ ~alerts[c].acked /\ desk # Down
  /\ alerts' = [alerts EXCEPT ![c].acked = TRUE]
  /\ UNCHANGED <<call, recent, desk, due, faults, pages>>

-----------------------------------------------------------------------------
(* escalate_loop. The window is measured from sent_ts or resent_ts, at the *)
(* time the tick began.                                                    *)

Tick ==
  /\ desk.pc = "wait" /\ Logged \cap due # {}
  /\ desk' = [desk EXCEPT !.pc = "visit", !.todo = Logged \cap due]
  /\ UNCHANGED <<call, alerts, recent, due, faults, pages>>

WantedUntilResent(c) == c \in NeedsAck /\ ~alerts[c].acked /\ ~alerts[c].resent   \* mutant
Wanted(c) == c \in NeedsAck /\ ~alerts[c].acked /\ ~alerts[c].escalated

Visit(c) ==
  /\ desk.pc = "visit" /\ c \in desk.todo
  /\ desk' = IF Wanted(c)
             THEN [desk EXCEPT !.pc = "page", !.todo = @ \ {c}, !.at = c,
                               !.what = IF alerts[c].resent THEN "escalated" ELSE "resent"]
             ELSE [desk EXCEPT !.todo = @ \ {c}]
  /\ UNCHANGED <<call, alerts, recent, due, faults, pages>>

Target == IF desk.what = "escalated" THEN "backup" ELSE "primary"

Page ==
  /\ desk.pc = "page"
  /\ \/ /\ Paged(desk.at, Target)
        /\ desk' = [desk EXCEPT !.pc = "update"] /\ UNCHANGED faults
     \/ /\ SinkFails(desk.at, Target)
        /\ desk' = [desk EXCEPT !.pc = "visit"]
  /\ UNCHANGED <<call, alerts, recent, due>>

Restamps == due' = due \ {desk.at}

Update ==
  /\ desk.pc = "update"
  /\ alerts' = [alerts EXCEPT ![desk.at][desk.what] = TRUE]
  /\ Restamps
  /\ desk' = [desk EXCEPT !.pc = "audit"]
  /\ UNCHANGED <<call, recent, faults, pages>>

\* Nothing catches an audit error here: it ends the thread.
AuditUpdate ==
  /\ desk.pc = "audit"
  /\ \/ desk' = [desk EXCEPT !.pc = "visit", !.at = None, !.what = None] /\ UNCHANGED faults
     \/ AuditErrors /\ Faulty /\ desk' = [AtRest EXCEPT !.pc = "dead"]
  /\ UNCHANGED <<call, alerts, recent, due, pages>>

TickEnds ==
  /\ desk.pc = "visit" /\ desk.todo = {} /\ desk' = AtRest
  /\ UNCHANGED <<call, alerts, recent, due, faults, pages>>

Desk == Tick \/ (\E c \in Calls : Visit(c)) \/ Page \/ Update \/ AuditUpdate \/ TickEnds

-----------------------------------------------------------------------------
(* Time, and a restart of the broker.                                      *)

WindowEnds(c) ==
  /\ c \in Logged \ due
  /\ due' = due \cup {c}
  /\ UNCHANGED <<call, alerts, recent, desk, faults, pages>>

HourPasses ==
  /\ recent > 0 /\ recent' = recent - 1
  /\ UNCHANGED <<call, alerts, desk, due, faults, pages>>

LoadSentOnly == [c \in Calls |-> IF alerts[c].logged THEN NewAlert ELSE NoAlert]   \* mutant
Load == alerts

\* A crash in _log leaves part of a line, on which _load raises at every start. So does
\* a line that lost only its newline, once another one is joined to it.
LogBreaks == Logged # {} \/ \E c \in Calls : call[c].pc = "sent"

Restart ==
  /\ Faulty /\ desk # Down
  /\ alerts' = Load
  /\ recent' = 0
  /\ desk' = AtRest \/ (LogBreaks /\ desk' = Down)
  /\ call' = [c \in Calls |-> IF call[c].pc \in {"new", "done"} THEN call[c]
                              ELSE [call[c] EXCEPT !.pc = "done", !.result = "lost"]]
  /\ UNCHANGED <<due, pages>>

CallStep(c) == Check(c) \/ Admit(c) \/ Send(c) \/ Log(c) \/ AuditSent(c)

DeskNext ==
  \/ \E c \in Calls : CallStep(c) \/ Ack(c) \/ WindowEnds(c)
  \/ Desk \/ HourPasses \/ Restart

DeskSpec == DeskInit /\ [][DeskNext]_deskVars

\* Threads run, time passes; nobody has to call, and nobody has to acknowledge.
DeskFairSpec ==
  /\ DeskSpec /\ WF_deskVars(Desk)
  /\ \A c \in Calls : WF_deskVars(WindowEnds(c))

-----------------------------------------------------------------------------
(* Properties.                                                             *)

\* A caller that asks after somebody was told of the alert (a retry of a lost reply,
\* the next step of the session) does not page the operator again, across restarts.
AlertedOnce == \A c \in Calls : call[c].told => pages[c].primary = 0

\* An acknowledgement silences the alert: at most the page under way still goes out.
AckSilences == \A c \in Calls : pages[c].afterAck <= 1

\* AW-3: an alert that needs an acknowledgement gets it, or the backup is paged, unless
\* an audit error has ended the escalation thread and nobody restarts the broker, or a
\* crash has left a log on which the broker does not start.
UnackedIsEscalated ==
  <>[](desk.pc \in {"dead", "down"}) \/
  \A c \in NeedsAck : c \in Logged ~> alerts[c].acked \/ pages[c].backup > 0
=============================================================================
