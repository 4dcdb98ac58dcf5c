---------------------------- MODULE BrokerProofs ----------------------------
(***************************************************************************)
(* Proofs about the three brokers: the report broker (AlertDesk), for any  *)
(* number of calls, any rate cap and any number of crashes, sink failures  *)
(* and audit errors; the model broker (ModelSession), for any number of    *)
(* requests and all limits and prices; and what the observer broker sees   *)
(* of the daemon's breaker (Observation), for every rate and any number of *)
(* lost replies and restarts.                                              *)
(***************************************************************************)
EXTENDS AlertDesk, ModelSession, Observation, FiniteSetTheorems, TLAPS

-----------------------------------------------------------------------------
(* The report broker.                                                      *)


CallPCs == {"new", "checked", "sending", "sent", "logged", "done"}
Results == {None, "duplicate", "rate_limited", "alert_failed", "alert", "error", "lost"}
DeskPCs == {"wait", "visit", "page", "update", "audit", "dead", "down"}

CallRecords == [pc : CallPCs, result : Results, told : BOOLEAN]
AlertRecords == [logged : BOOLEAN, acked : BOOLEAN, resent : BOOLEAN, escalated : BOOLEAN]
PageCounts == [primary : Nat, backup : Nat, afterAck : Nat]
DeskRecords ==
  [pc : DeskPCs, todo : SUBSET Calls, at : Calls \union {None},
   what : {None, "resent", "escalated"}]

\* Types of the variables that the properties speak of.
AlertTypeInv ==
  /\ call \in [Calls -> CallRecords]
  /\ alerts \in [Calls -> AlertRecords]
  /\ pages \in [Calls -> PageCounts]
  /\ desk \in DeskRecords

\* The escalation thread works on alerts that are in the log.
DeskInv ==
  /\ desk.todo \subseteq Logged
  /\ desk.pc \in {"page", "update"} =>
       desk.at \in Logged /\ desk.what \in {"resent", "escalated"}

\* An alert is logged by its own call only, and nobody is told of it before.
LogInv ==
  \A c \in Calls :
    /\ alerts[c].logged => call[c].pc \in {"logged", "done"}
    /\ call[c].pc = "logged" \/ call[c].result = "alert" => alerts[c].logged
    /\ call[c].result = "duplicate" => Keyed \cap Logged # {}

\* A call pages the primary itself, or its alert is in the log.
ToldInv ==
  \A c \in Calls :
    /\ call[c].pc = "new" => pages[c].primary = 0
    /\ call[c].told => call[c].pc = "done" /\ ~alerts[c].logged /\ pages[c].primary = 0

\* The page after the acknowledgement was under way when it came, and it has gone out.
AckInv ==
  \A c \in Calls :
    /\ alerts[c].acked => alerts[c].logged
    /\ pages[c].afterAck > 0 =>
         /\ pages[c].afterAck = 1 /\ alerts[c].acked
         /\ ~(desk.pc = "page" /\ desk.at = c)

AlertInv == AlertTypeInv /\ DeskInv /\ LogInv /\ ToldInv /\ AckInv

-----------------------------------------------------------------------------
(* What the assignments of the actions change.                             *)

\* A call moves on.
LEMMA GotoFields ==
  ASSUME AlertTypeInv, NEW c \in Calls, NEW p \in CallPCs, Goto(c, p)
  PROVE  /\ call' \in [Calls -> CallRecords]
         /\ call'[c].pc = p /\ call'[c].result = call[c].result /\ call'[c].told = call[c].told
         /\ \A d \in Calls \ {c} : call'[d] = call[d]
<1>1. call[c] \in CallRecords
  BY DEF AlertTypeInv
<1>2. call' = [call EXCEPT ![c] = [call[c] EXCEPT !.pc = p]]
  BY DEF Goto
<1>3. [call[c] EXCEPT !.pc = p] \in CallRecords
  BY <1>1 DEF CallRecords
<1>4. call'[c] = [call[c] EXCEPT !.pc = p]
  BY <1>2 DEF AlertTypeInv
<1>5. call' \in [Calls -> CallRecords] /\ \A d \in Calls \ {c} : call'[d] = call[d]
  BY <1>2, <1>3 DEF AlertTypeInv
<1> QED BY <1>1, <1>4, <1>5 DEF CallRecords

\* A call is answered.
LEMMA AnswerFields ==
  ASSUME AlertTypeInv, NEW c \in Calls, NEW r \in Results, Answer(c, r)
  PROVE  /\ call' \in [Calls -> CallRecords]
         /\ call'[c].pc = "done" /\ call'[c].result = r /\ call'[c].told = call[c].told
         /\ \A d \in Calls \ {c} : call'[d] = call[d]
<1>1. call[c] \in CallRecords
  BY DEF AlertTypeInv
<1>2. call' = [call EXCEPT ![c] = [call[c] EXCEPT !.pc = "done", !.result = r]]
  BY DEF Answer, AlertTypeInv
<1>3. [call[c] EXCEPT !.pc = "done", !.result = r] \in CallRecords
  BY <1>1 DEF CallRecords, CallPCs
<1>4. call'[c] = [call[c] EXCEPT !.pc = "done", !.result = r]
  BY <1>2 DEF AlertTypeInv
<1>5. call' \in [Calls -> CallRecords] /\ \A d \in Calls \ {c} : call'[d] = call[d]
  BY <1>2, <1>3 DEF AlertTypeInv
<1> QED BY <1>1, <1>4, <1>5 DEF CallRecords

\* A page is counted, as one after the acknowledgement if there is one.
LEMMA PagedFields ==
  ASSUME AlertTypeInv, NEW c \in Calls, NEW target \in {"primary", "backup"}, Paged(c, target)
  PROVE  /\ pages' \in [Calls -> PageCounts]
         /\ \A d \in Calls \ {c} : pages'[d] = pages[d]
         /\ alerts[c].acked => pages'[c].afterAck = pages[c].afterAck + 1
         /\ ~alerts[c].acked => pages'[c].afterAck = pages[c].afterAck
<1> DEFINE n == IF alerts[c].acked THEN pages[c].afterAck + 1 ELSE pages[c].afterAck
<1>1. pages[c] \in PageCounts
  BY DEF AlertTypeInv
<1>2. n \in Nat
  BY <1>1 DEF PageCounts
<1>3. CASE target = "primary"
  <2> DEFINE m == pages[c].primary + 1
             r == [pages[c] EXCEPT !.primary = m, !.afterAck = n]
  <2>1. pages' = [pages EXCEPT ![c] = r]
    BY <1>1, <1>3 DEF Paged, PageCounts, AlertTypeInv
  <2>2. m \in Nat
    BY <1>1 DEF PageCounts
  <2> HIDE DEF n, m
  <2>3. r \in PageCounts /\ r.afterAck = n
    BY <1>1, <1>2, <2>2 DEF PageCounts
  <2> HIDE DEF r
  <2>4. /\ pages' \in [Calls -> PageCounts] /\ pages'[c] = r
        /\ \A d \in Calls \ {c} : pages'[d] = pages[d]
    BY <2>1, <2>3 DEF AlertTypeInv
  <2> QED BY <2>3, <2>4 DEF n
<1>4. CASE target = "backup"
  <2> DEFINE m == pages[c].backup + 1
             r == [pages[c] EXCEPT !.backup = m, !.afterAck = n]
  <2>1. pages' = [pages EXCEPT ![c] = r]
    BY <1>1, <1>4 DEF Paged, PageCounts, AlertTypeInv
  <2>2. m \in Nat
    BY <1>1 DEF PageCounts
  <2> HIDE DEF n, m
  <2>3. r \in PageCounts /\ r.afterAck = n
    BY <1>1, <1>2, <2>2 DEF PageCounts
  <2> HIDE DEF r
  <2>4. /\ pages' \in [Calls -> PageCounts] /\ pages'[c] = r
        /\ \A d \in Calls \ {c} : pages'[d] = pages[d]
    BY <2>1, <2>3 DEF AlertTypeInv
  <2> QED BY <2>3, <2>4 DEF n
<1> QED BY <1>3, <1>4

-----------------------------------------------------------------------------
(* The kinds of steps.                                                     *)

\* Only call c moves.
Moves(c) ==
  /\ call' \in [Calls -> CallRecords]
  /\ \A d \in Calls \ {c} : call'[d] = call[d]

\* The key is looked up.
Checks(c) ==
  /\ Moves(c) /\ UNCHANGED <<alerts, pages, desk>>
  /\ call[c].pc = "new" /\ call'[c].pc \in {"checked", "done"}
  /\ call'[c].result \in {None, "duplicate"}
  /\ call'[c].result = "duplicate" => Keyed \cap Logged # {}
  /\ call'[c].told => call'[c].pc = "done"

\* The call takes its place, or is answered.
Proceeds(c) ==
  /\ Moves(c) /\ UNCHANGED <<alerts, pages, desk>>
  /\ \/ call[c].pc = "checked" /\ call'[c].result # "alert"
     \/ call[c].pc = "logged" /\ call'[c].pc = "done"
  /\ call'[c].pc \notin {"new", "logged"} /\ call'[c].told = call[c].told
  /\ call'[c].result # "duplicate" \/ call'[c].result = call[c].result

\* The sink is called, and the page may be out.
Sends(c) ==
  /\ Moves(c) /\ UNCHANGED <<alerts, desk>>
  /\ call[c].pc = "sending" /\ call'[c].pc \in {"sent", "done"}
  /\ call'[c].told = call[c].told
  /\ call'[c].result \in {call[c].result, "alert_failed"}
  /\ pages' = pages \/ Paged(c, "primary")

\* The alert is logged.
Logs(c) ==
  /\ Moves(c) /\ UNCHANGED <<pages, desk>>
  /\ call[c].pc = "sent" /\ call'[c].pc = "logged"
  /\ call'[c].told = call[c].told /\ call'[c].result = call[c].result
  /\ alerts' = [alerts EXCEPT ![c] = NewAlert]

\* A restart of the broker: the calls under way are lost.
Restarts ==
  /\ UNCHANGED <<alerts, pages>> /\ desk' \in {AtRest, Down}
  /\ call' \in [Calls -> CallRecords]
  /\ \A c \in Calls : \/ call'[c] = call[c]
                      \/ /\ call[c].pc \notin {"new", "done"} /\ call'[c].pc = "done"
                         /\ call'[c].result = "lost" /\ call'[c].told = call[c].told

\* The escalation thread between two pages: it goes for an alert that nobody has
\* acknowledged.
Looks ==
  /\ UNCHANGED <<call, alerts, pages>>
  /\ desk' \in DeskRecords
  /\ desk'.pc \in {"wait", "visit", "page", "dead"} /\ desk'.todo \subseteq Logged
  /\ desk'.pc = "page" => /\ desk'.at \in Logged /\ ~alerts[desk'.at].acked
                          /\ desk'.what \in {"resent", "escalated"}

\* The escalation thread pages.
Pages ==
  /\ UNCHANGED <<call, alerts>>
  /\ desk' \in DeskRecords
  /\ desk.pc = "page" /\ desk'.pc \in {"update", "visit"}
  /\ desk'.todo = desk.todo /\ desk'.at = desk.at /\ desk'.what = desk.what
  /\ pages' = pages \/ Paged(desk.at, Target)

\* The page is recorded in the log.
Records ==
  /\ UNCHANGED <<call, pages>>
  /\ desk' \in DeskRecords
  /\ desk.pc = "update" /\ desk'.pc = "audit" /\ desk'.todo = desk.todo
  /\ alerts' \in [Calls -> AlertRecords]
  /\ \A c \in Calls : /\ alerts'[c].logged = alerts[c].logged
                      /\ alerts'[c].acked = alerts[c].acked

\* A step of a call is of one of its kinds.
LEMMA CallKinds ==
  ASSUME AlertTypeInv, DeskInv, LogInv, NEW c \in Calls, CallStep(c)
  PROVE  Checks(c) \/ Proceeds(c) \/ Sends(c) \/ Logs(c)
<1>0. call[c] \in CallRecords
  BY DEF AlertTypeInv
<1>1. CASE Check(c)
  <2> DEFINE r == [pc |-> IF KeyTaken(c) THEN "done" ELSE "checked",
                   result |-> IF KeyTaken(c) THEN "duplicate" ELSE None,
                   told |-> c \in Keyed /\ ToldOf # {}]
  <2>1. call' = [call EXCEPT ![c] = r]
    BY <1>1 DEF Check
  <2>2. r \in CallRecords
    BY DEF CallRecords, CallPCs, Results
  <2>3. /\ r.pc \in {"checked", "done"} /\ r.result \in {None, "duplicate"}
        /\ r.result = "duplicate" => KeyTaken(c)
        /\ r.told => c \in Keyed /\ ToldOf # {}
        /\ KeyTaken(c) => r.pc = "done"
    BY DEF None
  <2>4. c \in Keyed /\ ToldOf # {} => KeyTaken(c)
    <3> SUFFICES ASSUME c \in Keyed, ToldOf # {}
                 PROVE  Keyed \cap Logged # {}
      BY DEF KeyTaken
    <3>1. PICK d \in Keyed : call[d].result \in {"alert", "duplicate"}
      BY DEF ToldOf
    <3>2. d \in Calls
      BY DeskAssumption
    <3> QED BY <3>1, <3>2 DEF LogInv, Logged
  <2> HIDE DEF r
  <2>5. call'[c] = r /\ Moves(c)
    BY <2>1, <2>2 DEF AlertTypeInv, Moves
  <2> QED BY <1>1, <2>3, <2>4, <2>5 DEF Check, Checks, KeyTaken
<1>2. CASE Admit(c)
  <2>1. CASE Goto(c, "sending")
    <3>1. "sending" \in CallPCs
      BY DEF CallPCs
    <3>2. Moves(c) /\ call'[c].pc = "sending" /\ call'[c].result = call[c].result
          /\ call'[c].told = call[c].told
      BY <2>1, <3>1, GotoFields DEF Moves
    <3>3. call[c].result # "alert"
      BY <1>2 DEF Admit, LogInv
    <3> QED BY <1>2, <3>2, <3>3 DEF Admit, Proceeds
  <2>2. CASE Answer(c, "rate_limited")
    <3>1. "rate_limited" \in Results
      BY DEF Results
    <3>2. Moves(c) /\ call'[c].pc = "done" /\ call'[c].result = "rate_limited"
          /\ call'[c].told = call[c].told
      BY <2>2, <3>1, AnswerFields DEF Moves
    <3> QED BY <1>2, <3>2 DEF Admit, Proceeds
  <2> QED BY <1>2, <2>1, <2>2 DEF Admit
<1>3. CASE Send(c)
  <2>1. CASE Goto(c, "sent") /\ Paged(c, "primary")
    <3>1. "sent" \in CallPCs
      BY DEF CallPCs
    <3>2. Moves(c) /\ call'[c].pc = "sent" /\ call'[c].result = call[c].result
          /\ call'[c].told = call[c].told
      BY <2>1, <3>1, GotoFields DEF Moves
    <3> QED BY <1>3, <2>1, <3>2 DEF Send, Sends
  <2>2. CASE Answer(c, "alert_failed") /\ (Paged(c, "primary") \/ UNCHANGED pages)
    <3>1. "alert_failed" \in Results
      BY DEF Results
    <3>2. Moves(c) /\ call'[c].pc = "done" /\ call'[c].result = "alert_failed"
          /\ call'[c].told = call[c].told
      BY <2>2, <3>1, AnswerFields DEF Moves
    <3> QED BY <1>3, <2>2, <3>2 DEF Send, Sends
  <2> QED BY <1>3, <2>1, <2>2 DEF Send, SinkFails
<1>4. CASE Log(c)
  <2>1. "logged" \in CallPCs
    BY DEF CallPCs
  <2>2. Moves(c) /\ call'[c].pc = "logged" /\ call'[c].result = call[c].result
        /\ call'[c].told = call[c].told
    BY <1>4, <2>1, GotoFields DEF Moves, Log
  <2> QED BY <1>4, <2>2 DEF Log, Logs
<1>5. CASE AuditSent(c)
  <2>1. PICK r \in {"alert", "error"} : Answer(c, r)
    BY <1>5 DEF AuditSent
  <2>2. r \in Results
    BY DEF Results
  <2>3. Moves(c) /\ call'[c].pc = "done" /\ call'[c].result = r
        /\ call'[c].told = call[c].told
    BY <2>1, <2>2, AnswerFields DEF Moves
  <2> QED BY <1>5, <2>3 DEF AuditSent, Proceeds
<1> QED BY <1>1, <1>2, <1>3, <1>4, <1>5 DEF CallStep

\* The thread at rest has nothing to visit.
LEMMA RestingDesk ==
  /\ Down \in DeskRecords /\ Down.pc = "down" /\ Down.todo = {}
  /\ AtRest \in DeskRecords /\ AtRest.pc = "wait" /\ AtRest.todo = {}
  /\ [AtRest EXCEPT !.pc = "dead"] \in DeskRecords
  /\ [AtRest EXCEPT !.pc = "dead"].pc = "dead" /\ [AtRest EXCEPT !.pc = "dead"].todo = {}
BY DEF AtRest, Down, DeskRecords, DeskPCs, None

\* A step of the escalation thread is of one of its kinds.
LEMMA DeskKinds ==
  ASSUME AlertTypeInv, DeskInv, Desk
  PROVE  Looks \/ Pages \/ Records
<1>0. desk \in DeskRecords /\ Logged \subseteq Calls
  BY DEF AlertTypeInv, Logged
<1>1. CASE Tick
  <2>1. desk' = [desk EXCEPT !.pc = "visit", !.todo = Logged \cap due]
    BY <1>1 DEF Tick
  <2>2. desk' \in DeskRecords /\ desk'.pc = "visit" /\ desk'.todo \subseteq Logged
    BY <1>0, <2>1 DEF DeskRecords, DeskPCs
  <2> QED BY <1>1, <2>2 DEF Tick, Looks
<1>2. ASSUME NEW c \in Calls, Visit(c)
      PROVE  Looks
  <2>1. CASE Wanted(c)
    <3> DEFINE what == IF alerts[c].resent THEN "escalated" ELSE "resent"
    <3>1. desk' = [desk EXCEPT !.pc = "page", !.todo = @ \ {c}, !.at = c, !.what = what]
      BY <1>2, <2>1 DEF Visit
    <3>2. what \in {"resent", "escalated"}
      OBVIOUS
    <3> HIDE DEF what
    <3>3. /\ desk' \in DeskRecords /\ desk'.pc = "page" /\ desk'.todo = desk.todo \ {c}
          /\ desk'.at = c /\ desk'.what = what
      BY <1>0, <3>1, <3>2 DEF DeskRecords, DeskPCs
    <3>4. c \in Logged /\ ~alerts[c].acked
      BY <1>2, <2>1 DEF Visit, DeskInv, Wanted
    <3> QED BY <1>2, <3>2, <3>3, <3>4 DEF Visit, Looks, DeskInv
  <2>2. CASE ~Wanted(c)
    <3>1. desk' = [desk EXCEPT !.todo = @ \ {c}]
      BY <1>2, <2>2 DEF Visit
    <3>2. desk' \in DeskRecords /\ desk'.pc = desk.pc /\ desk'.todo = desk.todo \ {c}
      BY <1>0, <3>1 DEF DeskRecords
    <3> QED BY <1>2, <3>2 DEF Visit, Looks, DeskInv
  <2> QED BY <2>1, <2>2
<1>3. CASE Page
  <2>1. PICK p \in {"update", "visit"} : desk' = [desk EXCEPT !.pc = p]
    BY <1>3 DEF Page
  <2>2. /\ desk' \in DeskRecords /\ desk'.pc = p
        /\ desk'.todo = desk.todo /\ desk'.at = desk.at /\ desk'.what = desk.what
    BY <1>0, <2>1 DEF DeskRecords, DeskPCs
  <2> QED BY <1>3, <2>2 DEF Page, Pages, SinkFails
<1>4. CASE Update
  <2>1. desk' = [desk EXCEPT !.pc = "audit"]
    BY <1>4 DEF Update
  <2>2. desk' \in DeskRecords /\ desk'.pc = "audit" /\ desk'.todo = desk.todo
    BY <1>0, <2>1 DEF DeskRecords, DeskPCs
  <2>3. desk.at \in Calls /\ desk.what \in {"resent", "escalated"}
    BY <1>0, <1>4 DEF Update, DeskInv
  <2>4. alerts[desk.at] \in AlertRecords
    BY <2>3 DEF AlertTypeInv
  <2>5. PICK r \in AlertRecords :
          /\ r.logged = alerts[desk.at].logged /\ r.acked = alerts[desk.at].acked
          /\ alerts' = [alerts EXCEPT ![desk.at] = r]
    <3>1. CASE desk.what = "resent"
      <4>1. alerts' = [alerts EXCEPT ![desk.at] = [alerts[desk.at] EXCEPT !.resent = TRUE]]
        BY <1>4, <3>1, <2>4 DEF Update, AlertRecords, AlertTypeInv
      <4> QED BY <4>1, <2>4 DEF AlertRecords
    <3>2. CASE desk.what = "escalated"
      <4>1. alerts' = [alerts EXCEPT ![desk.at] = [alerts[desk.at] EXCEPT !.escalated = TRUE]]
        BY <1>4, <3>2, <2>4 DEF Update, AlertRecords, AlertTypeInv
      <4> QED BY <4>1, <2>4 DEF AlertRecords
    <3> QED BY <2>3, <3>1, <3>2
  <2>6. alerts' \in [Calls -> AlertRecords] /\ alerts'[desk.at] = r
        /\ \A c \in Calls \ {desk.at} : alerts'[c] = alerts[c]
    BY <2>3, <2>5 DEF AlertTypeInv
  <2> QED BY <1>4, <2>2, <2>5, <2>6 DEF Update, Records
<1>5. CASE AuditUpdate
  <2>1. CASE desk' = [desk EXCEPT !.pc = "visit", !.at = None, !.what = None]
    <3>1. desk' \in DeskRecords /\ desk'.pc = "visit" /\ desk'.todo = desk.todo
      BY <1>0, <2>1 DEF DeskRecords, DeskPCs
    <3> QED BY <1>5, <3>1 DEF AuditUpdate, Looks, DeskInv
  <2>2. CASE desk' = [AtRest EXCEPT !.pc = "dead"]
    BY <1>5, <2>2, RestingDesk DEF AuditUpdate, Looks
  <2> QED BY <1>5, <2>1, <2>2 DEF AuditUpdate
<1>6. CASE TickEnds
  BY <1>6, RestingDesk DEF TickEnds, Looks
<1> QED BY <1>1, <1>2, <1>3, <1>4, <1>5, <1>6 DEF Desk

\* A restart loses the calls under way and keeps the log.
LEMMA RestartKind ==
  ASSUME AlertTypeInv, Restart
  PROVE  Restarts
<1>1. ASSUME NEW c \in Calls
      PROVE  /\ call'[c] \in CallRecords
             /\ \/ call'[c] = call[c]
                \/ /\ call[c].pc \notin {"new", "done"} /\ call'[c].pc = "done"
                   /\ call'[c].result = "lost" /\ call'[c].told = call[c].told
  <2>1. call[c] \in CallRecords
    BY DEF AlertTypeInv
  <2>2. CASE call[c].pc \in {"new", "done"}
    BY <2>1, <2>2 DEF Restart
  <2>3. CASE call[c].pc \notin {"new", "done"}
    <3>1. call'[c] = [call[c] EXCEPT !.pc = "done", !.result = "lost"]
      BY <2>3 DEF Restart
    <3> QED BY <2>1, <2>3, <3>1 DEF CallRecords, CallPCs, Results
  <2> QED BY <2>2, <2>3
<1>2. call' \in [Calls -> CallRecords]
  BY <1>1 DEF Restart
<1> QED BY <1>1, <1>2 DEF Restart, Restarts, Load

\* The alert is acknowledged.
Acks(c) ==
  /\ UNCHANGED <<call, pages, desk>> /\ alerts[c].logged
  /\ alerts' \in [Calls -> AlertRecords]
  /\ alerts'[c].logged /\ alerts'[c].acked
  /\ \A d \in Calls \ {c} : alerts'[d] = alerts[d]

\* Time passes.
Stays == UNCHANGED <<call, alerts, pages, desk>>

\* Every step is of one of the kinds.
LEMMA AlertStepKinds ==
  ASSUME AlertTypeInv, DeskInv, LogInv, [DeskNext]_deskVars
  PROVE  \/ \E c \in Calls : Checks(c) \/ Proceeds(c) \/ Sends(c) \/ Logs(c) \/ Acks(c)
         \/ Looks \/ Pages \/ Records \/ Restarts \/ Stays
<1>1. ASSUME NEW c \in Calls, CallStep(c)
      PROVE  Checks(c) \/ Proceeds(c) \/ Sends(c) \/ Logs(c)
  BY <1>1, CallKinds
<1>2. ASSUME NEW c \in Calls, Ack(c)
      PROVE  Acks(c)
  <2>1. alerts[c] \in AlertRecords
    BY DEF AlertTypeInv
  <2>2. alerts' = [alerts EXCEPT ![c] = [alerts[c] EXCEPT !.acked = TRUE]]
    BY <1>2 DEF Ack
  <2>3. [alerts[c] EXCEPT !.acked = TRUE] \in AlertRecords
    BY <2>1 DEF AlertRecords
  <2>4. /\ alerts' \in [Calls -> AlertRecords]
        /\ alerts'[c] = [alerts[c] EXCEPT !.acked = TRUE]
        /\ \A d \in Calls \ {c} : alerts'[d] = alerts[d]
    BY <2>2, <2>3 DEF AlertTypeInv
  <2>5. alerts[c].logged
    BY <1>2 DEF Ack, Logged
  <2>6. alerts'[c].logged = alerts[c].logged /\ alerts'[c].acked = TRUE
    BY <2>1, <2>4 DEF AlertRecords
  <2> QED BY <1>2, <2>4, <2>5, <2>6 DEF Ack, Acks
<1>3. ASSUME NEW c \in Calls, WindowEnds(c)
      PROVE  Stays
  BY <1>3 DEF WindowEnds, Stays
<1>4. CASE HourPasses \/ UNCHANGED deskVars
  BY <1>4 DEF HourPasses, deskVars, Stays
<1>5. CASE Desk
  BY <1>5, DeskKinds
<1>6. CASE Restart
  BY <1>6, RestartKind
<1> QED BY <1>1, <1>2, <1>3, <1>4, <1>5, <1>6 DEF DeskNext

-----------------------------------------------------------------------------
(* The invariant, kind by kind.                                            *)

\* The steps of a call and of the operator.
LEMMA CallKeeps ==
  ASSUME AlertInv, NEW c \in Calls,
         Checks(c) \/ Proceeds(c) \/ Sends(c) \/ Logs(c) \/ Acks(c)
  PROVE  AlertInv'
<1> USE DEF AlertInv
<1>0. c \in Calls /\ "primary" \in {"primary", "backup"}
  OBVIOUS
<1>1. NewAlert \in AlertRecords /\ NewAlert.logged /\ ~NewAlert.acked
  BY DEF NewAlert, AlertRecords
<1>2. /\ \A d \in Calls \ {c} : alerts'[d] = alerts[d] /\ call'[d] = call[d]
      /\ alerts' \in [Calls -> AlertRecords] /\ call' \in [Calls -> CallRecords]
  BY <1>1 DEF Checks, Proceeds, Sends, Logs, Acks, Moves, AlertTypeInv
<1>3. /\ pages' \in [Calls -> PageCounts]
      /\ \A d \in Calls \ {c} : pages'[d] = pages[d]
      /\ pages'[c] = pages[c]
         \/ (call[c].pc = "sending" /\ (~alerts[c].acked => pages'[c].afterAck = pages[c].afterAck))
  <2>1. CASE Sends(c) /\ Paged(c, "primary")
    BY <2>1, <1>0, PagedFields DEF Sends
  <2>2. CASE pages' = pages
    BY <2>2 DEF AlertTypeInv
  <2> QED BY <2>1, <2>2 DEF Checks, Proceeds, Sends, Logs, Acks
<1>4. desk' = desk
  BY DEF Checks, Proceeds, Sends, Logs, Acks
<1>5. alerts[c].logged => alerts'[c].logged
  BY <1>1 DEF Checks, Proceeds, Sends, Logs, Acks, AlertTypeInv
<1>6. Logged \subseteq Logged' /\ Logged \subseteq Calls
  BY <1>2, <1>5 DEF Logged
<1>7. AlertTypeInv'
  BY <1>2, <1>3, <1>4 DEF AlertTypeInv
<1>8. DeskInv'
  BY <1>4, <1>6 DEF DeskInv
<1>9. LogInv'
  <2>1. ASSUME NEW d \in Calls, call[d].result = "duplicate" \/ Checks(c),
               call'[d].result = "duplicate"
        PROVE  Keyed \cap Logged' # {}
    BY <1>2, <1>6, <2>1 DEF LogInv, Checks
  <2>2. call'[c].result = "duplicate" => call[c].result = "duplicate" \/ Checks(c)
    BY DEF Proceeds, Sends, Logs, Acks
  <2>3. ASSUME NEW d \in Calls \ {c}
        PROVE  /\ alerts'[d].logged => call'[d].pc \in {"logged", "done"}
               /\ call'[d].pc = "logged" \/ call'[d].result = "alert" => alerts'[d].logged
               /\ call'[d].result = "duplicate" => Keyed \cap Logged' # {}
    BY <1>2, <2>1 DEF LogInv
  <2>4. /\ alerts'[c].logged => call'[c].pc \in {"logged", "done"}
        /\ call'[c].pc = "logged" \/ call'[c].result = "alert" => alerts'[c].logged
    <3>1. CASE Checks(c)
      BY <3>1 DEF Checks, LogInv, None
    <3>2. CASE Proceeds(c)
      BY <3>2 DEF Proceeds, LogInv
    <3>3. CASE Sends(c)
      BY <3>3 DEF Sends, LogInv
    <3>4. CASE Logs(c)
      BY <3>4, <1>1 DEF Logs, AlertTypeInv
    <3>5. CASE Acks(c)
      BY <3>5 DEF Acks, LogInv
    <3> QED BY <3>1, <3>2, <3>3, <3>4, <3>5
  <2> QED BY <2>1, <2>2, <2>3, <2>4 DEF LogInv
<1>10. ToldInv'
  <2>1. /\ call'[c].pc = "new" => pages'[c].primary = 0
        /\ call'[c].told => call'[c].pc = "done" /\ ~alerts'[c].logged /\ pages'[c].primary = 0
    <3>1. CASE Checks(c)
      BY <3>1 DEF Checks, ToldInv, LogInv
    <3>2. CASE Proceeds(c)
      BY <3>2 DEF Proceeds, ToldInv
    <3>3. CASE Sends(c)
      BY <3>3 DEF Sends, ToldInv
    <3>4. CASE Logs(c)
      BY <3>4 DEF Logs, ToldInv
    <3>5. CASE Acks(c)
      BY <3>5 DEF Acks, ToldInv
    <3> QED BY <3>1, <3>2, <3>3, <3>4, <3>5
  <2> QED BY <2>1, <1>2, <1>3 DEF ToldInv
<1>11. AckInv'
  <2>1. pages[c].afterAck \in Nat /\ pages'[c].afterAck \in Nat
    BY <1>3 DEF AlertTypeInv, PageCounts
  <2>2. /\ alerts'[c].acked => alerts'[c].logged
        /\ pages'[c].afterAck > 0 =>
             /\ pages'[c].afterAck = 1 /\ alerts'[c].acked
             /\ ~(desk.pc = "page" /\ desk.at = c)
    <3>1. CASE Checks(c) \/ Proceeds(c)
      BY <3>1 DEF Checks, Proceeds, AckInv
    <3>2. CASE Sends(c)
      <4>1. alerts' = alerts /\ ~alerts[c].logged
        BY <3>2 DEF Sends, LogInv
      <4> QED BY <4>1, <1>3, <2>1 DEF AckInv
    <3>3. CASE Logs(c)
      <4>1. ~alerts[c].logged /\ pages'[c].afterAck = pages[c].afterAck
        BY <3>3 DEF Logs, LogInv
      <4>2. alerts'[c] = NewAlert
        BY <3>3 DEF Logs, AlertTypeInv
      <4> QED BY <4>1, <4>2, <2>1, <1>1 DEF AckInv
    <3>4. CASE Acks(c)
      BY <3>4 DEF Acks, AckInv
    <3> QED BY <3>1, <3>2, <3>3, <3>4
  <2> QED BY <2>2, <1>2, <1>3, <1>4 DEF AckInv
<1> QED BY <1>7, <1>8, <1>9, <1>10, <1>11

\* The steps of the escalation thread, a restart and the passing of time.
LEMMA DeskKeeps ==
  ASSUME AlertInv, Looks \/ Pages \/ Records \/ Restarts \/ Stays
  PROVE  AlertInv'
<1> USE DEF AlertInv
<1>1. /\ call' \in [Calls -> CallRecords] /\ alerts' \in [Calls -> AlertRecords]
      /\ \A c \in Calls : /\ alerts'[c].logged = alerts[c].logged
                          /\ alerts'[c].acked = alerts[c].acked
                          /\ \/ call'[c] = call[c]
                             \/ /\ call[c].pc \notin {"new", "done"} /\ call'[c].pc = "done"
                                /\ call'[c].result = "lost" /\ call'[c].told = call[c].told
  BY DEF Looks, Pages, Records, Restarts, Stays, AlertTypeInv
<1>2. Logged' = Logged /\ Logged \subseteq Calls
  BY <1>1 DEF Logged
<1>3. desk' \in DeskRecords
  BY RestingDesk DEF Looks, Pages, Records, Restarts, Stays, AlertTypeInv
<1>4. CASE Pages /\ pages' # pages
  <2> DEFINE c == desk.at
  <2>1. c \in Logged /\ c \in Calls
    BY <1>2, <1>4 DEF Pages, DeskInv
  <2>2. Target \in {"primary", "backup"}
    BY DEF Target
  <2>3. /\ pages' \in [Calls -> PageCounts]
        /\ \A d \in Calls \ {c} : pages'[d] = pages[d]
        /\ alerts[c].acked => pages'[c].afterAck = pages[c].afterAck + 1
        /\ ~alerts[c].acked => pages'[c].afterAck = pages[c].afterAck
    BY <1>4, <2>1, <2>2, PagedFields DEF Pages
  <2> HIDE DEF c
  <2>4. UNCHANGED <<call, alerts>>
    BY <1>4 DEF Pages
  <2>5. AlertTypeInv'
    BY <1>1, <1>3, <2>3 DEF AlertTypeInv
  <2>6. DeskInv'
    BY <1>2, <1>4 DEF Pages, DeskInv
  <2>7. LogInv'
    BY <1>2, <2>4 DEF LogInv
  <2>8. ToldInv'
    BY <2>1, <2>3, <2>4 DEF ToldInv, LogInv, Logged
  <2>9. AckInv'
    <3>1. desk.pc = "page" /\ desk'.pc # "page"
      BY <1>4 DEF Pages
    <3>2. pages[c].afterAck = 0 /\ pages'[c].afterAck \in {0, 1}
          /\ (pages'[c].afterAck = 1 => alerts[c].acked)
      <4>1. pages[c].afterAck \in Nat
        BY <2>1 DEF AlertTypeInv, PageCounts
      <4>2. ~(pages[c].afterAck > 0)
        BY <2>1, <3>1 DEF AckInv, c
      <4> QED BY <4>1, <4>2, <2>3
    <3> QED BY <2>3, <2>4, <3>1, <3>2 DEF AckInv
  <2> QED BY <2>5, <2>6, <2>7, <2>8, <2>9
<1>5. CASE pages' = pages
  <2>1. AlertTypeInv'
    BY <1>1, <1>3, <1>5 DEF AlertTypeInv
  <2>2. DeskInv'
    BY <1>2, RestingDesk DEF Looks, Pages, Records, Restarts, Stays, DeskInv
  <2>3. LogInv'
    BY <1>1, <1>2 DEF LogInv
  <2>4. ToldInv'
    BY <1>1, <1>5 DEF ToldInv
  <2>5. ASSUME NEW c \in Calls, alerts[c].acked, ~(desk.pc = "page" /\ desk.at = c)
        PROVE  ~(desk'.pc = "page" /\ desk'.at = c)
    BY <2>5, RestingDesk DEF Looks, Pages, Records, Restarts, Stays
  <2>6. AckInv'
    BY <1>1, <1>5, <2>5 DEF AckInv
  <2> QED BY <2>1, <2>2, <2>3, <2>4, <2>6
<1> QED BY <1>4, <1>5 DEF Looks, Pages, Records, Restarts, Stays

\* The invariant is inductive.
LEMMA AlertInvInductive ==
  ASSUME AlertInv, [DeskNext]_deskVars
  PROVE  AlertInv'
<1>1. \/ \E c \in Calls : Checks(c) \/ Proceeds(c) \/ Sends(c) \/ Logs(c) \/ Acks(c)
      \/ Looks \/ Pages \/ Records \/ Restarts \/ Stays
  BY AlertStepKinds DEF AlertInv
<1> QED BY <1>1, CallKeeps, DeskKeeps

\* Nobody has called and the log is empty.
LEMMA AlertInitInv == DeskInit => AlertInv
<1> SUFFICES ASSUME DeskInit PROVE AlertInv
  OBVIOUS
<1>1. NoAlert \in AlertRecords /\ ~NoAlert.logged /\ ~NoAlert.acked
  BY DEF NoAlert, NewAlert, AlertRecords
<1>2. \A c \in Calls : /\ alerts[c] = NoAlert
                       /\ call[c] = [pc |-> "new", result |-> None, told |-> FALSE]
                       /\ pages[c] = [primary |-> 0, backup |-> 0, afterAck |-> 0]
  BY DEF DeskInit
<1>3. /\ alerts \in [Calls -> AlertRecords] /\ call \in [Calls -> CallRecords]
      /\ pages \in [Calls -> PageCounts]
  BY <1>1 DEF DeskInit, CallRecords, CallPCs, Results, PageCounts
<1>4. AlertTypeInv /\ DeskInv
  BY <1>3, RestingDesk DEF DeskInit, AlertTypeInv, DeskInv
<1>5. LogInv
  BY <1>1, <1>2 DEF LogInv, None
<1>6. ToldInv /\ AckInv
  BY <1>1, <1>2 DEF ToldInv, AckInv
<1> QED BY <1>4, <1>5, <1>6 DEF AlertInv

\* The invariant holds in every reachable state.
LEMMA AlertInvHolds == DeskSpec => []AlertInv
BY AlertInitInv, AlertInvInductive, PTL DEF DeskSpec

\* send_alert and its log: a caller that asks after somebody was told of the key does
\* not page the primary, over any interleaving of calls, sweeps, restarts and failing
\* sinks, and for every rate cap.
THEOREM AlertIsOnce == DeskSpec => []AlertedOnce
<1>1. AlertInv => AlertedOnce
  BY DEF AlertInv, ToldInv, AlertedOnce
<1> QED BY <1>1, AlertInvHolds, PTL

\* escalate_loop re-reads the acknowledgement before each alert: at most the page that
\* was under way goes out after it, over restarts and failing sinks.
THEOREM AckIsSilence == DeskSpec => []AckSilences
<1>1. ASSUME AlertInv PROVE AckSilences
  <2> SUFFICES ASSUME NEW c \in Calls PROVE pages[c].afterAck <= 1
    BY DEF AckSilences
  <2>1. pages[c].afterAck \in Nat
    BY <1>1 DEF AlertInv, AlertTypeInv, PageCounts
  <2> QED BY <1>1, <2>1 DEF AlertInv, AckInv
<1> QED BY <1>1, AlertInvHolds, PTL
-----------------------------------------------------------------------------
(* The model broker.  Output and money are kept in the same way: a request *)
(* is admitted with a reserve, the provider charges it, and what its       *)
(* answer states is metered.                                               *)

SessionPCs == {"new", "admitted", "answered", "done", "refused"}

HandlerRecords == [pc : SessionPCs, est : Nat, clamp : Nat, in : Nat, out : Nat]

SessionTypeInv ==
  /\ {requests, inputTokens, outputTokens, usd, peak} \subseteq Nat
  /\ handler \in [Handlers -> HandlerRecords]
  /\ used \in [requests : Nat, in : Nat, out : Nat]
  /\ lost \in [in : Nat, out : Nat]

Forwarding == {h \in Handlers : handler[h].pc = "admitted"}
Metering == {h \in Handlers : handler[h].pc = "answered"}

\* Every request that is counted has been charged, or is on its way to the provider.
RequestInv ==
  /\ IsFiniteSet(Forwarding) /\ IsFiniteSet(Metering)
  /\ requests = used.requests + Cardinality(Forwarding)
  /\ requests <= MaxRequests

\* The sum of the weights w over the set S, as the number of elements of a set.
Units(S, w) == UNION {{h} \X (1..w[h]) : h \in S}
Total(S, w) == Cardinality(Units(S, w))

Accounts == [limit : Nat, spent : Nat, metered : Nat, forgiven : Nat,
             reserved : [Handlers -> Nat], stated : [Handlers -> Nat]]

\* What is spent is metered, about to be metered or forgiven; and together with what is
\* reserved it keeps the limit once for each of the p requests that were under way together.
Balanced(F, M, p, a) ==
  /\ \A h \in F : a.reserved[h] <= a.limit
  /\ \A h \in M : a.stated[h] <= a.limit
  /\ a.spent <= a.metered + Total(M, a.stated) + a.forgiven
  /\ a.spent + Total(F, a.reserved) <= p * a.limit + a.forgiven

Cost(in, out) == in * PriceIn + out * PriceOut

\* What a request may cost.
Reserve(est, clamp) == Cost(est, MostOutput(clamp))

OutputAccount ==
  [limit |-> MaxOutput * Fan, spent |-> used.out, metered |-> outputTokens, forgiven |-> lost.out,
   reserved |-> [h \in Handlers |-> MostOutput(handler[h].clamp)],
   stated |-> [h \in Handlers |-> handler[h].out]]

\* An answer may state more input than its estimate: the excess is forgiven at once.
MoneyAccount ==
  [limit |-> MaxUsd * Fan, spent |-> Cost(used.in, used.out), metered |-> usd,
   forgiven |-> Cost(lost.in, lost.out) + used.requests * (Slack * PriceIn),
   reserved |-> [h \in Handlers |-> Reserve(handler[h].est, handler[h].clamp)],
   stated |-> [h \in Handlers |-> Min2(Cost(handler[h].in, handler[h].out),
                                       Reserve(handler[h].est, handler[h].clamp))]]

SessionInv ==
  /\ SessionTypeInv /\ RequestInv
  /\ Balanced(Forwarding, Metering, peak, OutputAccount)
  /\ PriceOut > 0 => Balanced(Forwarding, Metering, peak, MoneyAccount)

\* Sums of one element, and of one element more.
LEMMA UnitsOne ==
  ASSUME NEW h, NEW w, w[h] \in Nat
  PROVE  IsFiniteSet({h} \X (1..w[h])) /\ Cardinality({h} \X (1..w[h])) = w[h]
<1>1. IsFiniteSet({h}) /\ Cardinality({h}) = 1
  BY FS_Singleton
<1>2. IsFiniteSet(1..w[h]) /\ Cardinality(1..w[h]) = w[h]
  BY FS_Interval
<1>3. /\ IsFiniteSet({h} \X (1..w[h]))
      /\ Cardinality({h} \X (1..w[h])) = Cardinality({h}) * Cardinality(1..w[h])
  BY <1>1, <1>2, FS_Product
<1> QED BY <1>1, <1>2, <1>3

\* A sum depends on the weights in its set only.
LEMMA TotalSame ==
  ASSUME NEW S, NEW v, NEW w, \A g \in S : w[g] = v[g]
  PROVE  Units(S, w) = Units(S, v) /\ Total(S, w) = Total(S, v)
BY DEF Units, Total

\* The sum over a bounded set of weights: at most the bound for each of them.
LEMMA TotalBound ==
  ASSUME NEW S, IsFiniteSet(S), NEW w, NEW m \in Nat, \A g \in S : w[g] \in Nat /\ w[g] <= m
  PROVE  /\ IsFiniteSet(Units(S, w)) /\ Total(S, w) \in Nat
         /\ Total(S, w) <= Cardinality(S) * m
<1>1. Units(S, w) \subseteq S \X (1..m)
  BY DEF Units
<1>2. IsFiniteSet(1..m) /\ Cardinality(1..m) = m
  BY FS_Interval
<1>3. IsFiniteSet(S \X (1..m)) /\ Cardinality(S \X (1..m)) = Cardinality(S) * m
  BY <1>2, FS_Product
<1>4. IsFiniteSet(Units(S, w)) /\ Cardinality(Units(S, w)) <= Cardinality(S \X (1..m))
  BY <1>1, <1>3, FS_Subset
<1> QED BY <1>3, <1>4, FS_CardinalityType DEF Total

\* Adding an element adds its weight.
LEMMA TotalAdd ==
  ASSUME NEW S, IsFiniteSet(S), NEW w, NEW m \in Nat, \A g \in S : w[g] \in Nat /\ w[g] <= m,
         NEW h, h \notin S, w[h] \in Nat
  PROVE  Total(S \union {h}, w) = Total(S, w) + w[h]
<1> DEFINE one == {h} \X (1..w[h])
<1>1. Units(S \union {h}, w) = Units(S, w) \union one
  BY DEF Units
<1>2. Units(S, w) \cap one = {}
  BY DEF Units
<1>3. IsFiniteSet(Units(S, w)) /\ Total(S, w) \in Nat
  BY TotalBound
<1>4. IsFiniteSet(one) /\ Cardinality(one) = w[h]
  BY UnitsOne
<1> HIDE DEF one
<1>5. Cardinality(Units(S, w) \union one) =
        Cardinality(Units(S, w)) + Cardinality(one) - Cardinality(Units(S, w) \cap one)
  BY <1>3, <1>4, FS_Union
<1>6. Cardinality({}) = 0
  BY FS_EmptySet
<1>7. Cardinality(Units(S, w) \cap one) = 0
  BY <1>2, <1>6
<1>8. Cardinality(Units(S, w)) \in Nat
  BY <1>3 DEF Total
<1>9. Cardinality(Units(S, w) \union one) = Cardinality(Units(S, w)) + w[h]
  BY <1>4, <1>5, <1>7, <1>8
<1> QED BY <1>1, <1>9, Zenon DEF Total

\* Removing it takes its weight away.
LEMMA TotalRemove ==
  ASSUME NEW S, IsFiniteSet(S), NEW w, NEW m \in Nat, \A g \in S : w[g] \in Nat /\ w[g] <= m,
         NEW h \in S
  PROVE  Total(S, w) = Total(S \ {h}, w) + w[h]
<1>1. IsFiniteSet(S \ {h})
  BY FS_RemoveElement
<1>2. S = (S \ {h}) \union {h}
  OBVIOUS
<1>3. Total((S \ {h}) \union {h}, w) = Total(S \ {h}, w) + w[h]
  BY <1>1, TotalAdd
<1> QED BY <1>2, <1>3

\* Products of naturals grow with a factor.
LEMMA Products ==
  /\ \A x, y, m \in Nat : x <= y => x * m <= y * m
  /\ \A x, y, m \in Nat : (x + y) * m = x * m + y * m
  /\ \A x, m \in Nat : x * m \in Nat
<1>1. \A x, y, m \in Nat : (x + y) * m = x * m + y * m
  OBVIOUS
<1>2. \A x, m \in Nat : x * m \in Nat
  OBVIOUS
<1>3. ASSUME NEW x \in Nat, NEW y \in Nat, NEW m \in Nat, x <= y PROVE x * m <= y * m
  <2>1. PICK d \in Nat : y = x + d
    <3>1. y - x \in Nat /\ y = x + (y - x)
      BY <1>3
    <3> QED BY <3>1
  <2>2. y * m = x * m + d * m
    BY <1>1, <2>1
  <2> QED BY <1>2, <2>2
<1> QED BY <1>1, <1>2, <1>3

\* An account between two steps: only its reserves and statements are elsewhere.
SameBooks(a, b) ==
  b.limit = a.limit /\ b.spent = a.spent /\ b.metered = a.metered /\ b.forgiven = a.forgiven

\* A request is admitted with a reserve that the meter leaves room for: it spends what
\* the meter has left, the others under way no more than the limit each.
LEMMA AdmitBalances ==
  ASSUME NEW a \in Accounts, NEW b \in Accounts, SameBooks(a, b),
         NEW F \in SUBSET Handlers, NEW M \in SUBSET Handlers,
         IsFiniteSet(F), IsFiniteSet(M), NEW p \in Nat, NEW q \in Nat,
         Balanced(F, M, p, a), NEW h \in Handlers \ F,
         \A g \in F : b.reserved[g] = a.reserved[g], \A g \in M : b.stated[g] = a.stated[g],
         a.metered + b.reserved[h] <= a.limit,
         Cardinality(F) + Cardinality(M) + 1 <= q
  PROVE  Balanced(F \union {h}, M, q, b)
<1>1. /\ a.limit \in Nat /\ a.spent \in Nat /\ a.metered \in Nat /\ a.forgiven \in Nat
      /\ \A g \in Handlers : /\ a.reserved[g] \in Nat /\ a.stated[g] \in Nat
                             /\ b.reserved[g] \in Nat /\ b.stated[g] \in Nat
  BY DEF Accounts
<1>2. /\ Cardinality(F) \in Nat /\ Cardinality(M) \in Nat
  BY FS_CardinalityType
<1>3. Total(F \union {h}, b.reserved) = Total(F, b.reserved) + b.reserved[h]
  <2>1. \A g \in F : b.reserved[g] \in Nat /\ b.reserved[g] <= a.limit
    BY <1>1 DEF Balanced
  <2> QED BY <1>1, <2>1, TotalAdd
<1>4. Total(F, b.reserved) \in Nat /\ Total(F, b.reserved) <= Cardinality(F) * a.limit
  <2>1. \A g \in F : b.reserved[g] \in Nat /\ b.reserved[g] <= a.limit
    BY <1>1 DEF Balanced
  <2> QED BY <1>1, <2>1, TotalBound
<1>5. /\ Total(M, a.stated) \in Nat /\ Total(M, a.stated) <= Cardinality(M) * a.limit
      /\ Total(M, b.stated) = Total(M, a.stated)
  <2>1. \A g \in M : a.stated[g] \in Nat /\ a.stated[g] <= a.limit
    BY <1>1 DEF Balanced
  <2> QED BY <1>1, <2>1, TotalBound, TotalSame
<1>6. Cardinality(F) * a.limit + Cardinality(M) * a.limit + a.limit <= q * a.limit
  <2> DEFINE f == Cardinality(F)
             n == Cardinality(M)
             l == a.limit
  <2>1. f \in Nat /\ n \in Nat /\ l \in Nat /\ f + n \in Nat /\ f + n + 1 \in Nat /\ f + n + 1 <= q
    BY <1>1, <1>2
  <2> HIDE DEF f, n, l
  <2>2. (f + n + 1) * l <= q * l
    BY <2>1, Products
  <2>3. (f + n + 1) * l = (f + n) * l + 1 * l
    BY <2>1, Products
  <2>4. (f + n) * l = f * l + n * l /\ 1 * l = l
    BY <2>1, Products
  <2>5. f * l + n * l + l <= q * l
    BY <2>1, <2>2, <2>3, <2>4, Products
  <2> QED BY <2>5 DEF f, n, l
<1>7. Cardinality(F) * a.limit \in Nat /\ Cardinality(M) * a.limit \in Nat /\ q * a.limit \in Nat
  BY <1>1, <1>2, Products
<1>8. b.reserved[h] \in Nat /\ b.reserved[h] <= a.limit
  BY <1>1
<1>9. a.spent <= a.metered + Total(M, a.stated) + a.forgiven
  BY DEF Balanced
<1>10. b.spent + Total(F \union {h}, b.reserved) <= q * b.limit + b.forgiven
  <2>1. a.spent + (Total(F, b.reserved) + b.reserved[h]) <= q * a.limit + a.forgiven
    BY <1>1, <1>4, <1>5, <1>6, <1>7, <1>8, <1>9
  <2> QED BY <1>3, <2>1 DEF SameBooks
<1> QED BY <1>5, <1>8, <1>10 DEF Balanced, SameBooks

\* The provider answers a request: it has charged no more than the reserve, and no more
\* than the answer states, but for what is forgiven.
LEMMA AnswerBalances ==
  ASSUME NEW a \in Accounts, NEW b \in Accounts,
         NEW F \in SUBSET Handlers, NEW M \in SUBSET Handlers,
         IsFiniteSet(F), IsFiniteSet(M), NEW p \in Nat,
         Balanced(F, M, p, a), NEW h \in F, h \notin M,
         \A g \in F \ {h} : b.reserved[g] = a.reserved[g],
         \A g \in M : b.stated[g] = a.stated[g],
         b.limit = a.limit, b.metered = a.metered, b.stated[h] <= a.limit,
         b.spent + a.forgiven <= a.spent + a.reserved[h] + b.forgiven,
         b.spent + a.forgiven <= a.spent + b.stated[h] + b.forgiven
  PROVE  Balanced(F \ {h}, M \union {h}, p, b)
<1>1. /\ a.limit \in Nat /\ a.spent \in Nat /\ a.metered \in Nat /\ a.forgiven \in Nat
      /\ b.spent \in Nat /\ b.forgiven \in Nat
      /\ \A g \in Handlers : /\ a.reserved[g] \in Nat /\ a.stated[g] \in Nat
                             /\ b.reserved[g] \in Nat /\ b.stated[g] \in Nat
  BY DEF Accounts
<1>2. /\ IsFiniteSet(F \ {h})
      /\ \A g \in F : a.reserved[g] \in Nat /\ a.reserved[g] <= a.limit
      /\ \A g \in M : b.stated[g] \in Nat /\ b.stated[g] <= a.limit
  BY <1>1, FS_RemoveElement DEF Balanced
<1>3. /\ Total(F, a.reserved) = Total(F \ {h}, a.reserved) + a.reserved[h]
      /\ Total(F \ {h}, b.reserved) = Total(F \ {h}, a.reserved)
  <2>1. Total(F, a.reserved) = Total(F \ {h}, a.reserved) + a.reserved[h]
    BY <1>1, <1>2, TotalRemove
  <2>2. Total(F \ {h}, b.reserved) = Total(F \ {h}, a.reserved)
    BY TotalSame
  <2> QED BY <2>1, <2>2
<1>4. /\ Total(M \union {h}, b.stated) = Total(M, b.stated) + b.stated[h]
      /\ Total(M, b.stated) = Total(M, a.stated)
  <2>1. b.stated[h] \in Nat
    BY <1>1
  <2>2. Total(M \union {h}, b.stated) = Total(M, b.stated) + b.stated[h]
    BY <1>1, <1>2, <2>1, TotalAdd
  <2>3. Total(M, b.stated) = Total(M, a.stated)
    BY TotalSame
  <2> QED BY <2>2, <2>3
<1>5. Total(F \ {h}, a.reserved) \in Nat /\ Total(M, b.stated) \in Nat /\ p * a.limit \in Nat
  BY <1>1, <1>2, TotalBound, Products
<1>6. b.spent <= b.metered + Total(M \union {h}, b.stated) + b.forgiven
  <2>1. b.spent <= a.metered + (Total(M, b.stated) + b.stated[h]) + b.forgiven
    BY <1>1, <1>4, <1>5 DEF Balanced
  <2> QED BY <1>4, <2>1
<1>7. b.spent + Total(F \ {h}, b.reserved) <= p * b.limit + b.forgiven
  <2>1. a.spent + (Total(F \ {h}, a.reserved) + a.reserved[h]) <= p * a.limit + a.forgiven
    BY <1>3 DEF Balanced
  <2>2. b.spent + Total(F \ {h}, a.reserved) <= p * a.limit + b.forgiven
    BY <1>1, <1>5, <2>1
  <2> QED BY <1>3, <2>2
<1> QED BY <1>2, <1>6, <1>7 DEF Balanced

\* An answer is metered.
LEMMA MeterBalances ==
  ASSUME NEW a \in Accounts, NEW b \in Accounts,
         NEW F \in SUBSET Handlers, NEW M \in SUBSET Handlers,
         IsFiniteSet(F), IsFiniteSet(M), NEW p \in Nat,
         Balanced(F, M, p, a), NEW h \in M,
         \A g \in F : b.reserved[g] = a.reserved[g],
         \A g \in M \ {h} : b.stated[g] = a.stated[g],
         b.limit = a.limit, b.spent = a.spent, b.forgiven = a.forgiven,
         b.metered >= a.metered + a.stated[h]
  PROVE  Balanced(F, M \ {h}, p, b)
<1>1. /\ a.limit \in Nat /\ a.spent \in Nat /\ a.metered \in Nat /\ a.forgiven \in Nat
      /\ b.metered \in Nat
      /\ \A g \in Handlers : a.stated[g] \in Nat /\ b.stated[g] \in Nat
  BY DEF Accounts
<1>2. IsFiniteSet(M \ {h}) /\ \A g \in M : a.stated[g] \in Nat /\ a.stated[g] <= a.limit
  BY <1>1, FS_RemoveElement DEF Balanced
<1>3. /\ Total(M, a.stated) = Total(M \ {h}, a.stated) + a.stated[h]
      /\ Total(M \ {h}, b.stated) = Total(M \ {h}, a.stated)
      /\ Total(F, b.reserved) = Total(F, a.reserved)
  <2>1. Total(M, a.stated) = Total(M \ {h}, a.stated) + a.stated[h]
    BY <1>1, <1>2, TotalRemove
  <2>2. Total(M \ {h}, b.stated) = Total(M \ {h}, a.stated)
    BY TotalSame
  <2>3. Total(F, b.reserved) = Total(F, a.reserved)
    BY TotalSame
  <2> QED BY <2>1, <2>2, <2>3
<1>4. Total(M \ {h}, a.stated) \in Nat
  BY <1>1, <1>2, TotalBound
<1>5. b.spent <= b.metered + Total(M \ {h}, b.stated) + b.forgiven
  <2>1. a.spent <= a.metered + (Total(M \ {h}, a.stated) + a.stated[h]) + a.forgiven
    BY <1>3 DEF Balanced
  <2>2. a.spent <= b.metered + Total(M \ {h}, a.stated) + a.forgiven
    BY <1>1, <1>2, <1>4, <2>1
  <2> QED BY <1>3, <2>2
<1> QED BY <1>2, <1>3, <1>5 DEF Balanced

\* Costs add up, and a little more input costs a little more.
LEMMA Costs ==
  /\ \A x, y \in Nat : Cost(x, y) \in Nat
  /\ \A x, y, i, o \in Nat : Cost(x + i, y + o) = Cost(x, y) + Cost(i, o)
  /\ \A x, y, i, o, s \in Nat :
       x <= i + s /\ y <= o => Cost(x, y) <= Cost(i, o) + s * PriceIn
<1>0. PriceIn \in Nat /\ PriceOut \in Nat
  BY SessionAssumption
<1>1. \A x, y \in Nat : Cost(x, y) \in Nat
  BY <1>0, Products DEF Cost
<1>2. ASSUME NEW x \in Nat, NEW y \in Nat, NEW i \in Nat, NEW o \in Nat
      PROVE  Cost(x + i, y + o) = Cost(x, y) + Cost(i, o)
  <2>1. (x + i) * PriceIn = x * PriceIn + i * PriceIn
    BY <1>0, Products
  <2>2. (y + o) * PriceOut = y * PriceOut + o * PriceOut
    BY <1>0, Products
  <2> QED BY <1>0, <2>1, <2>2, Products DEF Cost
<1>3. ASSUME NEW x \in Nat, NEW y \in Nat, NEW i \in Nat, NEW o \in Nat, NEW s \in Nat,
             x <= i + s, y <= o
      PROVE  Cost(x, y) <= Cost(i, o) + s * PriceIn
  <2>1. x * PriceIn <= (i + s) * PriceIn /\ (i + s) * PriceIn = i * PriceIn + s * PriceIn
    BY <1>0, <1>3, Products
  <2>2. y * PriceOut <= o * PriceOut
    BY <1>0, <1>3, Products
  <2>3. /\ x * PriceIn \in Nat /\ i * PriceIn \in Nat /\ s * PriceIn \in Nat
        /\ y * PriceOut \in Nat /\ o * PriceOut \in Nat
    BY <1>0, Products
  <2> QED BY <2>1, <2>2, <2>3 DEF Cost
<1> QED BY <1>1, <1>2, <1>3

\* What a request may output and cost, and that a limit it keeps in the clamp it keeps
\* once per completion.
LEMMA Reserves ==
  /\ \A c \in Nat : MostOutput(c) \in Nat /\ c <= MostOutput(c)
  /\ \A e, c \in Nat : Reserve(e, c) \in Nat
  /\ \A m, c, l \in Nat : m + c <= l => m + MostOutput(c) <= l * Fan
  /\ \A m, e, c, l \in Nat : m + Cost(e, c) <= l => m + Reserve(e, c) <= l * Fan
<1>0. Fan \in Nat /\ Fan >= 1 /\ PriceIn \in Nat /\ PriceOut \in Nat
  BY SessionAssumption
<1>1. \A x \in Nat : x * Fan \in Nat /\ x <= x * Fan
  <2>1. PICK d \in Nat : Fan = d + 1
    <3>1. Fan - 1 \in Nat /\ Fan = (Fan - 1) + 1
      BY <1>0
    <3> QED BY <3>1
  <2> SUFFICES ASSUME NEW x \in Nat PROVE x * Fan \in Nat /\ x <= x * Fan
    OBVIOUS
  <2>2. d * x \in Nat /\ (d + 1) * x = d * x + 1 * x /\ 1 * x = x
    BY <2>1, Products
  <2>3. x * Fan = d * x + x
    BY <2>1, <2>2
  <2> QED BY <2>2, <2>3
<1>2. \A c \in Nat : MostOutput(c) \in Nat /\ c <= MostOutput(c)
  BY <1>1 DEF MostOutput
<1>3. \A e, c \in Nat : Reserve(e, c) \in Nat
  BY <1>2, Costs DEF Reserve
<1>4. ASSUME NEW m \in Nat, NEW r \in Nat, NEW l \in Nat, m + r <= l
      PROVE  m + r * Fan <= l * Fan
  <2>1. (m + r) * Fan <= l * Fan /\ (m + r) * Fan = m * Fan + r * Fan
    BY <1>0, <1>4, Products
  <2>2. m * Fan \in Nat /\ r * Fan \in Nat /\ l * Fan \in Nat /\ m <= m * Fan
    BY <1>1
  <2> QED BY <2>1, <2>2
<1>5. \A m, c, l \in Nat : m + c <= l => m + MostOutput(c) <= l * Fan
  BY <1>4 DEF MostOutput
<1>6. ASSUME NEW m \in Nat, NEW e \in Nat, NEW c \in Nat, NEW l \in Nat, m + Cost(e, c) <= l
      PROVE  m + Reserve(e, c) <= l * Fan
  <2>1. Cost(e, c) \in Nat /\ m + Cost(e, c) * Fan <= l * Fan
    BY <1>4, <1>6, Costs
  <2>2. Reserve(e, c) <= Cost(e, c) * Fan
    <3>1. /\ e * PriceIn \in Nat /\ c * PriceOut \in Nat
          /\ e * PriceIn <= (e * PriceIn) * Fan
      BY <1>0, <1>1, Products
    <3>2. (c * Fan) * PriceOut = (c * PriceOut) * Fan
      BY <1>0
    <3>3. /\ Cost(e, c) * Fan = (e * PriceIn) * Fan + (c * PriceOut) * Fan
          /\ (c * PriceOut) * Fan \in Nat /\ (e * PriceIn) * Fan \in Nat
      BY <1>0, <3>1, Products DEF Cost
    <3>4. Reserve(e, c) = e * PriceIn + (c * PriceOut) * Fan
      BY <3>2 DEF Reserve, Cost, MostOutput
    <3> QED BY <3>1, <3>3, <3>4
  <2>3. Cost(e, c) * Fan \in Nat /\ l * Fan \in Nat /\ Reserve(e, c) \in Nat
    BY <1>1, <1>3, <2>1
  <2> QED BY <2>1, <2>2, <2>3
<1> QED BY <1>2, <1>3, <1>5, <1>6

\* Both are accounts.
LEMMA AccountTypes ==
  SessionTypeInv => OutputAccount \in Accounts /\ MoneyAccount \in Accounts
<1> SUFFICES ASSUME SessionTypeInv
             PROVE  OutputAccount \in Accounts /\ MoneyAccount \in Accounts
  OBVIOUS
<1>0. MaxOutput * Fan \in Nat /\ MaxUsd * Fan \in Nat
  BY SessionAssumption, Products
<1>1. /\ Slack \in Nat /\ PriceIn \in Nat
      /\ used.out \in Nat /\ used.in \in Nat /\ used.requests \in Nat
      /\ lost.in \in Nat /\ lost.out \in Nat /\ outputTokens \in Nat /\ usd \in Nat
      /\ \A h \in Handlers : /\ handler[h].est \in Nat /\ handler[h].clamp \in Nat
                             /\ handler[h].in \in Nat /\ handler[h].out \in Nat
  BY SessionAssumption DEF SessionTypeInv, HandlerRecords
<1>2. OutputAccount \in Accounts
  <2>1. \A h \in Handlers : MostOutput(handler[h].clamp) \in Nat
    BY <1>1, Reserves
  <2> QED BY <1>0, <1>1, <2>1 DEF OutputAccount, Accounts
<1>3. /\ Cost(used.in, used.out) \in Nat
      /\ Cost(lost.in, lost.out) + used.requests * (Slack * PriceIn) \in Nat
  <2>1. Slack * PriceIn \in Nat
    BY <1>1, Products
  <2>2. used.requests * (Slack * PriceIn) \in Nat
    BY <1>1, <2>1, Products
  <2>3. Cost(used.in, used.out) \in Nat /\ Cost(lost.in, lost.out) \in Nat
    BY <1>1, Costs
  <2> QED BY <2>2, <2>3
<1>4. \A h \in Handlers : /\ Reserve(handler[h].est, handler[h].clamp) \in Nat
                          /\ Cost(handler[h].in, handler[h].out) \in Nat
  BY <1>1, Costs, Reserves
<1>5. \A h \in Handlers : Min2(Cost(handler[h].in, handler[h].out),
                               Reserve(handler[h].est, handler[h].clamp)) \in Nat
  BY <1>4 DEF Min2
<1> QED BY <1>0, <1>1, <1>2, <1>3, <1>4, <1>5 DEF MoneyAccount, Accounts

\* A request that is admitted joins the ones on their way.
LEMMA AdmitFields ==
  ASSUME SessionTypeInv, NEW h \in Handlers, AdmitRequest(h)
  PROVE  \E est \in Nat, clamp \in Nat :
           /\ handler' = [handler EXCEPT ![h] =
                [pc |-> "admitted", est |-> est, clamp |-> clamp, in |-> 0, out |-> 0]]
           /\ outputTokens + MostOutput(clamp) <= MaxOutput * Fan
           /\ PriceOut > 0 => usd + Reserve(est, clamp) <= MaxUsd * Fan
           /\ requests < MaxRequests
<1>1. PICK est \in Sizes, ask \in Asks :
        /\ WithinLimits(est)
        /\ handler' = [handler EXCEPT ![h] =
             [pc |-> "admitted", est |-> est, clamp |-> Clamp(ask, est), in |-> 0, out |-> 0]]
  BY DEF AdmitRequest
<1>2. /\ est \in Nat /\ ask \in Nat \ {0} /\ MaxOutput \in Nat /\ MaxUsd \in Nat
      /\ PriceIn \in Nat /\ PriceOut \in Nat /\ outputTokens \in Nat /\ usd \in Nat
  BY SessionAssumption DEF SessionTypeInv
<1> DEFINE left == MaxUsd - usd - est * PriceIn
<1>3. left \in Int /\ est * PriceIn \in Nat
  BY <1>2, Products
<1>4. /\ Remaining(est) \in Int /\ Remaining(est) <= MaxOutput - outputTokens
      /\ PriceOut > 0 => Remaining(est) <= left \div PriceOut
  <2>1. CASE PriceOut > 0
    <3>1. left \div PriceOut \in Int
      BY <1>2, <1>3, <2>1
    <3>2. Remaining(est) = Min2(MaxOutput - outputTokens, left \div PriceOut)
      BY <2>1 DEF Remaining
    <3> HIDE DEF left
    <3> QED BY <1>2, <3>1, <3>2 DEF Min2
  <2>2. CASE ~(PriceOut > 0)
    BY <1>2, <2>2 DEF Remaining
  <2> QED BY <2>1, <2>2
<1>5. /\ Clamp(ask, est) \in Nat /\ Clamp(ask, est) <= Remaining(est)
  BY <1>1, <1>2, <1>4 DEF WithinLimits, Clamp, Min2
<1> HIDE DEF left
<1>6. ASSUME PriceOut > 0 PROVE usd + Cost(est, Clamp(ask, est)) <= MaxUsd
  <2>1. Clamp(ask, est) <= left \div PriceOut
    BY <1>2, <1>3, <1>4, <1>5, <1>6
  <2>2. \A x \in Int, d \in Nat \ {0}, c \in Nat : c <= x \div d => c * d <= x
    <3> SUFFICES ASSUME NEW x \in Int, NEW d \in Nat \ {0}, NEW c \in Nat, c <= x \div d
                 PROVE  c * d <= x
      OBVIOUS
    <3> DEFINE y == x \div d
    <3>1. y \in Int /\ y * d <= x
      OBVIOUS
    <3>2. y \in Nat /\ c <= y
      BY <3>1
    <3>3. c * d <= y * d
      BY <3>2, Products
    <3>4. c * d \in Nat /\ y * d \in Nat
      BY <3>2, Products
    <3> HIDE DEF y
    <3> QED BY <3>1, <3>3, <3>4
  <2>3. Clamp(ask, est) * PriceOut <= left
    BY <1>2, <1>3, <1>5, <1>6, <2>1, <2>2
  <2>4. Clamp(ask, est) * PriceOut \in Nat
    BY <1>2, <1>5, Products
  <2> QED BY <1>2, <1>3, <2>3, <2>4 DEF Cost, left
<1>7. outputTokens + Clamp(ask, est) <= MaxOutput
  BY <1>2, <1>4, <1>5
<1>8. /\ outputTokens + MostOutput(Clamp(ask, est)) <= MaxOutput * Fan
      /\ PriceOut > 0 => usd + Reserve(est, Clamp(ask, est)) <= MaxUsd * Fan
  BY <1>2, <1>5, <1>6, <1>7, Reserves
<1> QED BY <1>1, <1>2, <1>5, <1>8 DEF WithinLimits

\* The request of handler h is charged (i, o) and its answer states (in, out); (di, do)
\* of what is charged is lost with the stream.
Settles(h, in, out, i, o, di, do) ==
  /\ handler[h].pc = "admitted" /\ Answered(h, in, out) /\ Charged(i, o)
  /\ Lost(di, do) /\ UNCHANGED <<phase, meter, peak>>
  /\ i <= handler[h].est + Slack
  /\ o <= MostOutput(handler[h].clamp) /\ out <= MostOutput(handler[h].clamp)
  /\ i <= in + di + Slack /\ o <= out + do

\* Whatever becomes of a request that was forwarded.
LEMMA SettleKinds ==
  ASSUME SessionTypeInv, NEW h \in Handlers, Forward(h) \/ StreamBreaks(h)
  PROVE  \E in, out, i, o, di, do \in Nat : Settles(h, in, out, i, o, di, do)
<1> DEFINE est == handler[h].est
           clamp == handler[h].clamp
<1>1. /\ Slack \in Nat /\ est \in Nat /\ clamp \in Nat
      /\ MostOutput(clamp) \in Nat /\ clamp <= MostOutput(clamp)
  <2>1. Slack \in Nat /\ est \in Nat /\ clamp \in Nat
    BY SessionAssumption DEF SessionTypeInv, HandlerRecords
  <2> QED BY <2>1, Reserves
<1>2. ASSUME Forward(h),
             NEW i \in est .. est + Slack, NEW o \in 0..MostOutput(clamp), Charged(i, o),
             \/ Answered(h, i, o) /\ Lost(0, 0)
             \/ Answered(h, est, clamp) /\ Lost(0, Max2(o, clamp) - clamp)
      PROVE  \E in, out, k, l, di, do \in Nat : Settles(h, in, out, k, l, di, do)
  <2>0. i \in Nat /\ o \in Nat /\ i <= est + Slack /\ est <= i /\ o <= MostOutput(clamp)
        /\ handler[h].pc = "admitted" /\ UNCHANGED <<phase, meter, peak>>
    BY <1>1, <1>2 DEF Forward
  <2>1. CASE Answered(h, i, o) /\ Lost(0, 0)
    <3>1. i <= i + 0 + Slack /\ o <= o + 0
      BY <1>1, <2>0
    <3>2. Settles(h, i, o, i, o, 0, 0)
      BY <1>2, <2>0, <2>1, <3>1 DEF Settles
    <3> QED BY <2>0, <3>2
  <2>2. CASE Answered(h, est, clamp) /\ Lost(0, Max2(o, clamp) - clamp)
    <3> DEFINE over == Max2(o, clamp) - clamp
    <3>1. over \in Nat /\ o <= clamp + over /\ i <= est + 0 + Slack
      BY <1>1, <2>0 DEF Max2
    <3> HIDE DEF over
    <3>2. Lost(0, over)
      BY <2>2 DEF over
    <3>3. Settles(h, est, clamp, i, o, 0, over)
      BY <1>1, <1>2, <2>0, <2>2, <3>1, <3>2 DEF Settles
    <3> QED BY <1>1, <2>0, <3>1, <3>3
  <2> QED BY <1>2, <2>1, <2>2
<1>3. CASE Forward(h)
  <2>1. CASE Answered(h, 0, 0) /\ Charged(0, 0) /\ Lost(0, 0)
    <3>1. 0 <= est + Slack /\ 0 <= MostOutput(clamp) /\ 0 <= 0 + 0 + Slack
      BY <1>1
    <3>2. Settles(h, 0, 0, 0, 0, 0, 0)
      BY <1>3, <2>1, <3>1 DEF Forward, Settles
    <3> QED BY <3>2
  <2> QED BY <1>2, <1>3, <2>1 DEF Forward
<1>4. CASE StreamBreaks(h)
  <2>1. PICK in \in {0, est}, out \in 1..MostOutput(clamp) :
          Answered(h, in, 0) /\ Charged(est, out) /\ Lost(est - in, out)
    BY <1>4 DEF StreamBreaks
  <2>2. in \in Nat /\ out \in Nat /\ est - in \in Nat
        /\ est <= est + Slack /\ out <= MostOutput(clamp) /\ 0 <= MostOutput(clamp)
        /\ est <= in + (est - in) + Slack /\ out <= 0 + out
    BY <1>1
  <2>3. Settles(h, in, 0, est, out, est - in, out)
    BY <1>4, <2>1, <2>2 DEF StreamBreaks, Settles
  <2> QED BY <1>1, <2>2, <2>3
<1> QED BY <1>3, <1>4

\* The fields of a handler whose request is answered.
LEMMA SettleFields ==
  ASSUME SessionTypeInv, NEW h \in Handlers, NEW in \in Nat, NEW out \in Nat,
         handler[h].pc = "admitted", Answered(h, in, out)
  PROVE  /\ handler' \in [Handlers -> HandlerRecords]
         /\ handler'[h].pc = "answered" /\ handler'[h].in = in /\ handler'[h].out = out
         /\ handler'[h].est = handler[h].est /\ handler'[h].clamp = handler[h].clamp
         /\ \A g \in Handlers \ {h} : handler'[g] = handler[g]
         /\ Forwarding' = Forwarding \ {h} /\ Metering' = Metering \union {h}
         /\ h \in Forwarding /\ h \notin Metering
<1>1. handler \in [Handlers -> HandlerRecords]
  BY DEF SessionTypeInv
<1>2. handler' = [handler EXCEPT ![h].pc = "answered", ![h].in = in, ![h].out = out]
  BY DEF Answered
<1>3. /\ handler' \in [Handlers -> HandlerRecords]
      /\ handler'[h].pc = "answered" /\ handler'[h].in = in /\ handler'[h].out = out
      /\ handler'[h].est = handler[h].est /\ handler'[h].clamp = handler[h].clamp
      /\ \A g \in Handlers \ {h} : handler'[g] = handler[g]
  BY <1>1, <1>2 DEF HandlerRecords, SessionPCs
<1>4. Forwarding' = Forwarding \ {h} /\ Metering' = Metering \union {h}
  BY <1>3 DEF Forwarding, Metering
<1>5. h \in Forwarding /\ h \notin Metering
  BY DEF Forwarding, Metering
<1> QED BY <1>3, <1>4, <1>5

\* The requests under way are being forwarded or metered.
LEMMA UnderWayCount ==
  ASSUME RequestInv
  PROVE  /\ Cardinality(Forwarding) \in Nat /\ Cardinality(Metering) \in Nat
         /\ Cardinality(UnderWay) = Cardinality(Forwarding) + Cardinality(Metering)
<1>1. UnderWay = Forwarding \union Metering /\ Forwarding \cap Metering = {}
  BY DEF UnderWay, Forwarding, Metering
<1>2. Cardinality({}) = 0
  BY FS_EmptySet
<1>3. Cardinality(Forwarding) \in Nat /\ Cardinality(Metering) \in Nat
  BY FS_CardinalityType DEF RequestInv
<1>4. Cardinality(Forwarding \union Metering) =
        Cardinality(Forwarding) + Cardinality(Metering) - Cardinality(Forwarding \cap Metering)
  BY FS_Union DEF RequestInv
<1>5. Cardinality(Forwarding \cap Metering) = 0
  BY <1>1, <1>2
<1> QED BY <1>1, <1>3, <1>4, <1>5

\* Admission, under the lock.
LEMMA AdmitKeeps ==
  ASSUME SessionInv, NEW h \in Handlers, AdmitRequest(h)
  PROVE  SessionInv'
<1>0. SessionTypeInv /\ RequestInv
  BY DEF SessionInv
<1>1. PICK est \in Nat, clamp \in Nat :
        /\ handler' = [handler EXCEPT ![h] =
             [pc |-> "admitted", est |-> est, clamp |-> clamp, in |-> 0, out |-> 0]]
        /\ outputTokens + MostOutput(clamp) <= MaxOutput * Fan
        /\ PriceOut > 0 => usd + Reserve(est, clamp) <= MaxUsd * Fan
        /\ requests < MaxRequests
  BY <1>0, AdmitFields
<1>2. /\ handler' \in [Handlers -> HandlerRecords]
      /\ handler'[h].est = est /\ handler'[h].clamp = clamp /\ handler'[h].pc = "admitted"
      /\ \A g \in Handlers \ {h} : handler'[g] = handler[g]
  BY <1>0, <1>1 DEF SessionTypeInv, HandlerRecords, SessionPCs
<1>3. /\ handler[h].pc = "new" /\ requests' = requests + 1
      /\ peak' = Max2(peak, Cardinality(UnderWay) + 1)
      /\ UNCHANGED <<inputTokens, outputTokens, usd, used, lost>>
  BY DEF AdmitRequest, Arrives, Counted
<1>4. /\ Forwarding' = Forwarding \union {h} /\ Metering' = Metering
      /\ h \in Handlers \ Forwarding
  BY <1>2, <1>3 DEF Forwarding, Metering
<1>5. /\ peak \in Nat /\ peak' \in Nat
      /\ Cardinality(Forwarding) + Cardinality(Metering) + 1 <= peak'
  BY <1>0, <1>3, UnderWayCount DEF Max2, SessionTypeInv
<1>6. SessionTypeInv'
  BY <1>0, <1>2, <1>3, <1>5 DEF SessionTypeInv
<1>7. RequestInv'
  <2>1. /\ IsFiniteSet(Forwarding \union {h})
        /\ Cardinality(Forwarding \union {h}) = Cardinality(Forwarding) + 1
    BY <1>0, <1>4, FS_AddElement DEF RequestInv
  <2> QED BY <1>0, <1>1, <1>3, <1>4, <2>1, UnderWayCount, SessionAssumption
      DEF RequestInv, SessionTypeInv
<1>8. /\ OutputAccount \in Accounts /\ MoneyAccount \in Accounts
      /\ OutputAccount' \in Accounts /\ MoneyAccount' \in Accounts
  <2>1. (SessionTypeInv => OutputAccount \in Accounts /\ MoneyAccount \in Accounts)'
    BY AccountTypes, PTL
  <2> QED BY <1>0, <1>6, <2>1, AccountTypes
<1>9. IsFiniteSet(Forwarding) /\ IsFiniteSet(Metering)
  BY <1>0 DEF RequestInv
<1>10. Balanced(Forwarding', Metering', peak', OutputAccount')
  <2> DEFINE a == OutputAccount
             b == OutputAccount'
  <2>1. SameBooks(a, b)
    BY <1>3 DEF SameBooks, OutputAccount
  <2>2. /\ \A g \in Forwarding : b.reserved[g] = a.reserved[g]
        /\ \A g \in Metering : b.stated[g] = a.stated[g]
    BY <1>2, <1>3 DEF OutputAccount, Forwarding, Metering
  <2>3. a.metered + b.reserved[h] <= a.limit
    BY <1>1, <1>2 DEF OutputAccount
  <2>4. Balanced(Forwarding, Metering, peak, a)
    BY DEF SessionInv
  <2>5. Forwarding \in SUBSET Handlers /\ Metering \in SUBSET Handlers
    BY DEF Forwarding, Metering
  <2> HIDE DEF a, b
  <2>6. a \in Accounts /\ b \in Accounts
    BY <1>8 DEF a, b
  <2>7. Balanced(Forwarding \union {h}, Metering, peak', b)
    BY <1>4, <1>5, <1>9, <2>1, <2>2, <2>3, <2>4, <2>5, <2>6, AdmitBalances
  <2> QED BY <1>4, <2>7 DEF b
<1>11. ASSUME PriceOut > 0 PROVE Balanced(Forwarding', Metering', peak', MoneyAccount')
  <2> DEFINE a == MoneyAccount
             b == MoneyAccount'
  <2>1. SameBooks(a, b)
    BY <1>3 DEF SameBooks, MoneyAccount
  <2>2. /\ \A g \in Forwarding : b.reserved[g] = a.reserved[g]
        /\ \A g \in Metering : b.stated[g] = a.stated[g]
    BY <1>2, <1>3 DEF MoneyAccount, Forwarding, Metering
  <2>3. a.metered + b.reserved[h] <= a.limit
    BY <1>1, <1>2, <1>11 DEF MoneyAccount
  <2>4. Balanced(Forwarding, Metering, peak, a)
    BY <1>11 DEF SessionInv
  <2>5. Forwarding \in SUBSET Handlers /\ Metering \in SUBSET Handlers
    BY DEF Forwarding, Metering
  <2> HIDE DEF a, b
  <2>6. a \in Accounts /\ b \in Accounts
    BY <1>8 DEF a, b
  <2>7. Balanced(Forwarding \union {h}, Metering, peak', b)
    BY <1>4, <1>5, <1>9, <2>1, <2>2, <2>3, <2>4, <2>5, <2>6, AdmitBalances
  <2> QED BY <1>4, <2>7 DEF b
<1> QED BY <1>6, <1>7, <1>10, <1>11 DEF SessionInv, Balanced

\* A forwarded request is answered, refused by the provider, or breaks off.
LEMMA SettleKeeps ==
  ASSUME SessionInv, NEW h \in Handlers, Forward(h) \/ StreamBreaks(h)
  PROVE  SessionInv'
<1>0. SessionTypeInv /\ RequestInv
  BY DEF SessionInv
<1>1. PICK in, out, i, o, di, do \in Nat : Settles(h, in, out, i, o, di, do)
  BY <1>0, SettleKinds
<1>2. /\ handler' \in [Handlers -> HandlerRecords]
      /\ handler'[h].in = in /\ handler'[h].out = out
      /\ handler'[h].est = handler[h].est /\ handler'[h].clamp = handler[h].clamp
      /\ \A g \in Handlers \ {h} : handler'[g] = handler[g]
      /\ Forwarding' = Forwarding \ {h} /\ Metering' = Metering \union {h}
      /\ h \in Forwarding /\ h \notin Metering
  BY <1>0, <1>1, SettleFields DEF Settles
<1>3. /\ used' = [requests |-> used.requests + 1, in |-> used.in + i, out |-> used.out + o]
      /\ lost' = [in |-> lost.in + di, out |-> lost.out + do]
      /\ UNCHANGED <<requests, inputTokens, outputTokens, usd, peak>>
      /\ i <= handler[h].est + Slack
      /\ o <= MostOutput(handler[h].clamp) /\ out <= MostOutput(handler[h].clamp)
      /\ i <= in + di + Slack /\ o <= out + do
  BY <1>1 DEF Settles, Charged, Lost, meter
<1>4. /\ handler[h].est \in Nat /\ handler[h].clamp \in Nat /\ Slack \in Nat /\ PriceIn \in Nat
      /\ used.requests \in Nat /\ used.in \in Nat /\ used.out \in Nat
      /\ lost.in \in Nat /\ lost.out \in Nat /\ peak \in Nat
      /\ MostOutput(handler[h].clamp) \in Nat
  <2>1. handler[h].clamp \in Nat
    BY <1>0 DEF SessionTypeInv, HandlerRecords
  <2> QED BY <1>0, <2>1, SessionAssumption, Reserves DEF SessionTypeInv, HandlerRecords
<1>5. SessionTypeInv'
  BY <1>0, <1>2, <1>3, <1>4 DEF SessionTypeInv
<1>6. IsFiniteSet(Forwarding) /\ IsFiniteSet(Metering)
  BY <1>0 DEF RequestInv
<1>7. RequestInv'
  <2>1. /\ IsFiniteSet(Forwarding \ {h})
        /\ Cardinality(Forwarding \ {h}) = Cardinality(Forwarding) - 1
    BY <1>2, <1>6, FS_RemoveElement
  <2>2. IsFiniteSet(Metering \union {h})
    BY <1>6, FS_AddElement
  <2> QED BY <1>0, <1>2, <1>3, <1>4, <2>1, <2>2, UnderWayCount DEF RequestInv
<1>8. /\ OutputAccount \in Accounts /\ MoneyAccount \in Accounts
      /\ OutputAccount' \in Accounts /\ MoneyAccount' \in Accounts
  <2>1. (SessionTypeInv => OutputAccount \in Accounts /\ MoneyAccount \in Accounts)'
    BY AccountTypes, PTL
  <2> QED BY <1>0, <1>5, <2>1, AccountTypes
<1>9. Forwarding \in SUBSET Handlers /\ Metering \in SUBSET Handlers
  BY DEF Forwarding, Metering
<1>10. Balanced(Forwarding', Metering', peak', OutputAccount')
  <2> DEFINE a == OutputAccount
             b == OutputAccount'
  <2>1. /\ \A g \in Forwarding \ {h} : b.reserved[g] = a.reserved[g]
        /\ \A g \in Metering : b.stated[g] = a.stated[g]
    BY <1>2, <1>9 DEF OutputAccount
  <2>2. b.limit = a.limit /\ b.metered = a.metered
    BY <1>3 DEF OutputAccount
  <2>3. Balanced(Forwarding, Metering, peak, a)
    BY DEF SessionInv
  <2>4. b.stated[h] <= a.limit
    <3>1. b.stated[h] = out /\ a.reserved[h] = MostOutput(handler[h].clamp)
      BY <1>2 DEF OutputAccount
    <3>2. a.reserved[h] <= a.limit /\ a.limit \in Nat
      BY <1>2, <1>8, <2>3 DEF Balanced, Accounts
    <3> QED BY <1>3, <1>4, <3>1, <3>2
  <2>5. /\ b.spent + a.forgiven <= a.spent + a.reserved[h] + b.forgiven
        /\ b.spent + a.forgiven <= a.spent + b.stated[h] + b.forgiven
    <3>1. /\ b.spent = used.out + o /\ a.spent = used.out
          /\ b.forgiven = lost.out + do /\ a.forgiven = lost.out
          /\ a.reserved[h] = MostOutput(handler[h].clamp) /\ b.stated[h] = out
      BY <1>2, <1>3 DEF OutputAccount
    <3> HIDE DEF a, b
    <3> QED BY <1>3, <1>4, <3>1
  <2> HIDE DEF a, b
  <2>6. a \in Accounts /\ b \in Accounts
    BY <1>8 DEF a, b
  <2>7. Balanced(Forwarding \ {h}, Metering \union {h}, peak, b)
    BY <1>2, <1>4, <1>6, <1>9, <2>1, <2>2, <2>3, <2>4, <2>5, <2>6, AnswerBalances
  <2> QED BY <1>2, <1>3, <2>7 DEF b
<1>11. ASSUME PriceOut > 0 PROVE Balanced(Forwarding', Metering', peak', MoneyAccount')
  <2> DEFINE a == MoneyAccount
             b == MoneyAccount'
             reserve == Reserve(handler[h].est, handler[h].clamp)
             excess == Slack * PriceIn
  <2>1. /\ \A g \in Forwarding \ {h} : b.reserved[g] = a.reserved[g]
        /\ \A g \in Metering : b.stated[g] = a.stated[g]
    BY <1>2, <1>9 DEF MoneyAccount
  <2>2. b.limit = a.limit /\ b.metered = a.metered
    BY <1>3 DEF MoneyAccount
  <2>3. Balanced(Forwarding, Metering, peak, a)
    BY <1>11 DEF SessionInv
  <2>4. /\ a.reserved[h] = reserve /\ b.stated[h] = Min2(Cost(in, out), reserve)
        /\ reserve \in Nat /\ Cost(in, out) \in Nat
    BY <1>2, <1>4, Costs, Reserves DEF MoneyAccount
  <2>5. b.stated[h] <= a.limit
    <3>1. a.reserved[h] <= a.limit /\ a.limit \in Nat
      BY <1>2, <1>8, <2>3 DEF Balanced, Accounts
    <3> QED BY <2>4, <3>1 DEF Min2
  <2>6. /\ a.spent = Cost(used.in, used.out) /\ b.spent = a.spent + Cost(i, o)
        /\ a.spent \in Nat /\ Cost(i, o) \in Nat
    <3>1. a.spent = Cost(used.in, used.out) /\ b.spent = Cost(used.in + i, used.out + o)
      BY <1>3 DEF MoneyAccount
    <3>2. Cost(used.in + i, used.out + o) = Cost(used.in, used.out) + Cost(i, o)
      <4>1. ASSUME NEW x \in Nat, NEW y \in Nat PROVE Cost(x + i, y + o) = Cost(x, y) + Cost(i, o)
        BY Costs
      <4> QED BY <1>4, <4>1
    <3>3. Cost(used.in, used.out) \in Nat /\ Cost(i, o) \in Nat
      BY <1>4, Costs
    <3> QED BY <3>1, <3>2, <3>3
  <2>7. /\ b.forgiven = a.forgiven + Cost(di, do) + excess
        /\ a.forgiven \in Nat /\ Cost(di, do) \in Nat /\ excess \in Nat
    <3>1. excess \in Nat
      BY <1>4, Products
    <3>2. used.requests * excess \in Nat
      BY <1>4, <3>1, Products
    <3>3. (used.requests + 1) * excess = used.requests * excess + 1 * excess /\ 1 * excess = excess
      BY <1>4, <3>1, Products
    <3>4. /\ Cost(lost.in + di, lost.out + do) = Cost(lost.in, lost.out) + Cost(di, do)
          /\ Cost(lost.in, lost.out) \in Nat /\ Cost(di, do) \in Nat
      <4>1. Cost(lost.in + di, lost.out + do) = Cost(lost.in, lost.out) + Cost(di, do)
        <5>1. ASSUME NEW x \in Nat, NEW y \in Nat
              PROVE  Cost(x + di, y + do) = Cost(x, y) + Cost(di, do)
          BY Costs
        <5> QED BY <1>4, <5>1
      <4> QED BY <1>4, <4>1, Costs
    <3>5. /\ a.forgiven = Cost(lost.in, lost.out) + used.requests * excess
          /\ b.forgiven = Cost(lost.in + di, lost.out + do) + (used.requests + 1) * excess
      BY <1>3 DEF MoneyAccount
    <3> HIDE DEF a, b, excess
    <3> QED BY <3>1, <3>2, <3>3, <3>4, <3>5
  <2>8. Cost(i, o) <= reserve + excess
    BY <1>3, <1>4, Costs DEF Reserve
  <2>9. Cost(i, o) <= Cost(in, out) + Cost(di, do) + excess
    <3>1. Cost(i, o) <= Cost(in + di, out + do) + excess
      <4>1. in + di \in Nat /\ out + do \in Nat
        OBVIOUS
      <4> QED BY <1>3, <1>4, <4>1, Costs
    <3> QED BY <3>1, Costs
  <2> HIDE DEF a, b, reserve, excess
  <2>10. /\ b.spent + a.forgiven <= a.spent + a.reserved[h] + b.forgiven
         /\ b.spent + a.forgiven <= a.spent + b.stated[h] + b.forgiven
    BY <2>4, <2>6, <2>7, <2>8, <2>9 DEF Min2
  <2>11. a \in Accounts /\ b \in Accounts
    BY <1>8 DEF a, b
  <2>12. Balanced(Forwarding \ {h}, Metering \union {h}, peak, b)
    BY <1>2, <1>4, <1>6, <1>9, <2>1, <2>2, <2>3, <2>5, <2>10, <2>11, AnswerBalances
  <2> QED BY <1>2, <1>3, <2>12 DEF b
<1> QED BY <1>5, <1>7, <1>10, <1>11 DEF SessionInv, Balanced

\* The answer is metered, under the lock.
LEMMA MeterKeeps ==
  ASSUME SessionInv, NEW h \in Handlers, Meter(h)
  PROVE  SessionInv'
<1>0. SessionTypeInv /\ RequestInv
  BY DEF SessionInv
<1>1. /\ handler[h].pc = "answered" /\ handler' = [handler EXCEPT ![h].pc = "done"]
      /\ outputTokens' = outputTokens + handler[h].out
      /\ inputTokens' = inputTokens + handler[h].in
      /\ usd' = usd + handler[h].in * PriceIn + handler[h].out * PriceOut
      /\ UNCHANGED <<requests, used, lost, peak>>
  BY DEF Meter, ghosts
<1>2. /\ handler' \in [Handlers -> HandlerRecords]
      /\ handler'[h].pc = "done"
      /\ \A g \in Handlers : /\ handler'[g].est = handler[g].est
                             /\ handler'[g].clamp = handler[g].clamp
                             /\ handler'[g].in = handler[g].in /\ handler'[g].out = handler[g].out
      /\ \A g \in Handlers \ {h} : handler'[g] = handler[g]
  BY <1>0, <1>1 DEF SessionTypeInv, HandlerRecords, SessionPCs
<1>3. Forwarding' = Forwarding /\ Metering' = Metering \ {h} /\ h \in Metering
  BY <1>1, <1>2 DEF Forwarding, Metering
<1>4. /\ handler[h].in \in Nat /\ handler[h].out \in Nat /\ peak \in Nat /\ usd \in Nat
      /\ handler[h].est \in Nat /\ handler[h].clamp \in Nat
      /\ PriceIn \in Nat /\ PriceOut \in Nat
  BY <1>0, SessionAssumption DEF SessionTypeInv, HandlerRecords
<1>5. /\ usd' = usd + Cost(handler[h].in, handler[h].out)
      /\ Cost(handler[h].in, handler[h].out) \in Nat
  <2>1. handler[h].in * PriceIn \in Nat /\ handler[h].out * PriceOut \in Nat
    BY <1>4, Products
  <2> QED BY <1>1, <1>4, <2>1 DEF Cost
<1>6. SessionTypeInv'
  BY <1>0, <1>1, <1>2, <1>4, <1>5 DEF SessionTypeInv
<1>7. IsFiniteSet(Forwarding) /\ IsFiniteSet(Metering)
  BY <1>0 DEF RequestInv
<1>8. RequestInv'
  <2>1. IsFiniteSet(Metering \ {h})
    BY <1>7, FS_RemoveElement
  <2> QED BY <1>0, <1>1, <1>3, <2>1 DEF RequestInv
<1>9. /\ OutputAccount \in Accounts /\ MoneyAccount \in Accounts
      /\ OutputAccount' \in Accounts /\ MoneyAccount' \in Accounts
  <2>1. (SessionTypeInv => OutputAccount \in Accounts /\ MoneyAccount \in Accounts)'
    BY AccountTypes, PTL
  <2> QED BY <1>0, <1>6, <2>1, AccountTypes
<1>10. Forwarding \in SUBSET Handlers /\ Metering \in SUBSET Handlers
  BY DEF Forwarding, Metering
<1>11. Balanced(Forwarding', Metering', peak', OutputAccount')
  <2> DEFINE a == OutputAccount
             b == OutputAccount'
  <2>1. /\ \A g \in Forwarding : b.reserved[g] = a.reserved[g]
        /\ \A g \in Metering \ {h} : b.stated[g] = a.stated[g]
    BY <1>2, <1>10 DEF OutputAccount
  <2>2. b.limit = a.limit /\ b.spent = a.spent /\ b.forgiven = a.forgiven
    BY <1>1 DEF OutputAccount
  <2>3. b.metered >= a.metered + a.stated[h]
    BY <1>0, <1>1, <1>4 DEF OutputAccount, SessionTypeInv
  <2>4. Balanced(Forwarding, Metering, peak, a)
    BY DEF SessionInv
  <2> HIDE DEF a, b
  <2>5. a \in Accounts /\ b \in Accounts
    BY <1>9 DEF a, b
  <2>6. Balanced(Forwarding, Metering \ {h}, peak, b)
    BY <1>3, <1>4, <1>7, <1>10, <2>1, <2>2, <2>3, <2>4, <2>5, MeterBalances
  <2> QED BY <1>1, <1>3, <2>6 DEF b
<1>12. ASSUME PriceOut > 0 PROVE Balanced(Forwarding', Metering', peak', MoneyAccount')
  <2> DEFINE a == MoneyAccount
             b == MoneyAccount'
  <2>1. /\ \A g \in Forwarding : b.reserved[g] = a.reserved[g]
        /\ \A g \in Metering \ {h} : b.stated[g] = a.stated[g]
    BY <1>2, <1>10 DEF MoneyAccount
  <2>2. b.limit = a.limit /\ b.spent = a.spent /\ b.forgiven = a.forgiven
    BY <1>1 DEF MoneyAccount
  <2>3. b.metered >= a.metered + a.stated[h]
    <3>1. /\ a.metered = usd /\ b.metered = usd'
          /\ a.stated[h] = Min2(Cost(handler[h].in, handler[h].out),
                                Reserve(handler[h].est, handler[h].clamp))
      BY DEF MoneyAccount
    <3>2. Reserve(handler[h].est, handler[h].clamp) \in Nat
      BY <1>4, Reserves
    <3>3. a.stated[h] \in Nat /\ a.stated[h] <= Cost(handler[h].in, handler[h].out)
      BY <1>5, <3>1, <3>2 DEF Min2
    <3> HIDE DEF a, b
    <3> QED BY <1>4, <1>5, <3>1, <3>3
  <2>4. Balanced(Forwarding, Metering, peak, a)
    BY <1>12 DEF SessionInv
  <2> HIDE DEF a, b
  <2>5. a \in Accounts /\ b \in Accounts
    BY <1>9 DEF a, b
  <2>6. Balanced(Forwarding, Metering \ {h}, peak, b)
    BY <1>3, <1>4, <1>7, <1>10, <2>1, <2>2, <2>3, <2>4, <2>5, MeterBalances
  <2> QED BY <1>1, <1>3, <2>6 DEF b
<1> QED BY <1>6, <1>8, <1>11, <1>12 DEF SessionInv, Balanced

\* The session opens or closes, or a request is refused: nothing is spent.
LEMMA RestKeeps ==
  ASSUME SessionInv,
         \/ OpenSession \/ CloseSession \/ UNCHANGED sessionVars
         \/ \E h \in Handlers : Refuse(h)
  PROVE  SessionInv'
<1>0. SessionTypeInv /\ RequestInv
  BY DEF SessionInv
<1>1. UNCHANGED <<requests, inputTokens, outputTokens, usd, used, lost, peak>>
  BY DEF OpenSession, CloseSession, Refuse, sessionVars, meter, ghosts
<1>2. /\ handler' \in [Handlers -> HandlerRecords]
      /\ \A g \in Handlers :
           /\ handler'[g].est = handler[g].est /\ handler'[g].clamp = handler[g].clamp
           /\ handler'[g].in = handler[g].in /\ handler'[g].out = handler[g].out
           /\ handler'[g].pc \in {"admitted", "answered"} \/
              handler[g].pc \in {"admitted", "answered"} => handler'[g].pc = handler[g].pc
  <2>1. CASE handler' = handler
    BY <1>0, <2>1 DEF SessionTypeInv
  <2>2. ASSUME NEW h \in Handlers, Refuse(h)
        PROVE  /\ handler' \in [Handlers -> HandlerRecords]
               /\ \A g \in Handlers :
                    /\ handler'[g].est = handler[g].est /\ handler'[g].clamp = handler[g].clamp
                    /\ handler'[g].in = handler[g].in /\ handler'[g].out = handler[g].out
                    /\ handler'[g].pc \in {"admitted", "answered"} \/
                       handler[g].pc \in {"admitted", "answered"} => handler'[g].pc = handler[g].pc
    BY <1>0, <2>2 DEF Refuse, Arrives, SessionTypeInv, HandlerRecords, SessionPCs
  <2> QED BY <2>1, <2>2 DEF OpenSession, CloseSession, sessionVars
<1>3. SessionTypeInv'
  BY <1>0, <1>1, <1>2 DEF SessionTypeInv
<1>4. Forwarding' = Forwarding /\ Metering' = Metering
  BY <1>2 DEF Forwarding, Metering
<1>5. RequestInv'
  BY <1>0, <1>1, <1>4 DEF RequestInv
<1>6. OutputAccount' = OutputAccount /\ MoneyAccount' = MoneyAccount
  BY <1>1, <1>2 DEF OutputAccount, MoneyAccount
<1>7. ASSUME NEW a, Balanced(Forwarding, Metering, peak, a)
      PROVE  Balanced(Forwarding', Metering', peak', a)
  BY <1>1, <1>4, <1>7
<1> QED BY <1>3, <1>5, <1>6, <1>7 DEF SessionInv, Balanced

\* Nothing is spent at the start.
LEMMA SessionInitInv == SessionInit => SessionInv
<1> SUFFICES ASSUME SessionInit PROVE SessionInv
  OBVIOUS
<1>1. SessionTypeInv
  BY DEF SessionInit, SessionTypeInv, HandlerRecords, SessionPCs
<1>2. Forwarding = {} /\ Metering = {}
  BY DEF SessionInit, Forwarding, Metering
<1>3. IsFiniteSet({}) /\ Cardinality({}) = 0
  BY FS_EmptySet
<1>4. RequestInv
  BY <1>2, <1>3, SessionAssumption DEF SessionInit, RequestInv
<1>5. ASSUME NEW a \in Accounts, a.spent = 0 PROVE Balanced(Forwarding, Metering, peak, a)
  <2>1. \A w : Units({}, w) = {}
    BY DEF Units
  <2>2. \A w : Total({}, w) = 0
    BY <1>3, <2>1 DEF Total
  <2>3. peak = 0 /\ a.limit \in Nat /\ a.metered \in Nat /\ a.forgiven \in Nat
    BY DEF SessionInit, Accounts
  <2> QED BY <1>2, <1>5, <2>2, <2>3 DEF Balanced
<1>6. OutputAccount.spent = 0 /\ MoneyAccount.spent = 0
  BY SessionAssumption DEF SessionInit, OutputAccount, MoneyAccount, Cost
<1> QED BY <1>1, <1>4, <1>5, <1>6, AccountTypes DEF SessionInv

\* For all limits, prices, sizes of requests, any number of them at a time and any number
\* of completions that a request asks for, the provider is asked no more often than the
\* session may, and what it charges keeps the limits once per request under way at the same
\* time and completion, but for broken streams, usage that no answer states and input above
\* its estimate.
THEOREM LimitsHold == SessionSpec => []SpendWithinLimits
<1>1. ASSUME SessionInv PROVE SpendWithinLimits
  <2>1. used.requests <= MaxRequests
    BY <1>1, UnderWayCount, SessionAssumption DEF SessionInv, SessionTypeInv, RequestInv
  <2>2. ASSUME NEW a \in Accounts, Balanced(Forwarding, Metering, peak, a)
        PROVE  a.spent <= peak * a.limit + a.forgiven
    <3>1. Total(Forwarding, a.reserved) \in Nat
      <4>1. \A g \in Forwarding : a.reserved[g] \in Nat /\ a.reserved[g] <= a.limit
        BY <2>2 DEF Balanced, Accounts, Forwarding
      <4> QED BY <1>1, <4>1, TotalBound DEF SessionInv, RequestInv, Accounts
    <3>2. a.spent \in Nat /\ peak * a.limit \in Nat /\ a.forgiven \in Nat
      BY <1>1, Products DEF Accounts, SessionInv, SessionTypeInv
    <3> QED BY <2>2, <3>1, <3>2 DEF Balanced
  <2>3. used.out <= peak * (MaxOutput * Fan) + lost.out
    <3>1. OutputAccount.spent <= peak * OutputAccount.limit + OutputAccount.forgiven
      BY <1>1, <2>2, AccountTypes DEF SessionInv
    <3> QED BY <3>1 DEF OutputAccount
  <2>4. ASSUME PriceOut > 0
        PROVE  Cost(used.in, used.out) <=
                 peak * (MaxUsd * Fan) + Cost(lost.in, lost.out) + used.requests * Slack * PriceIn
    <3>1. MoneyAccount.spent <= peak * MoneyAccount.limit + MoneyAccount.forgiven
      BY <1>1, <2>2, <2>4, AccountTypes DEF SessionInv
    <3>2. /\ used.requests \in Nat /\ Slack \in Nat /\ PriceIn \in Nat /\ peak \in Nat
          /\ lost.in \in Nat /\ lost.out \in Nat /\ MaxUsd * Fan \in Nat
      BY <1>1, SessionAssumption, Products DEF SessionInv, SessionTypeInv
    <3>3. used.requests * (Slack * PriceIn) = used.requests * Slack * PriceIn
      BY <3>2
    <3>4. /\ peak * (MaxUsd * Fan) \in Nat /\ Cost(lost.in, lost.out) \in Nat
          /\ used.requests * (Slack * PriceIn) \in Nat
      BY <3>2, Products, Costs
    <3>5. Cost(used.in, used.out) <=
            peak * (MaxUsd * Fan) + (Cost(lost.in, lost.out) + used.requests * (Slack * PriceIn))
      BY <3>1 DEF MoneyAccount
    <3> QED BY <3>3, <3>4, <3>5
  <2> QED BY <2>1, <2>3, <2>4 DEF SpendWithinLimits, Cost
<1>2. SessionInv /\ [SessionNext]_sessionVars => SessionInv'
  BY AdmitKeeps, SettleKeeps, MeterKeeps, RestKeeps DEF SessionNext
<1> QED BY <1>1, <1>2, SessionInitInv, PTL DEF SessionSpec

-----------------------------------------------------------------------------
(* The observer broker and the daemon's breaker.                           *)

SeenStates == {"none", "open", "closed"}
Breakers == [open : BOOLEAN, good : Nat]
ObservedCalls ==
  [pc : {"idle", "running", "reply"}, command : Commands \union {"none", "health"},
   status : {"none", "ok", "failed", "unreachable"}, breaker : SeenStates]
Telemetries == [unreachable : Nat, breaker : SeenStates]
Ticks == [at : Commands \union {"wait", "telemetry"}, running : BOOLEAN, probe : SeenStates]

ObservationTypeInv ==
  /\ breaker \in Breakers /\ other \in ObservedCalls
  /\ telemetry \in Telemetries /\ tick \in Ticks
  /\ tick.running => tick.at \in Commands
  /\ unsaid \in BOOLEAN /\ cut \in BOOLEAN

\* A reply of before the trip is under way; such a reply is the last that was recorded.
Outdated == other.breaker = "closed"
Misled == telemetry.breaker = "closed"

\* A trip is unsaid, and no tick was cut off right after a good sample.
Unsaid == unsaid /\ ~cut

\* While a trip is unsaid the breaker is open and has seen few good samples: a tick that
\* began after the trip says nothing of it only when the one reply of before the trip has
\* overwritten what its probe and its sample told the broker.
TripInv ==
  Unsaid =>
    /\ breaker.open
    /\ tick.at = "wait" => breaker.good = 0 \/ (breaker.good = 1 /\ ~Outdated)
    /\ tick.at \in Commands =>
         /\ tick.probe = "open" /\ ~(Outdated /\ Misled)
         /\ breaker.good = 0 \/ (breaker.good = 1 /\ ~Outdated /\ ~Misled)
    /\ tick.at = "telemetry" =>
         \/ breaker.good = 0
         \/ breaker.good = 1 /\ tick.probe # "closed" /\ ~(Outdated /\ Misled)
         \/ breaker.good = 2 /\ tick.probe # "closed" /\ ~Outdated /\ ~Misled

ObservationInv == ObservationTypeInv /\ TripInv

\* Breaker.sample: a bad sample opens; a good one counts, and fewer than three never close.
LEMMA SampleFields ==
  ASSUME NEW b \in Breakers, NEW good, Recover >= 3
  PROVE  /\ Sample(b, good) \in Breakers
         /\ ~good => Sample(b, good).good = 0
         /\ b.open /\ b.good <= 1 =>
              /\ Sample(b, good).open
              /\ Sample(b, good).good = 0 \/ Sample(b, good).good = b.good + 1
         /\ Sample(b, good).open /\ ~b.open => Sample(b, good).good = 0
BY ObservationAssumption DEF Sample, Breakers, NewBreaker

\* Telemetry.record: the state of the breaker is the one that was seen, or the reply's.
LEMMA RecordFields ==
  ASSUME NEW t \in Telemetries, NEW r \in ObservedCalls
  PROVE  /\ Record(t, r) \in Telemetries
         /\ Record(t, r).breaker = t.breaker \/ Record(t, r).breaker = r.breaker
         /\ r.command \in {"health", "rpc_latency"} /\ r.status # "unreachable" =>
              Record(t, r).breaker = r.breaker
         /\ r.command = "catchup" \/ r.status = "unreachable" =>
              Record(t, r).breaker = t.breaker
<1>1. /\ t.unreachable \in Nat /\ t.breaker \in SeenStates /\ r.breaker \in SeenStates
      /\ t = [unreachable |-> t.unreachable, breaker |-> t.breaker]
  BY DEF Telemetries, ObservedCalls
<1> DEFINE n == IF r.status # "unreachable" THEN 0
                ELSE IF t.unreachable < 2 THEN t.unreachable + 1 ELSE t.unreachable
           b == IF r.command \in {"health", "rpc_latency"} /\ r.status # "unreachable"
                THEN r.breaker ELSE t.breaker
<1>2. Record(t, r) = [t EXCEPT !.unreachable = n, !.breaker = b]
  BY <1>1 DEF Record, Telemetries
<1>3. n \in Nat /\ b \in SeenStates
  BY <1>1
<1>4. Record(t, r) \in Telemetries /\ Record(t, r).breaker = b
  <2> HIDE DEF n, b
  <2> QED BY <1>2, <1>3 DEF Telemetries
<1> QED BY <1>4

\* The replies of the model are calls, with the fields they are made of.
LEMMA ReplyFields ==
  ASSUME NEW c \in Commands \union {"health"}, NEW s \in {"ok", "failed", "unreachable"},
         NEW seen \in SeenStates
  PROVE  /\ Reply(c, s, seen) \in ObservedCalls
         /\ Reply(c, s, seen).command = c /\ Reply(c, s, seen).status = s
         /\ Reply(c, s, seen).breaker = seen
BY DEF Reply, ObservedCalls

\* What the broker has seen once it has recorded a reply of the daemon, or the lack of one.
LEMMA RecordReply ==
  ASSUME NEW t \in Telemetries, NEW c \in Commands \union {"health"},
         NEW s \in {"ok", "failed", "unreachable"}, NEW seen \in SeenStates
  PROVE  /\ Record(t, Reply(c, s, seen)) \in Telemetries
         /\ c # "catchup" /\ s # "unreachable" => Record(t, Reply(c, s, seen)).breaker = seen
         /\ c = "catchup" \/ s = "unreachable" =>
              Record(t, Reply(c, s, seen)).breaker = t.breaker
<1> DEFINE r == Reply(c, s, seen)
<1>1. r \in ObservedCalls /\ r.command = c /\ r.status = s /\ r.breaker = seen
  BY ReplyFields
<1> HIDE DEF r
<1>2. Record(t, r) \in Telemetries
  BY <1>1, RecordFields
<1>3. c # "catchup" /\ s # "unreachable" => Record(t, r).breaker = seen
  BY <1>1, RecordFields DEF Commands
<1>4. c = "catchup" \/ s = "unreachable" => Record(t, r).breaker = t.breaker
  BY <1>1, RecordFields
<1> QED BY <1>2, <1>3, <1>4 DEF r

\* The sentinel goes on from a sample to the next, or to the telemetry.
LEMMA TakeFields ==
  ASSUME ObservationTypeInv, tick.at \in Commands,
         tick' = [tick EXCEPT !.at = After[@], !.running = FALSE]
  PROVE  /\ tick' \in Ticks /\ ~tick'.running /\ tick'.probe = tick.probe
         /\ tick.at = "catchup" => tick'.at = "rpc_latency"
         /\ tick.at = "rpc_latency" => tick'.at = "telemetry"
<1>1. After["catchup"] = "rpc_latency" /\ After["rpc_latency"] = "telemetry"
  BY DEF After
<1>2. tick \in Ticks /\ tick.at \in {"catchup", "rpc_latency"}
  BY DEF ObservationTypeInv, Commands
<1>3. tick' = [tick EXCEPT !.at = After[tick.at], !.running = FALSE]
  BY <1>2 DEF Ticks
<1>4. tick'.at = After[tick.at] /\ ~tick'.running /\ tick'.probe = tick.probe
  BY <1>2, <1>3 DEF Ticks
<1>5. tick' \in Ticks
  BY <1>1, <1>2, <1>3 DEF Ticks, Commands
<1> QED BY <1>1, <1>4, <1>5

\* A tick that is cut off: the broker has seen no more of the breaker, which the tick has
\* left alone.
LEMMA CutKeeps ==
  ASSUME ObservationInv, UNCHANGED <<breaker, other, unsaid, cut>>, tick.at # "telemetry",
         NEW c \in Commands \union {"health"}, CutOff(c)
  PROVE  ObservationInv'
<1>0. ObservationTypeInv /\ TripInv /\ tick \in Ticks /\ telemetry \in Telemetries
  BY DEF ObservationInv, ObservationTypeInv
<1>1. telemetry' \in Telemetries /\ telemetry'.breaker = telemetry.breaker
  BY <1>0, RecordReply DEF CutOff, SeenStates
<1>2. tick' \in Ticks /\ tick'.at = "wait" /\ ~tick'.running
  BY DEF CutOff, NoTick, Ticks, SeenStates
<1>3. ObservationTypeInv'
  BY <1>0, <1>1, <1>2 DEF ObservationTypeInv
<1>4. tick.at = "wait" \/ tick.at \in Commands
  BY <1>0 DEF Ticks
<1>5. Unsaid' = Unsaid /\ Outdated' = Outdated
  BY DEF Unsaid, Outdated
<1> QED BY <1>0, <1>2, <1>3, <1>4, <1>5 DEF ObservationInv, TripInv, Commands

\* The probe of a tick sees the open breaker, or fails.
LEMMA ProbeKeeps ==
  ASSUME ObservationInv, Probe
  PROVE  ObservationInv'
<1>0. ObservationTypeInv /\ TripInv
  BY DEF ObservationInv
<1>1. UNCHANGED <<breaker, other, unsaid, cut>> /\ tick.at = "wait"
  BY DEF Probe, daemon, history
<1>2. CASE /\ tick' = [NoTick EXCEPT !.at = "telemetry"]
           /\ telemetry' = Record(telemetry, Reply("health", "unreachable", "none"))
  <2>1. telemetry' \in Telemetries /\ telemetry'.breaker = telemetry.breaker
    BY <1>0, <1>2, RecordReply DEF ObservationTypeInv, SeenStates
  <2>2. tick' \in Ticks /\ tick'.at = "telemetry" /\ tick'.probe = "none" /\ ~tick'.running
    BY <1>2 DEF NoTick, Ticks, SeenStates
  <2> QED BY <1>0, <1>1, <2>1, <2>2
          DEF ObservationInv, ObservationTypeInv, TripInv, Unsaid, Outdated, Misled, Commands
<1>3. CASE /\ tick' = [NoTick EXCEPT !.at = "catchup", !.probe = State(breaker)]
           /\ telemetry' = Record(telemetry, Reply("health", "ok", State(breaker)))
  <2>1. State(breaker) \in SeenStates /\ (breaker.open => State(breaker) = "open")
    BY DEF State, SeenStates
  <2>2. telemetry' \in Telemetries /\ telemetry'.breaker = State(breaker)
    BY <1>0, <1>3, <2>1, RecordReply DEF ObservationTypeInv
  <2>3. tick' \in Ticks /\ tick'.at = "catchup" /\ tick'.probe = State(breaker) /\ ~tick'.running
    BY <1>3, <2>1 DEF NoTick, Ticks, Commands
  <2> QED BY <1>0, <1>1, <2>1, <2>2, <2>3
          DEF ObservationInv, ObservationTypeInv, TripInv, Unsaid, Outdated, Misled, Commands
<1>4. CASE CutOff("health")
  BY <1>0, <1>1, <1>4, CutKeeps
<1> QED BY <1>2, <1>3, <1>4 DEF Probe

\* A sample is refused, lost or begins.
LEMMA AskKeeps ==
  ASSUME ObservationInv, AskSample
  PROVE  ObservationInv'
<1>0. ObservationTypeInv /\ TripInv
  BY DEF ObservationInv
<1>1. /\ UNCHANGED <<breaker, other, unsaid, cut>> /\ tick.at \in Commands /\ ~tick.running
      /\ tick.at # "telemetry"
  BY DEF AskSample, history, Commands
<1>2. ASSUME NEW s \in {"failed", "unreachable"}, Take(Reply(tick.at, s, "none"))
      PROVE  ObservationInv'
  <2>1. telemetry' \in Telemetries /\ (telemetry'.breaker = telemetry.breaker \/ ~Misled')
    <3>1. telemetry' = Record(telemetry, Reply(tick.at, s, "none")) /\ telemetry \in Telemetries
      BY <1>0, <1>2 DEF Take, ObservationTypeInv
    <3>2. "none" \in SeenStates
      BY DEF SeenStates
    <3>3. tick.at = "catchup" \/ tick.at # "catchup"
      OBVIOUS
    <3> QED BY <1>1, <3>1, <3>2, <3>3, RecordReply DEF Misled
  <2>2. /\ tick' \in Ticks /\ ~tick'.running /\ tick'.probe = tick.probe
        /\ tick'.at \in {"rpc_latency", "telemetry"}
    BY <1>0, <1>1, <1>2, TakeFields DEF Take, Commands
  <2> QED BY <1>0, <1>1, <2>1, <2>2
          DEF ObservationInv, ObservationTypeInv, TripInv, Unsaid, Outdated, Misled, Commands
<1>3. ASSUME tick' = [tick EXCEPT !.running = TRUE], UNCHANGED telemetry
      PROVE  ObservationInv'
  <2>1. tick' \in Ticks /\ tick'.at = tick.at /\ tick'.probe = tick.probe
    BY <1>0, <1>3 DEF ObservationTypeInv, Ticks
  <2> QED BY <1>0, <1>1, <1>3, <2>1
          DEF ObservationInv, ObservationTypeInv, TripInv, Unsaid, Outdated, Misled
<1>4. CASE CutOff(tick.at)
  BY <1>0, <1>1, <1>4, CutKeeps
<1> QED BY <1>2, <1>3, <1>4 DEF AskSample

\* What a run that ends does to the breaker: from the samples of the other commands and
\* from a run that does not end nothing, and a trip is unsaid.
LEMMA MeasureFields ==
  ASSUME ObservationInv, Recover >= 3, NEW ends, NEW off \in BOOLEAN, Measure(ends, off)
  PROVE  /\ breaker' \in Breakers /\ unsaid' \in BOOLEAN /\ cut' \in BOOLEAN
         /\ tick.at # "rpc_latency" => UNCHANGED <<breaker, unsaid, cut>>
         /\ Unsaid' => breaker'.open
         /\ Unsaid' /\ breaker'.good # 0 => Unsaid
         /\ Unsaid' /\ off => breaker'.good = 0 \/ breaker' = breaker
         /\ Unsaid => breaker'.good = 0 \/ breaker'.good = breaker.good
                      \/ breaker'.good = breaker.good + 1
<1>0. ObservationTypeInv /\ TripInv /\ breaker \in Breakers
  BY DEF ObservationInv, ObservationTypeInv
<1>1. CASE breaker' = breaker
  <2>1. unsaid' = unsaid /\ cut' = cut
    BY <1>0, <1>1 DEF Measure, ObservationTypeInv
  <2> QED BY <1>0, <1>1, <2>1 DEF ObservationTypeInv, TripInv, Unsaid
<1>2. CASE breaker' = Sample(breaker, healthy) /\ tick.running /\ tick.at = "rpc_latency"
  <2>1. Unsaid => breaker.open /\ breaker.good <= 1
    BY <1>0, <1>2 DEF TripInv, Commands, Breakers
  <2>2. /\ breaker' \in Breakers
        /\ breaker.open /\ breaker.good <= 1 =>
             breaker'.open /\ (breaker'.good = 0 \/ breaker'.good = breaker.good + 1)
        /\ breaker'.open /\ ~breaker.open => breaker'.good = 0
        /\ ~healthy => breaker'.good = 0
    BY <1>0, <1>2, SampleFields
  <2>3. /\ unsaid' \in BOOLEAN /\ cut' \in BOOLEAN
        /\ Unsaid' => Unsaid \/ (breaker'.open /\ ~breaker.open)
        /\ Unsaid' /\ off /\ healthy /\ Unsaid => breaker' = breaker \/ ~breaker.open
    BY <1>0 DEF Measure, ObservationTypeInv, Unsaid
  <2> QED BY <1>0, <1>2, <2>1, <2>2, <2>3
<1> QED BY <1>1, <1>2 DEF Measure

\* The tick is cut off in the run of a sample.
CutRun == CutOff(tick.at) /\ \E ends \in {link = "up", TRUE} : Measure(ends, TRUE)

\* A sample ends, and its reply arrives or is lost: the reply of rpc_latency says what
\* the breaker has come to.
LEMMA TakeKeeps ==
  ASSUME ObservationInv, Recover >= 3, RunSample, ~CutRun
  PROVE  ObservationInv'
<1>0. ObservationTypeInv /\ TripInv
  BY DEF ObservationInv
<1>1. UNCHANGED other /\ tick.at \in Commands
  BY <1>0 DEF RunSample, ObservationTypeInv
<1>2. /\ breaker' \in Breakers /\ unsaid' \in BOOLEAN /\ cut' \in BOOLEAN
      /\ tick.at # "rpc_latency" => UNCHANGED <<breaker, unsaid, cut>>
      /\ Unsaid' => breaker'.open
      /\ Unsaid' /\ breaker'.good # 0 => Unsaid
      /\ Unsaid => breaker'.good = 0 \/ breaker'.good = breaker.good
                   \/ breaker'.good = breaker.good + 1
  BY MeasureFields DEF RunSample
<1>3. /\ tick' \in Ticks /\ ~tick'.running /\ tick'.probe = tick.probe
      /\ tick.at = "catchup" => tick'.at = "rpc_latency"
      /\ tick.at = "rpc_latency" => tick'.at = "telemetry"
  <2>1. tick' = [tick EXCEPT !.at = After[@], !.running = FALSE]
    BY DEF RunSample, Take, CutRun
  <2> QED BY <1>0, <1>1, <2>1, TakeFields
<1>4. /\ telemetry' \in Telemetries
      /\ telemetry'.breaker = telemetry.breaker \/
         (tick.at = "rpc_latency" /\ (breaker'.open => telemetry'.breaker = "open"))
  <2>1. CASE Take(Reply(tick.at, "unreachable", "none"))
    <3>1. telemetry' = Record(telemetry, Reply(tick.at, "unreachable", "none"))
      BY <2>1 DEF Take
    <3>2. "none" \in SeenStates /\ telemetry \in Telemetries
      BY <1>0 DEF SeenStates, ObservationTypeInv
    <3> QED BY <1>1, <3>1, <3>2, RecordReply
  <2>2. ASSUME NEW s \in Outcomes(tick.at),
               Take(Reply(tick.at, s, IF tick.at = "rpc_latency" THEN State(breaker') ELSE "none"))
        PROVE  /\ telemetry' \in Telemetries
               /\ telemetry'.breaker = telemetry.breaker \/
                  (tick.at = "rpc_latency" /\ (breaker'.open => telemetry'.breaker = "open"))
    <3> DEFINE seen == IF tick.at = "rpc_latency" THEN State(breaker') ELSE "none"
    <3>1. s \in {"ok", "failed"}
      BY <2>2 DEF Outcomes
    <3>2. seen \in SeenStates /\ (tick.at = "rpc_latency" /\ breaker'.open => seen = "open")
      BY DEF State, SeenStates
    <3>3. telemetry' = Record(telemetry, Reply(tick.at, s, seen))
      BY <2>2 DEF Take
    <3> HIDE DEF seen
    <3>4. telemetry \in Telemetries
      BY <1>0 DEF ObservationTypeInv
    <3>5. /\ telemetry' \in Telemetries
          /\ tick.at # "catchup" => telemetry'.breaker = seen
          /\ tick.at = "catchup" => telemetry'.breaker = telemetry.breaker
      BY <1>1, <3>1, <3>2, <3>3, <3>4, RecordReply
    <3> QED BY <1>1, <3>2, <3>5 DEF Commands
  <2> QED BY <2>1, <2>2 DEF RunSample, CutRun
<1>5. ObservationTypeInv'
  BY <1>0, <1>1, <1>2, <1>3, <1>4 DEF ObservationTypeInv
<1>6. CASE tick.at = "catchup"
  BY <1>0, <1>2, <1>1, <1>3, <1>4, <1>5, <1>6
     DEF ObservationInv, TripInv, Unsaid, Outdated, Misled, Commands
<1>7. CASE tick.at = "rpc_latency"
  <2>1. CASE ~Unsaid' \/ breaker'.good = 0
    BY <1>2, <1>3, <1>5, <1>7, <2>1 DEF ObservationInv, TripInv, Commands
  <2>2. CASE Unsaid' /\ breaker'.good # 0
    <3>1. /\ tick.probe = "open" /\ ~(Outdated /\ Misled)
          /\ breaker.good = 0 \/ (breaker.good = 1 /\ ~Outdated /\ ~Misled)
      BY <1>0, <1>1, <1>2, <2>2 DEF TripInv
    <3>2. Outdated' = Outdated /\ (Misled' => Misled)
      BY <1>1, <1>2, <1>4, <2>2 DEF Outdated, Misled
    <3> QED BY <1>2, <1>3, <1>5, <1>7, <2>2, <3>1, <3>2 DEF ObservationInv, TripInv, Commands
  <2> QED BY <2>1, <2>2
<1> QED BY <1>1, <1>6, <1>7 DEF Commands

\* A sample ends, or its tick does: after a good sample that is noted.
LEMMA RunKeeps ==
  ASSUME ObservationInv, Recover >= 3, RunSample
  PROVE  ObservationInv'
<1>0. ObservationTypeInv /\ TripInv
  BY DEF ObservationInv
<1>1. UNCHANGED other /\ tick.at \in Commands
  BY <1>0 DEF RunSample, ObservationTypeInv
<1>2. CASE CutRun
  <2>1. PICK ends \in {link = "up", TRUE} : Measure(ends, TRUE)
    BY <1>2 DEF CutRun
  <2>2. /\ breaker' \in Breakers /\ unsaid' \in BOOLEAN /\ cut' \in BOOLEAN
        /\ Unsaid' => breaker'.open
        /\ Unsaid' /\ breaker'.good # 0 => Unsaid
        /\ Unsaid' => breaker'.good = 0 \/ breaker' = breaker
    BY <2>1, MeasureFields
  <2>3. telemetry' \in Telemetries
    BY <1>0, <1>1, <1>2, RecordReply DEF CutRun, CutOff, SeenStates, ObservationTypeInv
  <2>4. tick' \in Ticks /\ tick'.at = "wait" /\ ~tick'.running
    BY <1>2 DEF CutRun, CutOff, NoTick, Ticks, SeenStates
  <2>5. ObservationTypeInv'
    BY <1>0, <1>1, <2>2, <2>3, <2>4 DEF ObservationTypeInv
  <2>6. Outdated' = Outdated
    BY <1>1 DEF Outdated
  <2> QED BY <1>0, <1>1, <2>2, <2>4, <2>5, <2>6 DEF ObservationInv, TripInv, Commands
<1> QED BY <1>2, TakeKeeps

\* A tick concludes: it finds the breaker open or an outage, or it was misled.
LEMMA ConcludeKeeps ==
  ASSUME ObservationInv, Conclude
  PROVE  ObservationInv'
<1>0. ObservationTypeInv /\ TripInv
  BY DEF ObservationInv
<1>1. /\ UNCHANGED <<breaker, other, telemetry>> /\ tick.at = "telemetry" /\ tick' = NoTick
      /\ unsaid' = (unsaid /\ Findings(telemetry, tick.probe) = {}) /\ cut' = (cut /\ unsaid')
  BY DEF Conclude, daemon, broker
<1>2. ASSUME Findings(telemetry, tick.probe) = {}
      PROVE  tick.probe # "none" /\ (Misled \/ tick.probe = "closed")
  <2>1. tick.probe # "none" /\ ~(telemetry.unreachable >= 2)
    BY <1>2 DEF Findings
  <2>2. (IF telemetry.breaker # "none" THEN telemetry.breaker ELSE tick.probe) # "open"
    BY <1>2, <2>1 DEF Findings
  <2> QED BY <1>0, <2>1, <2>2
          DEF ObservationTypeInv, Telemetries, Ticks, SeenStates, Misled
<1>3. NoTick \in Ticks /\ NoTick.at = "wait" /\ ~NoTick.running
  BY DEF NoTick, Ticks, SeenStates
<1>4. ObservationTypeInv'
  BY <1>0, <1>1, <1>3 DEF ObservationTypeInv
<1>5. Unsaid' => Unsaid /\ Findings(telemetry, tick.probe) = {}
  BY <1>0, <1>1 DEF Unsaid, ObservationTypeInv
<1> QED BY <1>0, <1>1, <1>2, <1>3, <1>4, <1>5
        DEF ObservationInv, TripInv, Outdated, Misled, Commands

\* The calls of workers and of the verifier: while a trip is unsaid a new reply does not
\* say that the breaker is closed.
LEMMA OtherKeeps ==
  ASSUME ObservationInv, ToolCall \/ VerifierSample \/ OtherRun \/ VerifierProbe
  PROVE  ObservationInv'
<1>0. ObservationTypeInv /\ TripInv
  BY DEF ObservationInv
<1>1. UNCHANGED <<breaker, telemetry, tick, unsaid, cut>>
  BY DEF ToolCall, AskCatchup, VerifierSample, OtherRun, VerifierProbe, daemon, sentinel, history
<1>2. other' \in ObservedCalls /\ (breaker.open => ~Outdated')
  <2>1. ASSUME NEW c \in {"catchup", "health"}, NEW s \in {"ok", "failed", "unreachable"},
               NEW seen \in SeenStates
        PROVE  Reply(c, s, seen) \in ObservedCalls /\ Reply(c, s, seen).breaker = seen
    BY ReplyFields DEF Commands
  <2>2. CASE other' = [NoCall EXCEPT !.pc = "running", !.command = "catchup"]
    BY <2>2 DEF NoCall, ObservedCalls, SeenStates, Commands, Outdated
  <2>3. "none" \in SeenStates /\ State(breaker) \in SeenStates
    BY DEF State, SeenStates
  <2>4. CASE \E s \in {"ok", "failed", "unreachable"} : other' = Reply("catchup", s, "none")
    BY <2>1, <2>3, <2>4 DEF Outdated
  <2>5. CASE other' = Reply("health", "unreachable", "none")
    BY <2>1, <2>3, <2>5 DEF Outdated
  <2>6. CASE other' = Reply("health", "ok", State(breaker))
    <3>1. other' \in ObservedCalls /\ other'.breaker = State(breaker)
      BY <2>1, <2>3, <2>6
    <3> QED BY <3>1 DEF Outdated, State
  <2>7. CASE ToolCall \/ VerifierSample
    BY <2>2, <2>4, <2>7 DEF ToolCall, VerifierSample, AskCatchup
  <2>8. CASE OtherRun
    BY <2>4, <2>8 DEF OtherRun, Outcomes
  <2>9. CASE VerifierProbe
    BY <2>5, <2>6, <2>9 DEF VerifierProbe
  <2> QED BY <2>7, <2>8, <2>9
<1>3. ObservationTypeInv'
  BY <1>0, <1>1, <1>2 DEF ObservationTypeInv
<1> QED BY <1>0, <1>1, <1>2, <1>3 DEF ObservationInv, TripInv, Unsaid, Outdated, Misled

\* The broker records a reply: one of before the trip misleads once.
LEMMA ReturnsKeeps ==
  ASSUME ObservationInv, Returns
  PROVE  ObservationInv'
<1>0. ObservationTypeInv /\ TripInv
  BY DEF ObservationInv
<1>1. /\ UNCHANGED <<breaker, tick, unsaid, cut>>
      /\ telemetry' = Record(telemetry, other) /\ other' = NoCall
  BY DEF Returns, daemon, sentinel, history
<1>2. NoCall \in ObservedCalls /\ NoCall.breaker = "none"
  BY DEF NoCall, ObservedCalls, SeenStates
<1>3. /\ telemetry' \in Telemetries
      /\ telemetry'.breaker = telemetry.breaker \/ telemetry'.breaker = other.breaker
  BY <1>0, <1>1, RecordFields DEF ObservationTypeInv
<1>4. ObservationTypeInv'
  BY <1>0, <1>1, <1>2, <1>3 DEF ObservationTypeInv
<1>5. ~Outdated' /\ (Misled' => Misled \/ Outdated)
  BY <1>1, <1>2, <1>3 DEF Outdated, Misled
<1> QED BY <1>0, <1>1, <1>4, <1>5 DEF ObservationInv, TripInv, Unsaid

\* The broker restarts: it has seen nothing, and the run of the sample may have ended.
LEMMA RestartKeeps ==
  ASSUME ObservationInv, Recover >= 3, BrokerRestarts
  PROVE  ObservationInv'
<1>0. ObservationTypeInv /\ TripInv
  BY DEF ObservationInv
<1>1. other' = NoCall /\ telemetry' = NewTelemetry
  BY DEF BrokerRestarts
<1>2. /\ other' \in ObservedCalls /\ telemetry' \in Telemetries /\ ~Outdated' /\ ~Misled'
  BY <1>1 DEF NoCall, NewTelemetry, ObservedCalls, Telemetries, SeenStates, Outdated, Misled
<1>3. /\ breaker' \in Breakers /\ unsaid' \in BOOLEAN /\ cut' \in BOOLEAN
      /\ tick.at # "rpc_latency" => UNCHANGED <<breaker, unsaid, cut>>
      /\ Unsaid' => breaker'.open
      /\ Unsaid' /\ breaker'.good # 0 => Unsaid
      /\ Unsaid => breaker'.good = 0 \/ breaker'.good = breaker.good
                   \/ breaker'.good = breaker.good + 1
  BY MeasureFields DEF BrokerRestarts
<1>4. CASE tick.at \notin Commands
  <2>1. tick' = tick
    BY <1>4 DEF BrokerRestarts
  <2>2. ObservationTypeInv'
    BY <1>0, <1>2, <1>3, <2>1 DEF ObservationTypeInv
  <2> QED BY <1>0, <1>2, <1>3, <1>4, <2>1, <2>2 DEF ObservationInv, TripInv, Unsaid, Commands
<1>5. CASE tick.at \in Commands
  <2>1. /\ tick' \in Ticks /\ ~tick'.running /\ tick'.probe = tick.probe
        /\ tick.at = "catchup" => tick'.at = "rpc_latency"
        /\ tick.at = "rpc_latency" => tick'.at = "telemetry"
    <3>1. tick' = [tick EXCEPT !.at = After[@], !.running = FALSE]
      BY <1>5 DEF BrokerRestarts
    <3> QED BY <1>0, <1>5, <3>1, TakeFields
  <2>2. ObservationTypeInv'
    BY <1>0, <1>2, <1>3, <2>1 DEF ObservationTypeInv
  <2>3. Unsaid => tick.probe = "open" /\ (breaker.good = 0 \/ breaker.good = 1)
    BY <1>0, <1>5 DEF TripInv
  <2> QED BY <1>0, <1>2, <1>3, <1>5, <2>1, <2>2, <2>3 DEF ObservationInv, TripInv, Unsaid, Commands
<1> QED BY <1>4, <1>5

\* The rest leaves breaker, replies and tick alone, but for a restart of the daemon.
LEMMA WorldKeeps ==
  ASSUME ObservationInv,
         \/ \E c \in Commands : Expire(c)
         \/ HealthChanges \/ GoesDown \/ ComesUp \/ UNCHANGED observationVars
  PROVE  ObservationInv'
<1>1. UNCHANGED <<other, telemetry, tick>>
  BY DEF Expire, HealthChanges, GoesDown, ComesUp, observationVars, daemon, broker, sentinel
<1>2. \/ UNCHANGED <<breaker, unsaid, cut>>
      \/ breaker' = NewBreaker /\ unsaid' = FALSE /\ cut' = FALSE
  BY DEF Expire, HealthChanges, GoesDown, ComesUp, observationVars, daemon, broker, sentinel, history
<1>3. NewBreaker \in Breakers
  BY DEF NewBreaker, Breakers
<1>4. ObservationTypeInv'
  BY <1>1, <1>2, <1>3 DEF ObservationInv, ObservationTypeInv
<1>5. TripInv'
  BY <1>1, <1>2 DEF ObservationInv, TripInv, Unsaid, Outdated, Misled
<1> QED BY <1>4, <1>5 DEF ObservationInv

\* "Trips are reported, never silent" (Breaker): when it takes three good samples or more
\* to close the breaker, as the daemon's five do, then for every rate and any number of
\* lost replies and restarts of the broker an unsaid trip still has the breaker open,
\* unless a silent link has cut off a tick right after a good sample.
THEOREM TripsAreReported ==
  ASSUME Recover >= 3
  PROVE  ObservationSpec => []TripsReported
<1>1. ObservationInit => ObservationInv
  <2> SUFFICES ASSUME ObservationInit PROVE ObservationInv
    OBVIOUS
  <2>1. /\ NewBreaker \in Breakers /\ NoCall \in ObservedCalls /\ NewTelemetry \in Telemetries
        /\ NoTick \in Ticks /\ ~NoTick.running
    BY DEF NewBreaker, NoCall, NewTelemetry, NoTick, Breakers, ObservedCalls, Telemetries, Ticks,
           SeenStates
  <2> QED BY <2>1 DEF ObservationInit, ObservationInv, ObservationTypeInv, TripInv, Unsaid
<1>2. ObservationInv /\ [ObservationNext]_observationVars => ObservationInv'
  BY ProbeKeeps, AskKeeps, RunKeeps, ConcludeKeeps, OtherKeeps, ReturnsKeeps, RestartKeeps,
     WorldKeeps DEF ObservationNext, Sentinel
<1>3. ObservationInv => TripsReported
  BY DEF ObservationInv, ObservationTypeInv, TripInv, Unsaid, TripsReported
<1> QED BY <1>1, <1>2, <1>3, PTL DEF ObservationSpec
=============================================================================
