----------------------------- MODULE DaemonChain -----------------------------
(***************************************************************************)
(* The observer daemon's local hash chain (valops/observer/chain.py) and   *)
(* its checkpoints: the observer broker asks the sequencer for the last    *)
(* recorded checkpoint, fetches one that answers for it, and has it        *)
(* recorded (OD-10). The hash at a line stands for the lines up to it.     *)
(***************************************************************************)
EXTENDS Integers, SequencesExt

CONSTANTS
  MaxLines,       \* lines that the daemon writes
  Replaced,       \* the file may be changed while the daemon is down
  Strays,         \* a request may outlive the broker that sent it
  WriteErrors,    \* the sequencer may fail to write an entry
  CallsHang,      \* a call may exceed its time-out
  MaxFaults       \* bound on crashes, restarts and failing calls

ASSUME ChainAssumption ==
  /\ MaxLines \in Nat /\ MaxFaults \in Nat
  /\ {Replaced, Strays, WriteErrors, CallsHang} \subseteq BOOLEAN

VARIABLES
  file,      \* the daemon's lines on disk
  ending,    \* "whole"; "bare": the last line lacks its newline; "broken": a line does not parse or link
  unsynced,  \* the line that is written and not yet synced (0: none)
  made,      \* lines written so far: each is different from all others
  up, count, \* the daemon runs; lines that it counts
  last,      \* daemon_last of the sequencer
  recorded,  \* the newest accepted checkpoint in the sequencer's chain
  broker,    \* checkpoint_loop: pc and the seq it asks about
  request,   \* record_daemon_checkpoint under way, of this broker and of a dead one
  alarm,     \* an integrity_fail was written
  excused,   \* history: "changed" file, "failed" write, "stray" request that outlived its broker
  faults

daemon == <<file, ending, unsynced, made, up, count>>
sequencer == <<last, recorded>>
vars == <<daemon, sequencer, broker, request, alarm, excused, faults>>

NoHead == [seq |-> -1, head |-> <<>>]
NoRequest == [pc |-> "none", ckpt |-> NoHead, since |-> NoHead]
Idle == [pc |-> "idle", since |-> -1]
Slots == {"own", "stray"}
Faulty == faults < MaxFaults /\ faults' = faults + 1

Init ==
  /\ file = <<>> /\ ending = "whole" /\ unsynced = 0 /\ made = 0 /\ up = TRUE /\ count = 0
  /\ last = NoHead /\ recorded = NoHead
  /\ broker = Idle
  /\ request = [s \in Slots |-> NoRequest]
  /\ alarm = FALSE /\ excused = {} /\ faults = 0

-----------------------------------------------------------------------------
(* The daemon.                                                             *)

WriteLine ==
  /\ up /\ unsynced = 0 /\ made < MaxLines
  /\ made' = made + 1 /\ unsynced' = made + 1
  /\ UNCHANGED <<file, ending, up, count, sequencer, broker, request, alarm, excused, faults>>

\* A line that follows one without a newline is joined to it.
Ending(part) == IF ending = "whole" THEN part ELSE "broken"

SyncLine ==
  /\ up /\ unsynced # 0
  /\ file' = Append(file, unsynced) /\ ending' = Ending("whole")
  /\ count' = count + 1 /\ unsynced' = 0
  /\ UNCHANGED <<made, up, sequencer, broker, request, alarm, excused, faults>>

DaemonCrash ==
  /\ up /\ Faulty
  /\ up' = FALSE /\ count' = 0 /\ unsynced' = 0
  /\ \/ UNCHANGED <<file, ending>>
     \/ unsynced # 0 /\ file' = Append(file, unsynced) /\ ending' \in {Ending("whole"), Ending("bare")}
     \/ unsynced # 0 /\ UNCHANGED file /\ ending' = "broken"
  /\ UNCHANGED <<made, sequencer, broker, request, alarm, excused>>

CountedAtStartByOne == IF file = <<>> THEN 0 ELSE Len(file) - 1   \* mutant
CountedAtStart == Len(file)

\* A line that does not parse, or does not link up, raises.
Refuses == ending = "broken"

DaemonStart ==
  /\ ~up /\ ~Refuses /\ up' = TRUE /\ count' = CountedAtStart
  /\ UNCHANGED <<file, ending, unsynced, made, sequencer, broker, request, alarm, excused, faults>>

\* The file is cut, at the end of a line or inside one, or lines are replaced by others,
\* which may link up.
FileReplaced ==
  /\ Replaced /\ ~up /\ file # <<>>
  /\ \E k \in 0 .. Len(file) - 1 :
       \/ file' = SubSeq(file, 1, k) /\ UNCHANGED made
       \/ made < MaxLines /\ made' = made + 1 /\ file' = Append(SubSeq(file, 1, k), made + 1)
  /\ ending' \in IF file' = <<>> THEN {"whole", "broken"} ELSE {"whole", "bare", "broken"}
  /\ excused' = excused \union {"changed"}
  /\ UNCHANGED <<unsynced, up, count, sequencer, broker, request, alarm, faults>>

HeadAt(n) == [seq |-> n, head |-> SubSeq(file, 1, n)]

AnsweredSince(n) == IF n \in 0 .. count THEN n ELSE -1

Checkpoint(since) ==
  [pc |-> "sent", ckpt |-> HeadAt(count),
   since |-> IF AnsweredSince(since) >= 0 THEN HeadAt(AnsweredSince(since)) ELSE NoHead]

-----------------------------------------------------------------------------
(* The broker: forward_checkpoint.                                         *)

AskStatus ==
  /\ broker.pc = "idle"
  /\ broker' = [pc |-> "asked", since |-> last.seq]
  /\ UNCHANGED <<daemon, sequencer, request, alarm, excused, faults>>

Fetch ==
  /\ broker.pc = "asked" /\ up /\ unsynced = 0
  /\ request' = [request EXCEPT !["own"] = Checkpoint(broker.since)]
  /\ broker' = [broker EXCEPT !.pc = "sent"]
  /\ UNCHANGED <<daemon, sequencer, alarm, excused, faults>>

Unreachable ==
  /\ broker.pc = "asked" /\ broker' = Idle
  /\ \/ ~up /\ UNCHANGED faults
     \/ up /\ Faulty
  /\ UNCHANGED <<daemon, sequencer, request, alarm, excused>>

\* The call has returned, with a result or an error.
Returned ==
  /\ broker.pc = "sent" /\ request["own"].pc = "none" /\ broker' = Idle
  /\ UNCHANGED <<daemon, sequencer, request, alarm, excused, faults>>

\* A call that exceeds its time-out raises no RpcError: it ends the thread.
Hang ==
  /\ CallsHang /\ Faulty /\ broker.pc \in {"idle", "sent"}
  /\ broker' = [broker EXCEPT !.pc = "dead"]
  /\ UNCHANGED <<daemon, sequencer, request, alarm, excused>>

\* The sequencer may go on with a request that it has read.
BrokerRestart ==
  /\ Faulty /\ broker' = Idle
  /\ \/ request' = [request EXCEPT !["own"] = NoRequest] /\ UNCHANGED excused
     \/ /\ Strays /\ request["own"] # NoRequest
        /\ request' = [request EXCEPT !["own"] = NoRequest, !["stray"] = request["own"]]
        /\ excused' = excused \union {"stray"}
  /\ UNCHANGED <<daemon, sequencer, alarm>>

-----------------------------------------------------------------------------
(* The sequencer: record_daemon_checkpoint, which holds no lock.           *)

Continues(r) == last.seq >= 0 => r.ckpt.seq >= last.seq /\ r.since = last

CheckSeqOnly(s) ==   \* mutant: only a lower seq is reported
  /\ request[s].pc = "sent"
  /\ \/ /\ Continues(request[s])
        /\ request' = [request EXCEPT ![s].pc = "checked"] /\ UNCHANGED alarm
     \/ /\ ~Continues(request[s])
        /\ request' = [request EXCEPT ![s] = NoRequest]
        /\ alarm' = (alarm \/ request[s].ckpt.seq < last.seq)
  /\ UNCHANGED <<daemon, sequencer, broker, excused, faults>>

Check(s) ==
  /\ request[s].pc = "sent"
  /\ \/ /\ Continues(request[s])
        /\ request' = [request EXCEPT ![s].pc = "checked"] /\ UNCHANGED alarm
     \/ /\ ~Continues(request[s])
        /\ request' = [request EXCEPT ![s] = NoRequest] /\ alarm' = TRUE
  /\ UNCHANGED <<daemon, sequencer, broker, excused, faults>>

\* daemon_last is set before the entry is written, which may fail.
Commit(s) ==
  /\ request[s].pc = "checked"
  /\ last' = request[s].ckpt
  /\ \/ recorded' = request[s].ckpt /\ UNCHANGED <<faults, excused>>
     \/ WriteErrors /\ Faulty /\ UNCHANGED recorded /\ excused' = excused \union {"failed"}
  /\ request' = [request EXCEPT ![s] = NoRequest]
  /\ UNCHANGED <<daemon, broker, alarm>>

ReloadedNothing == NoHead   \* mutant
Reloaded == recorded

SequencerRestart ==
  /\ Faulty
  /\ last' = Reloaded
  /\ request' = [s \in Slots |-> NoRequest]
  /\ UNCHANGED <<daemon, recorded, broker, alarm, excused>>

-----------------------------------------------------------------------------

Loop == AskStatus \/ Fetch \/ Unreachable \/ Returned
Record == \E s \in Slots : Check(s) \/ Commit(s)

Next ==
  \/ WriteLine \/ SyncLine \/ DaemonCrash \/ DaemonStart \/ FileReplaced
  \/ Loop \/ Hang \/ BrokerRestart
  \/ Record \/ SequencerRestart

Spec == Init /\ [][Next]_vars

\* The broker's thread and the handlers run, and the daemon is started again, on a file
\* that it accepts.
FairSpec ==
  Spec /\ WF_vars(SyncLine) /\ WF_vars(DaemonStart) /\ WF_vars(Loop) /\ WF_vars(Record)

-----------------------------------------------------------------------------
(* Properties.                                                             *)

\* "a mismatch or a lower seq means the daemon chain was truncated or rewritten"
\* (sequencer.py), or that the sequencer failed to write a checkpoint it had accepted,
\* or handled one of a broker that was restarted since. Crashes, restarts and lost
\* calls by themselves raise no alarm.
NoFalseAlarm == alarm => excused # {}

\* Every recorded checkpoint continues the one recorded before it, whatever happened
\* to the file, to the sequencer and to the write of an entry in between; requests are
\* handled without a lock, so one that outlived its broker may set the record back.
RecordedExtends ==
  [][recorded' # recorded =>
       IsPrefix(recorded.head, recorded'.head) \/ "stray" \in excused]_vars

\* The file no longer holds what was recorded.
Lost == ~IsPrefix(recorded.head, file)

\* A file that no longer holds what was recorded is reported, however it has grown
\* since then, unless a time-out has ended the checkpoint thread for good, the daemon
\* refuses the file for good, so that there are no more checkpoints, or a request
\* that outlived its broker has set the record back.
LossIsReported ==
  \/ <>[](broker.pc = "dead")
  \/ <>[](~up /\ Refuses)
  \/ Lost ~> alarm \/ "stray" \in excused

\* "truncation or rewrite of this file is detectable from the ops host" (chain.py): a
\* truncated file is reported. One that is cut inside a line is not: the daemon refuses
\* to start on it, and a daemon that is down gives no checkpoint to compare.
TruncationIsReported == Lost ~> alarm
==============================================================================
