----------------------------- MODULE AuditTrail -----------------------------
(***************************************************************************)
(* The audit trail: the sequencer that alone writes the hash chain and     *)
(* anchors its head outside the host (valops/audit/sequencer.py,           *)
(* anchor.py), one submitting process with a buffering client and several  *)
(* threads (client.py), and the controller's timed verify_chain.           *)
(*                                                                         *)
(* The hash of a line is represented by its place in the file and its time *)
(* stamp; a crash separates two lines written at the same place, so that   *)
(* the number of faults so far is time enough.                             *)
(***************************************************************************)
EXTENDS Naturals, Sequences, FiniteSets, TLC

CONSTANTS
  Threads,      \* threads of the submitting process
  Anchorers,    \* the anchor loop and the controller's anchor_now call
  MaxBuffer,    \* max_buffer of the client
  MaxSubmits,   \* bound: submissions
  MaxLines,     \* bound: lines of the chain
  MaxFaults,    \* bound: crashes, time-outs, failed writes
  WriteErrors,  \* a write or fsync of the chain file may fail
  None

ASSUME ConstantsAssumption ==
  /\ MaxBuffer \in Nat \ {0}
  /\ MaxSubmits \in Nat /\ MaxLines \in Nat /\ MaxFaults \in Nat
  /\ WriteErrors \in BOOLEAN
  /\ None \notin Threads

VARIABLES
  chain,      \* the chain file: [seq, ts, prev, body]; body is a submission, 0 an anchor
  synced,     \* lines that an fsync has covered
  torn,       \* a part of a line follows the last one
  bare,       \* the lines that lack nothing but their newline
  seq, head,  \* the sequencer's memory of the last line
  flagged,    \* integrity_error
  up,         \* the sequencer serves
  anchors,    \* the external anchor store: [seq, head]
  anchoring,  \* anchor_now under way: the head it read, and whether it is stored
  queue,      \* the client's buffer
  holder,     \* the thread that holds the client's lock
  thread,     \* pc of a submit, its submission and the reply to its call
  stray,      \* requests whose client has given up on them
  listed,     \* verify_chain under way: the anchors it has listed
  alarm,      \* verify_chain has failed
  faults,
  before,     \* history: per submission the ones that had returned when it began
  returned,   \* history: submissions whose call returned, chained or buffered
  acked,      \* history: <<line, body>> acknowledged by the sequencer
  excused,    \* history: a write failed, or an anchor was stored for an unsynced line
  lost        \* history: buffered submissions dropped by a full or a dying client

file == <<chain, synced, torn, bare>>
memory == <<seq, head, flagged, up, anchoring>>
client == <<queue, holder, thread, stray>>
verifying == <<listed, alarm>>
history == <<before, returned, acked, lost>>
trouble == <<faults, excused>>
vars == <<file, memory, anchors, client, verifying, trouble, history>>

GENESIS == <<0, 0>>
Hash(lines, n) == IF n = 0 THEN GENESIS ELSE <<n, lines[n].ts>>

Idle == [pc |-> "idle", x |-> 0, reply |-> "none"]

Init ==
  /\ chain = <<>> /\ synced = 0 /\ torn = FALSE /\ bare = {}
  /\ seq = 0 /\ head = GENESIS /\ flagged = FALSE /\ up = TRUE
  /\ anchors = {} /\ anchoring = [a \in Anchorers |-> None]
  /\ queue = <<>> /\ holder = None /\ thread = [t \in Threads |-> Idle] /\ stray = {}
  /\ listed = None /\ alarm = FALSE
  /\ faults = 0
  /\ before = <<>> /\ returned = {} /\ acked = {} /\ excused = FALSE /\ lost = {}

Faulting == faults < MaxFaults /\ faults' = faults + 1

-----------------------------------------------------------------------------
(* The sequencer's _append, under its lock.                                *)

Line(body) == [seq |-> seq + 1, ts |-> faults, prev |-> head, body |-> body]

WriteLine(body) ==
  /\ up /\ Len(chain) < MaxLines
  /\ chain' = Append(chain, Line(body))
  /\ UNCHANGED <<torn, bare, flagged, up>>

CommitUnsynced(body) ==   \* mutant: acknowledged without fsync
  /\ WriteLine(body)
  /\ seq' = seq + 1 /\ head' = Hash(chain', Len(chain'))
  /\ UNCHANGED <<synced, trouble>>

\* Write, flush, fsync, and only then count the line.
Commit(body) ==
  /\ WriteLine(body)
  /\ synced' = Len(chain')
  /\ seq' = seq + 1 /\ head' = Hash(chain', Len(chain'))
  /\ UNCHANGED trouble

\* The flush or the fsync fails: the line is in the file, or in the file object's
\* buffer for the next flush; the memory does not count it.
CommitFails(body) ==
  /\ WriteErrors /\ Faulting /\ excused' = TRUE
  /\ WriteLine(body)
  /\ UNCHANGED <<synced, seq, head>>

-----------------------------------------------------------------------------
(* AuditClient.submit, by thread t.                                        *)

\* What the call under way carries: a buffered submission or its own.
Request(t) == IF thread[t].pc = "flushing" THEN Head(queue) ELSE thread[t].x
Calling(t) == thread[t].pc \in {"flushing", "sending"}

Goes(t, pc) == thread' = [thread EXCEPT ![t].pc = pc, ![t].reply = "none"]
Releases(t) == holder' = IF holder = t THEN None ELSE holder

Submit(t) ==
  /\ thread[t] = Idle /\ Len(before) < MaxSubmits
  /\ thread' = [thread EXCEPT ![t] = [pc |-> "flush", x |-> Len(before) + 1, reply |-> "none"]]
  /\ before' = Append(before, returned)
  /\ UNCHANGED <<file, memory, anchors, queue, holder, stray, verifying, trouble,
                 returned, acked, lost>>

FlushNothing(t) ==   \* mutant of Flush: the buffer is not sent first
  /\ thread[t].pc = "flush" /\ holder = None
  /\ Goes(t, "sending") /\ UNCHANGED holder
  /\ UNCHANGED <<file, memory, anchors, queue, stray, verifying, trouble, history>>

\* flush takes the lock for as long as it sends the buffered submissions.
Flush(t) ==
  /\ thread[t].pc = "flush" /\ holder = None
  /\ IF queue = <<>> THEN Goes(t, "sending") /\ UNCHANGED holder
                     ELSE Goes(t, "flushing") /\ holder' = t
  /\ UNCHANGED <<file, memory, anchors, queue, stray, verifying, trouble, history>>

\* The sequencer's handler for the call of t.
Handle(t) ==
  /\ Calling(t) /\ thread[t].reply = "none"
  /\ \/ /\ Commit(Request(t))
        /\ thread' = [thread EXCEPT ![t].reply = "done"]
        /\ acked' = acked \union {<<Len(chain'), Request(t)>>}
     \/ /\ CommitFails(Request(t))
        /\ thread' = [thread EXCEPT ![t].reply = "error"]
        /\ UNCHANGED acked
  /\ UNCHANGED <<anchoring, anchors, queue, holder, stray, verifying,
                 before, returned, lost>>

Flushed(t) ==
  /\ thread[t].pc = "flushing" /\ thread[t].reply = "done"
  /\ queue' = Tail(queue)
  /\ IF queue' = <<>> THEN Goes(t, "sending") /\ Releases(t)
                      ELSE Goes(t, "flushing") /\ UNCHANGED holder
  /\ UNCHANGED <<file, memory, anchors, stray, verifying, trouble, history>>

Sent(t) ==
  /\ thread[t].pc = "sending" /\ thread[t].reply = "done"
  /\ thread' = [thread EXCEPT ![t] = Idle]
  /\ returned' = returned \union {thread[t].x}
  /\ UNCHANGED <<file, memory, anchors, queue, holder, stray, verifying, trouble,
                 before, acked, lost>>

UnavailableForgetting(t) ==   \* mutant: popped before it is known to be sent
  /\ Calling(t) /\ ~up /\ thread[t].reply # "error"
  /\ Goes(t, "buffer") /\ Releases(t)
  /\ queue' = IF thread[t].pc = "flushing" THEN Tail(queue) ELSE queue
  /\ UNCHANGED <<file, memory, anchors, stray, verifying, trouble, history>>

\* "unavailable": no connection, or closed without a response, in which case the
\* sequencer may have written the line.
Unavailable(t) ==
  /\ Calling(t) /\ ~up /\ thread[t].reply # "error"
  /\ Goes(t, "buffer") /\ Releases(t)
  /\ UNCHANGED <<file, memory, anchors, queue, stray, verifying, trouble, history>>

\* Every other error reaches the caller of submit.
Refused(t) ==
  /\ Calling(t) /\ thread[t].reply = "error"
  /\ thread' = [thread EXCEPT ![t] = Idle] /\ Releases(t)
  /\ UNCHANGED <<file, memory, anchors, queue, stray, verifying, trouble, history>>

\* So does a time-out; the sequencer may still handle the request later.
TimesOut(t) ==
  /\ Faulting /\ up /\ UNCHANGED excused
  /\ Calling(t) /\ thread[t].reply # "error"
  /\ stray' = IF thread[t].reply = "none" THEN stray \union {Request(t)} ELSE stray
  /\ thread' = [thread EXCEPT ![t] = Idle] /\ Releases(t)
  /\ UNCHANGED <<file, memory, anchors, queue, verifying, history>>

\* The submission is queued; a full deque drops its oldest element.
Buffer(t) ==
  /\ thread[t].pc = "buffer" /\ holder = None
  /\ LET full == Len(queue) = MaxBuffer
     IN /\ queue' = Append(IF full THEN Tail(queue) ELSE queue, thread[t].x)
        /\ lost' = IF full THEN lost \union {Head(queue)} ELSE lost
  /\ thread' = [thread EXCEPT ![t] = Idle]
  /\ returned' = returned \union {thread[t].x}
  /\ UNCHANGED <<file, memory, anchors, holder, stray, verifying, trouble,
                 before, acked>>

HandleStray ==
  /\ \E b \in stray : Commit(b) /\ stray' = stray \ {b}
  /\ UNCHANGED <<anchoring, anchors, queue, holder, thread, verifying, history>>

\* The submitting process dies with its buffer.
ClientCrash ==
  /\ Faulting /\ UNCHANGED excused
  /\ stray' = stray \union
       {Request(t) : t \in {u \in Threads : up /\ Calling(u) /\ thread[u].reply = "none"}}
  /\ queue' = <<>> /\ holder' = None /\ thread' = [t \in Threads |-> Idle]
  /\ lost' = lost \union {queue[i] : i \in 1..Len(queue)}
  /\ UNCHANGED <<file, memory, anchors, verifying, before, returned, acked>>

-----------------------------------------------------------------------------
(* Crash and restart of the sequencer.                                     *)

InFlight == stray \union
  {Request(t) : t \in {u \in Threads : Calling(u) /\ thread[u].reply = "none"}}

\* The process or the host dies, perhaps inside _append: of the lines that no
\* fsync covered some are left, the last of them perhaps without its newline, the
\* next one perhaps in part. After the death of the process they are in the page
\* cache only.
Crash ==
  /\ Faulting /\ up /\ UNCHANGED excused
  /\ \E f \in {chain} \union {Append(chain, Line(b)) : b \in InFlight} :
       \E n \in synced..Len(f) :
         /\ n <= MaxLines
         /\ chain' = SubSeq(f, 1, n) /\ synced' \in {synced, n}
         /\ torn' \in {FALSE, n < Len(f)}
         /\ \E cut \in SUBSET ({n} \ (0..synced)) :
              bare' = (bare \intersect (1..n)) \union cut
  /\ up' = FALSE /\ stray' = {} /\ anchoring' = [a \in Anchorers |-> None]
  /\ UNCHANGED <<seq, head, flagged, anchors, queue, holder, thread, verifying, history>>

\* Two lines that share one physical line are no JSON, and neither is a part of one.
Joined(b) == b \in bare /\ (b < Len(chain) \/ torn)
Unparseable == torn \/ \E b \in bare : Joined(b)

Linked(lines) == \A n \in 1..Len(lines) : lines[n].seq = n /\ lines[n].prev = Hash(lines, n - 1)

RestartFresh ==   \* mutant of Restart: the sequence number is not restored
  /\ ~up /\ ~Unparseable /\ up' = TRUE
  /\ seq' = 0 /\ head' = Hash(chain, Len(chain))
  /\ flagged' = ~Linked(chain)
  /\ UNCHANGED <<file, anchoring, anchors, client, verifying, trouble, history>>

\* _load: the last line gives seq and head. A line that json.loads refuses is an
\* exception and the process does not start; one without its newline is read like
\* any other, is not ended, and the next line is written behind it.
Restart ==
  /\ ~up /\ ~Unparseable /\ up' = TRUE
  /\ seq' = IF chain = <<>> THEN 0 ELSE chain[Len(chain)].seq
  /\ head' = Hash(chain, Len(chain))
  /\ flagged' = ~Linked(chain)
  /\ UNCHANGED <<file, anchoring, anchors, client, verifying, trouble, history>>

-----------------------------------------------------------------------------
(* anchor_now: read the head, store the anchor, append the anchor entry.   *)

AnchorRead(a) ==
  /\ up /\ anchoring[a] = None
  /\ anchoring' = [anchoring EXCEPT ![a] = [seq |-> seq, head |-> head, stored |-> FALSE]]
  /\ UNCHANGED <<file, seq, head, flagged, up, anchors, client, verifying, trouble, history>>

AnchorPut(a) ==
  /\ up /\ anchoring[a] # None /\ ~anchoring[a].stored
  /\ \/ /\ anchors' = anchors \union {[seq |-> anchoring[a].seq, head |-> anchoring[a].head]}
        /\ anchoring' = [anchoring EXCEPT ![a].stored = TRUE]
        /\ excused' = (excused \/ anchoring[a].head[1] > synced)
     \/ /\ anchoring' = [anchoring EXCEPT ![a] = None]   \* unreachable
        /\ UNCHANGED <<anchors, excused>>
  /\ UNCHANGED <<file, seq, head, flagged, up, client, verifying, faults,
                 before, returned, acked, lost>>

AnchorEntry(a) ==
  /\ up /\ anchoring[a] # None /\ anchoring[a].stored
  /\ Commit(0) \/ CommitFails(0)
  /\ anchoring' = [anchoring EXCEPT ![a] = None]
  /\ UNCHANGED <<anchors, client, verifying, history>>

-----------------------------------------------------------------------------
(* The controller's verify_chain: the anchors are listed, then the file is *)
(* read, both while the sequencer writes.                                  *)

Verifies(lines, as) ==
  /\ Linked(lines)
  /\ \A a \in as : a.seq = 0 \/ (a.seq <= Len(lines) /\ a.head = Hash(lines, a.seq))

VerifyList ==
  /\ listed = None
  /\ listed' = anchors
  /\ UNCHANGED <<file, memory, anchors, client, alarm, trouble, history>>

VerifyWalk ==
  /\ listed # None
  /\ alarm' = (alarm \/ Unparseable \/ ~Verifies(chain, listed))
  /\ listed' = None
  /\ UNCHANGED <<file, memory, anchors, client, trouble, history>>

Next ==
  \/ \E t \in Threads :
       Submit(t) \/ Flush(t) \/ Handle(t) \/ Flushed(t) \/ Sent(t)
       \/ Unavailable(t) \/ Refused(t) \/ TimesOut(t) \/ Buffer(t)
  \/ HandleStray \/ ClientCrash \/ Crash \/ Restart
  \/ \E a \in Anchorers : AnchorRead(a) \/ AnchorPut(a) \/ AnchorEntry(a)
  \/ VerifyList \/ VerifyWalk

Spec == Init /\ [][Next]_vars

\* Bound of the runs: what more than two submissions and two lines bring about is
\* explored while nobody anchors or verifies and no write has failed.
Bounded ==
  \/ Len(before) <= 2 /\ Len(chain) <= 2
  \/ /\ anchors = {} /\ \A a \in Anchorers : anchoring[a] = None
     /\ listed = None /\ ~alarm /\ ~excused

\* Threads run the same code, and so do anchorers.
Symmetry == Permutations(Threads) \union Permutations(Anchorers)

-----------------------------------------------------------------------------
(* Properties.                                                             *)

\* As long as no write has failed, verify_chain fails, and a restart flags the
\* chain, only for a line that a crash has torn or left without its newline for the
\* next one to join, or after an anchor was stored for
\* a line that a restart took from the page cache and that no fsync covered yet:
\* no other interleaving of submissions, anchors, crashes and restarts looks like
\* tampering (RB-08: "`valops chain verify` passes").
NoFalseAlarm == (alarm \/ flagged) => Unparseable \/ excused

\* A line can be read back: it shares its physical line with no other, and so does
\* every line before it.
Readable(n) == n <= Len(chain) /\ \A b \in bare : b <= n => ~Joined(b)

\* "fsync before acknowledgement": an acknowledged line keeps its place through every
\* crash, and no crash makes it unreadable; the only acknowledged lines that cannot be
\* read back are the ones _append wrote behind a line that had lost its newline.
AckedIsDurable ==
  \A k \in acked :
    /\ k[1] <= Len(chain) /\ chain[k[1]].body = k[2]
    /\ Readable(k[1]) \/ \E b \in bare : b < k[1]

\* HLD 10.1, "fsync before ack", without that exception: what the sequencer has
\* acknowledged can be read back. Violated: _load takes a last line that lost its
\* newline in a crash for a whole one, and _append joins the next line to it.
AckedIsReadable == \A k \in acked : Readable(k[1])

\* First copy of submission x in the chain; 0 if there is none.
FirstCopy(x) ==
  LET at == {i \in 1..Len(chain) : chain[i].body = x}
  IN IF at = {} THEN 0 ELSE CHOOSE i \in at : \A j \in at : i <= j

\* RB-08, "buffered entries are flushed in order": of two submissions made one
\* after the other, the later one is not chained before the earlier one, unless
\* the client lost the earlier one.
FlushedInOrder ==
  \A y \in 1..Len(before) : \A x \in before[y] :
    (FirstCopy(y) > 0 /\ x \notin lost) => FirstCopy(x) \in 1..FirstCopy(y)

\* A submission that returned is in the chain or waits in the buffer, unless the
\* client lost it.
NothingForgotten ==
  \A x \in returned : \/ FirstCopy(x) > 0
                      \/ \E i \in 1..Len(queue) : queue[i] = x
                      \/ x \in lost
=============================================================================
