-------------------------- MODULE AuditTrailProofs --------------------------
(***************************************************************************)
(* Proofs about AuditTrail, for any number of threads, anchorers and       *)
(* submissions, every size of the buffer and any number of crashes,        *)
(* time-outs and failed writes.                                            *)
(***************************************************************************)
EXTENDS AuditTrail, WellFoundedInduction, TLAPS

Submissions == 1..Len(before)
Heads == Nat \X Nat
Lines == [seq : Nat, ts : Nat, prev : Heads, body : Nat]
ThreadPCs == {"idle", "flush", "flushing", "sending", "buffer"}
ThreadRecords == [pc : ThreadPCs, x : Nat, reply : {"none", "done", "error"}]
AnchorRecords == [seq : Nat, head : Heads, stored : BOOLEAN]

\* Submissions that are acknowledged, or that the client has lost.
Acked == {k[2] : k \in acked}
Settled == lost \union Acked

\* All of R is in S or in the buffer q.
Covered(q, R, S) == \A x \in R : x \in S \/ \E i \in 1..Len(q) : q[i] = x

\* What came before an element of q, by B, is in S or ahead of it in q.
Ordered(q, B, S) ==
  \A i \in 1..Len(q) : \A x \in B[q[i]] : x \in S \/ \E j \in 1..(i - 1) : q[j] = x

TypeInv ==
  /\ chain \in Seq(Lines) /\ synced \in 0..Len(chain)
  /\ up \in BOOLEAN /\ excused \in BOOLEAN
  /\ seq \in Nat /\ head \in Heads /\ faults \in Nat
  /\ anchors \subseteq [seq : Nat, head : Heads]
  /\ anchoring \in [Anchorers -> AnchorRecords \union {None}]
  /\ queue \in Seq(Nat) /\ thread \in [Threads -> ThreadRecords]
  /\ before \in Seq(SUBSET Nat) /\ returned \subseteq Nat /\ acked \subseteq Nat \X Nat

\* What the sequencer acknowledged is synced, at its place.
DurableInv == \A k \in acked : k[1] \in 1..synced /\ chain[k[1]].body = k[2]

\* Names of submissions.
NameInv ==
  /\ \A i \in 1..Len(chain) : chain[i].body \in 0..Len(before)
  /\ \A i \in 1..Len(queue) : queue[i] \in Submissions
  /\ \A t \in Threads : thread[t].pc # "idle" => thread[t].x \in Submissions
  /\ stray \subseteq Submissions
  /\ \A y \in Submissions : before[y] \subseteq returned

\* A thread that flushes has the lock, and the first of the buffer in its hands.
LockInv ==
  \A t \in Threads :
    /\ thread[t].pc = "flushing" => holder = t /\ queue # <<>>
    /\ thread[t].reply = "done" =>
         /\ thread[t].pc = "flushing" => Head(queue) \in Acked
         /\ thread[t].pc = "sending" => thread[t].x \in Acked

\* What has returned is settled or in the buffer.
ReturnInv == Covered(queue, returned, Settled)

\* What came before a submission is settled when that one is on its way to the chain,
\* and ahead of it in the buffer; its line in the chain is later.
OrderInv ==
  /\ Ordered(queue, before, Settled)
  /\ \A t \in Threads : thread[t].pc = "sending" => before[thread[t].x] \subseteq Settled
  /\ \A b \in stray : before[b] \subseteq Settled
  /\ \A i \in 1..Len(chain) : chain[i].body # 0 =>
       \A x \in before[chain[i].body] :
         x \in lost \/ \E k \in acked : k[2] = x /\ k[1] < i

\* The memory of the sequencer agrees with a linked file, and so do the anchors.
Sound ==
  /\ Linked(chain)
  /\ up => seq = Len(chain) /\ head = Hash(chain, Len(chain))
  /\ \A a \in Anchorers : anchoring[a] # None /\ ~anchoring[a].stored =>
       /\ anchoring[a].seq \in 0..Len(chain)
       /\ anchoring[a].head = Hash(chain, anchoring[a].seq)
  /\ \A a \in anchors : a.seq \in 0..synced /\ a.head = Hash(chain, a.seq)
  /\ listed # None => listed \subseteq anchors
  /\ ~flagged

\* They do while no write has failed and no anchor was stored for an unsynced line.
ChainInv == (torn => ~up) /\ (~excused => Sound)

\* No acknowledged line lost its newline; while the sequencer runs, two lines that are
\* joined are both synced, so that what verify_chain has found it will find again.
BareInv ==
  /\ bare \subseteq 1..Len(chain)
  /\ \A k \in acked : k[1] \notin bare
  /\ ~excused => /\ alarm => Unparseable
                 /\ up => \A b \in bare : b < Len(chain) => b < synced

Inv == /\ TypeInv /\ DurableInv /\ NameInv /\ LockInv /\ ReturnInv /\ OrderInv
       /\ ChainInv /\ BareInv

-----------------------------------------------------------------------------
(* Lines, hashes and copies.                                               *)

\* A hash names the place of its line.
LEMMA HashPlace ==
  ASSUME NEW lines \in Seq(Lines), NEW n \in 0..Len(lines)
  PROVE  Hash(lines, n) \in Heads /\ Hash(lines, n)[1] = n
<1>1. CASE n = 0
  BY <1>1 DEF Hash, GENESIS, Heads
<1>2. CASE n # 0
  <2>1. n \in 1..Len(lines)
    BY <1>2
  <2>2. lines[n] \in Lines
    BY <2>1
  <2>3. lines[n].ts \in Nat
    BY <2>2 DEF Lines
  <2> QED BY <1>2, <2>1, <2>3 DEF Hash, Heads
<1> QED BY <1>1, <1>2

\* A hash depends on the lines up to its place only.
LEMMA HashPrefix ==
  ASSUME NEW lines, NEW others, NEW n \in Nat, n > 0 => lines[n] = others[n]
  PROVE  Hash(lines, n) = Hash(others, n)
BY DEF Hash

\* A nonempty set of naturals has a least element.
LEMMA LeastOf ==
  ASSUME NEW S, S \subseteq Nat, S # {}
  PROVE  \E x \in S : \A y \in S : x <= y
<1> DEFINE Less == {ss \in Nat \X Nat : ss[1] < ss[2]}
<1>1. IsWellFoundedOn(Less, Nat)
  BY NatLessThanWellFounded, Zenon DEF OpToRel
<1>2. \A x, y \in Nat : x < y => <<x, y>> \in Less
  OBVIOUS
<1> HIDE DEF Less
<1>3. PICK x \in S : \A y \in S : ~(<<y, x>> \in Less)
  BY <1>1, WFMin
<1>4. \A y \in S : ~(y < x) /\ x \in Nat /\ y \in Nat
  BY <1>2, <1>3
<1> QED BY <1>4

\* The first copy of a submission is a line that holds it, and no later than any other.
LEMMA FirstCopyIsFirst ==
  ASSUME NEW x, NEW i \in 1..Len(chain), chain[i].body = x, Len(chain) \in Nat
  PROVE  /\ FirstCopy(x) \in 1..i /\ FirstCopy(x) \in 1..Len(chain)
         /\ chain[FirstCopy(x)].body = x
<1> DEFINE at == {j \in 1..Len(chain) : chain[j].body = x}
<1>1. i \in at /\ at \subseteq Nat
  OBVIOUS
<1>2. \E j \in at : \A k \in at : j <= k
  BY <1>1, LeastOf
<1>3. FirstCopy(x) = CHOOSE j \in at : \A k \in at : j <= k
  BY <1>1 DEF FirstCopy
<1>4. FirstCopy(x) \in at /\ \A k \in at : FirstCopy(x) <= k
  BY <1>2, <1>3
<1> QED BY <1>1, <1>4

-----------------------------------------------------------------------------
(* What a step does to the file.                                           *)

\* The file grows by at most one line, for a request under way or an anchor, and
\* keeps what an fsync has covered; an acknowledgement is for that line, and synced.
FileStep ==
  /\ chain' \in Seq(Lines) /\ synced' \in synced..Len(chain')
  /\ \A i \in 1..Len(chain') :
       \/ i <= Len(chain) /\ chain'[i] = chain[i]
       \/ i = Len(chain) + 1 /\ chain'[i].body \in InFlight \union {0}
  /\ \/ acked' = acked
     \/ \E b \in InFlight : /\ acked' = acked \union {<<Len(chain'), b>>}
                            /\ Len(chain') = Len(chain) + 1 /\ synced' = Len(chain')
                            /\ chain'[Len(chain')].body = b

\* The line is written.
LEMMA WriteLineShape ==
  ASSUME TypeInv, NEW b \in Nat, WriteLine(b)
  PROVE  /\ Line(b) \in Lines /\ Line(b).body = b
         /\ chain' \in Seq(Lines) /\ Len(chain') = Len(chain) + 1
         /\ \A i \in 1..Len(chain) : chain'[i] = chain[i]
         /\ chain'[Len(chain) + 1] = Line(b)
<1>1. Line(b) \in Lines /\ Line(b).body = b
  BY DEF Line, Lines, TypeInv
<1>2. chain \in Seq(Lines) /\ chain' = Append(chain, Line(b))
  BY DEF TypeInv, WriteLine
<1> HIDE DEF Lines
<1> QED BY <1>1, <1>2

\* A request under way is the head of the buffer or the thread's own submission.
LEMMA InFlightNamed ==
  ASSUME TypeInv, NameInv, LockInv, OrderInv, NEW b \in InFlight
  PROVE  b \in Submissions /\ b \in Nat /\ before[b] \subseteq Settled
<1>1. CASE b \in stray
  BY <1>1 DEF NameInv, OrderInv, Submissions
<1>2. ASSUME NEW t \in Threads, Calling(t), b = Request(t)
      PROVE  b \in Submissions /\ before[b] \subseteq Settled
  <2>1. CASE thread[t].pc = "flushing"
    <3>1. queue \in Seq(Nat) /\ queue # <<>>
      BY <2>1 DEF LockInv, TypeInv
    <3>2. 1 \in 1..Len(queue) /\ Head(queue) = queue[1] /\ 1..(1 - 1) = {}
      BY <3>1
    <3>3. b = queue[1]
      BY <1>2, <2>1, <3>2 DEF Request
    <3>4. \A x \in before[queue[1]] : x \in Settled \/ \E j \in 1..(1 - 1) : queue[j] = x
      BY <3>2 DEF OrderInv, Ordered
    <3> QED BY <3>2, <3>3, <3>4 DEF NameInv
  <2>2. CASE thread[t].pc = "sending"
    BY <1>2, <2>2 DEF Request, NameInv, OrderInv
  <2> QED BY <1>2, <2>1, <2>2 DEF Calling
<1> QED BY <1>1, <1>2 DEF InFlight, Submissions

\* Types of what the sequencer keeps.
FileTypes ==
  /\ up \in BOOLEAN /\ excused \in BOOLEAN
  /\ seq \in Nat /\ head \in Heads /\ faults \in Nat
  /\ anchors \subseteq [seq : Nat, head : Heads]
  /\ anchoring \in [Anchorers -> AnchorRecords \union {None}]

\* A write that succeeds, and one that fails.
LEMMA CommitStep ==
  ASSUME TypeInv, NEW b \in Nat, b \in InFlight \union {0}, Commit(b) \/ CommitFails(b),
         \/ acked' = acked
         \/ Commit(b) /\ b \in InFlight /\ acked' = acked \union {<<Len(chain'), b>>}
  PROVE  /\ FileStep /\ seq' \in Nat /\ head' \in Heads /\ faults' \in Nat
         /\ excused' \in BOOLEAN /\ up' = up /\ torn' = torn /\ flagged' = flagged
<1>1. WriteLine(b) /\ up' = up /\ torn' = torn /\ flagged' = flagged
  BY DEF Commit, CommitFails, WriteLine
<1>2. /\ Line(b) \in Lines /\ Line(b).body = b
      /\ chain' \in Seq(Lines) /\ Len(chain') = Len(chain) + 1
      /\ \A i \in 1..Len(chain) : chain'[i] = chain[i]
      /\ chain'[Len(chain) + 1] = Line(b)
  BY <1>1, WriteLineShape
<1>3. Len(chain) \in Nat /\ synced \in 0..Len(chain)
  BY DEF TypeInv
<1>4. CASE Commit(b)
  <2>1. synced' = Len(chain') /\ seq' = seq + 1 /\ UNCHANGED trouble
        /\ head' = Hash(chain', Len(chain'))
    BY <1>4 DEF Commit
  <2>2. Len(chain') \in 0..Len(chain')
    BY <1>2, <1>3
  <2>3. head' \in Heads
    BY <1>2, <2>1, <2>2, HashPlace
  <2>4. FileStep
    BY <1>2, <1>3, <2>1 DEF FileStep
  <2> QED BY <1>1, <2>1, <2>3, <2>4 DEF TypeInv, trouble
<1>5. CASE CommitFails(b) /\ ~Commit(b)
  <2>1. UNCHANGED <<synced, seq, head>> /\ excused' = TRUE /\ faults' = faults + 1
    BY <1>5 DEF CommitFails, Faulting
  <2>2. FileStep
    BY <1>2, <1>3, <1>5, <2>1 DEF FileStep
  <2> QED BY <1>1, <2>1, <2>2 DEF TypeInv
<1> QED BY <1>4, <1>5

\* A crash keeps what is synced, and perhaps the line that was being written.
LEMMA CrashStep ==
  ASSUME TypeInv, NameInv, LockInv, OrderInv, Crash
  PROVE  /\ FileStep
         /\ \E f \in {chain} \union {Append(chain, Line(b)) : b \in InFlight} :
              \E n \in 0..Len(f) :
                /\ Len(chain') = n /\ \A i \in 1..n : chain'[i] = f[i]
                /\ f \in Seq(Lines)
<1>1. PICK f \in {chain} \union {Append(chain, Line(b)) : b \in InFlight} :
        \E n \in synced..Len(f) : chain' = SubSeq(f, 1, n) /\ synced' \in {synced, n}
  BY DEF Crash
<1>2. PICK n \in synced..Len(f) : chain' = SubSeq(f, 1, n) /\ synced' \in {synced, n}
  BY <1>1
<1>3. chain \in Seq(Lines) /\ Len(chain) \in Nat /\ synced \in 0..Len(chain)
  BY DEF TypeInv
<1>4. /\ f \in Seq(Lines)
      /\ \A i \in 1..Len(f) : \/ i <= Len(chain) /\ f[i] = chain[i]
                              \/ i = Len(chain) + 1 /\ f[i].body \in InFlight \union {0}
  <2>1. CASE f = chain
    BY <1>3, <2>1
  <2>2. ASSUME NEW b \in InFlight, f = Append(chain, Line(b))
        PROVE  /\ f \in Seq(Lines)
               /\ \A i \in 1..Len(f) :
                    \/ i <= Len(chain) /\ f[i] = chain[i]
                    \/ i = Len(chain) + 1 /\ f[i].body \in InFlight \union {0}
    <3>1. b \in Nat
      BY InFlightNamed
    <3>2. Line(b) \in Lines /\ Line(b).body = b
      BY <3>1 DEF Line, Lines, TypeInv
    <3> QED BY <1>3, <2>2, <3>2
  <2> QED BY <1>1, <2>1, <2>2
<1>5. n \in 0..Len(f) /\ Len(f) \in Nat
  BY <1>3, <1>4
<1>6. chain' \in Seq(Lines) /\ Len(chain') = n /\ \A i \in 1..n : chain'[i] = f[i]
  BY <1>2, <1>4, <1>5
<1>7. acked' = acked
  BY DEF Crash, history
<1>8. FileStep
  BY <1>2, <1>3, <1>4, <1>5, <1>6, <1>7 DEF FileStep
<1> QED BY <1>4, <1>5, <1>6, <1>8

\* The steps of the client, of verify_chain and of time leave the sequencer alone.
Client ==
  \/ \E t \in Threads : \/ Submit(t) \/ Flush(t) \/ Flushed(t) \/ Sent(t)
                        \/ Unavailable(t) \/ Refused(t) \/ TimesOut(t) \/ Buffer(t)
  \/ ClientCrash \/ UNCHANGED vars

\* They change no more than the number of faults.
LEMMA ClientQuiet ==
  ASSUME TypeInv, Client
  PROVE  /\ UNCHANGED <<file, memory, anchors, verifying, acked, excused>> /\ faults' \in Nat
BY DEF TypeInv, Client, Submit, Flush, Flushed, Sent, Unavailable, Refused, TimesOut, Buffer,
       ClientCrash, Faulting, trouble, vars, history

\* Every step is a step of the file and keeps the types of the sequencer.
LEMMA FileSteps ==
  ASSUME TypeInv, NameInv, LockInv, OrderInv, [Next]_vars
  PROVE  FileStep /\ FileTypes'
<1>1. TypeInv => FileTypes /\ Len(chain) \in Nat
  BY DEF TypeInv, FileTypes
<1>2. UNCHANGED <<chain, synced, acked>> => FileStep
  BY DEF TypeInv, FileStep
<1>3. UNCHANGED <<anchors, anchoring>> /\ seq' \in Nat /\ head' \in Heads /\ faults' \in Nat
      /\ excused' \in BOOLEAN /\ up' \in BOOLEAN => FileTypes'
  BY <1>1 DEF FileTypes
<1>4. CASE Client \/ VerifyList \/ VerifyWalk
  <2>1. UNCHANGED <<file, memory, anchors, acked, excused>> /\ faults' \in Nat
    BY <1>1, <1>4, ClientQuiet DEF VerifyList, VerifyWalk, trouble, history, FileTypes
  <2> QED BY <1>1, <1>2, <1>3, <2>1 DEF file, memory, FileTypes
<1>5. ASSUME NEW t \in Threads, Handle(t)
      PROVE  FileStep /\ FileTypes'
  <2>1. Request(t) \in InFlight
    BY <1>5 DEF Handle, InFlight
  <2>2. Request(t) \in Nat
    BY <2>1, InFlightNamed
  <2>3. /\ Commit(Request(t)) \/ CommitFails(Request(t))
        /\ \/ acked' = acked
           \/ Commit(Request(t)) /\ acked' = acked \union {<<Len(chain'), Request(t)>>}
    BY <1>5 DEF Handle
  <2>4. /\ FileStep /\ seq' \in Nat /\ head' \in Heads /\ faults' \in Nat
        /\ excused' \in BOOLEAN /\ up' = up /\ torn' = torn
    BY <2>1, <2>2, <2>3, CommitStep
  <2> QED BY <1>1, <1>3, <1>5, <2>4 DEF Handle, FileTypes
<1>6. CASE HandleStray
  <2>1. PICK b \in stray : Commit(b)
    BY <1>6 DEF HandleStray
  <2>2. b \in InFlight
    BY DEF InFlight
  <2>3. b \in Nat
    BY <2>2, InFlightNamed
  <2>4. acked' = acked
    BY <1>6 DEF HandleStray, history
  <2>5. /\ FileStep /\ seq' \in Nat /\ head' \in Heads /\ faults' \in Nat
        /\ excused' \in BOOLEAN /\ up' = up /\ torn' = torn
    BY <2>1, <2>2, <2>3, <2>4, CommitStep
  <2> QED BY <1>1, <1>3, <1>6, <2>5 DEF HandleStray, FileTypes
<1>7. ASSUME NEW a \in Anchorers, AnchorEntry(a)
      PROVE  FileStep /\ FileTypes'
  <2>1. acked' = acked /\ (Commit(0) \/ CommitFails(0))
    BY <1>7 DEF AnchorEntry, history
  <2>2. /\ FileStep /\ seq' \in Nat /\ head' \in Heads /\ faults' \in Nat
        /\ excused' \in BOOLEAN /\ up' = up /\ torn' = torn
    BY <2>1, CommitStep
  <2>3. anchoring' \in [Anchorers -> AnchorRecords \union {None}] /\ anchors' = anchors
    BY <1>1, <1>7 DEF AnchorEntry, FileTypes
  <2> QED BY <1>1, <2>2, <2>3 DEF FileTypes
<1>8. CASE Crash
  <2>1. UNCHANGED <<seq, head, excused, anchors>> /\ up' = FALSE /\ faults' = faults + 1
    BY <1>8 DEF Crash, Faulting
  <2>2. up' \in BOOLEAN
    BY <2>1, Zenon
  <2>3. faults' \in Nat
    BY <1>1, <2>1 DEF FileTypes
  <2>4. anchoring' \in [Anchorers -> AnchorRecords \union {None}]
    BY <1>8 DEF Crash
  <2>5. FileTypes'
    BY <1>1, <2>1, <2>2, <2>3, <2>4 DEF FileTypes
  <2> QED BY <1>8, <2>5, CrashStep
<1>9. CASE Restart
  <2>1. UNCHANGED <<chain, synced, torn, acked, anchors, anchoring, faults, excused>>
        /\ up' = TRUE
    BY <1>9 DEF Restart, file, history, trouble
  <2>2. Len(chain) \in 0..Len(chain)
    BY <1>1
  <2>3. head' \in Heads
    BY <1>9, <2>2, HashPlace DEF Restart, TypeInv
  <2>4. seq' \in Nat
    <3>1. CASE chain = <<>>
      BY <1>9, <3>1 DEF Restart
    <3>2. CASE chain # <<>>
      <4>1. chain[Len(chain)] \in Lines
        BY <3>2 DEF TypeInv
      <4> QED BY <1>9, <3>2, <4>1 DEF Restart, Lines
    <3> QED BY <3>1, <3>2
  <2> QED BY <1>1, <1>2, <1>3, <2>1, <2>3, <2>4 DEF FileTypes
<1>10. ASSUME NEW a \in Anchorers, AnchorRead(a) \/ AnchorPut(a)
       PROVE  FileStep /\ FileTypes'
  <2>1. UNCHANGED <<chain, synced, torn, acked, faults, seq, head, up>>
    BY <1>10 DEF AnchorRead, AnchorPut, file, history, trouble
  <2>2. excused' \in BOOLEAN
    BY <1>1, <1>10 DEF AnchorRead, AnchorPut, trouble, FileTypes
  <2>3. /\ anchoring' \in [Anchorers -> AnchorRecords \union {None}]
        /\ anchors' \subseteq [seq : Nat, head : Heads]
    <3>1. CASE AnchorRead(a)
      <4>1. [seq |-> seq, head |-> head, stored |-> FALSE] \in AnchorRecords
        BY <1>1 DEF FileTypes, AnchorRecords
      <4> QED BY <1>1, <3>1, <4>1 DEF AnchorRead, FileTypes
    <3>2. CASE AnchorPut(a)
      <4>1. anchoring[a] \in AnchorRecords
        BY <1>1, <3>2 DEF AnchorPut, FileTypes
      <4>2. /\ [seq |-> anchoring[a].seq, head |-> anchoring[a].head] \in [seq : Nat, head : Heads]
            /\ [anchoring[a] EXCEPT !.stored = TRUE] \in AnchorRecords
        BY <4>1 DEF AnchorRecords
      <4>3. \/ anchoring' = [anchoring EXCEPT ![a] = [anchoring[a] EXCEPT !.stored = TRUE]]
            \/ anchoring' = [anchoring EXCEPT ![a] = None]
        BY <3>2 DEF AnchorPut
      <4>4. \/ anchors' = anchors
            \/ anchors' = anchors \union {[seq |-> anchoring[a].seq, head |-> anchoring[a].head]}
        BY <3>2 DEF AnchorPut
      <4>5. anchoring' \in [Anchorers -> AnchorRecords \union {None}]
        BY <1>1, <4>2, <4>3 DEF FileTypes
      <4>6. anchors' \subseteq [seq : Nat, head : Heads]
        BY <1>1, <4>2, <4>4 DEF FileTypes
      <4> QED BY <4>5, <4>6
    <3> QED BY <1>10, <3>1, <3>2
  <2> QED BY <1>1, <1>2, <2>1, <2>2, <2>3 DEF FileTypes
<1> QED BY <1>4, <1>5, <1>6, <1>7, <1>8, <1>9, <1>10 DEF Next, Client

\* What is acknowledged stays where it is.
LEMMA DurableKept ==
  ASSUME TypeInv, DurableInv, FileStep
  PROVE  DurableInv'
<1>1. /\ Len(chain) \in Nat /\ Len(chain') \in Nat /\ synced \in 0..Len(chain)
      /\ synced' \in synced..Len(chain')
  BY DEF TypeInv, FileStep
<1>2. ASSUME NEW k \in acked
      PROVE  k[1] \in 1..synced' /\ chain'[k[1]].body = k[2]
  <2>1. k[1] \in 1..synced /\ chain[k[1]].body = k[2]
    BY DEF DurableInv
  <2>2. chain'[k[1]] = chain[k[1]]
    BY <1>1, <2>1 DEF FileStep
  <2> QED BY <1>1, <2>1, <2>2
<1>3. ASSUME NEW b \in InFlight, acked' = acked \union {<<Len(chain'), b>>},
             Len(chain') = Len(chain) + 1, synced' = Len(chain'),
             chain'[Len(chain')].body = b
      PROVE  DurableInv'
  BY <1>1, <1>2, <1>3 DEF DurableInv
<1>4. CASE acked' = acked
  BY <1>2, <1>4 DEF DurableInv
<1> QED BY <1>3, <1>4 DEF FileStep

-----------------------------------------------------------------------------
(* The chain stays linked.                                                 *)

\* A line that the sequencer writes links up with the last one.
LEMMA LinkedAppend ==
  ASSUME TypeInv, Linked(chain), seq = Len(chain), head = Hash(chain, Len(chain)),
         NEW b \in Nat, NEW f, f = Append(chain, Line(b))
  PROVE  Linked(f)
<1>1. Line(b) \in Lines /\ Line(b).seq = seq + 1 /\ Line(b).prev = head
  BY DEF Line, Lines, TypeInv
<1>2. chain \in Seq(Lines) /\ Len(chain) \in Nat
  BY DEF TypeInv
<1>3. /\ Len(f) = Len(chain) + 1 /\ f[Len(chain) + 1] = Line(b)
      /\ \A i \in 1..Len(chain) : f[i] = chain[i]
  BY <1>1, <1>2
<1> SUFFICES ASSUME NEW n \in 1..Len(f)
             PROVE  f[n].seq = n /\ f[n].prev = Hash(f, n - 1)
  BY DEF Linked
<1>4. n - 1 \in Nat /\ (n - 1 > 0 => f[n - 1] = chain[n - 1])
  BY <1>2, <1>3
<1>5. Hash(f, n - 1) = Hash(chain, n - 1)
  BY <1>4, HashPrefix
<1>6. CASE n <= Len(chain)
  <2>1. n \in 1..Len(chain) /\ f[n] = chain[n]
    BY <1>2, <1>3, <1>6
  <2> QED BY <1>5, <2>1 DEF Linked
<1>7. CASE n = Len(chain) + 1
  BY <1>1, <1>2, <1>3, <1>5, <1>7
<1> QED BY <1>2, <1>3, <1>6, <1>7

\* The first lines of a linked file are linked.
LEMMA LinkedPrefix ==
  ASSUME NEW f \in Seq(Lines), NEW g \in Seq(Lines), Linked(f), Len(g) <= Len(f),
         \A i \in 1..Len(g) : g[i] = f[i]
  PROVE  Linked(g)
<1> SUFFICES ASSUME NEW n \in 1..Len(g)
             PROVE  g[n].seq = n /\ g[n].prev = Hash(g, n - 1)
  BY DEF Linked
<1>1. n \in 1..Len(f) /\ n - 1 \in Nat /\ g[n] = f[n] /\ (n - 1 > 0 => g[n - 1] = f[n - 1])
  OBVIOUS
<1>2. Hash(g, n - 1) = Hash(f, n - 1)
  BY <1>1, HashPrefix
<1> QED BY <1>1, <1>2 DEF Linked

\* A hash of the lines that a step keeps is the same after it.
LEMMA HashKept ==
  ASSUME TypeInv, FileStep, NEW n \in 0..Len(chain), n <= Len(chain')
  PROVE  Hash(chain', n) = Hash(chain, n)
<1>1. Len(chain) \in Nat /\ Len(chain') \in Nat
  BY DEF TypeInv, FileStep
<1>2. n > 0 => chain'[n] = chain[n]
  BY <1>1 DEF FileStep
<1> QED BY <1>1, <1>2, HashPrefix

\* Anchors are of synced lines, which stay.
LEMMA AnchorsKept ==
  ASSUME TypeInv, FileStep, Sound, NEW a \in anchors
  PROVE  a.seq \in 0..synced' /\ a.head = Hash(chain', a.seq)
<1>1. /\ Len(chain) \in Nat /\ Len(chain') \in Nat /\ synced \in 0..Len(chain)
      /\ synced' \in synced..Len(chain')
  BY DEF TypeInv, FileStep
<1>2. a.seq \in 0..synced /\ a.head = Hash(chain, a.seq)
  BY DEF Sound
<1>3. a.seq \in 0..Len(chain) /\ a.seq <= Len(chain')
  BY <1>1, <1>2
<1>4. Hash(chain', a.seq) = Hash(chain, a.seq)
  BY <1>3, HashKept
<1> QED BY <1>1, <1>2, <1>4

\* A write that succeeds keeps the memory and the file in agreement.
LEMMA CommitSound ==
  ASSUME TypeInv, FileStep, Sound, NEW b \in Nat, Commit(b),
         UNCHANGED <<anchors, verifying>>,
         \A a \in Anchorers : anchoring'[a] \in {None, anchoring[a]}
  PROVE  Sound'
<1>1. /\ up' = up /\ up /\ flagged' = flagged /\ torn' = torn
      /\ listed' = listed /\ alarm' = alarm /\ anchors' = anchors
  BY DEF Commit, WriteLine, verifying
<1>2. Len(chain) \in Nat /\ seq = Len(chain) /\ head = Hash(chain, Len(chain)) /\ Linked(chain)
  BY <1>1 DEF Sound, TypeInv
<1>3. chain' = Append(chain, Line(b)) /\ seq' = seq + 1 /\ head' = Hash(chain', Len(chain'))
  BY DEF Commit, WriteLine
<1>4. Len(chain') = Len(chain) + 1
  BY <1>3 DEF TypeInv
<1>5. Linked(chain')
  BY <1>2, <1>3, LinkedAppend
<1>6. Linked(chain)'
  BY <1>5 DEF Linked, Hash
<1>7. ASSUME NEW a \in Anchorers, anchoring'[a] # None, ~anchoring'[a].stored
      PROVE  /\ anchoring'[a].seq \in 0..Len(chain')
             /\ anchoring'[a].head = Hash(chain', anchoring'[a].seq)
  <2>1. anchoring'[a] = anchoring[a]
    BY <1>7
  <2>2. anchoring[a].seq \in 0..Len(chain) /\ anchoring[a].head = Hash(chain, anchoring[a].seq)
    BY <1>7, <2>1 DEF Sound
  <2>3. Hash(chain', anchoring[a].seq) = Hash(chain, anchoring[a].seq)
    BY <1>2, <1>4, <2>2, HashKept
  <2> QED BY <1>2, <1>4, <2>1, <2>2, <2>3
<1>8. \A a \in anchors : a.seq \in 0..synced' /\ a.head = Hash(chain', a.seq)
  BY AnchorsKept
<1> QED BY <1>1, <1>2, <1>3, <1>4, <1>6, <1>7, <1>8 DEF Sound

\* A crash leaves the first lines of a linked file, with all that is anchored.
LEMMA CrashSound ==
  ASSUME TypeInv, NameInv, LockInv, OrderInv, ChainInv, Sound, Crash
  PROVE  Sound'
<1>1. FileStep
  BY CrashStep
<1>2. PICK f \in {chain} \union {Append(chain, Line(b)) : b \in InFlight} :
        \E n \in 0..Len(f) :
          /\ Len(chain') = n /\ \A i \in 1..n : chain'[i] = f[i]
          /\ f \in Seq(Lines)
  BY CrashStep
<1>3. up /\ seq = Len(chain) /\ head = Hash(chain, Len(chain)) /\ Linked(chain)
  BY DEF Crash, Sound
<1>4. Linked(f)
  <2>1. ASSUME NEW b \in InFlight, f = Append(chain, Line(b))
        PROVE  Linked(f)
    <3>1. b \in Nat
      BY InFlightNamed
    <3> QED BY <1>3, <2>1, <3>1, LinkedAppend
  <2> QED BY <1>2, <1>3, <2>1
<1>5. /\ chain' \in Seq(Lines) /\ f \in Seq(Lines) /\ Len(chain') <= Len(f)
      /\ \A i \in 1..Len(chain') : chain'[i] = f[i]
  BY <1>1, <1>2 DEF FileStep
<1>6. Linked(chain')
  BY <1>4, <1>5, LinkedPrefix
<1>7. Linked(chain)'
  BY <1>6 DEF Linked, Hash
<1>8. /\ UNCHANGED <<flagged, anchors, listed, alarm>> /\ ~up'
      /\ \A a \in Anchorers : anchoring'[a] = None
  BY DEF Crash, verifying
<1>9. \A a \in anchors : a.seq \in 0..synced' /\ a.head = Hash(chain', a.seq)
  BY <1>1, AnchorsKept
<1>10. ~flagged
  BY DEF Sound
<1> QED BY <1>7, <1>8, <1>9, <1>10 DEF Sound

\* An anchor that is stored, of the head that was read before.
LEMMA AnchorSound ==
  ASSUME TypeInv, FileTypes', Sound, ~excused', NEW a \in Anchorers, AnchorRead(a) \/ AnchorPut(a)
  PROVE  Sound'
<1>1. UNCHANGED <<chain, synced, torn, seq, head, flagged, up, listed, alarm>>
  BY DEF AnchorRead, AnchorPut, file, verifying
<1>2. Linked(chain)'
  BY <1>1 DEF Sound, Linked, Hash
<1>3. anchoring \in [Anchorers -> AnchorRecords \union {None}] /\ Len(chain) \in Nat
  BY DEF TypeInv
<1>4. CASE AnchorRead(a)
  <2>1. /\ anchors' = anchors /\ up
        /\ anchoring' = [anchoring EXCEPT ![a] = [seq |-> seq, head |-> head, stored |-> FALSE]]
    BY <1>4 DEF AnchorRead
  <2>2. seq = Len(chain) /\ head = Hash(chain, Len(chain))
    BY <2>1 DEF Sound
  <2>3. \A c \in Anchorers : anchoring'[c] # None /\ ~anchoring'[c].stored =>
          /\ anchoring'[c].seq \in 0..Len(chain)
          /\ anchoring'[c].head = Hash(chain, anchoring'[c].seq)
    BY <1>3, <2>1, <2>2 DEF Sound
  <2> QED BY <1>1, <1>2, <2>1, <2>3 DEF Sound
<1>5. CASE AnchorPut(a)
  <2>1. anchoring[a] \in AnchorRecords /\ anchoring[a] # None /\ ~anchoring[a].stored
    BY <1>3, <1>5 DEF AnchorPut
  <2>2. anchoring[a].seq \in 0..Len(chain) /\ anchoring[a].head = Hash(chain, anchoring[a].seq)
    BY <2>1 DEF Sound
  <2>3. CASE UNCHANGED anchors /\ anchoring' = [anchoring EXCEPT ![a] = None]
    <3>1. \A c \in Anchorers : anchoring'[c] \in {None, anchoring[c]}
      BY <1>3, <2>3
    <3> QED BY <1>1, <1>2, <2>3, <3>1 DEF Sound
  <2>4. CASE /\ anchors' = anchors \union {[seq |-> anchoring[a].seq, head |-> anchoring[a].head]}
             /\ anchoring' = [anchoring EXCEPT ![a].stored = TRUE]
             /\ excused' = (excused \/ anchoring[a].head[1] > synced)
    <3>1. anchoring[a].head[1] = anchoring[a].seq
      BY <2>2, HashPlace DEF TypeInv
    <3>2. anchoring[a].seq \in 0..synced
      <4>1. ~(anchoring[a].head[1] > synced)
        BY <2>4, Zenon
      <4> QED BY <2>2, <3>1, <4>1 DEF TypeInv
    <3>3. \A c \in anchors' : c.seq \in 0..synced /\ c.head = Hash(chain, c.seq)
      BY <2>2, <2>4, <3>2 DEF Sound
    <3>4. anchoring'[a].stored /\ \A c \in Anchorers \ {a} : anchoring'[c] = anchoring[c]
      <4>1. anchoring'[a] = [anchoring[a] EXCEPT !.stored = TRUE]
        BY <1>3, <2>4
      <4>2. anchoring'[a].stored = TRUE
        BY <2>1, <4>1 DEF AnchorRecords
      <4> QED BY <1>3, <2>4, <4>2
    <3>5. \A c \in Anchorers : anchoring'[c] # None /\ ~anchoring'[c].stored =>
            /\ anchoring'[c].seq \in 0..Len(chain)
            /\ anchoring'[c].head = Hash(chain, anchoring'[c].seq)
      BY <3>4 DEF Sound
    <3>6. listed # None => listed \subseteq anchors'
      BY <2>4 DEF Sound
    <3> QED BY <1>1, <1>2, <3>3, <3>5, <3>6 DEF Sound
  <2> QED BY <1>5, <2>3, <2>4 DEF AnchorPut
<1> QED BY <1>4, <1>5

\* Nothing else that happens while no write fails looks like tampering.
LEMMA ChainKept ==
  ASSUME TypeInv, NameInv, LockInv, OrderInv, ChainInv, [Next]_vars
  PROVE  ChainInv'
<1>0. FileStep /\ FileTypes'
  BY FileSteps
<1>1. CASE Client
  <2>1. UNCHANGED <<file, memory, anchors, verifying, excused>>
    BY <1>1, ClientQuiet
  <2> QED BY <2>1 DEF file, memory, verifying, ChainInv, Sound, Linked, Hash
<1>2. ASSUME NEW b \in Nat, Commit(b) \/ CommitFails(b), UNCHANGED <<anchors, verifying>>,
             \A a \in Anchorers : anchoring'[a] \in {None, anchoring[a]}
      PROVE  ChainInv'
  <2>1. up' = up /\ torn' = torn
    BY <1>2 DEF Commit, CommitFails, WriteLine
  <2>2. CASE Commit(b) /\ ~excused
    <3>1. Sound'
      BY <1>0, <1>2, <2>2, CommitSound DEF ChainInv
    <3> QED BY <2>1, <3>1 DEF ChainInv
  <2>3. CASE CommitFails(b) \/ excused
    <3>1. excused'
      BY <1>2, <2>3 DEF Commit, CommitFails, trouble
    <3> QED BY <2>1, <3>1 DEF ChainInv
  <2> QED BY <1>2, <2>2, <2>3
<1>3. ASSUME NEW t \in Threads, Handle(t)
      PROVE  ChainInv'
  <2>1. Request(t) \in Nat
    <3>1. Request(t) \in InFlight
      BY <1>3 DEF Handle, InFlight
    <3> QED BY <3>1, InFlightNamed
  <2>2. UNCHANGED <<anchors, verifying, anchoring>>
    BY <1>3 DEF Handle
  <2>3. Commit(Request(t)) \/ CommitFails(Request(t))
    BY <1>3 DEF Handle
  <2> QED BY <1>2, <2>1, <2>2, <2>3
<1>4. CASE HandleStray
  <2>1. PICK b \in stray : Commit(b)
    BY <1>4 DEF HandleStray
  <2>2. b \in Nat
    <3>1. b \in InFlight
      BY DEF InFlight
    <3> QED BY <3>1, InFlightNamed
  <2>3. UNCHANGED <<anchors, verifying, anchoring>>
    BY <1>4 DEF HandleStray
  <2> QED BY <1>2, <2>1, <2>2, <2>3
<1>5. ASSUME NEW a \in Anchorers, AnchorEntry(a)
      PROVE  ChainInv'
  <2>1. UNCHANGED <<anchors, verifying>> /\ (Commit(0) \/ CommitFails(0))
    BY <1>5 DEF AnchorEntry
  <2>2. \A c \in Anchorers : anchoring'[c] \in {None, anchoring[c]}
    BY <1>5 DEF AnchorEntry, TypeInv
  <2> QED BY <1>2, <2>1, <2>2
<1>6. CASE Crash
  <2>1. excused' = excused /\ ~up'
    BY <1>6 DEF Crash
  <2>2. Sound => Sound'
    BY <1>6, CrashSound
  <2> QED BY <2>1, <2>2 DEF ChainInv
<1>7. CASE Restart
  <2>1. UNCHANGED <<chain, synced, torn, anchors, anchoring, listed, alarm, excused>> /\ ~torn
    BY <1>7 DEF Restart, Unparseable, file, verifying, trouble
  <2>2. ASSUME Sound
        PROVE  seq' = Len(chain) /\ head' = Hash(chain, Len(chain)) /\ ~flagged'
    <3>1. Linked(chain)
      BY <2>2 DEF Sound
    <3>2. chain \in Seq(Lines)
      BY DEF TypeInv
    <3>3. chain # <<>> => Len(chain) \in 1..Len(chain)
      BY <3>2
    <3>4. chain # <<>> => chain[Len(chain)].seq = Len(chain)
      BY <3>1, <3>3 DEF Linked
    <3>5. chain = <<>> => Len(chain) = 0
      OBVIOUS
    <3>6. seq' = Len(chain)
      BY <1>7, <3>4, <3>5 DEF Restart
    <3> QED BY <1>7, <3>1, <3>6 DEF Restart
  <2>3. Linked(chain) => Linked(chain)'
    BY <2>1 DEF Linked, Hash
  <2> QED BY <2>1, <2>2, <2>3 DEF ChainInv, Sound
<1>8. ASSUME NEW a \in Anchorers, AnchorRead(a) \/ AnchorPut(a)
      PROVE  ChainInv'
  <2>1. UNCHANGED <<torn, up>> /\ (excused => excused')
    <3>1. CASE AnchorRead(a)
      BY <3>1 DEF AnchorRead, file, trouble
    <3>2. CASE AnchorPut(a)
      <4>1. UNCHANGED <<torn, up>>
        BY <3>2 DEF AnchorPut, file
      <4>2. excused' = (excused \/ anchoring[a].head[1] > synced) \/ UNCHANGED <<anchors, excused>>
        BY <3>2 DEF AnchorPut
      <4>3. UNCHANGED <<anchors, excused>> => (excused => excused')
        OBVIOUS
      <4> QED BY <4>1, <4>2, <4>3, Zenon
    <3> QED BY <1>8, <3>1, <3>2
  <2>2. ~excused' /\ Sound => Sound'
    BY <1>0, <1>8, AnchorSound
  <2> QED BY <2>1, <2>2 DEF ChainInv
<1>9. CASE VerifyList \/ VerifyWalk
  <2>1. UNCHANGED <<chain, synced, torn, seq, head, flagged, up, anchors, anchoring, excused>>
    BY <1>9 DEF VerifyList, VerifyWalk, file, memory, trouble
  <2>2. Linked(chain) => Linked(chain)'
    BY <2>1 DEF Linked, Hash
  <2>3. CASE VerifyList
    BY <2>1, <2>2, <2>3 DEF VerifyList, ChainInv, Sound
  <2>4. CASE VerifyWalk
    <3>1. listed' = None
      BY <2>4 DEF VerifyWalk
    <3> QED BY <2>1, <2>2, <3>1 DEF ChainInv, Sound
  <2> QED BY <1>9, <2>3, <2>4
<1> QED BY <1>1, <1>3, <1>4, <1>5, <1>6, <1>7, <1>8, <1>9 DEF Next, Client

\* A line that lost its newline was not acknowledged, and stays joined to its successor.
LEMMA BareKept ==
  ASSUME TypeInv, NameInv, LockInv, OrderInv, DurableInv, ChainInv, BareInv, [Next]_vars
  PROVE  BareInv'
<1>0. FileStep /\ Len(chain) \in Nat /\ Len(chain') \in Nat /\ synced \in 0..Len(chain)
  BY FileSteps DEF TypeInv, FileStep
<1>1. ASSUME UNCHANGED <<chain, synced, torn, bare, acked>>, excused => excused',
             alarm' => alarm \/ excused \/ Unparseable, up' => up
      PROVE  BareInv'
  BY <1>1 DEF BareInv, Unparseable, Joined
<1>2. CASE Client
  <2>1. UNCHANGED <<file, memory, anchors, verifying, acked, excused>>
    BY <1>2, ClientQuiet
  <2> QED BY <1>1, <2>1 DEF file, memory, verifying
<1>3. ASSUME NEW t, Commit(t) \/ CommitFails(t), UNCHANGED alarm
      PROVE  BareInv'
  <2>1. /\ UNCHANGED <<torn, bare>> /\ Len(chain') = Len(chain) + 1
        /\ CommitFails(t) \/ (synced' = Len(chain') /\ excused' = excused)
        /\ CommitFails(t) => excused'
    BY <1>0, <1>3 DEF Commit, CommitFails, WriteLine, trouble, TypeInv
  <2>2. bare' \subseteq 1..Len(chain')
    BY <1>0, <2>1 DEF BareInv
  <2>3. \A k \in acked' : k[1] \notin bare'
    BY <1>0, <2>1 DEF BareInv, FileStep
  <2>4. ASSUME ~excused'
        PROVE  /\ alarm' => Unparseable'
               /\ \A b \in bare' : b < Len(chain') => b < synced'
    <3>1. ~excused /\ synced' = Len(chain')
      BY <2>1, <2>4
    <3>2. alarm => torn \/ \E b \in bare : b < Len(chain) \/ torn
      BY <3>1 DEF BareInv, Unparseable, Joined
    <3>3. \A b \in bare : b < Len(chain) => b < Len(chain')
      BY <1>0, <2>1 DEF BareInv
    <3>4. alarm' => Unparseable'
      BY <1>3, <2>1, <3>2, <3>3 DEF Unparseable, Joined
    <3> QED BY <3>1, <3>4
  <2> QED BY <2>2, <2>3, <2>4 DEF BareInv
<1>4. ASSUME NEW t \in Threads, Handle(t)
      PROVE  BareInv'
  BY <1>3, <1>4 DEF Handle, verifying
<1>5. CASE HandleStray
  BY <1>3, <1>5 DEF HandleStray, verifying
<1>6. ASSUME NEW a \in Anchorers, AnchorEntry(a)
      PROVE  BareInv'
  BY <1>3, <1>6 DEF AnchorEntry, verifying
<1>7. CASE Crash
  <2>1. PICK n \in Nat : /\ synced <= n /\ n = Len(chain')
                         /\ \E cut \in SUBSET ({n} \ (0..synced)) :
                              bare' = (bare \intersect (1..n)) \union cut
    <3>1. PICK f \in {chain} \union {Append(chain, Line(b)) : b \in InFlight} :
            \E n \in synced..Len(f) :
              /\ chain' = SubSeq(f, 1, n)
              /\ \E cut \in SUBSET ({n} \ (0..synced)) :
                   bare' = (bare \intersect (1..n)) \union cut
      BY <1>7 DEF Crash
    <3>2. PICK n \in synced..Len(f) :
              /\ chain' = SubSeq(f, 1, n)
              /\ \E cut \in SUBSET ({n} \ (0..synced)) :
                   bare' = (bare \intersect (1..n)) \union cut
      BY <3>1
    <3>3. n \in Nat /\ synced <= n
      BY <1>0, <3>2
    <3>4. Len(chain') = n
      BY <3>2, <3>3
    <3> QED BY <3>2, <3>3, <3>4
  <2>2. up /\ ~up' /\ UNCHANGED <<excused, alarm, acked>>
    BY <1>7 DEF Crash, verifying, history
  <2>3. bare' \subseteq 1..Len(chain')
    <3>1. \A b \in bare' : b \in 1..n \/ (b = n /\ b \notin 0..synced)
      BY <2>1
    <3>2. n \notin 0..synced => n \in 1..n
      BY <1>0, <2>1
    <3> QED BY <2>1, <3>1, <3>2
  <2>4. \A k \in acked' : k[1] \notin bare'
    <3>1. \A k \in acked : k[1] \in 1..synced /\ k[1] \notin bare
      BY DEF DurableInv, BareInv
    <3> QED BY <1>0, <2>1, <2>2, <3>1
  <2>5. ASSUME ~excused', alarm'
        PROVE  Unparseable'
    <3>1. ~torn /\ ~excused /\ alarm
      BY <2>2, <2>5 DEF ChainInv
    <3>2. PICK b \in bare : b < Len(chain)
      BY <3>1 DEF BareInv, Unparseable, Joined
    <3>3. b < synced /\ b \in 1..Len(chain)
      BY <2>2, <3>1, <3>2 DEF BareInv
    <3>4. b \in bare' /\ b < Len(chain')
      BY <1>0, <2>1, <3>2, <3>3
    <3> QED BY <3>4 DEF Unparseable, Joined
  <2> QED BY <2>2, <2>3, <2>4, <2>5 DEF BareInv
<1>8. CASE Restart
  <2>1. UNCHANGED <<chain, synced, torn, bare, acked, alarm, excused>> /\ ~Unparseable
    BY <1>8 DEF Restart, file, verifying, trouble, history
  <2> QED BY <2>1 DEF BareInv, Unparseable, Joined
<1>9. ASSUME NEW a \in Anchorers, AnchorRead(a) \/ AnchorPut(a)
      PROVE  BareInv'
  <2>1. UNCHANGED <<chain, synced, torn, bare, acked, alarm, up>>
    BY <1>9 DEF AnchorRead, AnchorPut, file, verifying, history
  <2>2. excused => excused'
    <3>1. CASE AnchorRead(a)
      BY <3>1 DEF AnchorRead, trouble
    <3>2. CASE AnchorPut(a)
      <4>1. excused' = (excused \/ anchoring[a].head[1] > synced) \/ excused' = excused
        BY <3>2 DEF AnchorPut
      <4> QED BY <4>1, Zenon
    <3> QED BY <1>9, <3>1, <3>2
  <2> QED BY <1>1, <2>1, <2>2
<1>10. CASE VerifyList
  <2>1. UNCHANGED <<chain, synced, torn, bare, acked, alarm, excused, up>>
    BY <1>10 DEF VerifyList, file, memory, trouble, history
  <2> QED BY <1>1, <2>1
<1>11. CASE VerifyWalk
  <2>1. UNCHANGED <<chain, synced, torn, bare, acked, excused, up>>
    BY <1>11 DEF VerifyWalk, file, memory, trouble, history
  <2>2. Sound => Verifies(chain, listed)
    BY <1>11 DEF VerifyWalk, Sound, Verifies, TypeInv
  <2>3. alarm' => alarm \/ Unparseable \/ ~Verifies(chain, listed)
    BY <1>11, Zenon DEF VerifyWalk
  <2>4. alarm' => alarm \/ excused \/ Unparseable
    BY <2>2, <2>3 DEF ChainInv
  <2> QED BY <1>1, <2>1, <2>4
<1> QED BY <1>2, <1>4, <1>5, <1>6, <1>7, <1>8, <1>9, <1>10, <1>11 DEF Next, Client

-----------------------------------------------------------------------------
(* The buffer.                                                             *)

\* The first of the buffer may leave it once it is settled.
LEMMA DropHead ==
  ASSUME NEW q \in Seq(Nat), q # <<>>, NEW R, NEW B, NEW S, Head(q) \in S,
         Covered(q, R, S), Ordered(q, B, S)
  PROVE  /\ Tail(q) \in Seq(Nat) /\ Len(Tail(q)) = Len(q) - 1
         /\ Covered(Tail(q), R, S) /\ Ordered(Tail(q), B, S)
<1> DEFINE p == Tail(q)
<1>1. /\ p \in Seq(Nat) /\ Len(p) = Len(q) - 1 /\ Len(q) \in Nat \ {0}
      /\ \A i \in 1..Len(p) : p[i] = q[i + 1]
      /\ Head(q) = q[1]
  OBVIOUS
<1> HIDE DEF p
<1>2. ASSUME NEW n \in 1..Len(q), NEW x, \E j \in 1..n : q[j] = x
      PROVE  x \in S \/ \E j \in 1..(n - 1) : p[j] = x
  <2>1. PICK j \in 1..n : q[j] = x
    BY <1>2
  <2>2. CASE j = 1
    BY <1>1, <2>1, <2>2
  <2>3. CASE j # 1
    <3>1. j - 1 \in 1..(n - 1) /\ j - 1 \in 1..Len(p) /\ (j - 1) + 1 = j
      BY <1>1, <2>3
    <3>2. p[j - 1] = x
      BY <1>1, <2>1, <3>1
    <3> QED BY <3>1, <3>2
  <2> QED BY <2>2, <2>3
<1>3. Covered(p, R, S)
  <2> SUFFICES ASSUME NEW x \in R, x \notin S
               PROVE  \E i \in 1..Len(p) : p[i] = x
    BY DEF Covered
  <2>1. \E i \in 1..Len(q) : q[i] = x
    BY DEF Covered
  <2> QED BY <1>1, <1>2, <2>1
<1>4. Ordered(p, B, S)
  <2> SUFFICES ASSUME NEW i \in 1..Len(p), NEW x \in B[p[i]], x \notin S
               PROVE  \E j \in 1..(i - 1) : p[j] = x
    BY DEF Ordered
  <2>1. i + 1 \in 1..Len(q) /\ p[i] = q[i + 1] /\ i \in 1..Len(q) /\ (i + 1) - 1 = i
    BY <1>1
  <2>2. \E j \in 1..i : q[j] = x
    BY <2>1 DEF Ordered
  <2> QED BY <1>2, <2>1, <2>2
<1> QED BY <1>1, <1>3, <1>4 DEF p

\* A submission that returns is put last, behind all that came before it.
LEMMA PutLast ==
  ASSUME NEW q \in Seq(Nat), NEW R, NEW B, NEW S, NEW y \in Nat, B[y] \subseteq R,
         Covered(q, R, S), Ordered(q, B, S)
  PROVE  /\ Append(q, y) \in Seq(Nat)
         /\ Covered(Append(q, y), R \union {y}, S) /\ Ordered(Append(q, y), B, S)
<1> DEFINE p == Append(q, y)
<1>1. /\ p \in Seq(Nat) /\ Len(p) = Len(q) + 1 /\ Len(q) \in Nat
      /\ p[Len(p)] = y /\ \A i \in 1..Len(q) : p[i] = q[i]
  OBVIOUS
<1> HIDE DEF p
<1>2. Covered(p, R \union {y}, S)
  BY <1>1 DEF Covered
<1>3. Ordered(p, B, S)
  <2> SUFFICES ASSUME NEW i \in 1..Len(p), NEW x \in B[p[i]], x \notin S
               PROVE  \E j \in 1..(i - 1) : p[j] = x
    BY DEF Ordered
  <2>1. CASE i = Len(p)
    <3>1. PICK j \in 1..Len(q) : q[j] = x
      BY <1>1, <2>1 DEF Covered
    <3>2. j \in 1..(i - 1) /\ p[j] = x
      BY <1>1, <2>1, <3>1
    <3> QED BY <3>2
  <2>2. CASE i # Len(p)
    <3>1. i \in 1..Len(q) /\ p[i] = q[i]
      BY <1>1, <2>2
    <3>2. PICK j \in 1..(i - 1) : q[j] = x
      BY <3>1 DEF Ordered
    <3>3. j \in 1..Len(q)
      BY <1>1, <3>1
    <3> QED BY <1>1, <3>2, <3>3
  <2> QED BY <2>1, <2>2
<1> QED BY <1>1, <1>2, <1>3 DEF p

\* More is settled as time goes on.
LEMMA MoreSettled ==
  ASSUME NEW q, NEW R, NEW B, NEW S, NEW S2, S \subseteq S2
  PROVE  /\ Covered(q, R, S) => Covered(q, R, S2)
         /\ Ordered(q, B, S) => Ordered(q, B, S2)
BY DEF Covered, Ordered

-----------------------------------------------------------------------------
(* The kinds of steps of the client.                                       *)

\* Thread t comes to pc p with reply r; the others stay where they are.
Moves(t, p, r) ==
  /\ thread' \in [Threads -> ThreadRecords]
  /\ thread'[t].pc = p /\ thread'[t].reply = r
  /\ \A u \in Threads \ {t} : thread'[u] = thread[u]

Keeps(t) == thread'[t].x = thread[t].x

\* The client does nothing; the sequencer may take up a request of the past.
Rests ==
  /\ UNCHANGED <<queue, holder, thread, before, returned, lost>>
  /\ stray' \subseteq stray

Submits(t) ==
  /\ Moves(t, "flush", "none") /\ thread'[t].x = Len(before) + 1
  /\ before' = Append(before, returned)
  /\ UNCHANGED <<queue, holder, stray, returned, lost>>

Flushes(t) ==
  /\ thread[t].pc = "flush" /\ holder = None /\ Keeps(t)
  /\ \/ queue = <<>> /\ Moves(t, "sending", "none") /\ holder' = holder
     \/ queue # <<>> /\ Moves(t, "flushing", "none") /\ holder' = t
  /\ UNCHANGED <<queue, stray, before, returned, lost>>

Replies(t) ==
  /\ Calling(t) /\ Keeps(t)
  /\ \E r \in {"done", "error"} : /\ Moves(t, thread[t].pc, r)
                                  /\ r = "done" => Request(t) \in Acked'
  /\ UNCHANGED <<queue, holder, stray, before, returned, lost>>

Pops(t) ==
  /\ thread[t].pc = "flushing" /\ thread[t].reply = "done" /\ Keeps(t)
  /\ queue' = Tail(queue)
  /\ \/ queue' = <<>> /\ Moves(t, "sending", "none")
     \/ queue' # <<>> /\ Moves(t, "flushing", "none") /\ holder' = holder
  /\ UNCHANGED <<stray, before, returned, lost>>

Ends(t) ==
  /\ thread[t].pc = "sending" /\ thread[t].reply = "done"
  /\ Moves(t, "idle", "none")
  /\ returned' = returned \union {thread[t].x}
  /\ UNCHANGED <<queue, holder, stray, before, lost>>

\* The call fails; the sequencer may still handle the request.
Fails(t) ==
  /\ Calling(t)
  /\ \/ Moves(t, "idle", "none")
     \/ Moves(t, "buffer", "none") /\ Keeps(t)
  /\ holder # t => holder' = holder
  /\ stray' \subseteq InFlight
  /\ UNCHANGED <<queue, before, returned, lost>>

Buffers(t) ==
  /\ thread[t].pc = "buffer" /\ holder = None /\ Moves(t, "idle", "none")
  /\ \/ queue' = Append(queue, thread[t].x) /\ lost' = lost
     \/ /\ queue # <<>> /\ queue' = Append(Tail(queue), thread[t].x)
        /\ lost' = lost \union {Head(queue)}
  /\ returned' = returned \union {thread[t].x}
  /\ UNCHANGED <<holder, stray, before>>

Dies ==
  /\ thread' \in [Threads -> ThreadRecords] /\ \A t \in Threads : thread'[t].pc = "idle"
  /\ stray' \subseteq InFlight /\ queue' = <<>>
  /\ lost' = lost \union {queue[i] : i \in 1..Len(queue)}
  /\ UNCHANGED <<before, returned>>

\* A step of the client, of one of its kinds.
ClientStep ==
  \/ Rests \/ Dies
  \/ \E t \in Threads : \/ Submits(t) \/ Flushes(t) \/ Replies(t) \/ Pops(t)
                        \/ Ends(t) \/ Fails(t) \/ Buffers(t)

\* Where a thread goes.
LEMMA GoesFields ==
  ASSUME TypeInv, NEW t \in Threads, NEW p \in ThreadPCs, Goes(t, p)
  PROVE  Moves(t, p, "none") /\ Keeps(t)
<1>1. thread[t] \in ThreadRecords
  BY DEF TypeInv
<1> DEFINE r == [thread[t] EXCEPT !.pc = p, !.reply = "none"]
<1>2. thread' = [thread EXCEPT ![t] = r]
  BY DEF Goes, TypeInv
<1>3. r \in ThreadRecords /\ r.pc = p /\ r.reply = "none" /\ r.x = thread[t].x
  BY <1>1 DEF ThreadRecords
<1> HIDE DEF r
<1> QED BY <1>2, <1>3 DEF Moves, Keeps, TypeInv

\* The end of submit.
LEMMA IdleFields ==
  ASSUME TypeInv, NEW t \in Threads, thread' = [thread EXCEPT ![t] = Idle]
  PROVE  Moves(t, "idle", "none")
<1>1. Idle \in ThreadRecords /\ Idle.pc = "idle" /\ Idle.reply = "none"
  BY DEF Idle, ThreadRecords, ThreadPCs
<1> HIDE DEF Idle
<1> QED BY <1>1 DEF Moves, TypeInv

\* Every step is of one of the kinds.
LEMMA ClientKinds ==
  ASSUME TypeInv, [Next]_vars
  PROVE  ClientStep
<1>0. /\ Idle \in ThreadRecords /\ Idle.pc = "idle"
      /\ {"flush", "flushing", "sending", "buffer"} \subseteq ThreadPCs
      /\ queue \in Seq(Nat) /\ Len(queue) \in Nat
  BY DEF Idle, ThreadRecords, ThreadPCs, TypeInv
<1>1. ASSUME NEW t \in Threads, Submit(t)
      PROVE  Submits(t)
  <2> DEFINE r == [pc |-> "flush", x |-> Len(before) + 1, reply |-> "none"]
  <2>1. thread' = [thread EXCEPT ![t] = r]
    BY <1>1 DEF Submit
  <2>2. r \in ThreadRecords /\ r.pc = "flush" /\ r.reply = "none" /\ r.x = Len(before) + 1
    BY DEF ThreadRecords, ThreadPCs, TypeInv
  <2> HIDE DEF r
  <2>3. Moves(t, "flush", "none") /\ thread'[t].x = Len(before) + 1
    BY <2>1, <2>2 DEF Moves, TypeInv
  <2> QED BY <1>1, <2>3 DEF Submit, Submits
<1>2. ASSUME NEW t \in Threads, Flush(t)
      PROVE  Flushes(t)
  <2>1. \A p \in {"sending", "flushing"} : Goes(t, p) => Moves(t, p, "none") /\ Keeps(t)
    BY <1>0, GoesFields
  <2> QED BY <1>2, <2>1 DEF Flush, Flushes, history
<1>3. ASSUME NEW t \in Threads, Handle(t)
      PROVE  Replies(t)
  <2>1. thread[t] \in ThreadRecords
    BY DEF TypeInv
  <2>2. PICK r \in {"done", "error"} :
          /\ thread' = [thread EXCEPT ![t] = [thread[t] EXCEPT !.reply = r]]
          /\ r = "done" => acked' = acked \union {<<Len(chain'), Request(t)>>}
    BY <1>3 DEF Handle
  <2> DEFINE s == [thread[t] EXCEPT !.reply = r]
  <2>3. s \in ThreadRecords /\ s.pc = thread[t].pc /\ s.reply = r /\ s.x = thread[t].x
    BY <2>1 DEF ThreadRecords
  <2> HIDE DEF s
  <2>4. Moves(t, thread[t].pc, r) /\ Keeps(t)
    BY <2>2, <2>3 DEF Moves, Keeps, TypeInv, s
  <2>5. r = "done" => Request(t) \in Acked'
    BY <2>2 DEF Acked
  <2> QED BY <1>3, <2>4, <2>5 DEF Handle, Replies
<1>4. ASSUME NEW t \in Threads, Flushed(t)
      PROVE  Pops(t)
  <2>1. \A p \in {"sending", "flushing"} : Goes(t, p) => Moves(t, p, "none") /\ Keeps(t)
    BY <1>0, GoesFields
  <2> QED BY <1>4, <2>1 DEF Flushed, Pops, history
<1>5. ASSUME NEW t \in Threads, Sent(t)
      PROVE  Ends(t)
  <2>1. Moves(t, "idle", "none")
    BY <1>5, IdleFields DEF Sent
  <2> QED BY <1>5, <2>1 DEF Sent, Ends
<1>6. ASSUME NEW t \in Threads, Unavailable(t) \/ Refused(t) \/ TimesOut(t)
      PROVE  Fails(t)
  <2>1. \/ Moves(t, "idle", "none")
        \/ Moves(t, "buffer", "none") /\ Keeps(t)
    BY <1>0, <1>6, GoesFields, IdleFields DEF Unavailable, Refused, TimesOut
  <2>2. Calling(t) /\ UNCHANGED <<queue, before, returned, lost>>
        /\ (holder # t => holder' = holder)
    BY <1>6 DEF Unavailable, Refused, TimesOut, Releases, history
  <2>3. stray' \subseteq InFlight
    <3>1. stray' = stray \/ (thread[t].reply = "none" /\ stray' = stray \union {Request(t)})
      BY <1>6 DEF Unavailable, Refused, TimesOut
    <3> QED BY <2>2, <3>1 DEF InFlight
  <2> QED BY <2>1, <2>2, <2>3 DEF Fails
<1>7. ASSUME NEW t \in Threads, Buffer(t)
      PROVE  Buffers(t)
  <2>1. Moves(t, "idle", "none")
    BY <1>7, IdleFields DEF Buffer
  <2>2. Len(queue) = MaxBuffer => queue # <<>>
    BY <1>0, ConstantsAssumption
  <2> QED BY <1>7, <2>1, <2>2 DEF Buffer, Buffers
<1>8. CASE ClientCrash
  <2>1. thread' \in [Threads -> ThreadRecords] /\ \A t \in Threads : thread'[t].pc = "idle"
    BY <1>0, <1>8 DEF ClientCrash
  <2>2. stray' \subseteq InFlight
    BY <1>8 DEF ClientCrash, InFlight
  <2> QED BY <1>8, <2>1, <2>2 DEF ClientCrash, Dies, ClientStep
<1>9. CASE HandleStray \/ Crash
  BY <1>9 DEF HandleStray, Crash, Rests, ClientStep, history
<1>10. ASSUME NEW a \in Anchorers, AnchorRead(a) \/ AnchorPut(a) \/ AnchorEntry(a)
       PROVE  Rests
  BY <1>10 DEF AnchorRead, AnchorPut, AnchorEntry, Rests, client, history
<1>11. CASE Restart \/ VerifyList \/ VerifyWalk \/ UNCHANGED vars
  BY <1>11 DEF Restart, VerifyList, VerifyWalk, vars, Rests, ClientStep, client,
                  history
<1> QED BY <1>1, <1>2, <1>3, <1>4, <1>5, <1>6, <1>7, <1>8, <1>9, <1>10, <1>11
    DEF Next, ClientStep

\* The histories only grow.
Grows ==
  /\ acked \subseteq acked' /\ lost \subseteq lost' /\ returned \subseteq returned'
  /\ Acked \subseteq Acked' /\ Settled \subseteq Settled'
  /\ before' \in Seq(SUBSET Nat) /\ Len(before') >= Len(before)
  /\ Len(before) \in Nat /\ Len(before') \in Nat
  /\ Submissions \subseteq Submissions' /\ \A y \in Submissions : before'[y] = before[y]

\* Every step lets them grow, and a submission keeps the set of those before it.
LEMMA StepGrows ==
  ASSUME TypeInv, FileStep, ClientStep
  PROVE  Grows
<1>1. acked \subseteq acked'
  BY DEF FileStep
<1>2. lost \subseteq lost' /\ returned \subseteq returned'
  BY DEF ClientStep, Rests, Dies, Submits, Flushes, Replies, Pops, Ends, Fails, Buffers
<1>3. before' = before \/ before' = Append(before, returned)
  BY DEF ClientStep, Rests, Dies, Submits, Flushes, Replies, Pops, Ends, Fails, Buffers
<1>4. before \in Seq(SUBSET Nat) /\ returned \in SUBSET Nat
  BY DEF TypeInv
<1>5. /\ before' \in Seq(SUBSET Nat) /\ Len(before') >= Len(before)
      /\ Len(before) \in Nat /\ Len(before') \in Nat
      /\ \A y \in 1..Len(before) : before'[y] = before[y]
  <2>1. CASE before' = before
    BY <1>4, <2>1
  <2>2. CASE before' = Append(before, returned)
    BY <1>4, <2>2
  <2> QED BY <1>3, <2>1, <2>2
<1>6. Acked \subseteq Acked'
  BY <1>1 DEF Acked
<1> QED BY <1>1, <1>2, <1>5, <1>6 DEF Grows, Settled, Submissions

\* A line that is added is of a submission all of whose predecessors are settled, and
\* acknowledged lines come before it.
LEMMA LinesKept ==
  ASSUME TypeInv, DurableInv, NameInv, LockInv, OrderInv, FileStep, Grows
  PROVE  /\ \A i \in 1..Len(chain') : chain'[i].body \in 0..Len(before')
         /\ \A i \in 1..Len(chain') : chain'[i].body # 0 =>
              \A x \in before'[chain'[i].body] :
                x \in lost' \/ \E k \in acked' : k[2] = x /\ k[1] < i
<1> SUFFICES ASSUME NEW i \in 1..Len(chain')
             PROVE  /\ chain'[i].body \in 0..Len(before')
                    /\ chain'[i].body # 0 =>
                         \A x \in before'[chain'[i].body] :
                           x \in lost' \/ \E k \in acked' : k[2] = x /\ k[1] < i
  OBVIOUS
<1>0. /\ Len(chain) \in Nat /\ Len(chain') \in Nat /\ synced \in 0..Len(chain)
      /\ Len(before) \in Nat /\ Len(before') \in Nat /\ Len(before') >= Len(before)
  BY DEF TypeInv, FileStep, Grows
<1>1. CASE i <= Len(chain) /\ chain'[i] = chain[i]
  <2>1. i \in 1..Len(chain)
    BY <1>0, <1>1
  <2>2. chain'[i].body = chain[i].body /\ chain[i].body \in 0..Len(before)
    BY <1>1, <2>1 DEF NameInv
  <2>3. chain[i].body # 0 => before'[chain[i].body] = before[chain[i].body]
    BY <1>0, <2>2 DEF Grows, Submissions
  <2>4. chain[i].body # 0 =>
          \A x \in before[chain[i].body] :
            x \in lost \/ \E k \in acked : k[2] = x /\ k[1] < i
    BY <2>1 DEF OrderInv
  <2> QED BY <1>0, <2>2, <2>3, <2>4 DEF Grows
<1>2. CASE i = Len(chain) + 1 /\ chain'[i].body \in InFlight \union {0}
  <2>1. CASE chain'[i].body = 0
    BY <1>0, <2>1
  <2>2. CASE chain'[i].body \in InFlight
    <3> DEFINE b == chain'[i].body
    <3>1. b \in Submissions /\ before[b] \subseteq Settled
      BY <2>2, InFlightNamed
    <3> HIDE DEF b
    <3>2. before'[b] = before[b] /\ b \in 0..Len(before')
      BY <1>0, <3>1 DEF Grows, Submissions
    <3>3. ASSUME NEW x \in before[b], x \notin lost
          PROVE  \E k \in acked : k[2] = x /\ k[1] < i
      <4>1. PICK k \in acked : k[2] = x
        BY <3>1, <3>3 DEF Settled, Acked
      <4>2. k[1] \in 1..synced
        BY DEF DurableInv
      <4>3. k[1] < i
        BY <1>0, <1>2, <4>2
      <4> QED BY <4>1, <4>3
    <3>4. \A x \in before'[b] : x \in lost' \/ \E k \in acked' : k[2] = x /\ k[1] < i
      BY <3>2, <3>3 DEF Grows
    <3> QED BY <3>2, <3>4 DEF b
  <2> QED BY <1>2, <2>1, <2>2
<1> QED BY <1>1, <1>2 DEF FileStep

\* Types and names of what the client keeps.
LEMMA NamesKept ==
  ASSUME TypeInv, NameInv, LockInv, OrderInv, Grows, ClientStep
  PROVE  /\ queue' \in Seq(Nat) /\ thread' \in [Threads -> ThreadRecords]
         /\ returned' \subseteq Nat
         /\ \A i \in 1..Len(queue') : queue'[i] \in Submissions'
         /\ \A t \in Threads : thread'[t].pc # "idle" => thread'[t].x \in Submissions'
         /\ stray' \subseteq Submissions'
         /\ \A y \in Submissions' : before'[y] \subseteq returned'
<1>0. queue \in Seq(Nat) /\ \A t \in Threads : thread[t] \in ThreadRecords /\ thread[t].x \in Nat
  BY DEF TypeInv, ThreadRecords
<1>1. queue' \in Seq(Nat) /\ \A i \in 1..Len(queue') : queue'[i] \in Submissions'
  <2>1. CASE queue' = queue
    BY <1>0, <2>1 DEF Grows, NameInv
  <2>2. CASE Dies
    BY <2>2 DEF Dies
  <2>3. ASSUME NEW t \in Threads, Pops(t)
        PROVE  queue' \in Seq(Nat) /\ \A i \in 1..Len(queue') : queue'[i] \in Submissions
    <3>1. queue' = Tail(queue) /\ queue # <<>>
      BY <2>3 DEF Pops, LockInv
    <3>2. queue' \in Seq(Nat) /\ \A i \in 1..Len(queue') :
            queue'[i] = queue[i + 1] /\ i + 1 \in 1..Len(queue)
      BY <1>0, <3>1
    <3> QED BY <3>2 DEF NameInv
  <2>4. ASSUME NEW t \in Threads, Buffers(t)
        PROVE  queue' \in Seq(Nat) /\ \A i \in 1..Len(queue') : queue'[i] \in Submissions
    <3>1. thread[t].x \in Submissions /\ thread[t].x \in Nat
      BY <1>0, <2>4 DEF Buffers, NameInv
    <3>2. CASE queue' = Append(queue, thread[t].x)
      <4>1. queue' \in Seq(Nat) /\ \A i \in 1..Len(queue') :
              (i \in 1..Len(queue) /\ queue'[i] = queue[i]) \/ queue'[i] = thread[t].x
        BY <1>0, <3>1, <3>2
      <4> QED BY <3>1, <4>1 DEF NameInv
    <3>3. CASE queue # <<>> /\ queue' = Append(Tail(queue), thread[t].x)
      <4> DEFINE q == Tail(queue)
      <4>1. /\ q \in Seq(Nat) /\ Len(q) = Len(queue) - 1 /\ Len(queue) \in Nat
            /\ \A i \in 1..Len(q) : q[i] = queue[i + 1]
        BY <1>0, <3>3
      <4>2. queue' = Append(q, thread[t].x)
        BY <3>3
      <4> HIDE DEF q
      <4>3. queue' \in Seq(Nat) /\ \A i \in 1..Len(queue') :
              (i + 1 \in 1..Len(queue) /\ queue'[i] = queue[i + 1]) \/ queue'[i] = thread[t].x
        BY <3>1, <4>1, <4>2
      <4> QED BY <3>1, <4>3 DEF NameInv
    <3> QED BY <2>4, <3>2, <3>3 DEF Buffers
  <2> QED BY <2>1, <2>2, <2>3, <2>4 DEF ClientStep, Rests, Submits, Flushes, Replies, Ends, Fails, Grows
<1>2. thread' \in [Threads -> ThreadRecords]
  BY DEF ClientStep, Rests, Dies, Submits, Flushes, Replies, Pops, Ends, Fails, Buffers, Moves, TypeInv
<1>3. returned' \subseteq Nat
  <2>1. returned' = returned \/ \E t \in Threads : returned' = returned \union {thread[t].x}
    BY DEF ClientStep, Rests, Dies, Submits, Flushes, Replies, Pops, Ends, Fails, Buffers
  <2>2. returned \subseteq Nat
    BY DEF TypeInv
  <2>3. ASSUME NEW t \in Threads, returned' = returned \union {thread[t].x}
        PROVE  returned' \subseteq Nat
    <3>1. thread[t].x \in Nat
      BY <1>0
    <3> QED BY <2>2, <2>3, <3>1
  <2>4. CASE returned' = returned
    BY <2>2, <2>4
  <2> QED BY <2>1, <2>3, <2>4
<1>4. ASSUME NEW u \in Threads, thread'[u].pc # "idle"
      PROVE  thread'[u].x \in Submissions'
  <2>1. ASSUME NEW t \in Threads, Submits(t)
        PROVE  thread'[u].x \in Submissions'
    <3>1. u # t => thread'[u] = thread[u]
      BY <2>1 DEF Submits, Moves
    <3>2. u = t => thread'[u].x = Len(before) + 1
      BY <2>1 DEF Submits
    <3>3. Len(before') = Len(before) + 1
      BY <2>1 DEF Submits, TypeInv
    <3> QED BY <1>4, <3>1, <3>2, <3>3 DEF Grows, Submissions, NameInv
  <2>2. CASE thread'[u].x = thread[u].x /\ thread[u].pc # "idle"
    BY <2>2 DEF NameInv, Grows
  <2>3. CASE Rests \/ Dies
    BY <1>4, <2>2, <2>3 DEF Rests, Dies
  <2>4. ASSUME NEW t \in Threads, Flushes(t) \/ Replies(t) \/ Pops(t) \/ Ends(t) \/ Fails(t)
                                  \/ Buffers(t)
        PROVE  thread'[u].x = thread[u].x /\ thread[u].pc # "idle"
    BY <1>4, <2>4 DEF Flushes, Replies, Pops, Ends, Fails, Buffers, Moves, Keeps, Calling
  <2> QED BY <2>1, <2>2, <2>3, <2>4 DEF ClientStep
<1>5. stray' \subseteq Submissions'
  <2>1. InFlight \subseteq Submissions
    BY InFlightNamed
  <2> QED BY <2>1 DEF ClientStep, Rests, Dies, Submits, Flushes, Replies, Pops, Ends, Fails,
                      Buffers, NameInv, Grows
<1>6. \A y \in Submissions' : before'[y] \subseteq returned'
  <2>1. CASE before' = before
    BY <2>1 DEF NameInv, Grows, Submissions
  <2>2. CASE before' = Append(before, returned)
    <3>1. /\ Len(before') = Len(before) + 1 /\ before'[Len(before) + 1] = returned
          /\ \A y \in 1..Len(before) : before'[y] = before[y]
      BY <2>2 DEF TypeInv
    <3> QED BY <3>1 DEF NameInv, Grows, Submissions
  <2> QED BY <2>1, <2>2 DEF ClientStep, Rests, Dies, Submits, Flushes, Replies, Pops, Ends,
                            Fails, Buffers
<1> QED BY <1>1, <1>2, <1>3, <1>4, <1>5, <1>6

\* The thread that flushes is alone with the buffer.
LEMMA LockKept ==
  ASSUME TypeInv, LockInv, Grows, ClientStep
  PROVE  LockInv'
<1> SUFFICES ASSUME NEW u \in Threads
             PROVE  /\ thread'[u].pc = "flushing" => holder' = u /\ queue' # <<>>
                    /\ thread'[u].reply = "done" =>
                         /\ thread'[u].pc = "flushing" => Head(queue') \in Acked'
                         /\ thread'[u].pc = "sending" => thread'[u].x \in Acked'
  BY DEF LockInv
<1>0. /\ thread[u].pc = "flushing" => holder = u /\ queue # <<>>
      /\ thread[u].reply = "done" =>
           /\ thread[u].pc = "flushing" => Head(queue) \in Acked
           /\ thread[u].pc = "sending" => thread[u].x \in Acked
      /\ u # None
  BY ConstantsAssumption DEF LockInv
<1>1. CASE thread'[u] = thread[u] /\ queue' = queue /\ (holder = u => holder' = u)
  BY <1>0, <1>1 DEF Grows
<1>2. CASE Rests \/ Dies
  BY <1>1, <1>2 DEF Rests, Dies
<1>3. ASSUME NEW t \in Threads, t # u,
             Submits(t) \/ Flushes(t) \/ Replies(t) \/ Ends(t) \/ Fails(t)
      PROVE  thread'[u] = thread[u] /\ queue' = queue /\ (holder = u => holder' = u)
  BY <1>0, <1>3 DEF Submits, Flushes, Replies, Ends, Fails, Moves
<1>4. ASSUME NEW t \in Threads, t # u, Pops(t) \/ Buffers(t)
      PROVE  thread'[u] = thread[u] /\ thread[u].pc # "flushing"
  BY <1>0, <1>4 DEF Pops, Buffers, Moves, LockInv
<1>5. CASE Submits(u) \/ Ends(u) \/ Fails(u) \/ Buffers(u)
  BY <1>5 DEF Submits, Ends, Fails, Buffers, Moves
<1>6. CASE Flushes(u)
  BY <1>6 DEF Flushes, Moves
<1>7. CASE Replies(u)
  <2>1. thread'[u].pc = thread[u].pc /\ thread'[u].x = thread[u].x /\ queue' = queue
        /\ holder' = holder /\ (thread'[u].reply = "done" => Request(u) \in Acked')
    BY <1>7 DEF Replies, Moves, Keeps
  <2> QED BY <1>0, <2>1 DEF Request
<1>8. CASE Pops(u)
  BY <1>0, <1>8 DEF Pops, Moves
<1> QED BY <1>0, <1>1, <1>2, <1>3, <1>4, <1>5, <1>6, <1>7, <1>8 DEF ClientStep, Grows

\* The buffer covers what has returned, in order.
LEMMA BufferKept ==
  ASSUME TypeInv, NameInv, LockInv, ReturnInv, OrderInv, Grows, ClientStep
  PROVE  Covered(queue', returned', Settled') /\ Ordered(queue', before', Settled')
<1>0. /\ queue \in Seq(Nat) /\ \A t \in Threads : thread[t] \in ThreadRecords
      /\ Covered(queue, returned, Settled) /\ Ordered(queue, before, Settled)
      /\ Settled \subseteq Settled' /\ Acked \subseteq Settled
  BY DEF TypeInv, ReturnInv, OrderInv, Grows, Settled
<1>1. Covered(queue, returned, Settled') /\ Ordered(queue, before, Settled')
  BY <1>0, MoreSettled
<1>2. CASE UNCHANGED <<queue, before, returned>>
  BY <1>1, <1>2
<1>3. CASE Rests
  BY <1>2, <1>3 DEF Rests
<1>4. CASE Dies
  <2>1. queue' = <<>> /\ \A i \in 1..Len(queue) : queue[i] \in Settled'
    BY <1>4 DEF Dies, Settled
  <2>2. Covered(queue', returned', Settled')
    BY <1>1, <1>4, <2>1 DEF Covered, Dies
  <2> QED BY <2>1, <2>2 DEF Ordered
<1>5. ASSUME NEW t \in Threads, Submits(t)
      PROVE  Covered(queue', returned', Settled') /\ Ordered(queue', before', Settled')
  <2>1. queue' = queue /\ returned' = returned
    BY <1>5 DEF Submits
  <2>2. \A i \in 1..Len(queue) : before'[queue[i]] = before[queue[i]]
    BY DEF NameInv, Grows
  <2> QED BY <1>1, <2>1, <2>2 DEF Ordered
<1>6. ASSUME NEW t \in Threads, Flushes(t) \/ Replies(t) \/ Fails(t)
      PROVE  UNCHANGED <<queue, before, returned>>
  BY <1>6 DEF Flushes, Replies, Fails
<1>7. ASSUME NEW t \in Threads, Pops(t)
      PROVE  Covered(queue', returned', Settled') /\ Ordered(queue', before', Settled')
  <2>1. queue # <<>> /\ Head(queue) \in Settled' /\ queue' = Tail(queue)
    BY <1>0, <1>7 DEF Pops, LockInv
  <2>2. Covered(Tail(queue), returned, Settled') /\ Ordered(Tail(queue), before, Settled')
    BY <1>0, <1>1, <2>1, DropHead
  <2> QED BY <1>7, <2>1, <2>2 DEF Pops
<1>8. ASSUME NEW t \in Threads, Ends(t)
      PROVE  Covered(queue', returned', Settled') /\ Ordered(queue', before', Settled')
  <2>1. thread[t].x \in Settled'
    BY <1>0, <1>8 DEF Ends, LockInv
  <2> QED BY <1>1, <1>8, <2>1 DEF Ends, Covered
<1>9. ASSUME NEW t \in Threads, Buffers(t)
      PROVE  Covered(queue', returned', Settled') /\ Ordered(queue', before', Settled')
  <2> DEFINE y == thread[t].x
  <2>1. y \in Nat /\ before[y] \subseteq returned
    BY <1>0, <1>9 DEF Buffers, NameInv, ThreadRecords
  <2>2. returned' = returned \union {y} /\ before' = before
    BY <1>9 DEF Buffers
  <2>3. CASE queue' = Append(queue, y)
    BY <1>0, <1>1, <2>1, <2>2, <2>3, PutLast
  <2>4. CASE /\ queue # <<>> /\ queue' = Append(Tail(queue), y)
             /\ lost' = lost \union {Head(queue)}
    <3>1. Head(queue) \in Settled'
      BY <2>4 DEF Settled
    <3>2. /\ Tail(queue) \in Seq(Nat)
          /\ Covered(Tail(queue), returned, Settled') /\ Ordered(Tail(queue), before, Settled')
      BY <1>0, <1>1, <2>4, <3>1, DropHead
    <3> HIDE DEF y
    <3>3. /\ Covered(Append(Tail(queue), y), returned \union {y}, Settled')
          /\ Ordered(Append(Tail(queue), y), before, Settled')
      BY <2>1, <3>2, PutLast
    <3> QED BY <2>2, <2>4, <3>3
  <2> QED BY <1>9, <2>3, <2>4 DEF Buffers
<1> QED BY <1>2, <1>3, <1>4, <1>5, <1>6, <1>7, <1>8, <1>9 DEF ClientStep

\* A submission is sent, or left to the sequencer, only after all that came before it.
LEMMA SendingKept ==
  ASSUME TypeInv, NameInv, LockInv, ReturnInv, OrderInv, Grows, ClientStep,
         Covered(queue', returned', Settled')
  PROVE  /\ \A t \in Threads : thread'[t].pc = "sending" => before'[thread'[t].x] \subseteq Settled'
         /\ \A b \in stray' : before'[b] \subseteq Settled'
<1>1. ASSUME NEW u \in Threads, thread'[u].pc = "sending"
      PROVE  before'[thread'[u].x] \subseteq Settled'
  <2>1. CASE thread[u].pc = "sending" /\ thread'[u].x = thread[u].x
    <3>1. thread[u].x \in Submissions /\ before[thread[u].x] \subseteq Settled
      BY <2>1 DEF NameInv, OrderInv
    <3> QED BY <2>1, <3>1 DEF Grows
  <2>2. CASE /\ thread[u].pc # "idle" /\ thread'[u].x = thread[u].x
             /\ queue' = <<>> /\ returned' = returned
    <3>1. thread[u].x \in Submissions /\ before[thread[u].x] \subseteq returned
      BY <2>2 DEF NameInv
    <3>2. returned \subseteq Settled'
      BY <2>2 DEF Covered
    <3> QED BY <2>2, <3>1, <3>2 DEF Grows
  <2>3. CASE Rests \/ Dies
    BY <1>1, <2>1, <2>3 DEF Rests, Dies
  <2>4. ASSUME NEW t \in Threads, t # u, Submits(t) \/ Flushes(t) \/ Replies(t) \/ Pops(t)
                                         \/ Ends(t) \/ Fails(t) \/ Buffers(t)
        PROVE  thread'[u] = thread[u]
    BY <2>4 DEF Submits, Flushes, Replies, Pops, Ends, Fails, Buffers, Moves
  <2>5. CASE Submits(u) \/ Ends(u) \/ Fails(u) \/ Buffers(u)
    BY <1>1, <2>5 DEF Submits, Ends, Fails, Buffers, Moves
  <2>6. CASE Replies(u)
    BY <1>1, <2>1, <2>6 DEF Replies, Moves, Keeps
  <2>7. CASE Flushes(u) \/ Pops(u)
    BY <1>1, <2>2, <2>7 DEF Flushes, Pops, Moves, Keeps
  <2> QED BY <1>1, <2>1, <2>3, <2>4, <2>5, <2>6, <2>7 DEF ClientStep
<1>2. ASSUME NEW b \in stray'
      PROVE  before'[b] \subseteq Settled'
  <2>1. b \in InFlight
    BY <1>2 DEF ClientStep, Rests, Dies, Submits, Flushes, Replies, Pops, Ends, Fails, Buffers,
                InFlight
  <2>2. b \in Submissions /\ before[b] \subseteq Settled
    BY <2>1, InFlightNamed
  <2> QED BY <2>2 DEF Grows
<1> QED BY <1>1, <1>2

-----------------------------------------------------------------------------
(* The invariant.                                                          *)

\* The file is empty and nobody has submitted anything.
LEMMA InitInv == Init => Inv
<1> SUFFICES ASSUME Init
             PROVE  Inv
  OBVIOUS
<1>1. Idle \in ThreadRecords /\ Idle.pc = "idle" /\ Idle.reply = "none"
  BY DEF Idle, ThreadRecords, ThreadPCs
<1>2. \A t \in Threads : thread[t] = Idle
  BY DEF Init
<1> HIDE DEF Idle
<1>3. TypeInv
  <2>1. /\ thread \in [Threads -> ThreadRecords]
        /\ anchoring \in [Anchorers -> AnchorRecords \union {None}]
    BY <1>1 DEF Init
  <2>2. chain \in Seq(Lines) /\ queue \in Seq(Nat) /\ before \in Seq(SUBSET Nat)
    BY DEF Init
  <2>3. Len(chain) = 0 /\ synced = 0
    BY DEF Init
  <2>4. head \in Heads
    BY DEF Init, Heads, GENESIS
  <2>5. /\ up = TRUE /\ excused = FALSE /\ seq = 0 /\ faults = 0
        /\ anchors = {} /\ returned = {} /\ acked = {}
    BY DEF Init
  <2>6. synced \in 0..Len(chain) /\ seq \in Nat /\ faults \in Nat
    BY <2>3, <2>5
  <2>7. up \in BOOLEAN /\ excused \in BOOLEAN
    BY <2>5, Zenon
  <2>8. /\ anchors \subseteq [seq : Nat, head : Heads]
        /\ returned \subseteq Nat /\ acked \subseteq Nat \X Nat
    BY <2>5
  <2> QED BY <2>1, <2>2, <2>4, <2>6, <2>7, <2>8, Zenon DEF TypeInv
<1>4. DurableInv /\ NameInv /\ LockInv /\ ReturnInv /\ OrderInv
  BY <1>1, <1>2 DEF Init, DurableInv, NameInv, LockInv, ReturnInv, OrderInv, Submissions,
                    Covered, Ordered
<1>5. ChainInv /\ BareInv
  BY DEF Init, ChainInv, Sound, Linked, Hash, BareInv
<1> QED BY <1>3, <1>4, <1>5 DEF Inv

\* Every step keeps the invariant.
LEMMA InvInductive ==
  ASSUME Inv, [Next]_vars
  PROVE  Inv'
<1>1. /\ TypeInv /\ DurableInv /\ NameInv /\ LockInv /\ ReturnInv /\ OrderInv
      /\ ChainInv /\ BareInv
  BY DEF Inv
<1>2. FileStep /\ FileTypes'
  BY <1>1, FileSteps
<1>3. ClientStep
  BY <1>1, ClientKinds
<1>4. Grows
  BY <1>1, <1>2, <1>3, StepGrows
<1>5. /\ queue' \in Seq(Nat) /\ thread' \in [Threads -> ThreadRecords]
      /\ returned' \subseteq Nat
      /\ \A i \in 1..Len(queue') : queue'[i] \in Submissions'
      /\ \A t \in Threads : thread'[t].pc # "idle" => thread'[t].x \in Submissions'
      /\ stray' \subseteq Submissions'
      /\ \A y \in Submissions' : before'[y] \subseteq returned'
  BY <1>1, <1>3, <1>4, NamesKept
<1>6. /\ \A i \in 1..Len(chain') : chain'[i].body \in 0..Len(before')
      /\ \A i \in 1..Len(chain') : chain'[i].body # 0 =>
           \A x \in before'[chain'[i].body] :
             x \in lost' \/ \E k \in acked' : k[2] = x /\ k[1] < i
  BY <1>1, <1>2, <1>4, LinesKept
<1>7. Covered(queue', returned', Settled') /\ Ordered(queue', before', Settled')
  BY <1>1, <1>3, <1>4, BufferKept
<1>8. /\ \A t \in Threads : thread'[t].pc = "sending" => before'[thread'[t].x] \subseteq Settled'
      /\ \A b \in stray' : before'[b] \subseteq Settled'
  BY <1>1, <1>3, <1>4, <1>7, SendingKept
<1>9. TypeInv'
  <2>1. acked' \subseteq Nat \X Nat
    <3>1. Len(chain') \in Nat /\ \A b \in InFlight : b \in Nat
      BY <1>1, <1>2, InFlightNamed DEF FileStep
    <3> QED BY <1>1, <1>2, <3>1 DEF FileStep, TypeInv
  <2>2. chain' \in Seq(Lines) /\ synced' \in 0..Len(chain')
    BY <1>1, <1>2 DEF FileStep, TypeInv
  <2>3. before' \in Seq(SUBSET Nat)
    BY <1>4 DEF Grows
  <2> QED BY <1>2, <1>5, <2>1, <2>2, <2>3 DEF TypeInv, FileTypes
<1>10. DurableInv'
  BY <1>1, <1>2, DurableKept
<1>11. NameInv'
  BY <1>5, <1>6 DEF NameInv
<1>12. LockInv'
  BY <1>1, <1>3, <1>4, LockKept
<1>13. ReturnInv' /\ OrderInv'
  BY <1>6, <1>7, <1>8 DEF ReturnInv, OrderInv, Covered, Ordered
<1>14. ChainInv' /\ BareInv'
  BY <1>1, ChainKept, BareKept
<1> QED BY <1>9, <1>10, <1>11, <1>12, <1>13, <1>14 DEF Inv

\* It holds throughout.
LEMMA InvHolds == Spec => []Inv
<1>1. Inv /\ [Next]_vars => Inv'
  BY InvInductive
<1> QED BY <1>1, InitInv, PTL DEF Spec

-----------------------------------------------------------------------------
(* Theorems.                                                               *)

\* A submission that is acknowledged has a first copy, at its acknowledged line or before it.
LEMMA AckedIsCopied ==
  ASSUME Inv, NEW k \in acked
  PROVE  /\ k[1] \in 1..Len(chain) /\ chain[k[1]].body = k[2]
         /\ FirstCopy(k[2]) \in 1..k[1]
<1>1. Len(chain) \in Nat /\ synced \in 0..Len(chain)
  BY DEF Inv, TypeInv
<1>2. k[1] \in 1..synced /\ chain[k[1]].body = k[2]
  BY DEF Inv, DurableInv
<1>3. k[1] \in 1..Len(chain)
  BY <1>1, <1>2
<1> QED BY <1>1, <1>2, <1>3, FirstCopyIsFirst

\* What the sequencer has acknowledged stays in the chain at its place, whatever crashes
\* and failed writes follow: _append syncs before it answers and _load keeps the file. It
\* can be read back, unless it was written behind a line that had lost its newline.
THEOREM AckedDurable == Spec => []AckedIsDurable
<1>1. Inv => AckedIsDurable
  <2> SUFFICES ASSUME Inv, NEW k \in acked
               PROVE  /\ k[1] <= Len(chain) /\ chain[k[1]].body = k[2]
                      /\ Readable(k[1]) \/ \E b \in bare : b < k[1]
    BY DEF AckedIsDurable
  <2>1. Len(chain) \in Nat
    BY DEF Inv, TypeInv
  <2>2. k[1] \in 1..Len(chain) /\ chain[k[1]].body = k[2]
    BY AckedIsCopied
  <2>3. k[1] \notin bare /\ bare \subseteq 1..Len(chain)
    BY DEF Inv, BareInv
  <2>4. \A b \in bare : b <= k[1] => b < k[1]
    BY <2>1, <2>2, <2>3
  <2> QED BY <2>1, <2>2, <2>4 DEF Readable
<1> QED BY <1>1, InvHolds, PTL

\* verify_chain and the check at the start of the sequencer find fault only with a torn
\* line or two joined ones, or after a failed write or an anchor stored for a line that no fsync had covered.
THEOREM NoAlarm == Spec => []NoFalseAlarm
<1>1. Inv => NoFalseAlarm
  BY DEF Inv, ChainInv, BareInv, Sound, NoFalseAlarm
<1> QED BY <1>1, InvHolds, PTL

\* A submission whose call returned is chained, buffered, or known to be lost by a full
\* buffer or a dying client.
THEOREM NothingIsForgotten == Spec => []NothingForgotten
<1>1. Inv => NothingForgotten
  <2> SUFFICES ASSUME Inv, NEW x \in returned
               PROVE  \/ FirstCopy(x) > 0
                      \/ \E i \in 1..Len(queue) : queue[i] = x
                      \/ x \in lost
    BY DEF NothingForgotten
  <2>1. CASE x \in Acked
    <3>1. PICK k \in acked : k[2] = x
      BY <2>1 DEF Acked
    <3>2. FirstCopy(x) \in 1..k[1]
      BY <3>1, AckedIsCopied
    <3> QED BY <3>2
  <2>2. CASE x \notin Settled
    BY <2>2 DEF Inv, ReturnInv, Covered
  <2> QED BY <2>1, <2>2 DEF Settled
<1> QED BY <1>1, InvHolds, PTL

\* Of two submissions made one after the other the later one is not chained first, unless
\* the client lost the earlier one: submit flushes its buffer before it sends.
THEOREM FlushesInOrder == Spec => []FlushedInOrder
<1>1. Inv => FlushedInOrder
  <2> SUFFICES ASSUME Inv, NEW y \in 1..Len(before), NEW x \in before[y],
                      FirstCopy(y) > 0, x \notin lost
               PROVE  FirstCopy(x) \in 1..FirstCopy(y)
    BY DEF FlushedInOrder
  <2>1. Len(chain) \in Nat
    BY DEF Inv, TypeInv
  <2>2. PICK i \in 1..Len(chain) : chain[i].body = y
    BY DEF FirstCopy
  <2>3. FirstCopy(y) \in 1..Len(chain) /\ chain[FirstCopy(y)].body = y
    BY <2>1, <2>2, FirstCopyIsFirst
  <2>4. PICK k \in acked : k[2] = x /\ k[1] < FirstCopy(y)
    BY <2>3 DEF Inv, OrderInv
  <2>5. k[1] \in 1..Len(chain) /\ FirstCopy(x) \in 1..k[1]
    BY <2>4, AckedIsCopied
  <2> QED BY <2>1, <2>3, <2>4, <2>5
<1> QED BY <1>1, InvHolds, PTL
=============================================================================
