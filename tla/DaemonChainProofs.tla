-------------------------- MODULE DaemonChainProofs --------------------------
(***************************************************************************)
(* Proofs about DaemonChain, for any number of lines, crashes, restarts    *)
(* and failing calls, whatever else may go wrong.                          *)
(***************************************************************************)
EXTENDS DaemonChain, TLAPS

Heads == [seq : Nat, head : Seq(Nat)] \union {NoHead}
Requests == [pc : {"none", "sent", "checked"}, ckpt : Heads, since : Heads]
BrokerRecords == [pc : {"idle", "asked", "sent", "dead"}, since : Int]

own == request["own"]
stray == request["stray"]

TypeInv ==
  /\ file \in Seq(Nat) /\ unsynced \in Nat /\ made \in Nat
  /\ up => count = Len(file)
  /\ last \in Heads /\ recorded \in Heads
  /\ broker \in BrokerRecords /\ request \in [Slots -> Requests]
  /\ stray # NoRequest => "stray" \in excused

\* Head h is what the file holds up to some line.
InFile(h) == h = NoHead \/ (h.seq \in 0..Len(file) /\ h.head = SubSeq(file, 1, h.seq))

\* The record is behind what the sequencer remembers, and a request under way is ahead of
\* what it answers for, or of what it was checked against.
OrderInv ==
  /\ IsPrefix(recorded.head, last.head)
  /\ own.pc = "sent" => IsPrefix(own.since.head, own.ckpt.head)
  /\ own.pc = "checked" => IsPrefix(last.head, own.ckpt.head)

\* All that is remembered and on its way is what the file holds, and continues the last
\* checkpoint: the broker asks, fetches and records one thing after the other.
SoundInv ==
  /\ ~alarm /\ last = recorded /\ InFile(last)
  /\ broker.pc \in {"idle", "asked"} => own.pc = "none"
  /\ broker.pc = "asked" => broker.since = last.seq
  /\ own.pc # "none" => InFile(own.ckpt) /\ Continues(own)

Inv ==
  /\ TypeInv
  /\ "stray" \notin excused => OrderInv
  /\ excused = {} => SoundInv

-----------------------------------------------------------------------------
(* Prefixes.                                                               *)

\* The first lines of a file.
LEMMA FirstLines ==
  ASSUME NEW f \in Seq(Nat), NEW n \in 0..Len(f)
  PROVE  /\ SubSeq(f, 1, n) \in Seq(Nat) /\ Len(SubSeq(f, 1, n)) = n
         /\ \A i \in 1..n : SubSeq(f, 1, n)[i] = f[i]
OBVIOUS

\* Sequences of lines are equal when their lines are.
LEMMA SameLines ==
  ASSUME NEW s \in Seq(Nat), NEW t \in Seq(Nat), Len(s) = Len(t),
         \A i \in 1..Len(s) : s[i] = t[i]
  PROVE  s = t
OBVIOUS

\* A prefix agrees with the longer sequence line by line.
LEMMA PrefixByLines ==
  ASSUME NEW s \in Seq(Nat), NEW t \in Seq(Nat)
  PROVE  IsPrefix(s, t) <=> Len(s) <= Len(t) /\ \A i \in 1..Len(s) : s[i] = t[i]
<1>1. Len(s) \in Nat /\ Len(t) \in Nat /\ Len(s) \in 0..Len(s)
  OBVIOUS
<1>2. CASE Len(s) <= Len(t)
  <2> DEFINE a == SubSeq(s, 1, Len(s))
             b == SubSeq(t, 1, Len(s))
  <2>1. Len(s) \in 0..Len(t)
    BY <1>1, <1>2
  <2>2. /\ a \in Seq(Nat) /\ Len(a) = Len(s) /\ \A i \in 1..Len(s) : a[i] = s[i]
        /\ b \in Seq(Nat) /\ Len(b) = Len(s) /\ \A i \in 1..Len(s) : b[i] = t[i]
    BY <1>1, <2>1, FirstLines
  <2>3. IsPrefix(s, t) <=> a = b
    BY <1>2 DEF IsPrefix
  <2> HIDE DEF a, b
  <2>4. (\A i \in 1..Len(s) : s[i] = t[i]) => a = b
    BY <2>2, SameLines
  <2> QED BY <1>2, <2>2, <2>3, <2>4
<1>3. CASE ~(Len(s) <= Len(t))
  BY <1>3 DEF IsPrefix
<1> QED BY <1>2, <1>3

\* The order of prefixes, and its least element.
LEMMA PrefixOrder ==
  ASSUME NEW s \in Seq(Nat)
  PROVE  /\ IsPrefix(s, s) /\ IsPrefix(<<>>, s)
         /\ \A t, u \in Seq(Nat) : IsPrefix(s, t) /\ IsPrefix(t, u) => IsPrefix(s, u)
<1>1. IsPrefix(s, s)
  BY PrefixByLines
<1>2. IsPrefix(<<>>, s)
  <2> DEFINE e == <<>>
  <2>1. e \in Seq(Nat) /\ Len(e) = 0 /\ Len(s) \in Nat
    OBVIOUS
  <2> HIDE DEF e
  <2>2. Len(e) <= Len(s) /\ \A i \in 1..Len(e) : e[i] = s[i]
    BY <2>1
  <2>3. IsPrefix(e, s)
    BY <2>1, <2>2, PrefixByLines
  <2> QED BY <2>3 DEF e
<1>3. ASSUME NEW t \in Seq(Nat), NEW u \in Seq(Nat), IsPrefix(s, t), IsPrefix(t, u)
      PROVE  IsPrefix(s, u)
  <2>1. Len(s) <= Len(t) /\ \A i \in 1..Len(s) : s[i] = t[i]
    BY <1>3, PrefixByLines
  <2>4. Len(t) <= Len(u) /\ \A i \in 1..Len(t) : t[i] = u[i]
    BY <1>3, PrefixByLines
  <2>2. Len(s) \in Nat /\ Len(t) \in Nat /\ Len(u) \in Nat
    OBVIOUS
  <2>3. Len(s) <= Len(u) /\ \A i \in 1..Len(s) : s[i] = u[i]
    BY <2>1, <2>2, <2>4
  <2> QED BY <2>3, PrefixByLines
<1> QED BY <1>1, <1>2, <1>3

\* Two heads of one file.
LEMMA HeadsOfOneFile ==
  ASSUME NEW f \in Seq(Nat), NEW m \in 0..Len(f), NEW n \in 0..m
  PROVE  IsPrefix(SubSeq(f, 1, n), SubSeq(f, 1, m))
<1>1. n \in 0..Len(f)
  OBVIOUS
<1>2. /\ SubSeq(f, 1, n) \in Seq(Nat) /\ Len(SubSeq(f, 1, n)) = n
      /\ \A i \in 1..n : SubSeq(f, 1, n)[i] = f[i]
      /\ SubSeq(f, 1, m) \in Seq(Nat) /\ Len(SubSeq(f, 1, m)) = m
      /\ \A i \in 1..m : SubSeq(f, 1, m)[i] = f[i]
  BY <1>1, FirstLines
<1> DEFINE a == SubSeq(f, 1, n)
           b == SubSeq(f, 1, m)
<1>3. a \in Seq(Nat) /\ b \in Seq(Nat) /\ Len(a) <= Len(b) /\ \A i \in 1..Len(a) : a[i] = b[i]
  BY <1>2
<1> HIDE DEF a, b
<1>4. IsPrefix(a, b)
  BY <1>3, PrefixByLines
<1> QED BY <1>4 DEF a, b

\* A line that is added changes no head.
LEMMA HeadsStay ==
  ASSUME NEW f \in Seq(Nat), NEW x \in Nat, NEW n \in 0..Len(f)
  PROVE  /\ Append(f, x) \in Seq(Nat) /\ n \in 0..Len(Append(f, x))
         /\ SubSeq(Append(f, x), 1, n) = SubSeq(f, 1, n)
<1> DEFINE g == Append(f, x)
<1>1. g \in Seq(Nat) /\ Len(g) = Len(f) + 1 /\ \A i \in 1..Len(f) : g[i] = f[i]
  OBVIOUS
<1> HIDE DEF g
<1>2. n \in 0..Len(g)
  BY <1>1
<1>3. /\ SubSeq(f, 1, n) \in Seq(Nat) /\ Len(SubSeq(f, 1, n)) = n
      /\ \A i \in 1..n : SubSeq(f, 1, n)[i] = f[i]
      /\ SubSeq(g, 1, n) \in Seq(Nat) /\ Len(SubSeq(g, 1, n)) = n
      /\ \A i \in 1..n : SubSeq(g, 1, n)[i] = g[i]
  BY <1>1, <1>2, FirstLines
<1>4. SubSeq(g, 1, n) = SubSeq(f, 1, n)
  BY <1>1, <1>3, SameLines
<1> QED BY <1>1, <1>2, <1>4 DEF g

-----------------------------------------------------------------------------
(* Heads and requests.                                                     *)

\* A head has a place in the file and lines up to it, or is no head.
LEMMA HeadFields ==
  /\ NoHead \in Heads /\ NoHead.seq = -1 /\ NoHead.head = <<>>
  /\ \A h \in Heads : /\ h.head \in Seq(Nat) /\ h.seq \in Int
                      /\ h.seq >= 0 => h.seq \in Nat
                      /\ ~(h.seq >= 0) => h = NoHead
<1>1. NoHead \in Heads /\ NoHead.seq = -1 /\ NoHead.head = <<>>
  BY DEF NoHead, Heads
<1>2. <<>> \in Seq(Nat)
  OBVIOUS
<1>3. ASSUME NEW h \in Heads
      PROVE  /\ h.head \in Seq(Nat) /\ h.seq \in Int
             /\ h.seq >= 0 => h.seq \in Nat
             /\ ~(h.seq >= 0) => h = NoHead
  <2>1. CASE h = NoHead
    <3>1. h.seq = -1 /\ h.head = <<>>
      BY <1>1, <2>1
    <3>2. h.head \in Seq(Nat)
      BY <1>2, <3>1, Zenon
    <3> QED BY <2>1, <3>1, <3>2
  <2>2. CASE h \in [seq : Nat, head : Seq(Nat)]
    <3>1. h.seq \in Nat /\ h.head \in Seq(Nat)
      BY <2>2
    <3> QED BY <3>1
  <2> QED BY <2>1, <2>2 DEF Heads
<1> QED BY <1>1, <1>3

\* No request.
LEMMA NoRequestFields == NoRequest \in Requests /\ NoRequest.pc = "none"
<1>1. NoHead \in Heads
  BY HeadFields
<1> QED BY <1>1 DEF NoRequest, Requests

\* One of the two requests changes.
LEMMA RequestSet ==
  ASSUME TypeInv, NEW s \in Slots, NEW r \in Requests, request' = [request EXCEPT ![s] = r]
  PROVE  /\ request' \in [Slots -> Requests] /\ request'[s] = r
         /\ \A u \in Slots \ {s} : request'[u] = request[u]
BY DEF TypeInv

\* A head of the file up to a line that it has.
LEMMA HeadAtFields ==
  ASSUME TypeInv, NEW n \in 0..Len(file)
  PROVE  HeadAt(n) \in Heads /\ InFile(HeadAt(n)) /\ HeadAt(n).seq = n
         /\ HeadAt(n).head = SubSeq(file, 1, n)
<1>1. SubSeq(file, 1, n) \in Seq(Nat) /\ n \in Nat
  BY FirstLines DEF TypeInv
<1> QED BY <1>1 DEF HeadAt, Heads, InFile

-----------------------------------------------------------------------------
(* The daemon.                                                             *)

\* What the daemon and its restarts do: nothing to the record, and a line to the file;
\* only a replaced file is another one.
FileSteps ==
  /\ UNCHANGED <<sequencer, broker, request, alarm>>
  /\ file' \in Seq(Nat) /\ unsynced' \in Nat /\ made' \in Nat
  /\ up' => count' = Len(file')
  /\ \/ file' = file /\ excused' = excused
     \/ excused' = excused /\ \E x \in Nat : file' = Append(file, x)
     \/ excused' = excused \union {"changed"}

\* Every step of the daemon is one of these.
LEMMA DaemonSteps ==
  ASSUME TypeInv, WriteLine \/ SyncLine \/ DaemonCrash \/ DaemonStart \/ FileReplaced
  PROVE  FileSteps
<1>0. /\ file \in Seq(Nat) /\ unsynced \in Nat /\ made \in Nat /\ made + 1 \in Nat
      /\ Append(file, unsynced) \in Seq(Nat)
      /\ Len(Append(file, unsynced)) = Len(file) + 1
      /\ up => count = Len(file)
  BY DEF TypeInv
<1>1. CASE WriteLine
  BY <1>0, <1>1 DEF WriteLine, FileSteps
<1>2. CASE SyncLine
  BY <1>0, <1>2 DEF SyncLine, FileSteps
<1>3. CASE DaemonCrash
  BY <1>0, <1>3 DEF DaemonCrash, FileSteps
<1>4. CASE DaemonStart
  BY <1>0, <1>4 DEF DaemonStart, CountedAtStart, FileSteps
<1>5. CASE FileReplaced
  <2>1. PICK k \in 0 .. Len(file) - 1 :
          \/ file' = SubSeq(file, 1, k) /\ made' = made
          \/ made' = made + 1 /\ file' = Append(SubSeq(file, 1, k), made + 1)
    BY <1>5 DEF FileReplaced
  <2>2. k \in 0..Len(file)
    BY <1>0, <2>1
  <2>3. SubSeq(file, 1, k) \in Seq(Nat)
    BY <1>0, <2>2, FirstLines
  <2> DEFINE part == SubSeq(file, 1, k)
  <2> HIDE DEF part
  <2>4. part \in Seq(Nat) /\ Append(part, made + 1) \in Seq(Nat)
    <3>1. part \in Seq(Nat)
      BY <2>3 DEF part
    <3> QED BY <1>0, <3>1
  <2>5. file' \in Seq(Nat) /\ made' \in Nat
    BY <1>0, <2>1, <2>4 DEF part
  <2> QED BY <1>0, <1>5, <2>5 DEF FileReplaced, FileSteps
<1> QED BY <1>1, <1>2, <1>3, <1>4, <1>5

\* They keep the invariant.
LEMMA DaemonKept ==
  ASSUME Inv, FileSteps
  PROVE  Inv'
<1>1. UNCHANGED <<last, recorded, broker, request, own, stray, alarm>> /\ excused \subseteq excused'
  BY DEF FileSteps, sequencer, own, stray
<1>2. TypeInv'
  BY <1>1 DEF Inv, TypeInv, FileSteps
<1>3. "stray" \notin excused' => OrderInv'
  BY <1>1 DEF Inv, OrderInv
<1>4. ASSUME excused' = {}
      PROVE  SoundInv'
  <2>1. excused = {} /\ SoundInv
    BY <1>1, <1>4 DEF Inv
  <2>2. ASSUME NEW h, InFile(h)
        PROVE  InFile(h)'
    <3>1. file' = file \/ \E x \in Nat : file' = Append(file, x)
      BY <1>4 DEF FileSteps
    <3>2. file \in Seq(Nat)
      BY DEF Inv, TypeInv
    <3> QED BY <2>2, <3>1, <3>2, HeadsStay DEF InFile
  <2>3. InFile(last) => InFile(last)'
    BY <1>1, <2>2 DEF InFile
  <2>4. InFile(own.ckpt) => InFile(own.ckpt)'
    BY <1>1, <2>2 DEF InFile
  <2>5. Continues(own) => Continues(own)'
    BY <1>1 DEF Continues
  <2> QED BY <1>1, <2>1, <2>3, <2>4, <2>5 DEF SoundInv
<1> QED BY <1>2, <1>3, <1>4 DEF Inv

-----------------------------------------------------------------------------
(* The broker.                                                             *)

\* The checkpoint that the daemon answers with, and its answer for the last one, are
\* what the file holds; it answers for every line that it has.
LEMMA CheckpointFields ==
  ASSUME TypeInv, up, NEW n \in Int
  PROVE  /\ Checkpoint(n) \in Requests /\ Checkpoint(n).pc = "sent"
         /\ InFile(Checkpoint(n).ckpt) /\ Checkpoint(n).ckpt.seq = Len(file)
         /\ IsPrefix(Checkpoint(n).since.head, Checkpoint(n).ckpt.head)
         /\ n \in 0..Len(file) => Checkpoint(n).since = HeadAt(n)
<1>1. file \in Seq(Nat) /\ count = Len(file) /\ Len(file) \in 0..Len(file) /\ Len(file) \in Nat
  BY DEF TypeInv
<1>2. /\ HeadAt(count) \in Heads /\ InFile(HeadAt(count)) /\ HeadAt(count).seq = count
      /\ HeadAt(count).head = SubSeq(file, 1, count)
  BY <1>1, HeadAtFields
<1> DEFINE since == IF AnsweredSince(n) >= 0 THEN HeadAt(AnsweredSince(n)) ELSE NoHead
<1>3. n \in 0..Len(file) => since = HeadAt(n)
  BY <1>1 DEF AnsweredSince
<1>4. n \notin 0..Len(file) => since = NoHead
  BY <1>1 DEF AnsweredSince
<1>5. Checkpoint(n) = [pc |-> "sent", ckpt |-> HeadAt(count), since |-> since]
  BY DEF Checkpoint
<1> HIDE DEF since
<1>6. since \in Heads /\ IsPrefix(since.head, HeadAt(count).head)
  <2>1. CASE n \in 0..Len(file)
    <3>1. since \in Heads /\ since.head = SubSeq(file, 1, n)
      BY <1>3, <2>1, HeadAtFields
    <3>2. IsPrefix(SubSeq(file, 1, n), SubSeq(file, 1, count))
      BY <1>1, <2>1, HeadsOfOneFile
    <3> QED BY <1>2, <3>1, <3>2
  <2>2. CASE n \notin 0..Len(file)
    <3>1. since \in Heads /\ since.head = <<>>
      BY <1>4, <2>2, HeadFields
    <3>2. HeadAt(count).head \in Seq(Nat)
      BY <1>2, HeadFields
    <3>3. IsPrefix(<<>>, HeadAt(count).head)
      BY <3>2, PrefixOrder
    <3> QED BY <3>1, <3>3
  <2> QED BY <2>1, <2>2
<1> DEFINE r == Checkpoint(n)
<1>7. r \in Requests /\ r.pc = "sent" /\ r.ckpt = HeadAt(count) /\ r.since = since
  BY <1>2, <1>5, <1>6 DEF Requests
<1> HIDE DEF r
<1>8. /\ InFile(r.ckpt) /\ r.ckpt.seq = Len(file) /\ IsPrefix(r.since.head, r.ckpt.head)
      /\ n \in 0..Len(file) => r.since = HeadAt(n)
  BY <1>1, <1>2, <1>3, <1>6, <1>7
<1> QED BY <1>7, <1>8 DEF r

\* The daemon and the record do not change.
Elsewhere == UNCHANGED <<daemon, sequencer, alarm>>

\* What the broker does with its own request.
BrokerSteps ==
  /\ Elsewhere /\ broker' \in BrokerRecords
  /\ \/ /\ UNCHANGED <<request, excused>>
        /\ \/ broker.pc = "idle" /\ broker'.pc = "asked" /\ broker'.since = last.seq
           \/ broker.pc = "asked" /\ broker'.pc = "idle"
           \/ own.pc = "none" /\ broker'.pc = "idle"
           \/ broker'.pc = "dead"
     \/ /\ broker.pc = "asked" /\ broker'.pc = "sent" /\ up /\ excused' = excused
        /\ request' = [request EXCEPT !["own"] = Checkpoint(broker.since)]
     \/ /\ broker'.pc = "idle" /\ excused' = excused
        /\ request' = [request EXCEPT !["own"] = NoRequest]
     \/ "stray" \in excused' /\ request' \in [Slots -> Requests]

\* Every step of the broker is one of these.
LEMMA LoopSteps ==
  ASSUME TypeInv, Loop \/ Hang \/ BrokerRestart
  PROVE  BrokerSteps
<1>0. /\ broker \in BrokerRecords /\ last.seq \in Int
      /\ Idle \in BrokerRecords /\ Idle.pc = "idle"
  BY HeadFields DEF TypeInv, Idle, BrokerRecords
<1>1. CASE AskStatus
  <2>1. broker' = [pc |-> "asked", since |-> last.seq]
    BY <1>1 DEF AskStatus
  <2>2. broker' \in BrokerRecords /\ broker'.pc = "asked" /\ broker'.since = last.seq
    BY <1>0, <2>1 DEF BrokerRecords
  <2> QED BY <1>1, <2>2 DEF AskStatus, BrokerSteps, Elsewhere
<1>2. CASE Fetch
  <2>1. broker' \in BrokerRecords /\ broker'.pc = "sent"
    BY <1>0, <1>2 DEF Fetch, BrokerRecords
  <2> QED BY <1>2, <2>1 DEF Fetch, BrokerSteps, Elsewhere
<1>3. CASE Unreachable \/ Returned
  BY <1>0, <1>3 DEF Unreachable, Returned, BrokerSteps, Elsewhere, own
<1>4. CASE Hang
  <2>1. broker' \in BrokerRecords /\ broker'.pc = "dead"
    BY <1>0, <1>4 DEF Hang, BrokerRecords
  <2> QED BY <1>4, <2>1 DEF Hang, BrokerSteps, Elsewhere
<1>5. CASE BrokerRestart
  <2>1. CASE request' = [request EXCEPT !["own"] = NoRequest] /\ UNCHANGED excused
    BY <1>0, <1>5, <2>1 DEF BrokerRestart, BrokerSteps, Elsewhere
  <2>2. CASE /\ request' = [request EXCEPT !["own"] = NoRequest, !["stray"] = request["own"]]
             /\ excused' = excused \union {"stray"}
    <3>1. request["own"] \in Requests /\ request \in [Slots -> Requests]
      BY DEF TypeInv, Slots
    <3>2. request' \in [Slots -> Requests]
      BY <2>2, <3>1, NoRequestFields
    <3> QED BY <1>0, <1>5, <2>2, <3>2 DEF BrokerRestart, BrokerSteps, Elsewhere
  <2> QED BY <1>5, <2>1, <2>2 DEF BrokerRestart
<1> QED BY <1>1, <1>2, <1>3, <1>4, <1>5 DEF Loop

\* They keep the invariant.
LEMMA BrokerKept ==
  ASSUME Inv, BrokerSteps
  PROVE  Inv'
<1>0. /\ UNCHANGED <<file, unsynced, made, up, count, last, recorded, alarm>>
      /\ TypeInv /\ broker' \in BrokerRecords
  BY DEF Inv, BrokerSteps, Elsewhere, daemon, sequencer
<1>1. CASE /\ UNCHANGED <<request, excused>>
           /\ \/ broker.pc = "idle" /\ broker'.pc = "asked" /\ broker'.since = last.seq
              \/ broker.pc = "asked" /\ broker'.pc = "idle"
              \/ own.pc = "none" /\ broker'.pc = "idle"
              \/ broker'.pc = "dead"
  <2>1. own' = own /\ stray' = stray
    BY <1>1 DEF own, stray
  <2>2. TypeInv'
    BY <1>0, <1>1, <2>1 DEF TypeInv
  <2>3. OrderInv => OrderInv'
    BY <1>0, <2>1 DEF OrderInv
  <2>4. SoundInv => SoundInv'
    BY <1>0, <1>1, <2>1 DEF SoundInv, InFile, Continues
  <2> QED BY <1>1, <2>2, <2>3, <2>4 DEF Inv
<1>2. ASSUME NEW r \in Requests, request' = [request EXCEPT !["own"] = r], excused' = excused
      PROVE  own' = r /\ stray' = stray /\ TypeInv'
  <2>1. "own" \in Slots /\ "stray" \in Slots \ {"own"}
    BY DEF Slots
  <2>2. request' \in [Slots -> Requests] /\ own' = r /\ stray' = stray
    BY <1>0, <1>2, <2>1, RequestSet DEF own, stray
  <2> QED BY <1>0, <1>2, <2>2 DEF TypeInv
<1>3. CASE /\ broker.pc = "asked" /\ broker'.pc = "sent" /\ up /\ excused' = excused
           /\ request' = [request EXCEPT !["own"] = Checkpoint(broker.since)]
  <2> DEFINE n == broker.since
             r == Checkpoint(n)
  <2>1. n \in Int
    BY <1>0 DEF TypeInv, BrokerRecords
  <2>2. /\ r \in Requests /\ r.pc = "sent"
        /\ InFile(r.ckpt) /\ r.ckpt.seq = Len(file)
        /\ IsPrefix(r.since.head, r.ckpt.head)
        /\ n \in 0..Len(file) => r.since = HeadAt(n)
    BY <1>0, <1>3, <2>1, CheckpointFields
  <2>3. request' = [request EXCEPT !["own"] = r]
    BY <1>3
  <2> HIDE DEF n, r
  <2>4. own' = r /\ stray' = stray /\ TypeInv'
    BY <1>2, <1>3, <2>2, <2>3
  <2>5. OrderInv => OrderInv'
    BY <1>0, <2>2, <2>4 DEF OrderInv
  <2>6. ASSUME SoundInv
        PROVE  SoundInv'
    <3>1. n = last.seq /\ InFile(last) /\ last \in Heads /\ file \in Seq(Nat)
      BY <1>0, <1>3, <2>6 DEF SoundInv, TypeInv, n
    <3>2. last.seq >= 0 => last.seq \in 0..Len(file) /\ last = HeadAt(last.seq)
      <4>1. CASE last = NoHead
        <5>1. last.seq = -1
          BY <4>1, HeadFields
        <5> QED BY <5>1
      <4>2. CASE last # NoHead
        <5>1. last \in [seq : Nat, head : Seq(Nat)]
          BY <3>1, <4>2 DEF Heads
        <5>2. last.seq \in 0..Len(file) /\ last.head = SubSeq(file, 1, last.seq)
          BY <3>1, <4>2 DEF InFile
        <5> QED BY <5>1, <5>2 DEF HeadAt
      <4> QED BY <4>1, <4>2
    <3>3. last.seq >= 0 => r.ckpt.seq >= last.seq /\ r.since = last
      <4>1. Len(file) \in Nat
        BY <3>1
      <4> QED BY <2>2, <3>1, <3>2, <4>1
    <3>4. Continues(own)' /\ InFile(own.ckpt)'
      BY <1>0, <2>2, <2>4, <3>3 DEF Continues, InFile
    <3> QED BY <1>0, <1>3, <2>4, <2>6, <3>4 DEF SoundInv, InFile
  <2> QED BY <1>3, <2>4, <2>5, <2>6 DEF Inv
<1>4. CASE /\ broker'.pc = "idle" /\ excused' = excused
           /\ request' = [request EXCEPT !["own"] = NoRequest]
  <2>1. own' = NoRequest /\ own'.pc = "none" /\ stray' = stray /\ TypeInv'
    BY <1>2, <1>4, NoRequestFields
  <2>2. OrderInv => OrderInv'
    BY <1>0, <2>1 DEF OrderInv
  <2>3. SoundInv => SoundInv'
    BY <1>0, <1>4, <2>1 DEF SoundInv, InFile
  <2> QED BY <1>4, <2>1, <2>2, <2>3 DEF Inv
<1>5. CASE "stray" \in excused' /\ request' \in [Slots -> Requests]
  <2>1. TypeInv'
    BY <1>0, <1>5 DEF TypeInv
  <2> QED BY <1>5, <2>1 DEF Inv
<1> QED BY <1>1, <1>3, <1>4, <1>5 DEF BrokerSteps

-----------------------------------------------------------------------------
(* The sequencer.                                                          *)

\* A request that outlived its broker is excused, so that types alone are left to keep.
LEMMA StrayExcused ==
  ASSUME TypeInv, NEW s \in Slots, request[s].pc # "none"
  PROVE  s = "own" \/ "stray" \in excused
<1>1. CASE s = "stray"
  <2>1. stray # NoRequest
    BY <1>1, NoRequestFields DEF stray
  <2> QED BY <2>1 DEF TypeInv
<1> QED BY <1>1 DEF Slots

\* The request r in slot s takes a step, with the types of all that changes.
LEMMA RequestStep ==
  ASSUME TypeInv, NEW s \in Slots, NEW r \in Requests, request[s].pc # "none",
         request' = [request EXCEPT ![s] = r], excused \subseteq excused',
         last' \in Heads, recorded' \in Heads, UNCHANGED <<daemon, broker>>
  PROVE  TypeInv' /\ (s = "own" => own' = r)
<1>1. /\ request' \in [Slots -> Requests] /\ request'[s] = r
      /\ \A u \in Slots \ {s} : request'[u] = request[u]
  BY RequestSet
<1>2. stray' # NoRequest => "stray" \in excused'
  <2>1. CASE s = "own"
    <3>1. stray' = stray
      BY <1>1, <2>1 DEF stray, Slots
    <3> QED BY <3>1 DEF TypeInv
  <2>2. CASE s # "own"
    BY <2>2, StrayExcused
  <2> QED BY <2>1, <2>2
<1> QED BY <1>1, <1>2 DEF TypeInv, daemon, own

\* The check of a request.
LEMMA CheckKept ==
  ASSUME Inv, NEW s \in Slots, Check(s)
  PROVE  Inv'
<1>0. /\ UNCHANGED <<daemon, sequencer, broker, excused>> /\ TypeInv /\ request[s].pc = "sent"
      /\ last \in Heads /\ recorded \in Heads /\ request[s] \in Requests
      /\ UNCHANGED <<file, last, recorded>>
  BY DEF Inv, Check, TypeInv, daemon, sequencer
<1>1. CASE Continues(request[s]) /\ request' = [request EXCEPT ![s].pc = "checked"] /\ alarm' = alarm
  <2> DEFINE r == [request[s] EXCEPT !.pc = "checked"]
  <2>1. r \in Requests /\ r.pc = "checked" /\ r.ckpt = request[s].ckpt /\ r.since = request[s].since
    BY <1>0 DEF Requests
  <2>2. request' = [request EXCEPT ![s] = r]
    BY <1>1
  <2> HIDE DEF r
  <2>3. TypeInv' /\ (s = "own" => own' = r)
    BY <1>0, <2>1, <2>2, RequestStep
  <2>4. CASE "stray" \in excused
    BY <1>0, <2>3, <2>4 DEF Inv
  <2>5. CASE s = "own" /\ "stray" \notin excused
    <3>1. own' = r /\ own = request[s] /\ OrderInv
      BY <2>3, <2>5 DEF own, Inv
    <3>2. IsPrefix(last.head, own.ckpt.head)
      <4>1. CASE last.seq >= 0
        <5>1. own.since = last
          BY <1>1, <3>1, <4>1 DEF Continues
        <5> QED BY <1>0, <3>1, <5>1 DEF OrderInv
      <4>2. CASE ~(last.seq >= 0)
        <5>1. last.head = <<>> /\ own.ckpt.head \in Seq(Nat)
          BY <1>0, <3>1, <4>2, HeadFields DEF Requests
        <5> QED BY <5>1, PrefixOrder
      <4> QED BY <4>1, <4>2
    <3>3. OrderInv'
      BY <1>0, <2>1, <3>1, <3>2 DEF OrderInv
    <3>4. SoundInv => SoundInv'
      BY <1>0, <1>1, <2>1, <3>1 DEF SoundInv, InFile, Continues
    <3> QED BY <1>0, <2>3, <3>3, <3>4 DEF Inv
  <2> QED BY <1>0, <2>4, <2>5, StrayExcused
<1>2. CASE ~Continues(request[s]) /\ request' = [request EXCEPT ![s] = NoRequest] /\ alarm' = TRUE
  <2>1. TypeInv' /\ (s = "own" => own' = NoRequest)
    BY <1>0, <1>2, NoRequestFields, RequestStep
  <2>2. CASE "stray" \in excused
    BY <1>0, <2>1, <2>2 DEF Inv
  <2>3. CASE s = "own" /\ "stray" \notin excused
    <3>1. own'.pc = "none" /\ own = request[s] /\ OrderInv
      BY <2>1, <2>3, NoRequestFields DEF own, Inv
    <3>2. OrderInv'
      BY <1>0, <3>1 DEF OrderInv
    <3>3. ~SoundInv
      BY <1>0, <1>2, <3>1 DEF SoundInv
    <3> QED BY <1>0, <2>1, <3>2, <3>3 DEF Inv
  <2> QED BY <1>0, <2>2, <2>3, StrayExcused
<1> QED BY <1>1, <1>2 DEF Check

\* The request is remembered, and written or not.
LEMMA CommitKept ==
  ASSUME Inv, NEW s \in Slots, Commit(s)
  PROVE  Inv'
<1>0. /\ UNCHANGED <<daemon, broker, alarm>> /\ TypeInv /\ request[s].pc = "checked"
      /\ last \in Heads /\ recorded \in Heads /\ request[s].ckpt \in Heads
      /\ UNCHANGED file /\ last' = request[s].ckpt
      /\ request' = [request EXCEPT ![s] = NoRequest]
      /\ \/ recorded' = request[s].ckpt /\ excused' = excused
         \/ recorded' = recorded /\ excused' = excused \union {"failed"}
  BY DEF Inv, Commit, TypeInv, daemon, Requests
<1>1. TypeInv' /\ (s = "own" => own' = NoRequest)
  BY <1>0, NoRequestFields, RequestStep
<1>2. CASE "stray" \in excused
  BY <1>0, <1>1, <1>2 DEF Inv
<1>3. CASE s = "own" /\ "stray" \notin excused
  <2>1. own'.pc = "none" /\ own = request[s] /\ OrderInv
    BY <1>1, <1>3, NoRequestFields DEF own, Inv
  <2>2. IsPrefix(recorded.head, last.head) /\ IsPrefix(last.head, last'.head)
    BY <1>0, <2>1 DEF OrderInv
  <2>3. recorded.head \in Seq(Nat) /\ last.head \in Seq(Nat) /\ last'.head \in Seq(Nat)
    BY <1>0, HeadFields
  <2>4. IsPrefix(recorded.head, last'.head) /\ IsPrefix(last'.head, last'.head)
    BY <2>2, <2>3, PrefixOrder
  <2>5. OrderInv'
    BY <1>0, <2>1, <2>4 DEF OrderInv
  <2>6. ASSUME excused' = {}
        PROVE  SoundInv'
    <3>1. SoundInv /\ recorded' = last'
      BY <1>0, <2>6 DEF Inv
    <3>2. broker'.pc \notin {"idle", "asked"} /\ InFile(last)' /\ ~alarm'
      BY <1>0, <2>1, <3>1 DEF SoundInv, InFile
    <3> QED BY <2>1, <3>1, <3>2 DEF SoundInv
  <2> QED BY <1>1, <2>5, <2>6 DEF Inv
<1> QED BY <1>0, <1>2, <1>3, StrayExcused

\* The sequencer starts again from what is recorded.
LEMMA RestartKept ==
  ASSUME Inv, SequencerRestart
  PROVE  Inv'
<1>0. /\ UNCHANGED <<daemon, recorded, broker, alarm, excused>> /\ TypeInv
      /\ last' = recorded /\ request' = [s \in Slots |-> NoRequest] /\ recorded \in Heads
      /\ UNCHANGED file
  BY DEF Inv, SequencerRestart, Reloaded, TypeInv, daemon
<1>1. own' = NoRequest /\ own'.pc = "none" /\ stray' = NoRequest
  BY <1>0, NoRequestFields DEF own, stray, Slots
<1>2. request' \in [Slots -> Requests]
  BY <1>0, NoRequestFields
<1>3. TypeInv'
  BY <1>0, <1>1, <1>2 DEF TypeInv, daemon
<1>4. OrderInv'
  <2>1. recorded.head \in Seq(Nat)
    BY <1>0, HeadFields
  <2>2. IsPrefix(recorded.head, recorded.head)
    BY <2>1, PrefixOrder
  <2> QED BY <1>0, <1>1, <2>2 DEF OrderInv
<1>5. SoundInv => SoundInv'
  BY <1>0, <1>1 DEF SoundInv, InFile
<1> QED BY <1>0, <1>3, <1>4, <1>5 DEF Inv

-----------------------------------------------------------------------------
(* Theorems.                                                               *)

\* The invariant holds throughout.
LEMMA InvHolds == Spec => []Inv
<1>1. Init => Inv
  <2> SUFFICES ASSUME Init
               PROVE  Inv
    OBVIOUS
  <2>0. /\ file = <<>> /\ unsynced = 0 /\ made = 0 /\ count = 0 /\ last = NoHead
        /\ recorded = NoHead /\ broker = Idle /\ request = [s \in Slots |-> NoRequest]
        /\ ~alarm /\ excused = {}
    BY DEF Init
  <2>1. own = NoRequest /\ stray = NoRequest /\ own.pc = "none"
    BY <2>0, NoRequestFields DEF own, stray, Slots
  <2>2. request \in [Slots -> Requests] /\ broker \in BrokerRecords /\ broker.pc = "idle"
    BY <2>0, NoRequestFields DEF Idle, BrokerRecords
  <2>3. file \in Seq(Nat) /\ Len(file) = 0
    BY <2>0
  <2>4. TypeInv
    BY <2>0, <2>1, <2>2, <2>3, HeadFields DEF TypeInv
  <2>5. OrderInv
    <3>1. NoHead.head \in Seq(Nat)
      BY HeadFields
    <3>2. IsPrefix(NoHead.head, NoHead.head)
      BY <3>1, PrefixOrder
    <3> QED BY <2>0, <2>1, <3>2 DEF OrderInv
  <2>6. SoundInv
    BY <2>0, <2>1, <2>2 DEF SoundInv, InFile
  <2> QED BY <2>4, <2>5, <2>6 DEF Inv
<1>2. ASSUME Inv, [Next]_vars
      PROVE  Inv'
  <2>0. TypeInv
    BY <1>2 DEF Inv
  <2>1. CASE WriteLine \/ SyncLine \/ DaemonCrash \/ DaemonStart \/ FileReplaced
    BY <1>2, <2>0, <2>1, DaemonSteps, DaemonKept
  <2>2. CASE Loop \/ Hang \/ BrokerRestart
    BY <1>2, <2>0, <2>2, LoopSteps, BrokerKept
  <2>3. CASE Record
    BY <1>2, <2>3, CheckKept, CommitKept DEF Record
  <2>4. CASE SequencerRestart
    BY <1>2, <2>4, RestartKept
  <2>5. CASE UNCHANGED vars
    <3>1. FileSteps
      BY <2>0, <2>5 DEF vars, daemon, sequencer, FileSteps, TypeInv
    <3> QED BY <1>2, <3>1, DaemonKept
  <2> QED BY <1>2, <2>1, <2>2, <2>3, <2>4, <2>5 DEF Next
<1> QED BY <1>1, <1>2, PTL DEF Spec

\* The sequencer reports the daemon's chain only after the file was changed, a checkpoint
\* that it had accepted was not written, or a request outlived its broker: crashes,
\* restarts and lost calls of daemon, broker and sequencer raise no alarm.
THEOREM ChainNotBlamed == Spec => []NoFalseAlarm
<1>1. Inv => NoFalseAlarm
  BY DEF Inv, SoundInv, NoFalseAlarm
<1> QED BY <1>1, InvHolds, PTL

\* Every recorded checkpoint continues the one before it, whatever happened to the file
\* and to the sequencer, unless a request has outlived its broker.
THEOREM RecordExtends == Spec => RecordedExtends
<1>1. ASSUME Inv, [Next]_vars, recorded' # recorded, "stray" \notin excused
      PROVE  IsPrefix(recorded.head, recorded'.head)
  <2>1. PICK s \in Slots : Commit(s)
    BY <1>1 DEF Next, vars, WriteLine, SyncLine, DaemonCrash, DaemonStart, FileReplaced, Loop,
                AskStatus, Fetch, Unreachable, Returned, Hang, BrokerRestart, Record, Check,
                SequencerRestart, sequencer
  <2>2. recorded' = request[s].ckpt /\ request[s].pc = "checked"
    BY <1>1, <2>1 DEF Commit
  <2>3. s = "own" /\ TypeInv /\ OrderInv
    BY <1>1, <2>2, StrayExcused DEF Inv
  <2>4. IsPrefix(recorded.head, last.head) /\ IsPrefix(last.head, recorded'.head)
    BY <2>2, <2>3 DEF OrderInv, own
  <2>5. recorded.head \in Seq(Nat) /\ last.head \in Seq(Nat) /\ recorded'.head \in Seq(Nat)
    <3>1. recorded' \in Heads
      BY <2>2, <2>3 DEF TypeInv, Requests
    <3> QED BY <2>3, <3>1, HeadFields DEF TypeInv
  <2> QED BY <2>4, <2>5, PrefixOrder
<1>2. Inv /\ [Next]_vars =>
        [recorded' # recorded =>
           IsPrefix(recorded.head, recorded'.head) \/ "stray" \in excused]_vars
  BY <1>1
<1> QED BY <1>2, InvHolds, PTL DEF Spec, RecordedExtends
=============================================================================
