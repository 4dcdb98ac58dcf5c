------------------------ MODULE BundleRegistryProofs ------------------------
(***************************************************************************)
(* Proofs about BundleRegistry, for any bundles, episodes, deadline and    *)
(* number of commands, by any number of processes, which share no lock.    *)
(***************************************************************************)
EXTENDS BundleRegistry, WellFoundedInduction, TLAPS

Times == Nat \union {None}
Rows == [ts : Nat, active : Bundles, previous : Bundles \union {None}]
AdminPCs == {"idle", "verify", "read", "replace", "record", "rollback"}
AdminRecords == [pc : AdminPCs, target : Bundles \union {None},
                 previous : Bundles \union {None}, rows : Nat]
Statuses == {"none", "opening", "live", "awaiting_operator", "handed_off", "ended"}
EpisodeRecords == [status : Statuses,
                   bundle : Bundles \union {None}]

TypeInv ==
  /\ active \in Bundles \union {None} /\ history \in Seq(Rows) /\ clock \in Nat
  /\ admin \in [Admins -> AdminRecords] /\ episode \in [Episodes -> EpisodeRecords]
  /\ left \in [Bundles -> Times]

\* What an activation is about to activate is a bundle, and active once it is replaced,
\* unless another activation came between.
AdminInv ==
  \A a \in Admins :
    /\ admin[a].pc \in {"verify", "read", "replace", "record"} => admin[a].target \in Bundles
    /\ admin[a].pc = "record" /\ ~crossed => active = admin[a].target
    /\ admin[a].pc = "rollback" => admin[a].rows <= Len(history)

\* The pointer had left bundle b at time ts, unless it has come back to it.
GoneBy(b, ts) == b \in back \/ (left[b] # None /\ left[b] <= ts)

\* A bundle that has a row is active or was left, and was left before another's later row,
\* while no two activations overlapped; the active bundle is not left.
RowInv ==
  /\ \A b \in Bundles : left[b] # None => left[b] <= clock /\ b # active
  /\ ~crossed =>
       /\ \A j \in 1..Len(history) :
            active = history[j].active \/ GoneBy(history[j].active, clock)
       /\ \A i, j \in 1..Len(history) :
            j < i => history[i].active = history[j].active
                     \/ GoneBy(history[j].active, history[i].ts)

\* A live episode is bound to a bundle.
BoundInv == \A e \in Episodes : episode[e].status = "live" => episode[e].bundle \in Bundles

Inv == TypeInv /\ AdminInv /\ RowInv /\ BoundInv

-----------------------------------------------------------------------------
(* Rows of the history.                                                    *)

\* A nonempty set of naturals has a least element.
LEMMA LeastOf ==
  ASSUME NEW S, S \subseteq Nat, S # {}
  PROVE  \E x \in S : \A y \in S : x <= y
<1> DEFINE Less == {ss \in Nat \X Nat : ss[1] < ss[2]}
<1>1. IsWellFoundedOn(Less, Nat)
  BY NatLessThanWellFounded, Zenon DEF OpToRel
<1>2. \A x, y \in Nat : x < y => <<x, y>> \in Less
  OBVIOUS
<1> HIDE DEF Less
<1>3. PICK x \in S : \A y \in S : ~(<<y, x>> \in Less)
  BY <1>1, WFMin
<1>4. \A y \in S : ~(y < x) /\ x \in Nat /\ y \in Nat
  BY <1>2, <1>3
<1> QED BY <1>4

\* A nonempty set of naturals up to n has a greatest element.
LEMMA GreatestOf ==
  ASSUME NEW n \in Nat, NEW S, S \subseteq 0..n, S # {}
  PROVE  \E x \in S : \A y \in S : y <= x
<1> DEFINE T == {n - x : x \in S}
<1>1. T \subseteq Nat /\ T # {}
  <2>1. \A x \in S : x \in 0..n /\ n - x \in Nat
    OBVIOUS
  <2> QED BY <2>1
<1>2. PICK t \in T : \A u \in T : t <= u
  BY <1>1, LeastOf
<1>3. PICK x \in S : t = n - x
  BY <1>2
<1>4. ASSUME NEW y \in S
      PROVE  y <= x
  <2>1. n - x <= n - y
    BY <1>2, <1>3
  <2>2. x \in 0..n /\ y \in 0..n
    OBVIOUS
  <2> QED BY <2>1, <2>2
<1> QED BY <1>4

\* superseded_at is the time of a row of another bundle, after one of the bundle's own.
LEMMA SupersededByRow ==
  ASSUME TypeInv, NEW b, SupersededAt(b) # None
  PROVE  \E i, j \in 1..Len(history) : /\ j < i /\ history[j].active = b
                                       /\ history[i].active # b
                                       /\ SupersededAt(b) = history[i].ts
<1> DEFINE rows == 1..Len(history)
           later == {i \in rows : history[i].active # b /\ \E j \in rows : j < i /\ history[j].active = b}
           first == CHOOSE i \in later : \A j \in later : i <= j
<1>1. later # {} /\ SupersededAt(b) = history[first].ts
  BY DEF SupersededAt
<1>2. later \subseteq Nat
  OBVIOUS
<1>3. \E i \in later : \A j \in later : i <= j
  BY <1>1, <1>2, LeastOf
<1>4. first \in later
  BY <1>3
<1> HIDE DEF first
<1> QED BY <1>1, <1>4

\* The bundle to roll back to has a row.
LEMMA PreviousIsBundle ==
  ASSUME TypeInv, NEW b, NEW n \in Nat, n <= Len(history), PreviousOf(b, n) # None
  PROVE  PreviousOf(b, n) \in Bundles
<1> DEFINE own == {i \in 1..n : history[i].active = b /\ history[i].previous # None}
           last == CHOOSE i \in own : \A j \in own : j <= i
<1>1. own # {} /\ PreviousOf(b, n) = history[last].previous
  BY DEF PreviousOf
<1>2. own \subseteq 0..n
  OBVIOUS
<1>3. \E i \in own : \A j \in own : j <= i
  BY <1>1, <1>2, GreatestOf
<1>4. last \in own
  BY <1>3
<1>5. last \in 1..Len(history)
  BY <1>4 DEF TypeInv
<1> HIDE DEF last
<1>6. history[last] \in Rows
  BY <1>5 DEF TypeInv
<1>7. history[last].previous \in Bundles \union {None}
  BY <1>6 DEF Rows
<1> QED BY <1>1, <1>7

-----------------------------------------------------------------------------
(* Commands.                                                               *)

\* The registry, the episodes and what the history variables say stay as they are.
Quiet == UNCHANGED <<active, history, clock, episode, left, back, crossed>>

\* The steps of an administrator's command that leave the registry alone.
LEMMA CommandSteps ==
  ASSUME Inv, NEW a \in Admins,
         \/ Activate(a) \/ Rollback(a) \/ VerifyTarget(a) \/ ReadActive(a)
         \/ RollbackTo(a) \/ AdminDies(a)
  PROVE  Inv'
<1>0. /\ admin \in [Admins -> AdminRecords] /\ admin[a] \in AdminRecords
      /\ history \in Seq(Rows) /\ Len(history) \in Nat
      /\ active \in Bundles \union {None}
      /\ admin[a].pc \in {"verify", "read", "replace", "record"} => admin[a].target \in Bundles
      /\ admin[a].pc = "rollback" => admin[a].rows <= Len(history)
      /\ admin[a].rows \in Nat
  BY DEF Inv, TypeInv, AdminInv, AdminRecords
<1>1. Quiet
  BY DEF Activate, Rollback, VerifyTarget, ReadActive, RollbackTo, AdminDies, registry, ghosts, Quiet
<1>2. ASSUME NEW f \in AdminRecords, Step(a, f),
             f.pc \in {"verify", "read", "replace"} => f.target \in Bundles,
             f.pc # "record", f.pc = "rollback" => f.rows <= Len(history)
      PROVE  Inv'
  <2>1. admin' \in [Admins -> AdminRecords] /\ admin'[a] = f
        /\ \A b \in Admins \ {a} : admin'[b] = admin[b]
    BY <1>0, <1>2 DEF Step
  <2>2. TypeInv'
    BY <1>1, <2>1 DEF Inv, TypeInv, Quiet
  <2>3. AdminInv'
    BY <1>1, <1>2, <2>1 DEF Inv, AdminInv, Quiet
  <2>4. RowInv' /\ BoundInv'
    BY <1>1 DEF Inv, RowInv, BoundInv, GoneBy, Quiet
  <2> QED BY <2>2, <2>3, <2>4 DEF Inv
<1>3. IdleAdmin \in AdminRecords /\ IdleAdmin.pc = "idle"
  BY DEF IdleAdmin, AdminRecords, AdminPCs
<1>4. Step(a, IdleAdmin) => Inv'
  BY <1>2, <1>3
<1>5. ASSUME NEW b \in Bundles, NEW n \in Nat,
             Step(a, [admin[a] EXCEPT !.pc = "verify", !.target = b, !.rows = n])
      PROVE  Inv'
  <2> DEFINE f == [admin[a] EXCEPT !.pc = "verify", !.target = b, !.rows = n]
  <2>1. f \in AdminRecords /\ f.pc = "verify" /\ f.target = b
    BY <1>0 DEF AdminRecords, AdminPCs
  <2> HIDE DEF f
  <2>2. Step(a, f)
    BY <1>5 DEF f
  <2> QED BY <1>2, <2>1, <2>2
<1>6. CASE Activate(a)
  <2>1. PICK b \in Bundles : Step(a, [admin[a] EXCEPT !.pc = "verify", !.target = b])
    BY <1>6 DEF Activate
  <2> DEFINE f == [admin[a] EXCEPT !.pc = "verify", !.target = b]
  <2>2. f \in AdminRecords /\ f.pc = "verify" /\ f.target = b
    BY <1>0 DEF AdminRecords, AdminPCs
  <2> HIDE DEF f
  <2>3. Step(a, f)
    BY <2>1 DEF f
  <2> QED BY <1>2, <2>2, <2>3
<1>7. CASE Rollback(a)
  <2> DEFINE f == [admin[a] EXCEPT !.pc = "rollback", !.rows = Len(history)]
  <2>1. f \in AdminRecords /\ f.pc = "rollback" /\ f.rows = Len(history)
    BY <1>0 DEF AdminRecords, AdminPCs
  <2>2. Step(a, f)
    BY <1>7 DEF Rollback
  <2> HIDE DEF f
  <2> QED BY <1>0, <1>2, <2>1, <2>2
<1>8. CASE VerifyTarget(a)
  <2> DEFINE f == [admin[a] EXCEPT !.pc = "read"]
  <2>1. f \in AdminRecords /\ f.pc = "read" /\ f.target = admin[a].target
    BY <1>0 DEF AdminRecords, AdminPCs
  <2>2. admin[a].pc = "verify" /\ (Step(a, f) \/ Step(a, IdleAdmin))
    BY <1>8 DEF VerifyTarget
  <2> HIDE DEF f
  <2> QED BY <1>0, <1>2, <1>4, <2>1, <2>2
<1>9. CASE ReadActive(a)
  <2> DEFINE f == [admin[a] EXCEPT !.pc = "replace", !.previous = active]
  <2>1. f \in AdminRecords /\ f.pc = "replace" /\ f.target = admin[a].target
    BY <1>0 DEF AdminRecords, AdminPCs
  <2>2. admin[a].pc = "read" /\ Step(a, f)
    BY <1>9 DEF ReadActive
  <2> HIDE DEF f
  <2> QED BY <1>0, <1>2, <2>1, <2>2
<1>10. CASE RollbackTo(a)
  <2> DEFINE b == PreviousOf(active, admin[a].rows)
  <2>1. admin[a].pc = "rollback"
        /\ IF b = None THEN Step(a, IdleAdmin)
           ELSE Step(a, [admin[a] EXCEPT !.pc = "verify", !.target = b, !.rows = 0])
    BY <1>10 DEF RollbackTo
  <2>2. b # None => b \in Bundles
    BY <1>0, <2>1, PreviousIsBundle DEF Inv
  <2> HIDE DEF b
  <2> QED BY <1>4, <1>5, <2>1, <2>2
<1>11. CASE AdminDies(a)
  BY <1>4, <1>11 DEF AdminDies
<1> QED BY <1>6, <1>7, <1>8, <1>9, <1>10, <1>11

\* The pointer is replaced: the bundle that it leaves is left now, and one that it comes
\* back to is marked.
LEMMA ReplaceKept ==
  ASSUME Inv, NEW a \in Admins, Replace(a)
  PROVE  Inv'
<1>0. /\ TypeInv /\ AdminInv /\ RowInv /\ BoundInv
      /\ admin \in [Admins -> AdminRecords] /\ admin[a] \in AdminRecords
      /\ admin[a].pc = "replace" /\ admin[a].target \in Bundles /\ active' = admin[a].target
      /\ UNCHANGED <<history, clock, episode>>
      /\ active \in Bundles \union {None} /\ left \in [Bundles -> Times] /\ clock \in Nat
      /\ None \notin Bundles /\ None \notin Nat
  BY RegistryAssumption DEF Inv, TypeInv, AdminInv, Replace
<1>1. /\ crossed => crossed'
      /\ ~crossed' => \A o \in Admins \ {a} : admin[o].pc # "record"
  <2>1. crossed' = (crossed \/ \E o \in Admins \ {a} : admin[o].pc = "record")
    BY DEF Replace
  <2> QED BY <2>1, Zenon
<1> DEFINE f == [admin[a] EXCEPT !.pc = "record"]
<1>2. f \in AdminRecords /\ f.pc = "record" /\ f.target = admin[a].target
  BY <1>0 DEF AdminRecords, AdminPCs
<1>3. admin' = [admin EXCEPT ![a] = f]
  BY DEF Replace, Step
<1> HIDE DEF f
<1>4. admin' \in [Admins -> AdminRecords] /\ admin'[a] = f
      /\ \A b \in Admins \ {a} : admin'[b] = admin[b]
  BY <1>0, <1>2, <1>3
<1>5. /\ left' \in [Bundles -> Times] /\ back \subseteq back'
      /\ \A b \in Bundles : left[b] # None => left'[b] = left[b] \/ b \in back'
      /\ \A b \in Bundles : left'[b] # None => /\ left'[b] = left[b] \/ left'[b] = clock
                                               /\ b # active'
      /\ active \in Bundles /\ active # active' => left'[active] = clock
  <2>1. /\ left' = IF active' = active THEN left
                   ELSE [b \in Bundles |-> IF b = active' THEN None
                                           ELSE IF b = active THEN clock ELSE left[b]]
        /\ back' = IF left[active'] = None THEN back ELSE back \union {active'}
        /\ active' \in Bundles
    BY <1>0 DEF Replace
  <2>2. \A b \in Bundles : left[b] # None => b # active
    BY <1>0 DEF RowInv
  <2>3. CASE active' = active
    BY <1>0, <2>1, <2>2, <2>3
  <2>4. CASE active' # active
    <3>1. \A b \in Bundles : left'[b] = IF b = active' THEN None
                                         ELSE IF b = active THEN clock ELSE left[b]
      BY <2>1, <2>4
    <3>2. left' \in [Bundles -> Times]
      BY <1>0, <2>1, <2>4 DEF Times
    <3> QED BY <1>0, <2>1, <2>2, <2>4, <3>1, <3>2
  <2> QED BY <2>3, <2>4
<1>6. \A b \in Bundles : left'[b] # None => left'[b] <= clock /\ b # active'
  BY <1>0, <1>5 DEF RowInv
<1>7. TypeInv'
  BY <1>0, <1>4, <1>5 DEF TypeInv
<1>8. AdminInv'
  BY <1>0, <1>1, <1>2, <1>4 DEF AdminInv
<1>9. RowInv'
  <2> SUFFICES ASSUME ~crossed'
               PROVE  /\ \A j \in 1..Len(history) :
                           active' = history[j].active \/ GoneBy(history[j].active, clock)'
                      /\ \A i, j \in 1..Len(history) :
                           j < i => history[i].active = history[j].active
                                    \/ GoneBy(history[j].active, history[i].ts)'
    BY <1>0, <1>6 DEF RowInv, GoneBy
  <2>1. \A j \in 1..Len(history) : history[j].active \in Bundles /\ history[j].ts \in Nat
    <3>1. \A j \in 1..Len(history) : history[j] \in Rows
      BY <1>0 DEF TypeInv
    <3> QED BY <3>1 DEF Rows
  <2>2. ASSUME NEW b \in Bundles, NEW ts, GoneBy(b, ts)
        PROVE  b \in back' \/ (left'[b] # None /\ left'[b] <= ts)
    BY <1>5, <2>2 DEF GoneBy
  <2>3. ASSUME NEW j \in 1..Len(history)
        PROVE  active' = history[j].active \/ GoneBy(history[j].active, clock)'
    <3>1. CASE active = history[j].active
      BY <1>0, <1>5, <2>1, <3>1 DEF GoneBy
    <3>2. CASE GoneBy(history[j].active, clock)
      BY <1>0, <2>1, <2>2, <3>2 DEF GoneBy
    <3> QED BY <1>0, <1>1, <3>1, <3>2 DEF RowInv
  <2>4. ASSUME NEW i \in 1..Len(history), NEW j \in 1..Len(history), j < i
        PROVE  history[i].active = history[j].active
               \/ GoneBy(history[j].active, history[i].ts)'
    <3>1. history[i].active = history[j].active \/ GoneBy(history[j].active, history[i].ts)
      BY <1>0, <1>1, <2>4 DEF RowInv
    <3>2. history[i].active = history[j].active
          \/ history[j].active \in back'
          \/ (left'[history[j].active] # None /\ left'[history[j].active] <= history[i].ts)
      BY <2>1, <2>2, <3>1
    <3> QED BY <1>0, <3>2 DEF GoneBy
  <2> QED BY <2>3, <2>4
<1>10. BoundInv'
  BY <1>0 DEF BoundInv
<1> QED BY <1>7, <1>8, <1>9, <1>10 DEF Inv

\* The row of the activation: every bundle with an earlier row is this one or was left.
LEMMA RecordKept ==
  ASSUME Inv, NEW a \in Admins, Record(a)
  PROVE  Inv'
<1>0. /\ TypeInv /\ AdminInv /\ RowInv /\ BoundInv
      /\ admin \in [Admins -> AdminRecords] /\ admin[a] \in AdminRecords
      /\ admin[a].pc = "record" /\ admin[a].target \in Bundles
      /\ ~crossed => active = admin[a].target
      /\ UNCHANGED <<active, clock, episode, left, back, crossed>>
      /\ history \in Seq(Rows) /\ clock \in Nat
  BY DEF Inv, TypeInv, AdminInv, Record
<1> DEFINE r == [ts |-> clock, active |-> admin[a].target, previous |-> admin[a].previous]
           n == Len(history)
<1>1. r \in Rows /\ r.active = admin[a].target /\ r.ts = clock
  BY <1>0 DEF Rows, AdminRecords
<1>2. history' = Append(history, r)
  BY DEF Record
<1> HIDE DEF r
<1>3. /\ history' \in Seq(Rows) /\ Len(history') = n + 1 /\ n \in Nat
      /\ \A i \in 1..n : history'[i] = history[i]
      /\ history'[n + 1] = r
  BY <1>0, <1>1, <1>2
<1>4. /\ IdleAdmin \in AdminRecords /\ IdleAdmin.pc = "idle"
      /\ admin' = [admin EXCEPT ![a] = IdleAdmin]
  BY DEF IdleAdmin, AdminRecords, AdminPCs, Record, Step
<1> HIDE DEF IdleAdmin
<1>5. admin' \in [Admins -> AdminRecords] /\ admin'[a] = IdleAdmin
      /\ \A b \in Admins \ {a} : admin'[b] = admin[b]
  BY <1>0, <1>4
<1>6. TypeInv'
  BY <1>0, <1>3, <1>5 DEF TypeInv
<1>7. AdminInv'
  <2>1. \A b \in Admins : admin[b] \in AdminRecords /\ admin[b].rows \in Nat
    BY <1>0 DEF AdminRecords
  <2> QED BY <1>0, <1>3, <1>4, <1>5, <2>1 DEF AdminInv
<1>8. CASE crossed
  <2>1. RowInv' /\ BoundInv'
    BY <1>0, <1>8 DEF RowInv, BoundInv
  <2> QED BY <1>6, <1>7, <2>1 DEF Inv
<1>9. CASE ~crossed
  <2>1. ASSUME NEW j \in 1..(n + 1)
        PROVE  active = history'[j].active \/ GoneBy(history'[j].active, clock)
    BY <1>0, <1>1, <1>3, <1>9, <2>1 DEF RowInv
  <2>2. ASSUME NEW i \in 1..(n + 1), NEW j \in 1..(n + 1), j < i
        PROVE  \/ history'[i].active = history'[j].active
               \/ GoneBy(history'[j].active, history'[i].ts)
    <3>1. CASE i = n + 1
      <4>1. history'[i].active = active /\ history'[i].ts = clock
        BY <1>0, <1>1, <1>3, <1>9, <3>1
      <4> QED BY <2>1, <4>1
    <3>2. CASE i # n + 1
      <4>1. i \in 1..n /\ j \in 1..n
        BY <1>3, <2>2, <3>2
      <4> QED BY <1>0, <1>3, <1>9, <2>2, <4>1 DEF RowInv
    <3> QED BY <3>1, <3>2
  <2>3. RowInv'
    BY <1>0, <1>3, <2>1, <2>2 DEF RowInv, GoneBy
  <2>4. BoundInv'
    BY <1>0 DEF BoundInv
  <2> QED BY <1>6, <1>7, <2>3, <2>4 DEF Inv
<1> QED BY <1>8, <1>9

-----------------------------------------------------------------------------
(* Time and episodes.                                                      *)

\* Revocations, changes of content and time.
LEMMA OthersKept ==
  ASSUME Inv, Revoke \/ ContentChanges \/ TimePasses \/ UNCHANGED vars
  PROVE  Inv'
<1>1. /\ UNCHANGED <<active, history, admin, episode, left, back, crossed>>
      /\ clock' = clock \/ clock' = clock + 1
  BY DEF Revoke, ContentChanges, TimePasses, vars, registry, ghosts
<1>2. clock \in Nat /\ clock' \in Nat /\ clock <= clock'
  BY <1>1 DEF Inv, TypeInv
<1>3. TypeInv' /\ AdminInv' /\ BoundInv'
  BY <1>1, <1>2 DEF Inv, TypeInv, AdminInv, BoundInv
<1>4. \A b \in Bundles : left[b] # None => left[b] \in Nat
  BY DEF Inv, TypeInv, Times
<1>5. \A j \in 1..Len(history) : history[j].active \in Bundles
  <2>1. \A j \in 1..Len(history) : history[j] \in Rows
    BY DEF Inv, TypeInv
  <2> QED BY <2>1 DEF Rows
<1>6. RowInv'
  <2>1. \A b \in Bundles : left[b] # None => left[b] <= clock' /\ b # active
    BY <1>2, <1>4 DEF Inv, RowInv
  <2> QED BY <1>1, <1>5, <2>1 DEF Inv, RowInv, GoneBy
<1> QED BY <1>3, <1>6 DEF Inv

\* Episodes: the one that is handed off for the deadline is on a bundle that the pointer
\* left that long ago.
LEMMA EpisodesKept ==
  ASSUME Inv, NEW e \in Episodes,
         \/ SentinelBinds(e) \/ OpenEpisode(e) \/ Controller(e)
         \/ EpisodeWaits(e) \/ EpisodeEnds(e)
  PROVE  Inv'
<1>0. /\ TypeInv /\ AdminInv /\ RowInv /\ BoundInv
      /\ UNCHANGED <<active, history, clock, admin, left, back, crossed>>
      /\ episode \in [Episodes -> EpisodeRecords] /\ episode[e] \in EpisodeRecords
  BY DEF Inv, TypeInv, SentinelBinds, OpenEpisode, Controller, RevocationHandsOff,
         DrainHandsOff, EpisodeWaits, EpisodeEnds, registry, ghosts
<1>1. AdminInv' /\ RowInv'
  BY <1>0 DEF AdminInv, RowInv, GoneBy
<1>2. ASSUME NEW r \in EpisodeRecords, episode' = [episode EXCEPT ![e] = r],
             r.status = "live" => r.bundle \in Bundles
      PROVE  Inv'
  BY <1>0, <1>1, <1>2 DEF Inv, TypeInv, BoundInv
<1>3. NoEpisode \in EpisodeRecords /\ NoEpisode.status = "none"
  BY DEF NoEpisode, EpisodeRecords, Statuses
<1> HIDE DEF NoEpisode
<1>4. ASSUME NEW s \in Statuses, Becomes(e, s), s = "live" => episode[e].bundle \in Bundles
      PROVE  Inv'
  <2> DEFINE r == [episode[e] EXCEPT !.status = s]
  <2>1. r \in EpisodeRecords /\ r.status = s /\ r.bundle = episode[e].bundle
    BY <1>0 DEF EpisodeRecords
  <2>2. episode' = [episode EXCEPT ![e] = r]
    BY <1>4 DEF Becomes
  <2> HIDE DEF r
  <2> QED BY <1>2, <1>4, <2>1, <2>2
<1>5. CASE SentinelBinds(e)
  <2> DEFINE r == [status |-> "opening", bundle |-> active]
  <2>1. r \in EpisodeRecords /\ r.status = "opening"
    BY <1>0 DEF TypeInv, EpisodeRecords, Statuses
  <2>2. episode' = [episode EXCEPT ![e] = r]
    BY <1>5 DEF SentinelBinds
  <2> HIDE DEF r
  <2> QED BY <1>2, <2>1, <2>2
<1>6. CASE OpenEpisode(e)
  <2>1. Verifies(episode[e].bundle) => episode[e].bundle \in Bundles
    BY DEF Verifies
  <2>2. \/ Verifies(episode[e].bundle) /\ Becomes(e, "live")
        \/ episode' = [episode EXCEPT ![e] = NoEpisode]
    BY <1>6 DEF OpenEpisode
  <2> QED BY <1>2, <1>3, <1>4, <2>1, <2>2 DEF Statuses
<1>7. CASE Controller(e) \/ EpisodeWaits(e) \/ EpisodeEnds(e)
  <2>1. Becomes(e, "handed_off") \/ Becomes(e, "awaiting_operator") \/ Becomes(e, "ended")
    BY <1>7 DEF Controller, RevocationHandsOff, DrainHandsOff, EpisodeWaits, EpisodeEnds
  <2> QED BY <1>4, <2>1 DEF Statuses
<1> QED BY <1>5, <1>6, <1>7

\* Only DrainHandsOff hands an episode off whose bundle is not revoked.
LEMMA DrainedBy ==
  ASSUME Inv, [Next]_vars, NEW e \in Episodes, Drained(e)
  PROVE  /\ SupersededAt(episode[e].bundle) # None
         /\ clock > SupersededAt(episode[e].bundle) + Deadline
         /\ episode[e].bundle \in Bundles
<1>0. /\ episode \in [Episodes -> EpisodeRecords] /\ episode' # episode
      /\ episode[e].status = "live" /\ episode'[e].status = "handed_off"
      /\ episode[e].bundle \notin revoked /\ episode[e].bundle \in Bundles
  BY DEF Inv, TypeInv, BoundInv, Drained
<1>1. PICK d \in Episodes : \/ SentinelBinds(d) \/ OpenEpisode(d) \/ Controller(d)
                            \/ EpisodeWaits(d) \/ EpisodeEnds(d)
  <2>1. ASSUME NEW a \in Admins,
               Activate(a) \/ Rollback(a) \/ AdminSteps(a) \/ AdminDies(a)
        PROVE  episode' = episode
    BY <2>1 DEF Activate, Rollback, AdminSteps, AdminDies, VerifyTarget, ReadActive, Replace,
                Record, RollbackTo
  <2>2. Revoke \/ ContentChanges \/ TimePasses \/ UNCHANGED vars => episode' = episode
    BY DEF Revoke, ContentChanges, TimePasses, vars
  <2> QED BY <1>0, <2>1, <2>2 DEF Next
<1>2. d = e
  BY <1>0, <1>1 DEF SentinelBinds, OpenEpisode, Controller, RevocationHandsOff, DrainHandsOff,
                    EpisodeWaits, EpisodeEnds, Becomes
<1>3. ~RevocationHandsOff(e)
  BY <1>0 DEF RevocationHandsOff
<1>4. ~SentinelBinds(e) /\ ~OpenEpisode(e) /\ ~EpisodeWaits(e) /\ ~EpisodeEnds(e)
  <2>1. \A s : Becomes(e, s) => episode'[e].status = s
    BY <1>0 DEF Becomes, EpisodeRecords
  <2> QED BY <1>0, <2>1 DEF SentinelBinds, OpenEpisode, EpisodeWaits, EpisodeEnds, NoEpisode
<1>5. DrainHandsOff(e)
  BY <1>1, <1>2, <1>3, <1>4 DEF Controller
<1> QED BY <1>0, <1>5 DEF DrainHandsOff

\* A row of another bundle after one of b's own: the pointer left b before that row.
LEMMA DrainedLate ==
  ASSUME Inv, NEW b \in Bundles, b \notin back, ~crossed,
         SupersededAt(b) # None, clock > SupersededAt(b) + Deadline
  PROVE  Overdue(b)
<1>1. PICK i, j \in 1..Len(history) : /\ j < i /\ history[j].active = b
                                      /\ history[i].active # b
                                      /\ SupersededAt(b) = history[i].ts
  BY SupersededByRow DEF Inv
<1>2. history[i].ts \in Nat
  <2>1. history[i] \in Rows
    BY <1>1 DEF Inv, TypeInv
  <2> QED BY <2>1 DEF Rows
<1>3. left[b] # None /\ left[b] <= history[i].ts
  BY <1>1 DEF Inv, RowInv, GoneBy
<1>4. left[b] \in Nat /\ b # active /\ clock \in Nat /\ Deadline \in Nat
  BY <1>3, RegistryAssumption DEF Inv, TypeInv, RowInv, Times
<1>5. clock > left[b] + Deadline
  BY <1>1, <1>2, <1>3, <1>4
<1> QED BY <1>3, <1>4, <1>5 DEF Overdue

-----------------------------------------------------------------------------
(* Theorem.                                                                *)

\* The registry is empty and there is no episode.
LEMMA InitInv == Init => Inv
<1> SUFFICES ASSUME Init
             PROVE  Inv
  OBVIOUS
<1>1. /\ IdleAdmin \in AdminRecords /\ IdleAdmin.pc = "idle"
      /\ NoEpisode \in EpisodeRecords /\ NoEpisode.status = "none"
  BY DEF IdleAdmin, AdminRecords, AdminPCs, NoEpisode, EpisodeRecords, Statuses
<1>2. /\ active = None /\ history = <<>> /\ clock = 0
      /\ admin = [a \in Admins |-> IdleAdmin] /\ episode = [e \in Episodes |-> NoEpisode]
      /\ left = [b \in Bundles |-> None]
  BY DEF Init
<1> HIDE DEF IdleAdmin, NoEpisode
<1>3. history \in Seq(Rows) /\ Len(history) = 0
  BY <1>2
<1>4. TypeInv
  BY <1>1, <1>2, <1>3 DEF TypeInv, Times
<1>5. AdminInv
  BY <1>1, <1>2 DEF AdminInv
<1>6. RowInv
  BY <1>2, <1>3 DEF RowInv
<1>7. BoundInv
  BY <1>1, <1>2 DEF BoundInv
<1> QED BY <1>4, <1>5, <1>6, <1>7 DEF Inv

\* An episode is handed off for the drain deadline only P-12 after the pointer left its
\* bundle, for any number of administrators and wherever an activation was cut off: unless
\* two activations overlapped the rows that superseded_at reads follow the pointer, and
\* unless the pointer has come back to the bundle its first departure is its last one.
THEOREM NotDrainedEarly == Spec => DrainNotEarly
<1>1. ASSUME Inv, [Next]_vars
      PROVE  Inv'
  <2>1. ASSUME NEW a \in Admins,
               Activate(a) \/ Rollback(a) \/ AdminSteps(a) \/ AdminDies(a)
        PROVE  Inv'
    BY <1>1, <2>1, CommandSteps, ReplaceKept, RecordKept DEF AdminSteps
  <2> QED BY <1>1, <2>1, OthersKept, EpisodesKept DEF Next
<1>2. ASSUME Inv, [Next]_vars
      PROVE  [\A e \in Episodes : Drained(e) =>
                Overdue(episode[e].bundle) \/ episode[e].bundle \in back \/ crossed]_vars
  BY <1>2, DrainedBy, DrainedLate
<1> QED BY <1>1, <1>2, InitInv, PTL DEF Spec, DrainNotEarly
=============================================================================
