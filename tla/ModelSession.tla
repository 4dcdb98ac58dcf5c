---------------------------- MODULE ModelSession ----------------------------
(***************************************************************************)
(* One session of the model broker (valops/brokers/model_broker.py): a     *)
(* socket for one worker, whose requests are admitted against the limits   *)
(* of the session, forwarded to the provider without the session's lock,   *)
(* and metered afterwards. The handler threads do not end with the         *)
(* session.                                                                *)
(***************************************************************************)
EXTENDS Integers, FiniteSets, TLC

CONSTANTS
  Handlers,        \* requests of the worker, each with a thread of its own
  Parallel,        \* requests that the worker keeps under way at the same time
  MaxRequests, MaxInput, MaxOutput, MaxUsd,   \* limits of the session
  PriceIn, PriceOut,                          \* USD per token
  Sizes,           \* input tokens of a request, as estimated from its length
  Asks,            \* output tokens a request asks for
  Fan,             \* output tokens that an answer may hold per token of its clamp
  Slack,           \* tokens by which the input may exceed its estimate
  LossyStreams     \* the answer may break off after tokens were generated

ASSUME SessionAssumption ==
  /\ Parallel \in Nat \ {0} /\ Fan \in Nat \ {0}
  /\ {MaxRequests, MaxInput, MaxOutput, MaxUsd, PriceIn, PriceOut, Slack} \subseteq Nat
  /\ Sizes \subseteq Nat \ {0} /\ Asks \subseteq Nat \ {0}
  /\ LossyStreams \in BOOLEAN

VARIABLES
  phase,     \* of the session: "none", "open", "closed"
  requests, inputTokens, outputTokens, usd,   \* the meter
  handler,   \* per request: pc, estimated input, output clamp
  used,      \* history: tokens the provider has generated and charged
  lost,      \* history: those that neither an answer nor an estimate accounted for
  peak       \* history: most requests under way at the same time

meter == <<requests, inputTokens, outputTokens, usd>>
ghosts == <<used, lost, peak>>
sessionVars == <<phase, meter, handler, ghosts>>

SessionInit ==
  /\ phase = "none"
  /\ requests = 0 /\ inputTokens = 0 /\ outputTokens = 0 /\ usd = 0
  /\ handler = [h \in Handlers |-> [pc |-> "new", est |-> 0, clamp |-> 0, in |-> 0, out |-> 0]]
  /\ used = [requests |-> 0, in |-> 0, out |-> 0]
  /\ lost = [in |-> 0, out |-> 0] /\ peak = 0

\* The bundle decides on provider, model and limits; a session id is used once.
OpenSession ==
  /\ phase = "none" /\ phase' = "open"
  /\ UNCHANGED <<meter, handler, ghosts>>

-----------------------------------------------------------------------------
(* handle.                                                                 *)

Min2(a, b) == IF a <= b THEN a ELSE b
Max2(a, b) == IF a <= b THEN b ELSE a

UnderWay == {h \in Handlers : handler[h].pc \in {"admitted", "answered"}}

\* Output tokens left by the output limit and by the money.
Remaining(est) ==
  LET usdLeft == MaxUsd - usd - est * PriceIn
  IN IF PriceOut > 0 THEN Min2(MaxOutput - outputTokens, usdLeft \div PriceOut)
     ELSE MaxOutput - outputTokens

WithinLimits(est) ==
  requests < MaxRequests /\ inputTokens + est <= MaxInput /\ Remaining(est) >= 1

Unclamped(ask, est) == ask   \* mutant
Clamp(ask, est) == Min2(ask, Remaining(est))

\* clamp_output sets one field: the number of completions (n, candidateCount) and a
\* second limit go to the provider as the worker wrote them.
MostOutput(clamp) == clamp * Fan

Counted == requests' = requests + 1

\* A request is admitted under the lock; provider, path and model are the pinned ones.
\* A connection that is kept alive outlives the socket of the session.
Arrives(h) == phase # "none" /\ handler[h].pc = "new" /\ Cardinality(UnderWay) < Parallel

AdmitRequest(h) ==
  /\ Arrives(h)
  /\ \E est \in Sizes, ask \in Asks :
       /\ WithinLimits(est)
       /\ handler' = [handler EXCEPT ![h] =
            [pc |-> "admitted", est |-> est, clamp |-> Clamp(ask, est), in |-> 0, out |-> 0]]
  /\ Counted
  /\ peak' = Max2(peak, Cardinality(UnderWay) + 1)
  /\ UNCHANGED <<phase, inputTokens, outputTokens, usd, used, lost>>

\* Limits, a foreign provider or model, a malformed body: nothing is forwarded.
Refuse(h) ==
  /\ Arrives(h)
  /\ handler' = [handler EXCEPT ![h].pc = "refused"]
  /\ UNCHANGED <<phase, meter, ghosts>>

Answered(h, in, out) == handler' = [handler EXCEPT ![h].pc = "answered", ![h].in = in, ![h].out = out]
Charged(in, out) ==
  used' = [requests |-> used.requests + 1, in |-> used.in + in, out |-> used.out + out]

Lost(in, out) == lost' = [in |-> lost.in + in, out |-> lost.out + out]

\* _forward. An answer states its usage, or is taken for the estimate and the
\* clamp; a refusal of the provider counts nothing.
Forward(h) ==
  /\ handler[h].pc = "admitted"
  /\ LET est == handler[h].est
         clamp == handler[h].clamp
     IN \/ \E in \in est .. est + Slack, out \in 0..MostOutput(clamp) :
             /\ Charged(in, out)
             /\ \/ Answered(h, in, out) /\ Lost(0, 0)
                \/ Answered(h, est, clamp) /\ Lost(0, Max2(out, clamp) - clamp)
        \/ Answered(h, 0, 0) /\ Charged(0, 0) /\ Lost(0, 0)
  /\ UNCHANGED <<phase, meter, peak>>

\* The stream breaks off before its usage: status 0, and no output is metered.
StreamBreaks(h) ==
  /\ LossyStreams /\ handler[h].pc = "admitted"
  /\ \E in \in {0, handler[h].est}, out \in 1..MostOutput(handler[h].clamp) :
       /\ Answered(h, in, 0)
       /\ Charged(handler[h].est, out)
       /\ Lost(handler[h].est - in, out)
  /\ UNCHANGED <<phase, meter, peak>>

Meter(h) ==
  /\ handler[h].pc = "answered"
  /\ inputTokens' = inputTokens + handler[h].in
  /\ outputTokens' = outputTokens + handler[h].out
  /\ usd' = usd + handler[h].in * PriceIn + handler[h].out * PriceOut
  /\ handler' = [handler EXCEPT ![h].pc = "done"]
  /\ UNCHANGED <<phase, requests, ghosts>>

-----------------------------------------------------------------------------
(* close_session: the session leaves the table and its socket goes; the    *)
(* threads of its requests, and connections that are kept alive, go on.    *)

CloseSession ==
  /\ phase = "open" /\ phase' = "closed"
  /\ UNCHANGED <<meter, handler, ghosts>>

SessionNext ==
  \/ OpenSession \/ CloseSession
  \/ \E h \in Handlers : AdmitRequest(h) \/ Refuse(h) \/ Forward(h) \/ StreamBreaks(h) \/ Meter(h)

SessionSpec == SessionInit /\ [][SessionNext]_sessionVars

\* Requests are told apart by nothing but their state.
Symmetry == Permutations(Handlers)

-----------------------------------------------------------------------------
(* Properties.                                                             *)

\* What the limits do hold: the provider never sees more requests than the session may
\* make, and requests that are made one after the other, with one completion each, spend
\* no more output, and no more money, than it may. Each further request under way at the
\* same time is admitted against the same remainder, and each further completion of a
\* request is not clamped, so the limits hold once per such request and completion. What a
\* broken stream leaves unmetered comes on top, and so does the input by which a request
\* exceeds the estimate that the clamp trusts.
\* The money is compared with what its output may cost only: a price table that has
\* output for nothing has no limit of money.
SpendWithinLimits ==
  LET cost(in, out) == in * PriceIn + out * PriceOut
  IN /\ used.requests <= MaxRequests
     /\ used.out <= peak * (MaxOutput * Fan) + lost.out
     /\ PriceOut > 0 => cost(used.in, used.out) <=
          peak * (MaxUsd * Fan) + cost(lost.in, lost.out) + used.requests * Slack * PriceIn

\* HLD 10.1, "limits cut off exactly": the provider generates no more output than the
\* session may have. Violated: two requests under way at the same time are clamped to the
\* same remainder, and the clamp is for one completion of a request.
CutsOffExactly == used.out <= MaxOutput
=============================================================================
