------------------------- MODULE DefaultEngineProofs -------------------------
(***************************************************************************)
(* The engine loop over the default scheduler, for any requests, limits    *)
(* and numbers of tokens.  Two invariants are proved: ArrivalInv is about  *)
(* requests, from the channel to their dispatch, and BatchInv is about     *)
(* sequences, the batches they are put in and the caches that these run    *)
(* over.                                                                   *)
(***************************************************************************)
EXTENDS DefaultEngine, QueueTheorems

Incoming == ToSet(channel)

Waits == ToSet(waiting)

Runs == ToSet(running)

Live == Runs \cup Waits

-----------------------------------------------------------------------------
(* Requests. *)

RequestQueues ==
    /\ sent \in Seq(Request) /\ channel \in Seq(Request) /\ ordered \in Seq(Request)
    /\ bypass \in Seq(Request) /\ shutdown \in Seq(Request) /\ dispatched \in Seq(Request)

\* A request is in one place, and only there.
OncePlaced ==
    /\ IsInjective(sent) /\ IsInjective(channel) /\ IsInjective(ordered)
    /\ IsInjective(bypass) /\ IsInjective(shutdown) /\ IsInjective(dispatched)
    /\ Incoming \cap (ToSet(ordered) \cup ToSet(bypass) \cup ToSet(shutdown)) = {}
    /\ ToSet(dispatched) \cap (Incoming \cup ToSet(ordered) \cup ToSet(bypass) \cup ToSet(shutdown)) = {}

\* The queues are separate by class.
ByClass ==
    /\ \A r \in ToSet(ordered) : Ordered(r)
    /\ \A r \in ToSet(bypass) : Class[r] = "bypass"
    /\ \A r \in ToSet(shutdown) : Class[r] = "shutdown"

Places == Incoming \cup ToSet(ordered) \cup ToSet(bypass) \cup ToSet(shutdown) \cup ToSet(dispatched)

\* Nothing is lost but what its client has left.
Accounted == Places \subseteq ToSet(sent) /\ \A r \in ToSet(sent) : r \in Places \cup closed

\* Channel and queue keep the order of sending, the queue before the channel.
KeepOrder ==
    /\ \A a, b : Ahead(channel, a, b) => Ahead(sent, a, b)
    /\ \A a, b : Ahead(ordered, a, b) => Ahead(sent, a, b)
    /\ \A a \in ToSet(ordered), b \in Incoming : Ahead(sent, a, b)

\* No ordered request is dispatched before an earlier one.
NoOvertaking ==
    \A i \in 1..Len(dispatched) : \A q \in ToSet(sent) :
        Ordered(dispatched[i]) /\ Ordered(q) /\ Ahead(sent, q, dispatched[i]) /\ q \notin closed
          => \E k \in 1..(i - 1) : dispatched[k] = q

\* The queue has no more than the channel may hold, and nothing while the loop waits.
QueueBounded == QueueLen <= MaxPending /\ (pc = "idle" => QueueLen = 0)

ArrivalInv ==
    RequestQueues /\ OncePlaced /\ ByClass /\ Accounted /\ KeepOrder /\ NoOvertaking /\ QueueBounded

-----------------------------------------------------------------------------
(* Sequences. *)

States == {"waiting", "prefill", "prompt", "completion", "done", "error"}

SeqType == [req : Request, tokens : Nat, left : Int, offset : Nat, kv : Nat \cup {Junk},
            prefill : BOOLEAN, urgency : Nat, state : States]

\* What is in a queue, and nothing else, has a sequence.
SeqTypes ==
    /\ waiting \in Seq(Nat) /\ running \in Seq(Nat) /\ lastIds \in Seq(Nat)
    /\ batch \in [completion : Seq(Nat), prompt : Seq(Nat)]
    /\ seq \in [Live -> SeqType]
    /\ nextId \in Nat \ {0} /\ \A s \in Live \cup ToSet(lastIds) : s \in 1..(nextId - 1)

OnceQueued == IsInjective(waiting) /\ IsInjective(running) /\ Runs \cap Waits = {}

\* A batch is some of what runs, and of one bucket.
BatchAgrees ==
    /\ pc # "step" => batch = NoBatch
    /\ ToSet(batch.completion) \cup ToSet(batch.prompt) \subseteq Runs
    /\ ToSet(batch.completion) \cap ToSet(batch.prompt) = {}
    /\ \A s, t \in ToSet(batch.completion) : BucketKey(s) = BucketKey(t)
    /\ \A s, t \in ToSet(batch.prompt) : BucketKey(s) = BucketKey(t)

\* Before its prompt step a sequence has the cache of its prefix hit, if any;
\* after it the cache of all tokens but the newest.
Fresh(s) == seq[s].kv = seq[s].offset /\ (seq[s].prefill <=> seq[s].offset > 0)

Started(s) == ~seq[s].prefill /\ seq[s].kv \in Nat /\ seq[s].tokens = seq[s].kv + 1

CachesKnown ==
    \A s \in Live \ exposed :
        /\ Fresh(s) \/ Started(s)
        /\ seq[s].state = "completion" => Started(s)
        /\ seq[s].state \in {"waiting", "prefill"} => Fresh(s)
        /\ seq[s].state = "prompt" /\ seq[s].offset > 0 => Fresh(s)

BatchKnown ==
    /\ \A s \in ToSet(batch.completion) \ exposed : Started(s)
    /\ \A s \in ToSet(batch.prompt) \ exposed : seq[s].offset > 0 => Fresh(s)

\* What runs and is in no prompt batch has had its prompt step.
RunsPrompted ==
    \A s \in Runs \ (exposed \cup ToSet(batch.prompt)) : seq[s].state \in {"completion", "done", "error"}

\* What is in the running queue counts as running until it is finished, is about
\* to have its prompt step, or was skipped before it.
RunsCount ==
    \A s \in Runs : IsRunning(s) \/ Finished(s) \/ s \in ToSet(batch.prompt) \cup skipped

\* The working cache still has the rows of the last completion batch.
PipeAgrees ==
    \A i \in 1..Len(lastIds) : lastIds[i] \in Live \ exposed =>
        pipe # <<>> /\ pipe[i] = [s |-> lastIds[i], n |-> seq[lastIds[i]].kv]

BatchInv ==
    SeqTypes /\ OnceQueued /\ BatchAgrees /\ CachesKnown /\ BatchKnown /\ RunsPrompted
    /\ RunsCount /\ PipeAgrees /\ Bounded

-----------------------------------------------------------------------------
(* Requests: the lemmas. *)

\* Three separate parts of a finite set have no more members than it.
LEMMA ThreeParts ==
  ASSUME NEW S, IsFiniteSet(S), NEW A \in SUBSET S, NEW B \in SUBSET S, NEW C \in SUBSET S,
         A \cap B = {}, A \cap C = {}, B \cap C = {}
  PROVE  Cardinality(A) + Cardinality(B) + Cardinality(C) <= Cardinality(S)
<1>1. IsFiniteSet(A) /\ IsFiniteSet(B) /\ IsFiniteSet(C)
  BY FS_Subset
<1>2. /\ Cardinality(A) \in Nat /\ Cardinality(B) \in Nat /\ Cardinality(C) \in Nat
      /\ Cardinality(S) \in Nat
  BY <1>1, FS_CardinalityType
<1>3. Cardinality({}) = 0
  BY FS_EmptySet
<1>4. PICK D \in SUBSET S : D = A \cup B
  OBVIOUS
<1>5. IsFiniteSet(D) /\ Cardinality(D) = Cardinality(A) + Cardinality(B)
  <2>1. IsFiniteSet(A \cup B) /\ Cardinality(A \cup B) = Cardinality(A) + Cardinality(B) - Cardinality(A \cap B)
    BY <1>1, FS_Union
  <2>2. Cardinality(A \cap B) = 0
    BY <1>3
  <2> QED BY <1>2, <1>4, <2>1, <2>2
<1>6. D \cap C = {}
  BY <1>4
<1>7. Cardinality(D \cup C) = Cardinality(D) + Cardinality(C)
  <2>1. Cardinality(D \cup C) = Cardinality(D) + Cardinality(C) - Cardinality(D \cap C)
    BY <1>1, <1>5, FS_Union
  <2>2. Cardinality(D \cap C) = 0
    BY <1>3, <1>6
  <2> QED BY <1>2, <1>5, <2>1, <2>2
<1>8. Cardinality(D \cup C) <= Cardinality(S)
  <2>1. D \cup C \in SUBSET S
    OBVIOUS
  <2> QED BY <2>1, FS_Subset
<1> QED BY <1>2, <1>5, <1>7, <1>8

\* What one queue takes of what is pushed: the requests of S, behind its own,
\* and of both only those whose clients are there.
Took(t, q, taken, S, gone) ==
    /\ t \in Seq(Request) /\ IsInjective(t)
    /\ Len(t) <= Len(q) + Cardinality(ToSet(taken) \cap S)
    /\ \A r : r \in ToSet(t) <=> r \notin gone /\ (r \in ToSet(q) \/ (r \in ToSet(taken) /\ r \in S))
    /\ \A a, b : Ahead(t, a, b) =>
            Ahead(q, a, b) \/ Ahead(taken, a, b) \/ (a \in ToSet(q) /\ b \in ToSet(taken))

\* The filters that push and retain amount to do that.
LEMMA TakesProperties ==
  ASSUME NEW q \in Seq(Request), NEW taken \in Seq(Request), NEW S, NEW gone,
         IsInjective(q), IsInjective(taken), ToSet(q) \cap ToSet(taken) = {}
  PROVE  Took(Keep(q \o Keep(taken, S), Request \ gone), q, taken, S, gone)
<1>1. PICK k : k = Keep(taken, S)
  OBVIOUS
<1>2. k \in Seq(Request) /\ ToSet(k) = ToSet(taken) \cap S /\ IsInjective(k)
  BY <1>1, KeepProperties
<1>3. PICK c : c = q \o k
  OBVIOUS
<1>4. c \in Seq(Request) /\ Len(c) = Len(q) + Len(k) /\ ToSet(c) = ToSet(q) \cup ToSet(k)
  BY <1>2, <1>3, ConcatPositions, ConcatIsUnion
<1>5. IsInjective(c)
  <2>1. ToSet(q) \cap ToSet(k) = {}
    BY <1>2
  <2> QED BY <1>2, <1>3, <2>1, ConcatInjective
<1>6. PICK u : u = Keep(c, Request \ gone)
  OBVIOUS
<1>7. /\ u \in Seq(Request) /\ IsInjective(u) /\ Len(u) <= Len(c)
      /\ ToSet(u) = ToSet(c) \cap (Request \ gone)
  BY <1>4, <1>5, <1>6, KeepProperties
<1>8. Len(k) = Cardinality(ToSet(taken) \cap S)
  BY <1>2, LenIsCardinality
<1>9. ToSet(q) \subseteq Request /\ ToSet(taken) \subseteq Request
  BY MembersHavePositions
<1>10. ASSUME NEW a, NEW b, Ahead(u, a, b)
       PROVE  Ahead(q, a, b) \/ Ahead(taken, a, b) \/ (a \in ToSet(q) /\ b \in ToSet(taken))
  <2>1. Ahead(c, a, b)
    BY <1>4, <1>6, <1>10, AheadInKeep
  <2>2. Ahead(q, a, b) \/ Ahead(k, a, b) \/ (a \in ToSet(q) /\ b \in ToSet(k))
    BY <1>2, <1>3, <2>1, AheadInConcat
  <2>3. Ahead(k, a, b) => Ahead(taken, a, b)
    BY <1>1, AheadInKeep
  <2> QED BY <1>2, <2>2, <2>3
<1>11. Len(u) <= Len(q) + Cardinality(ToSet(taken) \cap S)
  BY <1>4, <1>7, <1>8
<1>12. \A r : r \in ToSet(u) <=> r \notin gone /\ (r \in ToSet(q) \/ (r \in ToSet(taken) /\ r \in S))
  BY <1>2, <1>4, <1>7, <1>9
<1>13. Took(u, q, taken, S, gone)
  BY <1>7, <1>10, <1>11, <1>12 DEF Took
<1> QED BY <1>1, <1>3, <1>6, <1>13, Zenon

Gone == {r \in Request : Abandoned(r)}

OrderedRequests == {r \in Request : Class[r] \in {"workload", "ordered"}}

BypassRequests == {r \in Request : Class[r] \in {"bypass"}}

ShutdownRequests == {r \in Request : Class[r] \in {"shutdown"}}

\* Pushing the front of the channel into the queues keeps everything that is
\* said about requests, and makes the queues no longer than what is pushed.
LEMMA PushKeepsArrival ==
  ASSUME RequestQueues, OncePlaced, ByClass, Accounted, KeepOrder, NoOvertaking,
         NEW taken \in Seq(Request), NEW rest \in Seq(Request),
         IsInjective(taken), IsInjective(rest), ToSet(taken) \cap ToSet(rest) = {},
         ToSet(taken) \cup ToSet(rest) = Incoming,
         \A a \in ToSet(taken), b \in ToSet(rest) : Ahead(channel, a, b),
         \A a, b : Ahead(taken, a, b) \/ Ahead(rest, a, b) => Ahead(channel, a, b),
         PushAll(taken, Gone), channel' = rest, UNCHANGED <<sent, dispatched, closed>>
  PROVE  /\ RequestQueues' /\ OncePlaced' /\ ByClass' /\ Accounted' /\ KeepOrder' /\ NoOvertaking'
         /\ QueueLen' <= QueueLen + Len(taken)
<1>1. /\ ordered' = Keep(ordered \o Keep(taken, OrderedRequests), Request \ Gone)
      /\ bypass' = Keep(bypass \o Keep(taken, BypassRequests), Request \ Gone)
      /\ shutdown' = Keep(shutdown \o Keep(taken, ShutdownRequests), Request \ Gone)
  BY DEF PushAll, OrderedRequests, BypassRequests, ShutdownRequests
<1>2. /\ ToSet(taken) \subseteq Incoming
      /\ ToSet(ordered) \cap ToSet(taken) = {}
      /\ ToSet(bypass) \cap ToSet(taken) = {}
      /\ ToSet(shutdown) \cap ToSet(taken) = {}
  BY DEF OncePlaced
<1>3. Took(ordered', ordered, taken, OrderedRequests, Gone)
  <2>1. ordered \in Seq(Request) /\ IsInjective(ordered)
    BY DEF RequestQueues, OncePlaced
  <2> QED BY <1>1, <1>2, <2>1, TakesProperties, Zenon
<1>4. Took(bypass', bypass, taken, BypassRequests, Gone)
  <2>1. bypass \in Seq(Request) /\ IsInjective(bypass)
    BY DEF RequestQueues, OncePlaced
  <2> QED BY <1>1, <1>2, <2>1, TakesProperties, Zenon
<1>5. Took(shutdown', shutdown, taken, ShutdownRequests, Gone)
  <2>1. shutdown \in Seq(Request) /\ IsInjective(shutdown)
    BY DEF RequestQueues, OncePlaced
  <2> QED BY <1>1, <1>2, <2>1, TakesProperties, Zenon
<1>6. ToSet(taken) \subseteq Request /\ ToSet(sent) \subseteq Request
  BY MembersHavePositions DEF RequestQueues
<1>7. \A r \in Request : r \in Gone <=> r \in closed
  BY DEF Gone, Abandoned
<1>8. /\ \A r \in Request : r \in OrderedRequests <=> Ordered(r)
      /\ \A r \in Request : r \in BypassRequests <=> Class[r] = "bypass"
      /\ \A r \in Request : r \in ShutdownRequests <=> Class[r] = "shutdown"
      /\ \A r \in Request : Ordered(r) \/ Class[r] = "bypass" \/ Class[r] = "shutdown"
  BY AdmissionAssumption DEF OrderedRequests, BypassRequests, ShutdownRequests, Ordered
<1>9. \A r : r \in Incoming <=> r \in ToSet(taken) \/ r \in ToSet(rest)
  OBVIOUS
<1>10. RequestQueues'
  BY <1>3, <1>4, <1>5 DEF RequestQueues, Took
<1>11. Incoming' = ToSet(rest) /\ ToSet(dispatched') = ToSet(dispatched) /\ ToSet(sent') = ToSet(sent)
  BY DEF Incoming
<1>12. OncePlaced'
  <2>1. IsInjective(sent') /\ IsInjective(channel') /\ IsInjective(dispatched')
    BY DEF OncePlaced
  <2>2. ASSUME NEW r, r \in ToSet(ordered') \/ r \in ToSet(bypass') \/ r \in ToSet(shutdown')
        PROVE  r \notin ToSet(rest) /\ r \notin ToSet(dispatched)
    <3>1. r \in ToSet(ordered) \/ r \in ToSet(bypass) \/ r \in ToSet(shutdown) \/ r \in ToSet(taken)
      BY <1>3, <1>4, <1>5, <2>2 DEF Took
    <3> QED BY <1>2, <1>9, <3>1 DEF OncePlaced
  <2>3. ToSet(rest) \cap ToSet(dispatched) = {}
    BY <1>9 DEF OncePlaced
  <2> QED BY <1>3, <1>4, <1>5, <1>11, <2>1, <2>2, <2>3 DEF OncePlaced, Took
<1>13. ByClass'
  <2>1. ASSUME NEW r \in ToSet(ordered') PROVE Ordered(r)'
    <3>1. r \in ToSet(ordered) \/ (r \in Request /\ r \in OrderedRequests)
      BY <1>3, <1>6 DEF Took
    <3> QED BY <1>8, <3>1 DEF ByClass, Ordered
  <2>2. ASSUME NEW r \in ToSet(bypass') PROVE Class[r] = "bypass"
    BY <1>4, <1>6, <1>8 DEF ByClass, Took
  <2>3. ASSUME NEW r \in ToSet(shutdown') PROVE Class[r] = "shutdown"
    BY <1>5, <1>6, <1>8 DEF ByClass, Took
  <2> QED BY <2>1, <2>2, <2>3 DEF ByClass
<1>14. Accounted'
  <2>1. ASSUME NEW r \in Places' PROVE r \in Places
    <3>1. \/ r \in ToSet(rest) \/ r \in ToSet(dispatched)
          \/ r \in ToSet(ordered') \/ r \in ToSet(bypass') \/ r \in ToSet(shutdown')
      BY <1>11 DEF Places
    <3>2. \/ r \in ToSet(rest) \/ r \in ToSet(dispatched) \/ r \in ToSet(taken)
          \/ r \in ToSet(ordered) \/ r \in ToSet(bypass) \/ r \in ToSet(shutdown)
      BY <1>3, <1>4, <1>5, <3>1 DEF Took
    <3> QED BY <1>9, <3>2 DEF Places
  <2>2. ASSUME NEW r \in Places, r \notin closed, r \in Request PROVE r \in Places'
    <3>1. r \notin Gone
      BY <1>7, <2>2
    <3>2. \/ r \in ToSet(rest) \/ r \in ToSet(dispatched) \/ r \in ToSet(taken)
          \/ r \in ToSet(ordered) \/ r \in ToSet(bypass) \/ r \in ToSet(shutdown)
      BY <1>9 DEF Places
    <3>3. \/ r \in ToSet(rest) \/ r \in ToSet(dispatched)
          \/ r \in ToSet(ordered') \/ r \in ToSet(bypass') \/ r \in ToSet(shutdown')
      BY <1>3, <1>4, <1>5, <1>8, <2>2, <3>1, <3>2 DEF Took
    <3> QED BY <1>11, <3>3 DEF Places
  <2> QED BY <1>6, <1>11, <2>1, <2>2 DEF Accounted
<1>15. KeepOrder'
  <2>1. \A a, b : Ahead(rest, a, b) => Ahead(sent, a, b)
    BY DEF KeepOrder
  <2>2. ASSUME NEW a, NEW b, Ahead(ordered', a, b) PROVE Ahead(sent, a, b)
    <3>1. Ahead(ordered, a, b) \/ Ahead(taken, a, b) \/ (a \in ToSet(ordered) /\ b \in ToSet(taken))
      BY <1>3, <2>2 DEF Took
    <3> QED BY <1>9, <3>1 DEF KeepOrder
  <2>3. ASSUME NEW a \in ToSet(ordered'), NEW b \in ToSet(rest) PROVE Ahead(sent, a, b)
    <3>1. a \in ToSet(ordered) \/ a \in ToSet(taken)
      BY <1>3 DEF Took
    <3>2. CASE a \in ToSet(ordered)
      BY <1>9, <3>2 DEF KeepOrder
    <3>3. CASE a \in ToSet(taken)
      BY <3>3 DEF KeepOrder
    <3> QED BY <3>1, <3>2, <3>3
  <2>4. sent' = sent /\ channel' = rest
    OBVIOUS
  <2> QED BY <1>11, <2>1, <2>2, <2>3, <2>4 DEF KeepOrder
<1>16. NoOvertaking'
  BY DEF NoOvertaking, Ordered
<1>17. QueueLen' <= QueueLen + Len(taken)
  <2>1. IsFiniteSet(ToSet(taken)) /\ Cardinality(ToSet(taken)) = Len(taken)
    BY LenIsCardinality
  <2>2. PICK A \in SUBSET ToSet(taken), B \in SUBSET ToSet(taken), C \in SUBSET ToSet(taken) :
          /\ A = ToSet(taken) \cap OrderedRequests /\ B = ToSet(taken) \cap BypassRequests
          /\ C = ToSet(taken) \cap ShutdownRequests
    OBVIOUS
  <2>3. A \cap B = {} /\ A \cap C = {} /\ B \cap C = {}
    BY <1>6, <1>8, <2>2 DEF Ordered
  <2>4. Cardinality(A) + Cardinality(B) + Cardinality(C) <= Len(taken)
    BY <2>1, <2>3, ThreeParts
  <2>5. Cardinality(A) \in Nat /\ Cardinality(B) \in Nat /\ Cardinality(C) \in Nat
    BY <2>1, FS_Subset, FS_CardinalityType
  <2>6. /\ Len(ordered) \in Nat /\ Len(bypass) \in Nat /\ Len(shutdown) \in Nat /\ Len(taken) \in Nat
        /\ Len(ordered') \in Nat /\ Len(bypass') \in Nat /\ Len(shutdown') \in Nat
    BY <1>3, <1>4, <1>5 DEF RequestQueues, Took
  <2>7. /\ Len(ordered') <= Len(ordered) + Cardinality(A)
        /\ Len(bypass') <= Len(bypass) + Cardinality(B)
        /\ Len(shutdown') <= Len(shutdown) + Cardinality(C)
    BY <1>3, <1>4, <1>5, <2>2 DEF Took
  <2> QED BY <2>4, <2>5, <2>6, <2>7 DEF QueueLen
<1> QED BY <1>10, <1>12, <1>13, <1>14, <1>15, <1>16, <1>17

\* The smaller of two numbers.
LEMMA MinOfTwo ==
  ASSUME NEW m \in Nat, NEW n \in Nat
  PROVE  Min({m, n}) \in Nat /\ Min({m, n}) <= m /\ Min({m, n}) <= n
<1>1. \E x \in {m, n} : \A y \in {m, n} : x <= y
  OBVIOUS
<1> QED BY <1>1 DEF Min

\* collect_pending_requests takes the front of the channel, as much as there
\* is room for.
LEMMA CollectKeepsArrival ==
  ASSUME ArrivalInv, Collect
  PROVE  ArrivalInv'
<1> USE DEF ArrivalInv
<1>1. channel \in Seq(Request) /\ IsInjective(channel)
  BY DEF RequestQueues, OncePlaced
<1>2. PICK l \in Nat : l = Len(channel)
  BY <1>1
<1>3. QueueLen \in Nat /\ QueueLen <= MaxPending /\ MaxPending \in Nat
  BY AdmissionAssumption DEF QueueLen, RequestQueues, QueueBounded
<1>4. RemainingCapacity \in Nat /\ QueueLen + RemainingCapacity = MaxPending
  BY <1>3 DEF RemainingCapacity
<1>5. PICK n \in Nat : n = Min({l, RemainingCapacity}) /\ n <= l /\ n <= RemainingCapacity
  BY <1>4, MinOfTwo
<1>6. PICK taken : taken = SubSeq(channel, 1, n)
  OBVIOUS
<1>7. PICK rest : rest = SubSeq(channel, n + 1, l)
  OBVIOUS
<1>8. /\ PushAll(taken, Gone) /\ channel' = rest
      /\ UNCHANGED <<sent, dispatched, closed>>
      /\ pc' # "idle"
  BY <1>2, <1>5, <1>6, <1>7 DEF Collect, Gone
<1>9. n \in 0..l /\ n + 1 \in 1..(l + 1) /\ (n + 1) - 1 = n /\ 1 \in 1..(l + 1) /\ l \in 0..l
  BY <1>5
<1>10. /\ taken \in Seq(Request) /\ rest \in Seq(Request)
       /\ ToSet(taken) \cup ToSet(rest) = Incoming
       /\ IsInjective(taken) /\ IsInjective(rest) /\ ToSet(taken) \cap ToSet(rest) = {}
  BY <1>1, <1>2, <1>6, <1>7, <1>9, HalvesKeep DEF Incoming
<1>11. Len(taken) = n
  <2>1. \A i \in 1..n : channel[i] \in Request
    BY <1>1, <1>2, <1>9
  <2>2. Len(taken) = IF 1 <= n THEN n - 1 + 1 ELSE 0
    BY <1>6, <2>1, SubSeqProperties
  <2> QED BY <2>2
<1>12. \A a \in ToSet(taken), b \in ToSet(rest) : Ahead(channel, a, b)
  BY <1>1, <1>2, <1>6, <1>7, <1>9, AheadInHalves
<1>13. \A a, b : Ahead(taken, a, b) => Ahead(channel, a, b)
  BY <1>1, <1>2, <1>6, <1>9, AheadInPiece
<1>14. \A a, b : Ahead(rest, a, b) => Ahead(channel, a, b)
  BY <1>1, <1>2, <1>7, <1>9, AheadInPiece
<1>15. /\ RequestQueues' /\ OncePlaced' /\ ByClass' /\ Accounted' /\ KeepOrder' /\ NoOvertaking'
       /\ QueueLen' <= QueueLen + Len(taken)
  BY <1>8, <1>10, <1>12, <1>13, <1>14, PushKeepsArrival
<1>16. QueueLen' \in Nat
  BY <1>15 DEF QueueLen, RequestQueues
<1>17. QueueBounded'
  BY <1>3, <1>4, <1>5, <1>8, <1>11, <1>15, <1>16 DEF QueueBounded
<1> QED BY <1>15, <1>17

\* While the loop waits the queues are empty, so one request can be received.
LEMMA ReceiveKeepsArrival ==
  ASSUME ArrivalInv, Receive
  PROVE  ArrivalInv'
<1> USE DEF ArrivalInv
<1>1. channel \in Seq(Request) /\ IsInjective(channel) /\ channel # << >>
  BY DEF RequestQueues, OncePlaced, Receive
<1>2. PICK taken : taken = <<Head(channel)>>
  OBVIOUS
<1>3. PICK rest : rest = Tail(channel)
  OBVIOUS
<1>4. PushAll(taken, Gone) /\ channel' = rest /\ UNCHANGED <<sent, dispatched, closed>>
      /\ pc = "idle" /\ pc' = "collect"
  BY <1>2, <1>3 DEF Receive, Gone
<1>5. /\ Head(channel) \in Incoming /\ rest \in Seq(Request) /\ IsInjective(rest)
      /\ ToSet(rest) = Incoming \ {Head(channel)}
  BY <1>1, <1>3, TailKeeps DEF Incoming
<1>6. Head(channel) \in Request
  BY <1>1
<1>7. taken \in Seq(Request) /\ ToSet(taken) = {Head(channel)} /\ IsInjective(taken) /\ Len(taken) = 1
  BY <1>2, <1>6, SingletonQueue
<1>8. \A a \in ToSet(taken), b \in ToSet(rest) : Ahead(channel, a, b)
  BY <1>1, <1>3, <1>7, AheadOfTail
<1>9. \A a, b : Ahead(rest, a, b) => Ahead(channel, a, b)
  BY <1>1, <1>3, AheadOfTail
<1>10. \A a, b : ~Ahead(taken, a, b)
  BY <1>7 DEF Ahead
<1>11. ToSet(taken) \cup ToSet(rest) = Incoming /\ ToSet(taken) \cap ToSet(rest) = {}
  BY <1>5, <1>7
<1>12. /\ RequestQueues' /\ OncePlaced' /\ ByClass' /\ Accounted' /\ KeepOrder' /\ NoOvertaking'
       /\ QueueLen' <= QueueLen + Len(taken)
  BY <1>4, <1>5, <1>7, <1>8, <1>9, <1>10, <1>11, PushKeepsArrival
<1>13. QueueLen' \in Nat /\ QueueLen = 0
  BY <1>4, <1>12 DEF QueueLen, RequestQueues, QueueBounded
<1>14. QueueBounded'
  BY <1>4, <1>7, <1>12, <1>13, AdmissionAssumption DEF QueueBounded
<1> QED BY <1>12, <1>14

\* A new request is behind all others.
LEMMA SendKeepsArrival ==
  ASSUME ArrivalInv, NEW r \in Request, Send(r)
  PROVE  ArrivalInv'
<1> USE DEF ArrivalInv
<1>1. /\ r \notin ToSet(sent) /\ channel' = Append(channel, r) /\ sent' = Append(sent, r)
      /\ UNCHANGED <<ordered, bypass, shutdown, dispatched, closed, pc>>
  BY DEF Send, queueVars
<1>2. /\ sent \in Seq(Request) /\ channel \in Seq(Request) /\ dispatched \in Seq(Request)
      /\ ordered \in Seq(Request) /\ IsInjective(sent) /\ IsInjective(channel)
  BY DEF RequestQueues, OncePlaced
<1>3. r \notin Places
  BY <1>1 DEF Accounted
<1>4. channel' \in Seq(Request) /\ ToSet(channel') = Incoming \cup {r} /\ IsInjective(channel')
  BY <1>1, <1>2, <1>3, AppendKeeps DEF Places, Incoming
<1>5. sent' \in Seq(Request) /\ ToSet(sent') = ToSet(sent) \cup {r} /\ IsInjective(sent')
  BY <1>1, <1>2, AppendKeeps
<1>6. \A a, b : Ahead(channel', a, b) <=> (Ahead(channel, a, b) \/ (a \in Incoming /\ b = r))
  BY <1>1, <1>2, AheadInAppend DEF Incoming
<1>7. \A a, b : Ahead(sent', a, b) <=> (Ahead(sent, a, b) \/ (a \in ToSet(sent) /\ b = r))
  BY <1>1, <1>2, AheadInAppend
<1>8. /\ Incoming' = Incoming \cup {r} /\ ToSet(ordered') = ToSet(ordered)
      /\ ToSet(bypass') = ToSet(bypass) /\ ToSet(shutdown') = ToSet(shutdown)
      /\ ToSet(dispatched') = ToSet(dispatched)
  BY <1>1, <1>4 DEF Incoming
<1>9. RequestQueues'
  BY <1>1, <1>4, <1>5 DEF RequestQueues
<1>10. OncePlaced'
  BY <1>1, <1>3, <1>4, <1>5, <1>8 DEF OncePlaced, Places
<1>11. ByClass'
  BY <1>8 DEF ByClass, Ordered
<1>12. Accounted'
  <2>1. Places' = Places \cup {r}
    BY <1>8 DEF Places
  <2> QED BY <1>1, <1>5, <2>1 DEF Accounted
<1>13. KeepOrder'
  <2>1. Incoming \subseteq ToSet(sent) /\ ToSet(ordered) \subseteq ToSet(sent)
    BY DEF Accounted, Places
  <2>2. \A a, b : Ahead(channel', a, b) => Ahead(sent', a, b)
    BY <1>6, <1>7, <2>1 DEF KeepOrder
  <2>3. \A a, b : Ahead(ordered', a, b) => Ahead(sent', a, b)
    BY <1>1, <1>7 DEF KeepOrder
  <2>4. \A a \in ToSet(ordered'), b \in Incoming' : Ahead(sent', a, b)
    BY <1>7, <1>8, <2>1 DEF KeepOrder
  <2> QED BY <2>2, <2>3, <2>4 DEF KeepOrder
<1>14. NoOvertaking'
  <2> SUFFICES ASSUME NEW i \in 1..Len(dispatched), NEW q, Ordered(dispatched[i]), Ordered(q),
                      Ahead(sent', q, dispatched[i]), q \notin closed
               PROVE  \E k \in 1..(i - 1) : dispatched[k] = q
    BY <1>1 DEF NoOvertaking, Ordered
  <2>1. dispatched[i] \in ToSet(sent)
    BY <1>2, MembersHavePositions DEF Accounted, Places
  <2>2. Ahead(sent, q, dispatched[i])
    BY <1>1, <1>7, <2>1
  <2>3. q \in ToSet(sent)
    BY <1>2, <2>2, AheadMembers
  <2> QED BY <2>2, <2>3 DEF NoOvertaking
<1>15. QueueBounded'
  BY <1>1 DEF QueueBounded, QueueLen
<1> QED BY <1>9, <1>10, <1>11, <1>12, <1>13, <1>14, <1>15


\* A control passes by: it is not one of the ordered requests.
LEMMA BypassKeepsArrival ==
  ASSUME ArrivalInv, DispatchBypass
  PROVE  ArrivalInv'
<1> USE DEF ArrivalInv
<1>1. PICK r : r = Head(bypass)
  OBVIOUS
<1>2. /\ bypass # << >> /\ bypass' = Tail(bypass) /\ dispatched' = Append(dispatched, r)
      /\ pc = "dispatch" /\ UNCHANGED <<ordered, shutdown, channel, closed, sent, pc>>
  BY <1>1 DEF DispatchBypass, TakeBypassControl, Dispatch
<1>3. /\ bypass \in Seq(Request) /\ dispatched \in Seq(Request) /\ sent \in Seq(Request)
      /\ IsInjective(bypass) /\ IsInjective(dispatched)
  BY DEF RequestQueues, OncePlaced
<1>4. /\ r \in ToSet(bypass) /\ bypass' \in Seq(Request) /\ IsInjective(bypass')
      /\ ToSet(bypass') = ToSet(bypass) \ {r}
  BY <1>1, <1>2, <1>3, TailKeeps
<1>5. r \in Request /\ Class[r] = "bypass" /\ ~Ordered(r) /\ r \notin ToSet(dispatched)
  BY <1>3, <1>4, MembersHavePositions DEF ByClass, Ordered, OncePlaced
<1>6. /\ dispatched' \in Seq(Request) /\ ToSet(dispatched') = ToSet(dispatched) \cup {r}
      /\ IsInjective(dispatched')
  BY <1>2, <1>3, <1>5, AppendKeeps
<1>7. /\ Incoming' = Incoming /\ ToSet(ordered') = ToSet(ordered)
      /\ ToSet(shutdown') = ToSet(shutdown) /\ ToSet(sent') = ToSet(sent)
  BY <1>2 DEF Incoming
<1>8. RequestQueues'
  BY <1>2, <1>4, <1>6 DEF RequestQueues
<1>9. OncePlaced'
  <2>1. r \notin Incoming
    BY <1>4 DEF OncePlaced
  <2>2. r \notin ToSet(ordered) /\ r \notin ToSet(shutdown)
    BY <1>5 DEF ByClass, Ordered
  <2> QED BY <1>2, <1>4, <1>6, <1>7, <2>1, <2>2 DEF OncePlaced
<1>10. ByClass'
  BY <1>4, <1>7 DEF ByClass, Ordered
<1>11. Accounted'
  <2>1. Places' = Places
    BY <1>4, <1>6, <1>7 DEF Places
  <2> QED BY <1>2, <1>7, <2>1 DEF Accounted
<1>12. KeepOrder'
  BY <1>2, <1>7 DEF KeepOrder
<1>13. NoOvertaking'
  <2>1. PICK n \in Nat : n = Len(dispatched)
    BY <1>3
  <2>2. Len(dispatched') = n + 1 /\ (\A i \in 1..n : dispatched'[i] = dispatched[i]) /\ dispatched'[n + 1] = r
    BY <1>2, <1>3, <1>5, <2>1, AppendProperties
  <2> SUFFICES ASSUME NEW i \in 1..(n + 1), NEW q \in ToSet(sent), Ordered(dispatched'[i]), Ordered(q),
                      Ahead(sent, q, dispatched'[i]), q \notin closed
               PROVE  \E k \in 1..(i - 1) : dispatched'[k] = q
    BY <1>2, <1>7, <2>2 DEF NoOvertaking, Ordered
  <2>3. i \in 1..n
    BY <1>5, <2>2
  <2>4. PICK k \in 1..(i - 1) : dispatched[k] = q
    BY <2>1, <2>2, <2>3 DEF NoOvertaking
  <2>5. k \in 1..n
    BY <2>3
  <2> QED BY <2>2, <2>4, <2>5
<1>14. QueueBounded'
  <2>1. Len(bypass') = Len(bypass) - 1 /\ Len(bypass) \in Nat
    BY <1>2, <1>3, HeadTailProperties
  <2>2. Len(ordered) \in Nat /\ Len(shutdown) \in Nat /\ MaxPending \in Nat
    BY AdmissionAssumption DEF RequestQueues
  <2> QED BY <1>2, <2>1, <2>2 DEF QueueBounded, QueueLen
<1> QED BY <1>8, <1>9, <1>10, <1>11, <1>12, <1>13, <1>14

\* The front of the ordered queue was sent before all that is not dispatched
\* yet and not left by its client.
LEMMA OrderedKeepsArrival ==
  ASSUME ArrivalInv, DispatchOrdered
  PROVE  ArrivalInv'
<1> USE DEF ArrivalInv
<1>1. PICK r : r = Head(ordered)
  OBVIOUS
<1>2. /\ ordered # << >> /\ ordered' = Tail(ordered) /\ dispatched' = Append(dispatched, r)
      /\ pc = "dispatch" /\ UNCHANGED <<bypass, shutdown, channel, closed, sent, pc>>
  BY <1>1 DEF DispatchOrdered, PopAdmissible, Dispatch
<1>3. /\ ordered \in Seq(Request) /\ dispatched \in Seq(Request) /\ sent \in Seq(Request)
      /\ IsInjective(ordered) /\ IsInjective(dispatched) /\ IsInjective(sent)
  BY DEF RequestQueues, OncePlaced
<1>4. /\ r \in ToSet(ordered) /\ ordered' \in Seq(Request) /\ IsInjective(ordered')
      /\ ToSet(ordered') = ToSet(ordered) \ {r}
  BY <1>1, <1>2, <1>3, TailKeeps
<1>5. r \in Request /\ Ordered(r) /\ r \notin ToSet(dispatched)
  BY <1>3, <1>4, MembersHavePositions DEF ByClass, Ordered, OncePlaced
<1>6. /\ dispatched' \in Seq(Request) /\ ToSet(dispatched') = ToSet(dispatched) \cup {r}
      /\ IsInjective(dispatched')
  BY <1>2, <1>3, <1>5, AppendKeeps
<1>7. /\ Incoming' = Incoming /\ ToSet(bypass') = ToSet(bypass)
      /\ ToSet(shutdown') = ToSet(shutdown) /\ ToSet(sent') = ToSet(sent)
  BY <1>2 DEF Incoming
<1>8. RequestQueues'
  BY <1>2, <1>4, <1>6 DEF RequestQueues
<1>9. OncePlaced'
  <2>1. r \notin Incoming
    BY <1>4 DEF OncePlaced
  <2>2. r \notin ToSet(bypass) /\ r \notin ToSet(shutdown)
    BY <1>5 DEF ByClass, Ordered
  <2> QED BY <1>2, <1>4, <1>6, <1>7, <2>1, <2>2 DEF OncePlaced
<1>10. ByClass'
  BY <1>4, <1>7 DEF ByClass, Ordered
<1>11. Accounted'
  <2>1. Places' = Places
    BY <1>4, <1>6, <1>7 DEF Places
  <2> QED BY <1>2, <1>7, <2>1 DEF Accounted
<1>12. /\ \A b \in ToSet(ordered') : Ahead(ordered, r, b)
       /\ \A a, b : Ahead(ordered', a, b) => Ahead(ordered, a, b)
  BY <1>1, <1>2, <1>3, AheadOfTail
<1>13. KeepOrder'
  BY <1>2, <1>4, <1>7, <1>12 DEF KeepOrder
<1>14. NoOvertaking'
  <2>1. PICK n \in Nat : n = Len(dispatched)
    BY <1>3
  <2>2. Len(dispatched') = n + 1 /\ (\A i \in 1..n : dispatched'[i] = dispatched[i]) /\ dispatched'[n + 1] = r
    BY <1>2, <1>3, <1>5, <2>1, AppendProperties
  <2> SUFFICES ASSUME NEW i \in 1..(n + 1), NEW q \in ToSet(sent), Ordered(dispatched'[i]), Ordered(q),
                      Ahead(sent, q, dispatched'[i]), q \notin closed
               PROVE  \E k \in 1..(i - 1) : dispatched'[k] = q
    BY <1>2, <1>7, <2>2 DEF NoOvertaking, Ordered
  <2>3. CASE i \in 1..n
    <3>1. PICK k \in 1..(i - 1) : dispatched[k] = q
      BY <2>1, <2>2, <2>3 DEF NoOvertaking
    <3>2. k \in 1..n
      BY <2>3
    <3> QED BY <2>2, <3>1, <3>2
  <2>4. CASE i = n + 1
    <3>1. Ahead(sent, q, r)
      BY <2>2, <2>4
    <3>2. q # r /\ ~Ahead(sent, r, q)
      BY <1>3, <3>1, AheadAsymmetric
    <3>3. q \notin ToSet(ordered)
      BY <1>4, <1>12, <3>2 DEF KeepOrder
    <3>4. q \notin Incoming
      BY <1>4, <3>2 DEF KeepOrder
    <3>5. q \notin ToSet(bypass) /\ q \notin ToSet(shutdown)
      BY DEF ByClass, Ordered
    <3>6. q \in ToSet(dispatched)
      BY <3>3, <3>4, <3>5 DEF Accounted, Places
    <3>7. PICK k \in 1..n : dispatched[k] = q
      BY <1>3, <2>1, <3>6, MembersHavePositions
    <3>8. k \in 1..(i - 1) /\ dispatched'[k] = q
      BY <2>2, <2>4, <3>7
    <3> QED BY <3>8
  <2> QED BY <2>3, <2>4
<1>15. QueueBounded'
  <2>1. Len(ordered') = Len(ordered) - 1 /\ Len(ordered) \in Nat
    BY <1>2, <1>3, HeadTailProperties
  <2>2. Len(bypass) \in Nat /\ Len(shutdown) \in Nat /\ MaxPending \in Nat
    BY AdmissionAssumption DEF RequestQueues
  <2> QED BY <1>2, <2>1, <2>2 DEF QueueBounded, QueueLen
<1> QED BY <1>8, <1>9, <1>10, <1>11, <1>13, <1>14, <1>15

\* Nobody has sent anything.
LEMMA InitArrival == Init => ArrivalInv
<1> SUFFICES ASSUME Init PROVE ArrivalInv
  OBVIOUS
<1>1. /\ sent = << >> /\ channel = << >> /\ ordered = << >> /\ bypass = << >>
      /\ shutdown = << >> /\ dispatched = << >> /\ pc = "collect"
  BY DEF Init, QueueInit
<1>2. << >> \in Seq(Request) /\ ToSet(<< >>) = {} /\ IsInjective(<< >>)
  BY EmptyQueue
<1>3. RequestQueues /\ OncePlaced /\ ByClass /\ Accounted
  BY <1>1, <1>2 DEF RequestQueues, OncePlaced, ByClass, Accounted, Places, Incoming
<1>4. KeepOrder /\ NoOvertaking
  BY <1>1, <1>2 DEF KeepOrder, NoOvertaking, Ahead, Incoming
<1>5. QueueBounded
  BY <1>1, AdmissionAssumption DEF QueueBounded, QueueLen
<1> QED BY <1>3, <1>4, <1>5 DEF ArrivalInv

\* A step that leaves channel, queues and dispatches alone keeps the invariant
\* when the loop goes idle only with empty queues and clients only leave.
LEMMA OthersKeepArrival ==
  ASSUME ArrivalInv, UNCHANGED <<queueVars, channel, sent, dispatched>>,
         closed \subseteq closed', pc' = "idle" => QueueLen = 0
  PROVE  ArrivalInv'
<1> USE DEF ArrivalInv
<1>1. UNCHANGED <<ordered, bypass, shutdown, channel, sent, dispatched>>
  BY DEF queueVars
<1>2. RequestQueues' /\ OncePlaced' /\ ByClass' /\ KeepOrder'
  BY <1>1 DEF RequestQueues, OncePlaced, ByClass, KeepOrder, Incoming, Ordered
<1>3. Accounted'
  BY <1>1 DEF Accounted, Places, Incoming
<1>4. NoOvertaking'
  BY <1>1 DEF NoOvertaking, Ordered
<1>5. QueueBounded'
  BY <1>1 DEF QueueBounded, QueueLen
<1> QED BY <1>2, <1>3, <1>4, <1>5

\* Every step of the engine and of its clients keeps it.
LEMMA NextKeepsArrival == ArrivalInv /\ [Next]_vars => ArrivalInv'
<1> SUFFICES ASSUME ArrivalInv, [Next]_vars PROVE ArrivalInv'
  OBVIOUS
<1>1. CASE Collect
  BY <1>1, CollectKeepsArrival
<1>2. CASE DispatchBypass
  BY <1>2, BypassKeepsArrival
<1>3. CASE DispatchOrdered
  BY <1>3, OrderedKeepsArrival
<1>4. CASE EndDispatch
  <2>1. QueueLen \in Nat
    BY DEF ArrivalInv, RequestQueues, QueueLen
  <2>2. UNCHANGED <<queueVars, channel, sent, dispatched, closed>>
    BY <1>4 DEF EndDispatch
  <2>3. pc' = "idle" => ~(QueueLen > 0)
    BY <1>4 DEF EndDispatch
  <2> QED BY <2>1, <2>2, <2>3, OthersKeepArrival
<1>5. CASE Receive
  BY <1>5, ReceiveKeepsArrival
<1>6. CASE Wake
  BY <1>6, OthersKeepArrival DEF Wake
<1>7. CASE DoSchedule
  BY <1>7, OthersKeepArrival DEF DoSchedule
<1>8. CASE RunCompletions
  BY <1>8, OthersKeepArrival DEF RunCompletions
<1>9. CASE RunPrompts
  BY <1>9, OthersKeepArrival DEF RunPrompts
<1>10. CASE EndStep
  BY <1>10, OthersKeepArrival DEF EndStep
<1>11. ASSUME NEW r \in Request, Send(r) PROVE ArrivalInv'
  BY <1>11, SendKeepsArrival
<1>12. ASSUME NEW r \in Request, Close(r) PROVE ArrivalInv'
  <2>1. UNCHANGED <<queueVars, channel, sent, dispatched, pc>> /\ closed \subseteq closed'
    BY <1>12 DEF Close
  <2> QED BY <2>1, OthersKeepArrival DEF ArrivalInv, QueueBounded
<1>13. CASE UNCHANGED vars
  <2>1. UNCHANGED <<queueVars, channel, sent, dispatched, pc, closed>>
    BY <1>13 DEF vars, engineVars
  <2> QED BY <2>1, OthersKeepArrival DEF ArrivalInv, QueueBounded
<1> QED
  BY <1>1, <1>2, <1>3, <1>4, <1>5, <1>6, <1>7, <1>8, <1>9, <1>10, <1>11, <1>12, <1>13
  DEF Next, EngineStep

\* What is known of requests, whatever the engine does with their sequences:
\* channel and queues keep the order in which requests were sent, and none is
\* in two places or lost.
THEOREM ArrivalKnown == Spec => []ArrivalInv
BY InitArrival, NextKeepsArrival, PTL DEF Spec

\* The invariant gives the order of arrival in the words of the runs.
LEMMA ArrivalInvGivesOrder == ArrivalInv => ArrivalOrder
<1> SUFFICES ASSUME ArrivalInv PROVE ArrivalOrder
  OBVIOUS
<1> USE DEF ArrivalInv
<1>1. /\ channel \in Seq(Request) /\ ordered \in Seq(Request) /\ bypass \in Seq(Request)
      /\ shutdown \in Seq(Request) /\ dispatched \in Seq(Request) /\ sent \in Seq(Request)
  BY DEF RequestQueues
<1>2. /\ IsInjective(channel) /\ IsInjective(ordered) /\ IsInjective(bypass)
      /\ IsInjective(shutdown) /\ IsInjective(dispatched) /\ IsInjective(sent)
  BY DEF OncePlaced
<1>3. PICK p1 : p1 = channel \o ordered
  OBVIOUS
<1>4. PICK p2 : p2 = p1 \o bypass
  OBVIOUS
<1>5. PICK p3 : p3 = p2 \o shutdown
  OBVIOUS
<1>6. PICK p4 : p4 = p3 \o dispatched
  OBVIOUS
<1>7. p1 \in Seq(Request) /\ ToSet(p1) = Incoming \cup ToSet(ordered)
  BY <1>1, <1>3, ConcatIsUnion, ConcatProperties DEF Incoming
<1>8. p2 \in Seq(Request) /\ ToSet(p2) = Incoming \cup ToSet(ordered) \cup ToSet(bypass)
  BY <1>1, <1>4, <1>7, ConcatIsUnion, ConcatProperties
<1>9. p3 \in Seq(Request) /\ ToSet(p3) = Incoming \cup ToSet(ordered) \cup ToSet(bypass) \cup ToSet(shutdown)
  BY <1>1, <1>5, <1>8, ConcatIsUnion, ConcatProperties
<1>10. p4 \in Seq(Request) /\ ToSet(p4) = Places
  BY <1>1, <1>6, <1>9, ConcatIsUnion, ConcatProperties DEF Places
<1>11. IsInjective(p1)
  <2>1. ToSet(channel) \cap ToSet(ordered) = {}
    BY DEF OncePlaced, Incoming
  <2> QED BY <1>1, <1>2, <1>3, <2>1, ConcatInjective
<1>12. IsInjective(p2)
  <2>1. ToSet(p1) \cap ToSet(bypass) = {}
    BY <1>7 DEF OncePlaced, ByClass, Ordered
  <2> QED BY <1>1, <1>2, <1>4, <1>7, <1>11, <2>1, ConcatInjective
<1>13. IsInjective(p3)
  <2>1. ToSet(p2) \cap ToSet(shutdown) = {}
    BY <1>8 DEF OncePlaced, ByClass, Ordered
  <2> QED BY <1>1, <1>2, <1>5, <1>8, <1>12, <2>1, ConcatInjective
<1>14. IsInjective(p4)
  <2>1. ToSet(p3) \cap ToSet(dispatched) = {}
    BY <1>9 DEF OncePlaced
  <2> QED BY <1>1, <1>2, <1>6, <1>9, <1>13, <2>1, ConcatInjective
<1>15. ASSUME NEW i \in DOMAIN dispatched, NEW j \in 1..Len(sent), Ordered(dispatched[i]),
              Ordered(sent[j]), j < Position(sent, dispatched[i]), sent[j] \notin closed
       PROVE  sent[j] \in ToSet(SubSeq(dispatched, 1, i - 1))
  <2>1. PICK n \in Nat, m \in Nat : n = Len(sent) /\ m = Len(dispatched)
    BY <1>1
  <2>2. i \in 1..m /\ dispatched[i] \in ToSet(dispatched)
    BY <1>1, <2>1, MembersHavePositions
  <2>3. dispatched[i] \in ToSet(sent)
    BY <2>2 DEF Accounted, Places
  <2>4. \E k \in 1..n : sent[k] = dispatched[i]
    BY <1>1, <2>1, <2>3, MembersHavePositions
  <2>5. PICK k \in 1..n : k = Position(sent, dispatched[i]) /\ sent[k] = dispatched[i]
    <3>1. DOMAIN sent = 1..n
      BY <1>1, <2>1
    <3> QED BY <2>4, <3>1 DEF Position
  <2>6. Ahead(sent, sent[j], dispatched[i])
    BY <1>15, <2>1, <2>5 DEF Ahead
  <2>7. sent[j] \in ToSet(sent)
    BY <1>1, MembersHavePositions
  <2>8. PICK k2 \in 1..(i - 1) : dispatched[k2] = sent[j]
    BY <1>15, <2>1, <2>2, <2>6, <2>7 DEF NoOvertaking
  <2>9. 1 \in 1..(m + 1) /\ i - 1 \in 0..m
    BY <2>2
  <2> QED BY <1>1, <2>1, <2>8, <2>9, SubSeqKeeps
<1>16. QueueLen <= MaxPending
  BY DEF QueueBounded
<1>17. \A r \in ToSet(sent) : r \in ToSet(p4) \/ r \in closed
  BY <1>10 DEF Accounted
<1> QED BY <1>3, <1>4, <1>5, <1>6, <1>14, <1>15, <1>16, <1>17 DEF ArrivalOrder

-----------------------------------------------------------------------------
(* Sequences: the lemmas. *)

\* Two of a finite set differ in no key when there is at most one key.
LEMMA OneKey ==
  ASSUME NEW S, IsFiniteSet(S), NEW f, Cardinality({f[s] : s \in S}) <= 1
  PROVE  \A s, t \in S : f[s] = f[t]
<1>1. PICK K : K = {f[s] : s \in S}
  OBVIOUS
<1>2. [s \in S |-> f[s]] \in Surjection(S, K)
  BY <1>1 DEF Surjection
<1>3. IsFiniteSet(K)
  BY <1>2, FS_Surjection
<1>4. Cardinality(K) \in Nat
  BY <1>3, FS_CardinalityType
<1>5. Cardinality(K) = 0 \/ Cardinality(K) = 1
  BY <1>1, <1>4
<1>6. CASE Cardinality(K) = 0
  <2>1. K = {}
    BY <1>3, <1>6, FS_EmptySet
  <2> QED BY <1>1, <2>1
<1>7. CASE Cardinality(K) = 1
  <2>1. PICK x : K = {x}
    BY <1>3, <1>7, FS_Singleton
  <2> QED BY <1>1, <2>1
<1> QED BY <1>5, <1>6, <1>7

\* Two queues with all the sequences of two others, of which the one that runs
\* is of one bucket.
Split(b, run, wait) ==
    /\ b.running \in Seq(Nat) /\ b.waiting \in Seq(Nat)
    /\ IsInjective(b.running) /\ IsInjective(b.waiting)
    /\ ToSet(b.running) \cap ToSet(b.waiting) = {}
    /\ ToSet(b.running) \subseteq ToSet(run)
    /\ ToSet(b.running) \cup ToSet(b.waiting) = ToSet(run) \cup ToSet(wait)
    /\ \A s, t \in ToSet(b.running) : BucketKey(s) = BucketKey(t)

Apart(run, wait) ==
    /\ run \in Seq(Nat) /\ wait \in Seq(Nat) /\ IsInjective(run) /\ IsInjective(wait)
    /\ ToSet(run) \cap ToSet(wait) = {}

\* bucket_and_waitlist_seqs_waiting loses and doubles no sequence.
LEMMA BucketedSplits ==
  ASSUME NEW run, NEW wait, Apart(run, wait), NEW discrete, NEW b \in Bucketed(run, wait, discrete)
  PROVE  Split(b, run, wait)
<1> DEFINE keys == {BucketKey(s) : s \in ToSet(run)}
<1>1. IsFiniteSet(ToSet(run))
  BY LenIsCardinality DEF Apart
<1>2. CASE Cardinality(keys) <= 1
  <2>1. b = [running |-> run, waiting |-> wait]
    BY <1>2 DEF Bucketed
  <2>2. b.running = run /\ b.waiting = wait
    BY <2>1
  <2>3. PICK f : f = [s \in ToSet(run) |-> BucketKey(s)]
    OBVIOUS
  <2>4. \A s \in ToSet(run) : f[s] = BucketKey(s)
    BY <2>3
  <2>5. keys = {f[s] : s \in ToSet(run)}
    BY <2>4
  <2>6. \A s, t \in ToSet(run) : f[s] = f[t]
    BY <1>1, <1>2, <2>5, OneKey
  <2>7. \A s, t \in ToSet(run) : BucketKey(s) = BucketKey(t)
    BY <2>4, <2>6
  <2> QED BY <2>2, <2>7 DEF Split, Apart
<1>3. CASE ~(Cardinality(keys) <= 1)
  <2>1. PICK k, queue : queue \in Others(run, k) /\ b = [running |-> Bucket(run, k), waiting |-> wait \o queue]
    BY <1>3 DEF Bucketed
  <2>2. PICK O : O = {s \in ToSet(run) : BucketKey(s) # k}
    OBVIOUS
  <2>3. IsFiniteSet(O)
    <3>1. O \in SUBSET ToSet(run)
      BY <2>2
    <3> QED BY <1>1, <3>1, FS_Subset
  <2>4. queue \in SetToSeqs(O)
    BY <2>1, <2>2 DEF Others
  <2>5. queue \in Seq(O) /\ IsInjective(queue) /\ ToSet(queue) = O
    BY <2>3, <2>4, SetToSeqsProperties
  <2>6. run \in Seq(Nat) /\ ToSet(run) \subseteq Nat
    BY MembersHavePositions DEF Apart
  <2>7. queue \in Seq(Nat)
    BY <2>2, <2>5, <2>6
  <2>8. PICK r : r = Bucket(run, k)
    OBVIOUS
  <2>9. PICK K : K = {s \in ToSet(run) : BucketKey(s) = k}
    OBVIOUS
  <2>10. r \in Seq(Nat) /\ IsInjective(r) /\ ToSet(r) = ToSet(run) \cap K
    BY <2>6, <2>8, <2>9, KeepProperties DEF Bucket, Apart
  <2>11. PICK w : w = wait \o queue
    OBVIOUS
  <2>12. w \in Seq(Nat) /\ ToSet(w) = ToSet(wait) \cup O
    BY <2>5, <2>7, <2>11, ConcatIsUnion, ConcatProperties DEF Apart
  <2>13. IsInjective(w)
    <3>1. ToSet(wait) \cap ToSet(queue) = {}
      BY <2>2, <2>5 DEF Apart
    <3> QED BY <2>5, <2>7, <2>11, <3>1, ConcatInjective DEF Apart
  <2>14. b.running = r /\ b.waiting = w
    BY <2>1, <2>8, <2>11
  <2>15. ToSet(r) \cap ToSet(w) = {} /\ ToSet(r) \subseteq ToSet(run)
    BY <2>2, <2>9, <2>10, <2>12 DEF Apart
  <2>16. ToSet(r) \cup ToSet(w) = ToSet(run) \cup ToSet(wait)
    BY <2>2, <2>9, <2>10, <2>12
  <2>17. \A s, t \in ToSet(r) : BucketKey(s) = BucketKey(t)
    BY <2>9, <2>10
  <2> QED BY <2>10, <2>12, <2>13, <2>14, <2>15, <2>16, <2>17 DEF Split
<1> QED BY <1>2, <1>3

\* What scheduling and running leave alone of a sequence.
Same(s) ==
    /\ seq'[s].req = seq[s].req /\ seq'[s].tokens = seq[s].tokens /\ seq'[s].offset = seq[s].offset
    /\ seq'[s].kv = seq[s].kv /\ seq'[s].prefill = seq[s].prefill

Updated(p, q, st) ==
    /\ p \in SeqType /\ p.req = q.req /\ p.tokens = q.tokens /\ p.offset = q.offset
    /\ p.kv = q.kv /\ p.prefill = q.prefill /\ p.state = st

\* Two fields may change without harm to the type.
LEMMA SequenceUpdate ==
  ASSUME NEW q \in SeqType, NEW u \in Nat, NEW st \in States
  PROVE  Updated([q EXCEPT !.urgency = u, !.state = st], q, st)
BY DEF SeqType, Updated

\* The sequences of two queues are put in two others: nothing but state and
\* urgency changes, and the state as enter and stop say.
Adopted(run, wait, enter, stop) ==
    /\ running' \in Seq(Nat) /\ waiting' \in Seq(Nat)
    /\ IsInjective(running') /\ IsInjective(waiting') /\ Runs' \cap Waits' = {}
    /\ Runs' \subseteq ToSet(run) /\ Live' = ToSet(run) \cup ToSet(wait)
    /\ seq' \in [Live' -> SeqType]
    /\ \A s \in Live' : Same(s)
    /\ \A s \in Runs' : seq'[s].state = (IF stop THEN "done" ELSE enter[s])
    /\ \A s \in ToSet(run) \ Runs' : seq'[s].state = enter[s]
    /\ \A s \in Live' \ ToSet(run) : seq'[s].state = seq[s].state
    /\ \A s, t \in Runs' : BucketKey(s) = BucketKey(t)

\* Adopt does that.
LEMMA AdoptAdopts ==
  ASSUME NEW run, NEW wait, Apart(run, wait), NEW discrete, NEW enter, NEW stop,
         seq \in [Live -> SeqType], ToSet(run) \cup ToSet(wait) \subseteq Live,
         \A s \in ToSet(run) : enter[s] \in States,
         Adopt(run, wait, discrete, enter, stop)
  PROVE  Adopted(run, wait, enter, stop)
<1>1. PICK b \in Bucketed(run, wait, discrete) :
        /\ running' = b.running /\ waiting' = b.waiting
        /\ seq' = [s \in ToSet(b.running) \cup ToSet(b.waiting) |->
                    IF s \in ToSet(b.running)
                    THEN [seq[s] EXCEPT !.urgency = 0, !.state = IF stop THEN "done" ELSE enter[s]]
                    ELSE IF s \in ToSet(run)
                    THEN [seq[s] EXCEPT !.urgency = @ + 1, !.state = enter[s]]
                    ELSE seq[s]]
  BY DEF Adopt
<1>2. Split(b, run, wait)
  BY BucketedSplits
<1>3. Runs' = ToSet(b.running) /\ Waits' = ToSet(b.waiting) /\ Live' = Runs' \cup Waits'
  BY <1>1 DEF Runs, Waits, Live
<1>4. /\ running' \in Seq(Nat) /\ waiting' \in Seq(Nat)
      /\ IsInjective(running') /\ IsInjective(waiting') /\ Runs' \cap Waits' = {}
      /\ Runs' \subseteq ToSet(run) /\ Live' = ToSet(run) \cup ToSet(wait)
      /\ \A s, t \in Runs' : BucketKey(s) = BucketKey(t)
  BY <1>1, <1>2, <1>3 DEF Split
<1>5. \A s \in Live' : seq[s] \in SeqType
  BY <1>4
<1>6. DOMAIN seq' = Live'
  BY <1>1, <1>3
<1>7. ASSUME NEW s \in Runs'
      PROVE  seq'[s] \in SeqType /\ Same(s) /\ seq'[s].state = (IF stop THEN "done" ELSE enter[s])
  <2>1. PICK st \in States : st = (IF stop THEN "done" ELSE enter[s])
    BY <1>4, SMTT(30) DEF States
  <2>2. seq'[s] = [seq[s] EXCEPT !.urgency = 0, !.state = st]
    BY <1>1, <1>3, <2>1
  <2>3. seq[s] \in SeqType /\ 0 \in Nat
    BY <1>3, <1>5
  <2>4. PICK q \in SeqType : q = seq[s]
    BY <2>3
  <2>5. Updated([q EXCEPT !.urgency = 0, !.state = st], q, st)
    BY <2>3, SequenceUpdate
  <2>6. Updated(seq'[s], seq[s], st)
    BY <2>2, <2>4, <2>5
  <2> QED BY <2>1, <2>6 DEF Same, Updated
<1>8. ASSUME NEW s \in ToSet(run), s \notin Runs'
      PROVE  seq'[s] \in SeqType /\ Same(s) /\ seq'[s].state = enter[s]
  <2>1. PICK st \in States : st = enter[s]
    OBVIOUS
  <2>2. s \in Live' /\ seq[s] \in SeqType
    BY <1>4, <1>5
  <2>3. PICK u \in Nat : u = seq[s].urgency + 1
    BY <2>2 DEF SeqType
  <2>4. seq'[s] = [seq[s] EXCEPT !.urgency = u, !.state = st]
    BY <1>1, <1>3, <1>8, <2>1, <2>2, <2>3
  <2>5. PICK q \in SeqType : q = seq[s]
    BY <2>2
  <2>6. Updated([q EXCEPT !.urgency = u, !.state = st], q, st)
    BY SequenceUpdate
  <2>7. Updated(seq'[s], seq[s], st)
    BY <2>4, <2>5, <2>6
  <2> QED BY <2>1, <2>7 DEF Same, Updated
<1>9. ASSUME NEW s \in Live', s \notin ToSet(run)
      PROVE  seq'[s] \in SeqType /\ Same(s) /\ seq'[s].state = seq[s].state
  <2>1. seq'[s] = seq[s]
    BY <1>1, <1>3, <1>4, <1>9
  <2> QED BY <1>5, <2>1 DEF Same
<1>10. \A s \in Live' : seq'[s] \in SeqType /\ Same(s)
  BY <1>3, <1>7, <1>8, <1>9
<1>11. seq' \in [Live' -> SeqType]
  <2>1. seq' = [s \in Live' |-> seq'[s]]
    BY <1>1, <1>3, <1>6
  <2> QED BY <1>10, <2>1
<1> QED BY <1>4, <1>7, <1>8, <1>9, <1>10, <1>11 DEF Adopted

\* Fewer sequences of the same requests keep the bound on active sequences.
LEMMA FewerKeepBounded ==
  ASSUME running \in Seq(Nat), waiting \in Seq(Nat), running' \in Seq(Nat), waiting' \in Seq(Nat),
         OnceQueued, Bounded, Live' \subseteq Live, \A s \in Live' : seq'[s].req = seq[s].req
  PROVE  Bounded'
<1>1. ToSet(running \o waiting) = Live
  BY ConcatIsUnion DEF Live, Runs, Waits
<1>2. ToSet(running' \o waiting') = Live'
  BY ConcatIsUnion DEF Live, Runs, Waits
<1>3. IsFiniteSet(Live)
  <2>1. IsFiniteSet(Runs) /\ IsFiniteSet(Waits)
    BY LenIsCardinality DEF OnceQueued, Runs, Waits
  <2> QED BY <2>1, FS_Union DEF Live
<1>4. Cardinality(Live') <= Cardinality(Live) /\ Cardinality(Live) \in Nat /\ Cardinality(Live') \in Nat
  <2>1. PICK L \in SUBSET Live : L = Live'
    OBVIOUS
  <2> QED BY <1>3, <2>1, FS_Subset, FS_CardinalityType
<1>5. CASE Cardinality(Live) <= MaxActive
  <2>1. Cardinality(Live') <= MaxActive
    BY <1>4, <1>5, AdmissionAssumption
  <2> QED BY <1>2, <2>1 DEF Bounded
<1>6. CASE \E r \in Request : NChoices[r] > MaxActive /\ \A s \in Live : seq[s].req = r
  BY <1>2, <1>6 DEF Bounded
<1> QED BY <1>1, <1>5, <1>6 DEF Bounded

\* A reaped queue has what is not finished and whose client is there.
LEMMA ReapedProperties ==
  ASSUME NEW q \in Seq(Nat), IsInjective(q), NEW gone
  PROVE  /\ Reaped(q, gone) \in Seq(Nat) /\ IsInjective(Reaped(q, gone))
         /\ \A s : s \in ToSet(Reaped(q, gone)) <=>
                s \in ToSet(q) /\ ~Finished(s) /\ seq[s].req \notin gone
<1>1. PICK S : S = {s \in ToSet(q) : ~Finished(s) /\ seq[s].req \notin gone}
  OBVIOUS
<1>2. PICK r : r = Keep(q, S)
  OBVIOUS
<1>3. r \in Seq(Nat) /\ IsInjective(r) /\ ToSet(r) = ToSet(q) \cap S
  BY <1>2, KeepProperties
<1>4. Reaped(q, gone) = r
  BY <1>1, <1>2 DEF Reaped
<1> QED BY <1>1, <1>3, <1>4

\* Nothing is said of the empty batch.
LEMMA NoBatchIsEmpty ==
  /\ NoBatch \in [completion : Seq(Nat), prompt : Seq(Nat)]
  /\ NoBatch.completion = << >> /\ NoBatch.prompt = << >>
  /\ ToSet(NoBatch.completion) = {} /\ ToSet(NoBatch.prompt) = {}
BY EmptyQueue DEF NoBatch

\* Steps that leave the sequences alone.
LEMMA OthersKeepBatch ==
  ASSUME BatchInv, UNCHANGED <<waiting, running, seq, batch, pipe, lastIds, exposed, skipped, nextId>>,
         pc' # "step" => batch = NoBatch
  PROVE  BatchInv'
<1> USE DEF BatchInv
<1>1. Runs' = Runs /\ Waits' = Waits /\ Live' = Live
  BY DEF Runs, Waits, Live
<1>2. SeqTypes' /\ OnceQueued' /\ Bounded'
  BY <1>1 DEF SeqTypes, OnceQueued, Bounded
<1>3. BatchAgrees'
  BY <1>1 DEF BatchAgrees, BucketKey, Length
<1>4. CachesKnown' /\ BatchKnown' /\ RunsPrompted' /\ PipeAgrees'
  BY <1>1 DEF CachesKnown, BatchKnown, RunsPrompted, PipeAgrees, Fresh, Started
<1>5. RunsCount'
  BY <1>1 DEF RunsCount, IsRunning, Finished
<1> QED BY <1>2, <1>3, <1>4, <1>5

\* free_finished_scheduler_sequences takes sequences away and leaves the others
\* as they are.
LEMMA CollectKeepsBatch ==
  ASSUME BatchInv, Collect
  PROVE  BatchInv'
<1> USE DEF BatchInv
<1>1. /\ running \in Seq(Nat) /\ waiting \in Seq(Nat) /\ IsInjective(running) /\ IsInjective(waiting)
  BY DEF SeqTypes, OnceQueued
<1>2. /\ running' = Reaped(running, closed) /\ waiting' = Reaped(waiting, closed)
      /\ seq' = OnlyIn(seq, running', waiting')
      /\ UNCHANGED <<batch, pipe, lastIds, exposed, skipped, nextId>> /\ pc = "collect"
  BY DEF Collect, Reap
<1>3. batch = NoBatch
  BY <1>2 DEF BatchAgrees
<1>4. /\ running' \in Seq(Nat) /\ IsInjective(running') /\ Runs' \subseteq Runs
      /\ waiting' \in Seq(Nat) /\ IsInjective(waiting') /\ Waits' \subseteq Waits
  BY <1>1, <1>2, ReapedProperties DEF Runs, Waits
<1>5. Live' \subseteq Live
  BY <1>4 DEF Live
<1>6. seq' = [s \in Live' |-> seq[s]]
  BY <1>2 DEF OnlyIn, Restrict, Live, Runs, Waits
<1>7. \A s \in Live' : seq'[s] = seq[s]
  BY <1>6
<1>8. SeqTypes'
  BY <1>2, <1>4, <1>5, <1>6 DEF SeqTypes
<1>9. OnceQueued'
  BY <1>4 DEF OnceQueued
<1>10. BatchAgrees'
  BY <1>2, <1>3, NoBatchIsEmpty DEF BatchAgrees
<1>11. CachesKnown'
  BY <1>2, <1>5, <1>7 DEF CachesKnown, Fresh, Started
<1>12. BatchKnown'
  BY <1>2, <1>3, NoBatchIsEmpty DEF BatchKnown
<1>13. RunsPrompted'
  BY <1>2, <1>4, <1>7 DEF RunsPrompted, Live
<1>14. PipeAgrees'
  BY <1>2, <1>5, <1>7 DEF PipeAgrees
<1>15. Bounded'
  BY <1>1, <1>4, <1>5, <1>7, FewerKeepBounded
<1>16. RunsCount'
  BY <1>2, <1>4, <1>7 DEF RunsCount, IsRunning, Finished, Live
<1> QED BY <1>8, <1>9, <1>10, <1>11, <1>12, <1>13, <1>14, <1>15, <1>16

\* The sequences of a new request are behind all others and have new identifiers.
LEMMA NewSequences ==
  ASSUME NEW m \in Nat \ {0}, NEW n \in Nat \ {0}
  PROVE  LET q == [i \in 1..n |-> m + i - 1]
         IN  q \in Seq(Nat) /\ IsInjective(q) /\ ToSet(q) = m..(m + n - 1)
<1>1. PICK q : q = [i \in 1..n |-> m + i - 1]
  OBVIOUS
<1>2. \A i \in 1..n : m + i - 1 \in Nat /\ m + i - 1 \in m..(m + n - 1)
  OBVIOUS
<1>3. q \in [1..n -> Nat]
  BY <1>1, <1>2
<1>4. q \in Seq(Nat) /\ Len(q) = n
  BY <1>3
<1>5. \A i, j \in 1..n : q[i] = q[j] => i = j
  BY <1>1
<1>6. \A x : x \in ToSet(q) <=> \E i \in 1..n : q[i] = x
  BY <1>4, MembersHavePositions
<1>7. ASSUME NEW x \in m..(m + n - 1) PROVE x \in ToSet(q)
  <2>1. x - m + 1 \in 1..n /\ m + (x - m + 1) - 1 = x
    OBVIOUS
  <2>2. q[x - m + 1] = x
    BY <1>1, <2>1
  <2> QED BY <1>6, <2>1, <2>2
<1>8. ASSUME NEW x \in ToSet(q) PROVE x \in m..(m + n - 1)
  BY <1>1, <1>2, <1>6
<1> QED BY <1>1, <1>4, <1>5, <1>7, <1>8, InjectiveByPositions

\* A new sequence has the cache of its prefix hit.
LEMMA NewSeqIsFresh ==
  ASSUME NEW r \in Request, NEW offset \in Nat
  PROVE  LET q == NewSeq(r, PromptLen[r], offset)
         IN  /\ q \in SeqType /\ q.req = r /\ q.kv = q.offset /\ (q.prefill <=> q.offset > 0)
             /\ q.state \in {"waiting", "prefill"}
<1>1. PromptLen[r] \in Nat /\ MaxGenerated \in Int /\ (offset > 0) \in BOOLEAN
  BY EngineAssumption, SchedulerAssumption
<1>2. PICK st : st = IF offset > 0 THEN "prefill" ELSE "waiting"
  OBVIOUS
<1>3. st \in {"waiting", "prefill"} /\ st \in States
  BY <1>2 DEF States
<1>4. PICK p \in BOOLEAN : p = (offset > 0)
  BY <1>1
<1>5. PICK q : q = NewSeq(r, PromptLen[r], offset)
  OBVIOUS
<1>6. q = [req |-> r, tokens |-> PromptLen[r], left |-> MaxGenerated, offset |-> offset, kv |-> offset,
           prefill |-> p, urgency |-> 0, state |-> st]
  BY <1>2, <1>4, <1>5 DEF NewSeq
<1>7. q \in SeqType
  BY <1>1, <1>3, <1>6 DEF SeqType
<1>8. q.req = r /\ q.kv = offset /\ q.offset = offset /\ q.prefill = p /\ q.state = st
  BY <1>6
<1> QED BY <1>3, <1>4, <1>5, <1>7, <1>8

\* add_request admits a request with all its sequences when they fit, or when
\* nothing is active and they never would.
LEMMA AddRequestKeepsBatch ==
  ASSUME BatchInv, NEW r \in Request, Class[r] = "workload", Admissible(r, Active), AddRequest(r),
         UNCHANGED <<running, batch, pipe, lastIds, exposed, skipped, pc>>, pc = "dispatch"
  PROVE  BatchInv'
<1> USE DEF BatchInv
<1>0. batch = NoBatch
  BY DEF BatchAgrees
<1>1. CASE UNCHANGED <<waiting, seq, nextId, notified>>
  BY <1>0, <1>1, OthersKeepBatch
<1>2. ASSUME NEW offset \in {0} \cup {h \in Hit[r] : h < PromptLen[r]},
             seq' = [s \in DOMAIN seq \cup (nextId .. nextId + NChoices[r] - 1) |->
                        IF s \in nextId .. nextId + NChoices[r] - 1
                        THEN NewSeq(r, PromptLen[r], offset) ELSE seq[s]],
             waiting' = waiting \o [i \in 1 .. NChoices[r] |-> nextId + i - 1],
             nextId' = nextId + NChoices[r]
      PROVE  BatchInv'
  <2>1. offset \in Nat
    BY <1>2, EngineAssumption
  <2>2. PICK m \in Nat \ {0} : m = nextId
    BY DEF SeqTypes
  <2>3. PICK n \in Nat \ {0} : n = NChoices[r]
    BY AdmissionAssumption
  <2>4. PICK ids : ids = m..(m + n - 1)
    OBVIOUS
  <2>5. PICK q : q = NewSeq(r, PromptLen[r], offset)
    OBVIOUS
  <2>6. /\ q \in SeqType /\ q.req = r /\ q.kv = q.offset /\ (q.prefill <=> q.offset > 0)
        /\ q.state \in {"waiting", "prefill"}
    BY <2>1, <2>5, NewSeqIsFresh
  <2>7. /\ running \in Seq(Nat) /\ waiting \in Seq(Nat) /\ IsInjective(running) /\ IsInjective(waiting)
        /\ seq \in [Live -> SeqType] /\ \A s \in Live \cup ToSet(lastIds) : s \in 1..(m - 1)
    BY <2>2 DEF SeqTypes, OnceQueued
  <2>8. ids \cap (Live \cup ToSet(lastIds)) = {} /\ ids \subseteq Nat
    BY <2>4, <2>7
  <2>9. PICK new : new = [i \in 1..n |-> m + i - 1]
    OBVIOUS
  <2>10. new \in Seq(Nat) /\ IsInjective(new) /\ ToSet(new) = ids
    BY <2>4, <2>9, NewSequences
  <2>11. waiting' = waiting \o new /\ nextId' = m + n /\ running' = running
    BY <1>2, <2>2, <2>3, <2>9
  <2>12. waiting' \in Seq(Nat) /\ Waits' = Waits \cup ids
    BY <2>7, <2>10, <2>11, ConcatIsUnion, ConcatProperties DEF Waits
  <2>13. IsInjective(waiting')
    <3>1. ToSet(waiting) \cap ToSet(new) = {}
      BY <2>8, <2>10 DEF Live, Waits
    <3> QED BY <2>7, <2>10, <2>11, <3>1, ConcatInjective
  <2>14. Runs' = Runs /\ Live' = Live \cup ids
    BY <2>11, <2>12 DEF Live, Runs
  <2>15. seq' = [s \in Live' |-> IF s \in ids THEN q ELSE seq[s]]
    <3>1. seq' = [s \in DOMAIN seq \cup ids |-> IF s \in ids THEN q ELSE seq[s]]
      BY <1>2, <2>2, <2>3, <2>4, <2>5
    <3> QED BY <2>7, <2>14, <3>1
  <2>16. \A s \in ids : s \in Live' /\ seq'[s] = q
    BY <2>14, <2>15
  <2>17. \A s \in Live : s \in Live' /\ seq'[s] = seq[s]
    BY <2>8, <2>14, <2>15
  <2>18. SeqTypes'
    <3>1. seq' \in [Live' -> SeqType]
      BY <2>6, <2>7, <2>14, <2>15
    <3>2. \A s \in Live' \cup ToSet(lastIds') : s \in 1..(nextId' - 1)
      BY <2>4, <2>7, <2>11, <2>14
    <3> QED BY <2>11, <2>12, <3>1, <3>2 DEF SeqTypes
  <2>19. OnceQueued'
    BY <2>7, <2>8, <2>11, <2>12, <2>13, <2>14 DEF OnceQueued, Live
  <2>20. BatchAgrees'
    BY <1>0, NoBatchIsEmpty DEF BatchAgrees
  <2>21. CachesKnown'
    <3>1. ASSUME NEW s \in ids PROVE Fresh(s)' /\ (seq[s].state)' \in {"waiting", "prefill"}
      BY <2>6, <2>16 DEF Fresh
    <3> QED BY <2>14, <2>17, <3>1 DEF CachesKnown, Fresh, Started
  <2>22. BatchKnown'
    BY <1>0, NoBatchIsEmpty DEF BatchKnown
  <2>23. RunsPrompted'
    BY <2>14, <2>17 DEF RunsPrompted, Live
  <2>24. PipeAgrees'
    <3> SUFFICES ASSUME NEW i \in 1..Len(lastIds), lastIds[i] \in Live' \ exposed
                 PROVE  pipe # << >> /\ pipe[i] = [s |-> lastIds[i], n |-> seq'[lastIds[i]].kv]
      BY DEF PipeAgrees
    <3>1. lastIds[i] \in ToSet(lastIds)
      BY MembersHavePositions DEF SeqTypes
    <3>2. lastIds[i] \in Live
      BY <2>8, <2>14, <3>1
    <3> QED BY <2>17, <3>2 DEF PipeAgrees
  <2>25. Bounded'
    <3>1. ToSet(running' \o waiting') = Live'
      <4>1. running' \in Seq(Nat) /\ waiting' \in Seq(Nat)
        BY <2>7, <2>11, <2>12
      <4> QED BY <4>1, ConcatIsUnion DEF Live, Runs, Waits
    <3>2. /\ IsFiniteSet(Runs) /\ Cardinality(Runs) = Len(running)
          /\ IsFiniteSet(Waits) /\ Cardinality(Waits) = Len(waiting)
      BY <2>7, LenIsCardinality DEF Runs, Waits
    <3>3. IsFiniteSet(ids) /\ Cardinality(ids) = n
      BY <2>4, FS_Interval
    <3>4. IsFiniteSet(Live) /\ Cardinality(Live) = Active
      <4>1. /\ IsFiniteSet(Runs \cup Waits)
            /\ Cardinality(Runs \cup Waits) = Cardinality(Runs) + Cardinality(Waits) - Cardinality(Runs \cap Waits)
        BY <3>2, FS_Union
      <4>2. Cardinality(Runs \cap Waits) = 0
        BY FS_EmptySet DEF OnceQueued
      <4> QED BY <2>7, <3>2, <4>1, <4>2 DEF Live, Active
    <3>5. Cardinality(Live') = Active + n
      <4>1. Cardinality(Live \cup ids) = Cardinality(Live) + Cardinality(ids) - Cardinality(Live \cap ids)
        BY <3>3, <3>4, FS_Union
      <4>2. Cardinality(Live \cap ids) = 0
        <5>1. Live \cap ids = {}
          BY <2>8
        <5> QED BY <5>1, FS_EmptySet
      <4>3. Cardinality(Live) \in Nat
        BY <3>4, FS_CardinalityType
      <4> QED BY <2>14, <3>3, <3>4, <4>1, <4>2, <4>3
    <3>6. CASE Active + NChoices[r] <= MaxActive
      BY <2>3, <3>1, <3>5, <3>6 DEF Bounded
    <3>7. CASE Active = 0 /\ NChoices[r] > MaxActive
      <4>1. Live = {}
        BY <3>4, <3>7, FS_EmptySet
      <4>2. \A s \in Live' : seq'[s].req = r
        BY <2>6, <2>14, <2>16, <4>1
      <4> QED BY <3>1, <3>7, <4>2 DEF Bounded
    <3> QED BY <3>6, <3>7 DEF Admissible
  <2>26. RunsCount'
    BY <2>14, <2>17 DEF RunsCount, IsRunning, Finished, Live
  <2> QED BY <2>18, <2>19, <2>20, <2>21, <2>22, <2>23, <2>24, <2>25, <2>26
<1> QED BY <1>1, <1>2 DEF AddRequest

\* What follows from an adoption whatever is adopted.
LEMMA AdoptedKeeps ==
  ASSUME BatchInv, NEW run, NEW wait, NEW enter, NEW stop, Adopted(run, wait, enter, stop),
         ToSet(run) \cup ToSet(wait) \subseteq Live, exposed \subseteq exposed',
         UNCHANGED <<pipe, lastIds, nextId>>, batch' \in [completion : Seq(Nat), prompt : Seq(Nat)]
  PROVE  /\ SeqTypes' /\ OnceQueued' /\ PipeAgrees' /\ Bounded'
         /\ Live' \subseteq Live
         /\ \A s \in Live' : /\ Fresh(s)' <=> Fresh(s)
                             /\ Started(s)' <=> Started(s)
                             /\ BucketKey(s)' = BucketKey(s)
                             /\ (seq[s].offset)' = seq[s].offset
<1> USE DEF BatchInv
<1>1. Live' \subseteq Live
  BY DEF Adopted
<1>2. \A s \in Live' : Same(s)
  BY DEF Adopted
<1>3. ASSUME NEW s \in Live'
      PROVE  /\ Fresh(s)' <=> Fresh(s)
             /\ Started(s)' <=> Started(s)
             /\ BucketKey(s)' = BucketKey(s)
             /\ (seq[s].offset)' = seq[s].offset
  BY <1>2 DEF Same, Fresh, Started, BucketKey, Length
<1>4. SeqTypes'
  BY <1>1 DEF SeqTypes, Adopted
<1>5. OnceQueued'
  BY DEF Adopted, OnceQueued
<1>6. PipeAgrees'
  <2> SUFFICES ASSUME NEW i \in 1..Len(lastIds), lastIds[i] \in Live' \ exposed'
               PROVE  pipe # << >> /\ pipe[i] = [s |-> lastIds[i], n |-> seq'[lastIds[i]].kv]
    BY DEF PipeAgrees
  <2>1. lastIds[i] \in Live \ exposed
    BY <1>1
  <2>2. seq'[lastIds[i]].kv = seq[lastIds[i]].kv
    BY <1>2 DEF Same
  <2> QED BY <2>1, <2>2 DEF PipeAgrees
<1>7. Bounded'
  <2>1. \A s \in Live' : seq'[s].req = seq[s].req
    BY <1>2 DEF Same
  <2>2. running \in Seq(Nat) /\ waiting \in Seq(Nat) /\ running' \in Seq(Nat) /\ waiting' \in Seq(Nat)
    BY DEF SeqTypes, Adopted
  <2> QED BY <1>1, <2>1, <2>2, FewerKeepBounded
<1> QED BY <1>1, <1>3, <1>4, <1>5, <1>6, <1>7

\* Nothing runs: the waiting sequences of one bucket have their prompts run.
LEMMA WaitingKeepsBatch ==
  ASSUME BatchInv, NEW wait, Apart(wait, << >>), ToSet(wait) \subseteq Waits,
         ScheduleWaiting(wait), UNCHANGED <<pipe, lastIds, nextId>>, pc' = "step"
  PROVE  BatchInv' /\ Live' = ToSet(wait)
<1> USE DEF BatchInv
<1>1. PICK enter : enter = [s \in ToSet(wait) |-> "prompt"]
  OBVIOUS
<1>2. \A s \in ToSet(wait) : enter[s] = "prompt" /\ enter[s] \in States
  BY <1>1 DEF States
<1>3. ToSet(<< >>) = {} /\ ToSet(wait) \subseteq Live
  BY EmptyQueue DEF Live
<1>4. /\ Adopt(wait, << >>, TRUE, enter, FALSE)
      /\ batch' = [completion |-> << >>, prompt |-> running']
      /\ exposed' = exposed \cup {s \in ToSet(wait) : seq[s].offset > 0 /\ ~seq[s].prefill}
  BY <1>1 DEF ScheduleWaiting
<1>5. Adopted(wait, << >>, enter, FALSE)
  BY <1>2, <1>3, <1>4, AdoptAdopts DEF SeqTypes
<1>6. Live' = ToSet(wait) /\ running' \in Seq(Nat) /\ Runs' \subseteq Live'
  BY <1>3, <1>5 DEF Adopted, Live
<1>7. /\ batch' \in [completion : Seq(Nat), prompt : Seq(Nat)]
      /\ ToSet(batch.completion)' = {} /\ ToSet(batch.prompt)' = Runs'
  BY <1>3, <1>4, <1>6, EmptyQueue DEF Runs
<1>8. /\ SeqTypes' /\ OnceQueued' /\ PipeAgrees' /\ Bounded'
      /\ \A s \in Live' : /\ Fresh(s)' <=> Fresh(s)
                          /\ Started(s)' <=> Started(s)
                          /\ BucketKey(s)' = BucketKey(s)
                          /\ (seq[s].offset)' = seq[s].offset
  BY <1>3, <1>4, <1>5, <1>7, AdoptedKeeps
<1>9. \A s \in Live' : (seq[s].state)' = "prompt"
  BY <1>2, <1>5, <1>6 DEF Adopted
<1>10. \A s, t \in Runs' : BucketKey(s) = BucketKey(t)
  BY <1>5 DEF Adopted
<1>11. ASSUME NEW s \in Live' \ exposed'
       PROVE  (Fresh(s) \/ Started(s)) /\ (seq[s].offset > 0 => Fresh(s))
  <2>1. s \in Live \ exposed /\ (seq[s].offset > 0 => seq[s].prefill)
    BY <1>3, <1>4, <1>6
  <2>2. Fresh(s) \/ Started(s)
    BY <2>1 DEF CachesKnown
  <2> QED BY <2>1, <2>2 DEF Started
<1>12. BatchAgrees'
  BY <1>6, <1>7, <1>8, <1>10 DEF BatchAgrees
<1>13. CachesKnown'
  BY <1>8, <1>9, <1>11 DEF CachesKnown
<1>14. BatchKnown'
  BY <1>6, <1>7, <1>8, <1>11 DEF BatchKnown
<1>15. RunsPrompted'
  BY <1>7 DEF RunsPrompted
<1>16. RunsCount'
  BY <1>7 DEF RunsCount
<1> QED BY <1>6, <1>8, <1>12, <1>13, <1>14, <1>15, <1>16

\* Nothing waits: what runs and is not harmed has had its prompt step.
LEMMA RunningKeepsBatch ==
  ASSUME BatchInv, batch = NoBatch, NEW run, Apart(run, << >>), ToSet(run) \subseteq Runs,
         \A s \in ToSet(run) : IsRunning(s),
         ScheduleRunning(run), UNCHANGED <<pipe, lastIds, nextId>>, pc' = "step"
  PROVE  BatchInv' /\ Live' = ToSet(run)
<1> USE DEF BatchInv
<1>1. PICK enter : enter = [s \in ToSet(run) |-> seq[s].state]
  OBVIOUS
<1>2. ToSet(<< >>) = {} /\ ToSet(run) \subseteq Live
  BY EmptyQueue DEF Live
<1>3. \A s \in ToSet(run) : enter[s] = seq[s].state /\ enter[s] \in States
  BY <1>1, <1>2 DEF SeqTypes, SeqType
<1>4. /\ Adopt(run, << >>, TRUE, enter, terminateAll)
      /\ batch' = [completion |-> running', prompt |-> << >>] /\ exposed' = exposed
  BY <1>1 DEF ScheduleRunning
<1>5. Adopted(run, << >>, enter, terminateAll)
  <2>1. seq \in [Live -> SeqType] /\ ToSet(run) \cup ToSet(<< >>) \subseteq Live
    BY <1>2 DEF SeqTypes
  <2>2. \A s \in ToSet(run) : enter[s] \in States
    BY <1>3
  <2> QED BY <1>4, <2>1, <2>2, AdoptAdopts, Zenon
<1>6. Live' = ToSet(run) /\ running' \in Seq(Nat) /\ Runs' \subseteq Live'
  BY <1>2, <1>5 DEF Adopted, Live
<1>7. /\ batch' \in [completion : Seq(Nat), prompt : Seq(Nat)]
      /\ ToSet(batch.completion)' = Runs' /\ ToSet(batch.prompt)' = {}
  BY <1>2, <1>4, <1>6, EmptyQueue DEF Runs
<1>8. /\ SeqTypes' /\ OnceQueued' /\ PipeAgrees' /\ Bounded'
      /\ \A s \in Live' : /\ Fresh(s)' <=> Fresh(s)
                          /\ Started(s)' <=> Started(s)
                          /\ BucketKey(s)' = BucketKey(s)
                          /\ (seq[s].offset)' = seq[s].offset
  BY <1>2, <1>4, <1>5, <1>7, AdoptedKeeps
<1>9. \A s \in Live' : (seq[s].state)' \in {"done", seq[s].state}
  BY <1>3, <1>5, <1>6 DEF Adopted
<1>10. \A s, t \in Runs' : BucketKey(s) = BucketKey(t)
  BY <1>5 DEF Adopted
<1>11. ASSUME NEW s \in Live' \ exposed'
       PROVE  seq[s].state = "completion" /\ Started(s)
  <2>1. s \in Runs \ (exposed \cup ToSet(batch.prompt)) /\ s \in Live \ exposed
    BY <1>2, <1>4, <1>6, NoBatchIsEmpty
  <2>2. seq[s].state \in {"completion", "done", "error"} /\ IsRunning(s)
    BY <1>6, <2>1 DEF RunsPrompted
  <2> QED BY <2>1, <2>2 DEF CachesKnown, IsRunning
<1>12. BatchAgrees'
  BY <1>6, <1>7, <1>8, <1>10 DEF BatchAgrees
<1>13. CachesKnown'
  BY <1>8, <1>9, <1>11 DEF CachesKnown
<1>14. BatchKnown'
  BY <1>6, <1>7, <1>8, <1>11 DEF BatchKnown
<1>15. RunsPrompted'
  BY <1>6, <1>9, <1>11 DEF RunsPrompted
<1>16. RunsCount'
  BY <1>6, <1>9 DEF RunsCount, IsRunning, Finished
<1> QED BY <1>6, <1>8, <1>12, <1>13, <1>14, <1>15, <1>16

\* Both: what joins from the waiting queue is run for its prompt, unless it had
\* its prompt step before it was sent back.
LEMMA BothKeepsBatch ==
  ASSUME BatchInv, batch = NoBatch, NEW run, NEW wait, Apart(run, wait),
         ToSet(run) \subseteq Runs, ToSet(wait) \subseteq Waits,
         \A s \in ToSet(run) : IsRunning(s), \A s \in ToSet(wait) : ~Finished(s),
         ScheduleBoth(run, wait), UNCHANGED <<pipe, lastIds, nextId>>, pc' = "step"
  PROVE  BatchInv' /\ Live' = ToSet(run) \cup ToSet(wait)
<1> USE DEF BatchInv
<1>1. PICK sorted : sorted = InOrder(ToSet(wait))
  OBVIOUS
<1>2. PICK fits, enter :
        /\ fits = Min({IF Len(run) < MaxSeqs THEN MaxSeqs - Len(run) ELSE 0, Len(sorted)})
        /\ enter = [s \in DOMAIN seq |-> IF seq[s].state = "waiting" THEN "prompt" ELSE seq[s].state]
  OBVIOUS
<1>3. PICK r, w : r = run \o SubSeq(sorted, 1, fits) /\ w = SubSeq(sorted, fits + 1, Len(sorted))
  OBVIOUS
<1>4. /\ Adopt(r, w, FALSE, enter, FALSE)
      /\ batch' = [completion |-> Keep(running', {s \in ToSet(running') : seq[s].state = "completion"}),
                   prompt |-> Keep(running', {s \in ToSet(running') : seq[s].state # "completion"})]
      /\ exposed' = exposed
  BY <1>1, <1>2, <1>3 DEF ScheduleBoth
<1>5. ToSet(run) \subseteq Live /\ ToSet(wait) \subseteq Live
  BY DEF Live
<1>6. sorted \in Seq(ToSet(wait)) /\ ToSet(sorted) = ToSet(wait) /\ IsInjective(sorted)
  <2>1. PICK n \in Nat : n = nextId - 1
    BY DEF SeqTypes
  <2>2. ToSet(wait) \in SUBSET (1..n)
    BY <1>5, <2>1 DEF SeqTypes
  <2> QED BY <1>1, <2>2, InOrderProperties
<1>7. sorted \in Seq(Nat)
  <2>1. ToSet(wait) \subseteq Nat
    BY MembersHavePositions DEF Apart
  <2> QED BY <1>6, <2>1
<1>8. PICK l \in Nat : l = Len(sorted)
  BY <1>7
<1>9. fits \in Nat /\ fits <= l
  <2>1. PICK c : c = IF Len(run) < MaxSeqs THEN MaxSeqs - Len(run) ELSE 0
    OBVIOUS
  <2>2. Len(run) \in Nat /\ MaxSeqs \in Nat
    BY SchedulerAssumption DEF Apart
  <2>3. c \in Nat
    BY <2>1, <2>2
  <2> QED BY <1>2, <1>8, <2>1, <2>3, MinOfTwo
<1>10. fits + 1 \in 1..(l + 1) /\ (fits + 1) - 1 = fits
  BY <1>9
<1>11. PICK j : j = SubSeq(sorted, 1, fits)
  OBVIOUS
<1>12. /\ j \in Seq(Nat) /\ w \in Seq(Nat) /\ ToSet(j) \cup ToSet(w) = ToSet(wait)
       /\ IsInjective(j) /\ IsInjective(w) /\ ToSet(j) \cap ToSet(w) = {}
  BY <1>3, <1>6, <1>7, <1>8, <1>10, <1>11, HalvesKeep
<1>13. run \in Seq(Nat) /\ IsInjective(run) /\ ToSet(run) \cap ToSet(wait) = {}
  BY DEF Apart
<1>14. r \in Seq(Nat) /\ ToSet(r) = ToSet(run) \cup ToSet(j)
  <2>1. r = run \o j
    BY <1>3, <1>11
  <2>2. run \o j \in Seq(Nat) /\ ToSet(run \o j) = ToSet(run) \cup ToSet(j)
    BY <1>12, <1>13, ConcatIsUnion, ConcatProperties
  <2> QED BY <2>1, <2>2
<1>15. IsInjective(r)
  <2>1. ToSet(run) \cap ToSet(j) = {}
    BY <1>12, <1>13
  <2> QED BY <1>3, <1>11, <1>12, <1>13, <2>1, ConcatInjective
<1>16. Apart(r, w) /\ ToSet(r) \cup ToSet(w) = ToSet(run) \cup ToSet(wait)
  BY <1>12, <1>13, <1>14, <1>15 DEF Apart
<1>17. ToSet(r) \cup ToSet(w) \subseteq Live
  BY <1>5, <1>16
<1>18. \A s \in Live : seq[s].state \in States
  BY DEF SeqTypes, SeqType
<1>19. DOMAIN seq = Live
  BY DEF SeqTypes
<1>20. \A s \in Live : enter[s] \in States /\ enter[s] = IF seq[s].state = "waiting" THEN "prompt" ELSE seq[s].state
  <2>1. \A s \in Live : enter[s] = IF seq[s].state = "waiting" THEN "prompt" ELSE seq[s].state
    BY <1>2, <1>19
  <2> QED BY <1>18, <2>1 DEF States
<1>21. Adopted(r, w, enter, FALSE)
  <2>1. seq \in [Live -> SeqType] /\ \A s \in ToSet(r) : enter[s] \in States
    BY <1>17, <1>20 DEF SeqTypes
  <2> QED BY <1>4, <1>16, <1>17, <2>1, AdoptAdopts, Zenon
<1>22. Live' = ToSet(run) \cup ToSet(wait) /\ running' \in Seq(Nat) /\ Runs' \subseteq Live' /\ Live' \subseteq Live
  BY <1>16, <1>17, <1>21 DEF Adopted, Live
<1>23. PICK done, rest :
         /\ done = {s \in ToSet(running') : seq[s].state = "completion"}
         /\ rest = {s \in ToSet(running') : seq[s].state # "completion"}
  OBVIOUS
<1>24. /\ Keep(running', done) \in Seq(Nat) /\ ToSet(Keep(running', done)) = ToSet(running') \cap done
       /\ Keep(running', rest) \in Seq(Nat) /\ ToSet(Keep(running', rest)) = ToSet(running') \cap rest
  BY <1>22, KeepProperties
<1>25. batch' = [completion |-> Keep(running', done), prompt |-> Keep(running', rest)]
  BY <1>4, <1>23
<1>26. /\ batch' \in [completion : Seq(Nat), prompt : Seq(Nat)]
       /\ \A s : s \in ToSet(batch.completion)' <=> s \in Runs' /\ seq[s].state = "completion"
       /\ \A s : s \in ToSet(batch.prompt)' <=> s \in Runs' /\ seq[s].state # "completion"
  BY <1>23, <1>24, <1>25 DEF Runs
<1>27. /\ SeqTypes' /\ OnceQueued' /\ PipeAgrees' /\ Bounded'
       /\ \A s \in Live' : /\ Fresh(s)' <=> Fresh(s)
                           /\ Started(s)' <=> Started(s)
                           /\ BucketKey(s)' = BucketKey(s)
                           /\ (seq[s].offset)' = seq[s].offset
  BY <1>4, <1>17, <1>21, <1>26, AdoptedKeeps
<1>28. \A s \in Live' : \/ (seq[s].state)' = seq[s].state
                        \/ seq[s].state = "waiting" /\ (seq[s].state)' = "prompt"
  BY <1>17, <1>20, <1>21, <1>22 DEF Adopted
<1>29. \A s, t \in Runs' : BucketKey(s) = BucketKey(t)
  BY <1>21 DEF Adopted
<1>30. ASSUME NEW s \in Live' \ exposed'
       PROVE  /\ Fresh(s) \/ Started(s)
              /\ seq[s].state = "completion" => Started(s)
              /\ seq[s].state \in {"waiting", "prefill"} => Fresh(s)
              /\ seq[s].state = "prompt" /\ seq[s].offset > 0 => Fresh(s)
  BY <1>4, <1>22 DEF CachesKnown
<1>31. ASSUME NEW s \in Live' \ exposed', seq[s].state # "completion", seq[s].offset > 0
       PROVE  Fresh(s)
  <2>1. CASE s \in ToSet(run)
    <3>1. s \in Runs \ (exposed \cup ToSet(batch.prompt))
      BY <1>4, <2>1, NoBatchIsEmpty
    <3>2. seq[s].state \in {"completion", "done", "error"}
      BY <3>1 DEF RunsPrompted
    <3> QED BY <1>31, <2>1, <3>2 DEF IsRunning
  <2>2. CASE s \in ToSet(wait)
    <3>1. seq[s].state \in States /\ ~Finished(s)
      BY <1>5, <1>18, <2>2
    <3> QED BY <1>30, <1>31, <3>1 DEF States, Finished
  <2> QED BY <1>22, <2>1, <2>2
<1>32. BatchAgrees'
  <2>1. ToSet(batch.completion)' \subseteq Runs' /\ ToSet(batch.prompt)' \subseteq Runs'
    BY <1>26
  <2>2. ToSet(batch.completion)' \cap ToSet(batch.prompt)' = {}
    BY <1>26
  <2>3. \A s, t \in Runs' : BucketKey(s)' = BucketKey(t)'
    BY <1>22, <1>27, <1>29
  <2> QED BY <2>1, <2>2, <2>3 DEF BatchAgrees
<1>33. CachesKnown'
  BY <1>27, <1>28, <1>30 DEF CachesKnown
<1>34. BatchKnown'
  BY <1>22, <1>26, <1>27, <1>30, <1>31 DEF BatchKnown
<1>35. RunsPrompted'
  BY <1>22, <1>26, <1>28 DEF RunsPrompted
<1>36. RunsCount'
  BY <1>22, <1>26, <1>28 DEF RunsCount, IsRunning
<1> QED BY <1>22, <1>27, <1>32, <1>33, <1>34, <1>35, <1>36

\* What schedule may lose: what is finished, left by its client, or skipped.
Leaves(s) == Finished(s) \/ seq[s].req \in closed \/ s \in skipped

\* All cases of schedule.
LEMMA ScheduleKeepsBatch ==
  ASSUME BatchInv, DoSchedule
  PROVE  BatchInv' /\ \A s \in DOMAIN seq \ DOMAIN seq' : Leaves(s)
<1> USE DEF BatchInv
<1>1. PICK run, wait :
        /\ run = Keep(Reaped(running, closed), {s \in ToSet(running) : IsRunning(s)})
        /\ wait = Reaped(waiting, closed)
        /\ CASE run = <<>> /\ wait = <<>> ->
                    /\ running' = <<>> /\ waiting' = <<>> /\ seq' = <<>> /\ batch' = NoBatch
                    /\ UNCHANGED <<terminateAll, exposed>>
             [] run = <<>> /\ wait # <<>> -> ScheduleWaiting(wait)
             [] run # <<>> /\ wait = <<>> -> ScheduleRunning(run)
             [] OTHER -> ScheduleBoth(run, wait)
        /\ UNCHANGED <<pipe, lastIds, skipped>>
  BY DEF DoSchedule, Schedule
<1>2. batch = NoBatch /\ pc' = "step" /\ nextId' = nextId
  BY DEF DoSchedule, BatchAgrees
<1>3. running \in Seq(Nat) /\ IsInjective(running) /\ waiting \in Seq(Nat) /\ IsInjective(waiting)
  BY DEF SeqTypes, OnceQueued
<1>4. /\ wait \in Seq(Nat) /\ IsInjective(wait)
      /\ \A s : s \in ToSet(wait) <=> s \in Waits /\ ~Finished(s) /\ seq[s].req \notin closed
  BY <1>1, <1>3, ReapedProperties DEF Waits
<1>5. PICK left : left = Reaped(running, closed)
  OBVIOUS
<1>6. /\ left \in Seq(Nat) /\ IsInjective(left)
      /\ \A s : s \in ToSet(left) <=> s \in Runs /\ ~Finished(s) /\ seq[s].req \notin closed
  BY <1>3, <1>5, ReapedProperties DEF Runs
<1>7. PICK S : S = {s \in ToSet(running) : IsRunning(s)}
  OBVIOUS
<1>8. run \in Seq(Nat) /\ IsInjective(run) /\ ToSet(run) = ToSet(left) \cap S
  BY <1>1, <1>5, <1>6, <1>7, KeepProperties
<1>9. \A s : s \in ToSet(run) <=> s \in Runs /\ ~Finished(s) /\ seq[s].req \notin closed /\ IsRunning(s)
  BY <1>6, <1>7, <1>8 DEF Runs
<1>10. Apart(run, wait) /\ ToSet(run) \subseteq Runs /\ ToSet(wait) \subseteq Waits
  BY <1>4, <1>8, <1>9 DEF Apart, OnceQueued
<1>11. << >> \in Seq(Nat) /\ ToSet(<< >>) = {} /\ IsInjective(<< >>)
  BY EmptyQueue
<1>12. BatchInv' /\ Live' = ToSet(run) \cup ToSet(wait)
  <2>1. CASE run = << >> /\ wait = << >>
    <3>1. /\ running' = << >> /\ waiting' = << >> /\ seq' = << >> /\ batch' = NoBatch
          /\ UNCHANGED <<exposed, pipe, lastIds>>
      BY <1>1, <2>1
    <3>2. Runs' = {} /\ Waits' = {} /\ Live' = {}
      BY <1>11, <3>1 DEF Runs, Waits, Live
    <3>3. SeqTypes'
      <4>1. seq' \in [Live' -> SeqType]
        BY <3>1, <3>2
      <4> QED BY <1>2, <1>11, <3>1, <3>2, <4>1, NoBatchIsEmpty DEF SeqTypes
    <3>4. /\ OnceQueued' /\ BatchAgrees' /\ CachesKnown' /\ BatchKnown' /\ RunsPrompted'
          /\ RunsCount' /\ PipeAgrees'
      BY <1>11, <3>1, <3>2, NoBatchIsEmpty
         DEF OnceQueued, BatchAgrees, CachesKnown, BatchKnown, RunsPrompted, RunsCount, PipeAgrees
    <3>5. Bounded'
      BY <1>3, <1>11, <3>1, <3>2, FewerKeepBounded
    <3> QED BY <1>11, <2>1, <3>2, <3>3, <3>4, <3>5
  <2>2. CASE run = << >> /\ wait # << >>
    <3>1. ScheduleWaiting(wait)
      BY <1>1, <2>2
    <3>2. Apart(wait, << >>)
      BY <1>10, <1>11 DEF Apart
    <3> QED BY <1>1, <1>2, <1>10, <1>11, <2>2, <3>1, <3>2, WaitingKeepsBatch
  <2>3. CASE run # << >> /\ wait = << >>
    <3>1. ScheduleRunning(run)
      BY <1>1, <2>3
    <3>2. Apart(run, << >>)
      BY <1>10, <1>11 DEF Apart
    <3>3. \A s \in ToSet(run) : IsRunning(s)
      BY <1>9
    <3> QED BY <1>1, <1>2, <1>10, <1>11, <2>3, <3>1, <3>2, <3>3, RunningKeepsBatch
  <2>4. CASE run # << >> /\ wait # << >>
    <3>1. ScheduleBoth(run, wait)
      BY <1>1, <2>4
    <3>2. (\A s \in ToSet(run) : IsRunning(s)) /\ \A s \in ToSet(wait) : ~Finished(s)
      BY <1>4, <1>9
    <3> QED BY <1>1, <1>2, <1>10, <3>1, <3>2, BothKeepsBatch
  <2> QED BY <2>1, <2>2, <2>3, <2>4
<1>13. DOMAIN seq = Live /\ DOMAIN seq' = Live'
  BY <1>12 DEF SeqTypes
<1>14. ASSUME NEW s \in Live, s \notin Live' PROVE Leaves(s)
  <2>1. s \notin ToSet(run) /\ s \notin ToSet(wait)
    BY <1>12, <1>14
  <2>2. CASE s \in Waits
    BY <1>4, <2>1, <2>2 DEF Leaves
  <2>3. CASE s \in Runs
    <3>1. Finished(s) \/ seq[s].req \in closed \/ ~IsRunning(s)
      BY <1>9, <2>1, <2>3
    <3>2. IsRunning(s) \/ Finished(s) \/ s \in skipped
      BY <1>2, <2>3, NoBatchIsEmpty DEF RunsCount
    <3> QED BY <3>1, <3>2 DEF Leaves
  <2> QED BY <2>2, <2>3 DEF Live
<1> QED BY <1>12, <1>13, <1>14

RanOn(p, q, k, st) ==
    p \in SeqType /\ p.req = q.req /\ p.kv = k /\ p.tokens = q.tokens + 1 /\ ~p.prefill /\ p.state = st

\* What a step does to a sequence keeps its type.
LEMMA RunUpdate ==
  ASSUME NEW q \in SeqType, NEW k \in Nat \cup {Junk}, NEW st \in States
  PROVE  RanOn([q EXCEPT !.kv = k, !.tokens = @ + 1, !.left = @ - 1, !.prefill = FALSE, !.state = st],
               q, k, st)
<1>1. PICK p : p = [q EXCEPT !.kv = k, !.tokens = @ + 1, !.left = @ - 1, !.prefill = FALSE, !.state = st]
  OBVIOUS
<1>2. p = [req |-> q.req, tokens |-> q.tokens + 1, left |-> q.left - 1, offset |-> q.offset, kv |-> k,
           prefill |-> FALSE, urgency |-> q.urgency, state |-> st]
  BY <1>1 DEF SeqType
<1>3. /\ q.req \in Request /\ q.tokens + 1 \in Nat /\ q.left - 1 \in Int /\ q.offset \in Nat
      /\ q.urgency \in Nat
  BY DEF SeqType
<1>4. p \in SeqType
  BY <1>2, <1>3 DEF SeqType
<1>5. p.req = q.req /\ p.kv = k /\ p.tokens = q.tokens + 1 /\ p.prefill = FALSE /\ p.state = st
  BY <1>2
<1> QED BY <1>1, <1>4, <1>5 DEF RanOn

\* A batch was run: its sequences have the caches of all their tokens but the
\* new one, unless one of the batch was harmed before, and the rows that are
\* left are theirs.
Ran(ids, after) ==
    /\ UNCHANGED <<waiting, running, skipped>>
    /\ seq' \in [Live -> SeqType]
    /\ \A s \in Live \ ToSet(ids) : seq'[s] = seq[s]
    /\ \A s \in ToSet(ids) : seq'[s].req = seq[s].req /\ seq'[s].state \in {"done", after[s]}
    /\ exposed \subseteq exposed'
    /\ \A s \in ToSet(ids) \ exposed' : Started(s)'
    /\ \A i \in 1..Len(ids) : ids[i] \notin exposed' =>
            pipe' # << >> /\ pipe'[i] = [s |-> ids[i], n |-> seq'[ids[i]].kv]

\* RunBatch does that when each row is what the sequence needs.
LEMMA RunBatchRuns ==
  ASSUME seq \in [Live -> SeqType], NEW ids \in Seq(Nat), ToSet(ids) \subseteq Live,
         NEW rows, NEW from, NEW after, \A s \in ToSet(ids) : after[s] \in States,
         ToSet(ids) \cap exposed = {} => \A i \in 1..Len(ids) : rows[i] = from[ids[i]] - 1,
         RunBatch(ids, rows, from, after)
  PROVE  Ran(ids, after)
<1>1. PICK n \in Nat : n = Len(ids)
  OBVIOUS
<1>2. DOMAIN ids = 1..n /\ DOMAIN seq = Live
  BY <1>1
<1> DEFINE out == [i \in DOMAIN ids |-> Appended(rows[i], from[ids[i]], seq[ids[i]].tokens)]
<1>3. out = [i \in DOMAIN ids |-> Appended(rows[i], from[ids[i]], seq[ids[i]].tokens)]
  OBVIOUS
<1>4. PICK ends \in SUBSET ToSet(ids) :
        /\ pipe' = [i \in DOMAIN ids |-> [s |-> ids[i], n |-> out[i]]]
        /\ seq' = [s \in DOMAIN seq |->
                    IF s \notin ToSet(ids) THEN seq[s]
                    ELSE [seq[s] EXCEPT !.kv = out[CHOOSE i \in DOMAIN ids : ids[i] = s],
                            !.tokens = @ + 1, !.left = @ - 1, !.prefill = FALSE,
                            !.state = IF s \in ends \/ seq[s].left = 1 \/ Finished(s)
                                      THEN "done" ELSE after[s]]]
        /\ exposed' = IF ToSet(ids) \cap exposed = {} THEN exposed ELSE exposed \cup ToSet(ids)
        /\ UNCHANGED <<waiting, running, terminateAll, skipped>>
  BY Zenon DEF RunBatch
<1> HIDE DEF out
<1>5. /\ \A s : s \in ToSet(ids) <=> \E i \in 1..n : ids[i] = s
      /\ \A i \in 1..n : ids[i] \in ToSet(ids)
  BY <1>1, MembersHavePositions
<1>6. ASSUME NEW i \in 1..n PROVE out[i] \in Nat \cup {Junk}
  <2>1. seq[ids[i]].tokens \in Nat
    BY <1>5 DEF SeqType
  <2>2. out[i] = Appended(rows[i], from[ids[i]], seq[ids[i]].tokens)
    BY <1>2, <1>3
  <2> QED BY <2>1, <2>2 DEF Appended
<1>7. ASSUME NEW i \in 1..n, ToSet(ids) \cap exposed = {} PROVE out[i] = seq[ids[i]].tokens
  <2>1. out[i] = Appended(rows[i], from[ids[i]], seq[ids[i]].tokens)
    BY <1>2, <1>3
  <2> QED BY <1>1, <1>7, <2>1 DEF Appended
<1>8. ASSUME NEW s \in ToSet(ids)
      PROVE  \E i \in 1..n, st \in {"done", after[s]} :
                ids[i] = s /\ RanOn(seq'[s], seq[s], out[i], st)
  <2>1. PICK i \in 1..n : i = (CHOOSE x \in DOMAIN ids : ids[x] = s) /\ ids[i] = s
    <3>1. \E x \in DOMAIN ids : ids[x] = s
      BY <1>2, <1>5
    <3> QED BY <1>2, <3>1
  <2>2. PICK st : st = IF s \in ends \/ seq[s].left = 1 \/ Finished(s) THEN "done" ELSE after[s]
    OBVIOUS
  <2>3. st \in States /\ st \in {"done", after[s]}
    BY <2>2 DEF States
  <2>4. PICK k \in Nat \cup {Junk} : k = out[i]
    BY <1>6
  <2>5. PICK q \in SeqType : q = seq[s]
    OBVIOUS
  <2>6. RanOn([q EXCEPT !.kv = k, !.tokens = @ + 1, !.left = @ - 1, !.prefill = FALSE, !.state = st], q, k, st)
    BY <2>3, RunUpdate
  <2>7. s \in DOMAIN seq
    BY <1>2
  <2>8. seq'[s] = [q EXCEPT !.kv = k, !.tokens = @ + 1, !.left = @ - 1, !.prefill = FALSE, !.state = st]
    BY <1>4, <2>1, <2>2, <2>4, <2>5, <2>7
  <2>9. RanOn(seq'[s], seq[s], out[i], st)
    BY <2>4, <2>5, <2>6, <2>8
  <2> QED BY <2>1, <2>3, <2>9
<1>9. \A s \in Live \ ToSet(ids) : seq'[s] = seq[s]
  BY <1>2, <1>4
<1>10. \A s \in Live : seq'[s] \in SeqType
  BY <1>8, <1>9 DEF RanOn
<1>11. seq' \in [Live -> SeqType]
  <2> DEFINE Body(s) == IF s \notin ToSet(ids) THEN seq[s]
                         ELSE [seq[s] EXCEPT !.kv = out[CHOOSE i \in DOMAIN ids : ids[i] = s],
                                 !.tokens = @ + 1, !.left = @ - 1, !.prefill = FALSE,
                                 !.state = IF s \in ends \/ seq[s].left = 1 \/ Finished(s)
                                           THEN "done" ELSE after[s]]
  <2>1. seq' = [s \in DOMAIN seq |-> Body(s)]
    BY <1>4
  <2> HIDE DEF Body
  <2>2. seq' = [s \in Live |-> Body(s)]
    BY <1>2, <2>1
  <2>3. \A s \in Live : Body(s) \in SeqType
    BY <1>10, <2>2
  <2> QED BY <2>2, <2>3
<1>12. \A s \in ToSet(ids) : seq'[s].req = seq[s].req /\ seq'[s].state \in {"done", after[s]}
  BY <1>8 DEF RanOn
<1>13. exposed \subseteq exposed' /\ \A s \in ToSet(ids) \ exposed' : ToSet(ids) \cap exposed = {}
  BY <1>4
<1>14. ASSUME NEW s \in ToSet(ids), ToSet(ids) \cap exposed = {}
       PROVE  Started(s)' /\ seq'[s].kv = seq[s].tokens
  <2>1. PICK i \in 1..n, st \in {"done", after[s]} : ids[i] = s /\ RanOn(seq'[s], seq[s], out[i], st)
    BY <1>8
  <2>2. out[i] = seq[s].tokens
    BY <1>7, <1>14, <2>1
  <2>3. seq[s].tokens \in Nat
    BY DEF SeqType
  <2> QED BY <2>1, <2>2, <2>3 DEF RanOn, Started
<1>15. ASSUME NEW i \in 1..n, ids[i] \notin exposed'
       PROVE  pipe' # << >> /\ pipe'[i] = [s |-> ids[i], n |-> seq'[ids[i]].kv]
  <2>1. ToSet(ids) \cap exposed = {} /\ ids[i] \in ToSet(ids)
    BY <1>5, <1>13, <1>15
  <2>2. out[i] = seq'[ids[i]].kv
    BY <1>7, <1>14, <2>1
  <2>3. pipe'[i] = [s |-> ids[i], n |-> out[i]]
    BY <1>2, <1>4
  <2>4. pipe' # << >>
    <3>1. DOMAIN pipe' = 1..n
      BY <1>2, <1>4
    <3> QED BY <3>1
  <2> QED BY <2>2, <2>3, <2>4
<1> QED BY <1>1, <1>4, <1>9, <1>11, <1>12, <1>13, <1>14, <1>15, ZenonT(30) DEF Ran

\* What follows from running any batch of what runs.
LEMMA RanKeeps ==
  ASSUME BatchInv, NEW ids \in Seq(Nat), ToSet(ids) \subseteq Runs, NEW after, Ran(ids, after),
         nextId' = nextId, lastIds' \in Seq(Nat), ToSet(lastIds') \subseteq ToSet(ids),
         batch' \in [completion : Seq(Nat), prompt : Seq(Nat)]
  PROVE  SeqTypes' /\ OnceQueued' /\ Bounded' /\ Runs' = Runs /\ Live' = Live
<1> USE DEF BatchInv
<1>1. Runs' = Runs /\ Waits' = Waits /\ Live' = Live /\ running' = running /\ waiting' = waiting
  BY DEF Ran, Runs, Waits, Live
<1>2. ToSet(lastIds') \subseteq Live
  BY DEF Live
<1>3. SeqTypes'
  BY <1>1, <1>2 DEF SeqTypes, Ran
<1>4. OnceQueued'
  BY <1>1 DEF OnceQueued
<1>5. \A s \in Live' : seq'[s].req = seq[s].req
  BY <1>1 DEF Ran
<1>6. Bounded'
  <2>1. running \in Seq(Nat) /\ waiting \in Seq(Nat)
    BY DEF SeqTypes
  <2> QED BY <1>1, <1>5, <2>1, FewerKeepBounded
<1> QED BY <1>1, <1>3, <1>4, <1>6

\* clone_in_cache gives each row what its sequence has when all have as many.
LEMMA CloneInGives ==
  ASSUME NEW ids \in Seq(Nat), NEW i \in 1..Len(ids), seq[ids[1]].kv = seq[ids[i]].kv
  PROVE  CloneIn(ids)[i] = seq[ids[i]].kv
<1>1. DOMAIN ids = 1..Len(ids)
  OBVIOUS
<1> QED BY <1>1 DEF CloneIn

\* The completions of a batch are run over the caches of their sequences: copied
\* in, or left there by the same batch.
LEMMA CompletionKeepsBatch ==
  ASSUME BatchInv, batch.completion # << >>, CompletionStep, nextId' = nextId, pc' = "step"
  PROVE  BatchInv'
<1> USE DEF BatchInv
<1>1. PICK ids : ids = batch.completion
  OBVIOUS
<1>2. PICK rows : rows = IF ids # lastIds THEN CloneIn(ids) ELSE Nothing(ids)
  OBVIOUS
<1>3. PICK from, after : from = [s \in ToSet(ids) |-> seq[s].tokens] /\ after = [s \in ToSet(ids) |-> seq[s].state]
  OBVIOUS
<1>4. RunBatch(ids, rows, from, after) /\ lastIds' = ids /\ batch' = [batch EXCEPT !.completion = << >>]
  BY <1>1, <1>2, <1>3 DEF CompletionStep
<1>5. /\ batch \in [completion : Seq(Nat), prompt : Seq(Nat)] /\ ids \in Seq(Nat) /\ lastIds \in Seq(Nat)
      /\ seq \in [Live -> SeqType]
  BY <1>1 DEF SeqTypes
<1>6. ToSet(ids) \subseteq Runs /\ ToSet(ids) \subseteq Live /\ ToSet(batch.prompt) \subseteq Runs
  BY <1>1 DEF BatchAgrees, Live
<1>7. PICK n \in Nat : n = Len(ids) /\ n > 0
  BY <1>1, <1>5
<1>8. \A i \in 1..n : ids[i] \in ToSet(ids)
  BY <1>5, <1>7, MembersHavePositions
<1>9. \A s \in ToSet(ids) : from[s] = seq[s].tokens /\ after[s] = seq[s].state /\ after[s] \in States
  BY <1>3, <1>5, <1>6 DEF SeqType
<1>10. ASSUME ToSet(ids) \cap exposed = {}, NEW i \in 1..n PROVE rows[i] = from[ids[i]] - 1
  <2>1. \A s \in ToSet(ids) : Started(s)
    BY <1>1, <1>10 DEF BatchKnown
  <2>2. seq[ids[i]].kv \in Nat /\ seq[ids[i]].tokens = seq[ids[i]].kv + 1
    BY <1>8, <2>1 DEF Started
  <2>3. from[ids[i]] - 1 = seq[ids[i]].kv
    BY <1>8, <1>9, <2>2
  <2>4. CASE ids # lastIds
    <3>1. 1 \in 1..n /\ ids[1] \in ToSet(ids) /\ ids[i] \in ToSet(ids)
      BY <1>7, <1>8
    <3>2. BucketKey(ids[1]) = BucketKey(ids[i])
      BY <1>1, <3>1 DEF BatchAgrees
    <3>3. seq[ids[1]].tokens = seq[ids[i]].tokens
      BY <2>1, <3>1, <3>2 DEF BucketKey, Length, Started
    <3>4. seq[ids[1]].kv = seq[ids[i]].kv
      BY <2>1, <3>1, <3>3 DEF Started
    <3>5. CloneIn(ids)[i] = seq[ids[i]].kv
      BY <1>5, <1>7, <3>4, CloneInGives
    <3> QED BY <1>2, <2>3, <2>4, <3>5
  <2>5. CASE ids = lastIds
    <3>1. ids[i] \in Live \ exposed
      BY <1>6, <1>8, <1>10
    <3>2. pipe # << >> /\ pipe[i] = [s |-> ids[i], n |-> seq[ids[i]].kv]
      BY <1>7, <2>5, <3>1 DEF PipeAgrees
    <3>3. rows = [x \in DOMAIN ids |-> IF pipe[x].s = ids[x] THEN pipe[x].n ELSE Junk]
      BY <1>2, <2>5, <3>2 DEF Nothing
    <3>4. DOMAIN ids = 1..n
      BY <1>5, <1>7
    <3>5. rows[i] = seq[ids[i]].kv
      BY <3>2, <3>3, <3>4
    <3> QED BY <2>3, <3>5
  <2> QED BY <2>4, <2>5
<1>11. Ran(ids, after)
  <2>1. \A s \in ToSet(ids) : after[s] \in States
    BY <1>9
  <2> QED BY <1>4, <1>5, <1>6, <1>7, <1>10, <2>1, RunBatchRuns
<1>12. /\ batch' \in [completion : Seq(Nat), prompt : Seq(Nat)]
       /\ (batch.completion)' = << >> /\ (batch.prompt)' = batch.prompt
  <2>1. << >> \in Seq(Nat)
    BY EmptyQueue
  <2>2. PICK c : c = << >>
    OBVIOUS
  <2>3. batch' = [batch EXCEPT !.completion = c] /\ c \in Seq(Nat)
    BY <1>4, <2>1, <2>2
  <2>4. batch' \in [completion : Seq(Nat), prompt : Seq(Nat)]
    BY <1>5, <2>3
  <2>5. batch'.completion = c /\ batch'.prompt = batch.prompt
    BY <1>5, <2>3
  <2> QED BY <2>2, <2>4, <2>5
<1>13. ToSet(batch.completion)' = {} /\ ToSet(batch.prompt)' = ToSet(batch.prompt)
  BY <1>12, EmptyQueue
<1>14. SeqTypes' /\ OnceQueued' /\ Bounded' /\ Runs' = Runs /\ Live' = Live
  <2>1. lastIds' \in Seq(Nat) /\ ToSet(lastIds') \subseteq ToSet(ids)
    BY <1>4, <1>5
  <2> QED BY <1>5, <1>6, <1>11, <1>12, <2>1, RanKeeps
<1>15. \A s \in Live \ ToSet(ids) : seq'[s] = seq[s]
  BY <1>11 DEF Ran
<1>16. \A s \in ToSet(batch.prompt) : s \in Live \ ToSet(ids)
  BY <1>1, <1>6 DEF BatchAgrees, Live
<1>17. exposed \subseteq exposed' /\ \A s \in ToSet(ids) \ exposed' : Started(s)'
  BY <1>11 DEF Ran
<1>18. ASSUME NEW s \in ToSet(ids) \ exposed' PROVE seq'[s].state \in {"completion", "done", "error"}
  <2>1. s \in Runs \ (exposed \cup ToSet(batch.prompt))
    BY <1>6, <1>16, <1>17
  <2>2. seq[s].state \in {"completion", "done", "error"}
    BY <2>1 DEF RunsPrompted
  <2>3. seq'[s].state \in {"done", after[s]}
    BY <1>11 DEF Ran
  <2> QED BY <1>9, <2>2, <2>3
<1>19. BatchAgrees'
  <2>1. ASSUME NEW s \in ToSet(batch.prompt) PROVE BucketKey(s)' = BucketKey(s)
    BY <1>15, <1>16 DEF BucketKey, Length
  <2> QED BY <1>6, <1>13, <1>14, <2>1 DEF BatchAgrees
<1>20. CachesKnown'
  <2> SUFFICES ASSUME NEW s \in Live \ exposed'
               PROVE  (/\ Fresh(s) \/ Started(s)
                       /\ seq[s].state = "completion" => Started(s)
                       /\ seq[s].state \in {"waiting", "prefill"} => Fresh(s)
                       /\ seq[s].state = "prompt" /\ seq[s].offset > 0 => Fresh(s))'
    BY <1>14 DEF CachesKnown
  <2>1. CASE s \in ToSet(ids)
    BY <1>17, <1>18, <2>1
  <2>2. CASE s \notin ToSet(ids)
    <3>1. s \in Live \ exposed /\ seq'[s] = seq[s]
      BY <1>15, <1>17, <2>2
    <3> QED BY <3>1 DEF CachesKnown, Fresh, Started
  <2> QED BY <2>1, <2>2
<1>21. BatchKnown'
  <2>1. ASSUME NEW s \in ToSet(batch.prompt) \ exposed', seq'[s].offset > 0 PROVE Fresh(s)'
    <3>1. s \in ToSet(batch.prompt) \ exposed /\ seq'[s] = seq[s]
      BY <1>15, <1>16, <1>17
    <3> QED BY <2>1, <3>1 DEF BatchKnown, Fresh
  <2> QED BY <1>13, <2>1 DEF BatchKnown
<1>22. RunsPrompted'
  <2> SUFFICES ASSUME NEW s \in Runs \ (exposed' \cup ToSet(batch.prompt))
               PROVE  seq'[s].state \in {"completion", "done", "error"}
    BY <1>13, <1>14 DEF RunsPrompted
  <2>1. CASE s \in ToSet(ids)
    BY <1>18, <2>1
  <2>2. CASE s \notin ToSet(ids)
    <3>1. s \in Runs \ (exposed \cup ToSet(batch.prompt)) /\ seq'[s] = seq[s]
      BY <1>15, <1>17, <2>2 DEF Live
    <3> QED BY <3>1 DEF RunsPrompted
  <2> QED BY <2>1, <2>2
<1>23. PipeAgrees'
  <2> SUFFICES ASSUME NEW i \in 1..n, ids[i] \in Live' \ exposed'
               PROVE  pipe' # << >> /\ pipe'[i] = [s |-> ids[i], n |-> seq'[ids[i]].kv]
    BY <1>4, <1>7 DEF PipeAgrees
  <2> QED BY <1>7, <1>11 DEF Ran
<1>24. RunsCount'
  <2> SUFFICES ASSUME NEW s \in Runs PROVE (IsRunning(s) \/ Finished(s))' \/ s \in ToSet(batch.prompt) \cup skipped
    BY <1>11, <1>13, <1>14 DEF RunsCount, Ran
  <2>1. IsRunning(s) \/ Finished(s) \/ s \in ToSet(batch.prompt) \cup skipped
    BY DEF RunsCount
  <2>2. CASE s \in ToSet(ids)
    <3>1. seq'[s].state \in {"done", seq[s].state}
      BY <1>9, <1>11, <2>2 DEF Ran
    <3> QED BY <2>1, <3>1 DEF IsRunning, Finished
  <2>3. CASE s \notin ToSet(ids)
    <3>1. seq'[s] = seq[s]
      BY <1>15, <2>3 DEF Live
    <3> QED BY <2>1, <3>1 DEF IsRunning, Finished
  <2> QED BY <2>2, <2>3
<1> QED BY <1>14, <1>19, <1>20, <1>21, <1>22, <1>23, <1>24

\* The prompts of a batch are run over the prefixes that were found for them, or
\* over nothing.
LEMMA PromptKeepsBatch ==
  ASSUME BatchInv, batch.prompt # << >>, PromptStep, nextId' = nextId, pc' = "collect"
  PROVE  BatchInv'
<1> USE DEF BatchInv
<1>1. PICK ids : ids = batch.prompt
  OBVIOUS
<1>2. PICK rows : rows = IF seq[ids[1]].offset # 0 THEN CloneIn(ids) ELSE SetNone(ids)
  OBVIOUS
<1>3. PICK from, after :
        /\ from = [s \in ToSet(ids) |-> IF seq[s].prefill THEN seq[s].offset + 1 ELSE 1]
        /\ after = [s \in ToSet(ids) |-> "completion"]
  OBVIOUS
<1>4. RunBatch(ids, rows, from, after) /\ lastIds' = << >> /\ batch' = NoBatch
  BY <1>1, <1>2, <1>3 DEF PromptStep
<1>5. ids \in Seq(Nat) /\ seq \in [Live -> SeqType]
  BY <1>1 DEF SeqTypes
<1>6. ToSet(ids) \subseteq Runs /\ ToSet(ids) \subseteq Live
  BY <1>1 DEF BatchAgrees, Live
<1>7. PICK n \in Nat : n = Len(ids) /\ n > 0
  BY <1>1, <1>5
<1>8. \A i \in 1..n : ids[i] \in ToSet(ids)
  BY <1>5, <1>7, MembersHavePositions
<1>9. \A s \in ToSet(ids) : /\ from[s] = IF seq[s].prefill THEN seq[s].offset + 1 ELSE 1
                            /\ after[s] = "completion" /\ after[s] \in States
  BY <1>3 DEF States
<1>10. ASSUME ToSet(ids) \cap exposed = {}, NEW i \in 1..n PROVE rows[i] = from[ids[i]] - 1
  <2>1. 1 \in 1..n /\ ids[1] \in ToSet(ids) /\ ids[i] \in ToSet(ids)
    BY <1>7, <1>8
  <2>2. BucketKey(ids[1]) = BucketKey(ids[i])
    BY <1>1, <2>1 DEF BatchAgrees
  <2>3. seq[ids[1]].offset = seq[ids[i]].offset
    BY <2>2 DEF BucketKey
  <2>4. seq[ids[i]].offset \in Nat
    BY <1>5, <1>6, <2>1 DEF SeqType
  <2>5. CASE seq[ids[1]].offset # 0
    <3>1. Fresh(ids[1]) /\ Fresh(ids[i])
      BY <1>1, <1>10, <2>1, <2>3, <2>4, <2>5 DEF BatchKnown
    <3>2. /\ seq[ids[1]].kv = seq[ids[i]].kv /\ seq[ids[i]].kv = seq[ids[i]].offset
          /\ seq[ids[i]].prefill
      BY <2>3, <2>4, <2>5, <3>1 DEF Fresh
    <3>3. CloneIn(ids)[i] = seq[ids[i]].kv
      BY <1>5, <1>7, <3>2, CloneInGives
    <3>4. from[ids[i]] = seq[ids[i]].offset + 1
      BY <1>9, <2>1, <3>2
    <3> QED BY <1>2, <2>4, <2>5, <3>2, <3>3, <3>4
  <2>6. CASE seq[ids[1]].offset = 0
    <3>1. ids[i] \in Live \ exposed
      BY <1>6, <1>10, <2>1
    <3>2. Fresh(ids[i]) \/ Started(ids[i])
      BY <3>1 DEF CachesKnown
    <3>3. ~seq[ids[i]].prefill
      BY <2>3, <2>6, <3>2 DEF Fresh, Started
    <3>4. from[ids[i]] = 1
      BY <1>9, <2>1, <3>3
    <3>5. DOMAIN ids = 1..n
      BY <1>5, <1>7
    <3>6. rows[i] = 0
      BY <1>2, <2>6, <3>5 DEF SetNone
    <3> QED BY <3>4, <3>6
  <2> QED BY <2>5, <2>6
<1>11. Ran(ids, after)
  <2>1. \A s \in ToSet(ids) : after[s] \in States
    BY <1>9
  <2> QED BY <1>4, <1>5, <1>6, <1>7, <1>10, <2>1, RunBatchRuns
<1>12. << >> \in Seq(Nat) /\ ToSet(<< >>) = {}
  BY EmptyQueue
<1>13. SeqTypes' /\ OnceQueued' /\ Bounded' /\ Runs' = Runs /\ Live' = Live
  BY <1>4, <1>5, <1>6, <1>11, <1>12, NoBatchIsEmpty, RanKeeps
<1>14. \A s \in Live \ ToSet(ids) : seq'[s] = seq[s]
  BY <1>11 DEF Ran
<1>15. exposed \subseteq exposed' /\ \A s \in ToSet(ids) \ exposed' : Started(s)'
  BY <1>11 DEF Ran
<1>16. \A s \in ToSet(ids) : seq'[s].state \in {"completion", "done"}
  BY <1>9, <1>11 DEF Ran
<1>17. BatchAgrees' /\ BatchKnown'
  BY <1>4, NoBatchIsEmpty DEF BatchAgrees, BatchKnown
<1>18. CachesKnown'
  <2> SUFFICES ASSUME NEW s \in Live \ exposed'
               PROVE  (/\ Fresh(s) \/ Started(s)
                       /\ seq[s].state = "completion" => Started(s)
                       /\ seq[s].state \in {"waiting", "prefill"} => Fresh(s)
                       /\ seq[s].state = "prompt" /\ seq[s].offset > 0 => Fresh(s))'
    BY <1>13 DEF CachesKnown
  <2>1. CASE s \in ToSet(ids)
    BY <1>15, <1>16, <2>1
  <2>2. CASE s \notin ToSet(ids)
    <3>1. s \in Live \ exposed /\ seq'[s] = seq[s]
      BY <1>14, <1>15, <2>2
    <3> QED BY <3>1 DEF CachesKnown, Fresh, Started
  <2> QED BY <2>1, <2>2
<1>19. RunsPrompted'
  <2> SUFFICES ASSUME NEW s \in Runs \ exposed'
               PROVE  seq'[s].state \in {"completion", "done", "error"}
    BY <1>13 DEF RunsPrompted
  <2>1. CASE s \in ToSet(ids)
    BY <1>16, <2>1
  <2>2. CASE s \notin ToSet(ids)
    <3>1. s \in Runs \ (exposed \cup ToSet(batch.prompt)) /\ seq'[s] = seq[s]
      BY <1>1, <1>14, <1>15, <2>2 DEF Live
    <3> QED BY <3>1 DEF RunsPrompted
  <2> QED BY <2>1, <2>2
<1>20. PipeAgrees'
  BY <1>4 DEF PipeAgrees
<1>21. RunsCount'
  <2> SUFFICES ASSUME NEW s \in Runs PROVE (IsRunning(s) \/ Finished(s))' \/ s \in skipped
    BY <1>11, <1>13 DEF RunsCount, Ran
  <2>1. CASE s \in ToSet(ids)
    BY <1>16, <2>1 DEF IsRunning, Finished
  <2>2. CASE s \notin ToSet(ids)
    <3>1. seq'[s] = seq[s]
      BY <1>14, <2>2 DEF Live
    <3>2. IsRunning(s) \/ Finished(s) \/ s \in skipped
      BY <1>1, <2>2 DEF RunsCount
    <3> QED BY <3>1, <3>2 DEF IsRunning, Finished
  <2> QED BY <2>1, <2>2
<1> QED BY <1>13, <1>17, <1>18, <1>19, <1>20, <1>21

\* handle_pipeline_forward_error ends the batch in error and forgets the rows;
\* what was skipped or had a row counts as harmed.
LEMMA FailKeepsBatch ==
  ASSUME BatchInv, NEW ids, NEW rest, FailBatch(ids, rest), nextId' = nextId, pc' = "collect",
         ToSet(batch.prompt) \subseteq ToSet(ids) \cup ToSet(rest)
  PROVE  BatchInv'
<1> USE DEF BatchInv
<1>1. /\ seq' = [s \in DOMAIN seq |-> IF s \in ToSet(ids) THEN [seq[s] EXCEPT !.state = "error"] ELSE seq[s]]
      /\ batch' = NoBatch /\ exposed' = exposed \cup ToSet(lastIds) \cup ToSet(rest)
      /\ skipped' = skipped \cup {s \in ToSet(rest) : ~IsRunning(s)}
      /\ UNCHANGED <<waiting, running, lastIds>>
  BY DEF FailBatch
<1>2. Runs' = Runs /\ Waits' = Waits /\ Live' = Live
  BY <1>1 DEF Runs, Waits, Live
<1>3. seq \in [Live -> SeqType] /\ DOMAIN seq = Live
  BY DEF SeqTypes
<1>4. seq' = [s \in Live |-> IF s \in ToSet(ids) THEN [seq[s] EXCEPT !.state = "error"] ELSE seq[s]]
  BY <1>1, <1>3
<1>5. ASSUME NEW s \in Live
      PROVE  /\ seq'[s] \in SeqType /\ Same(s)
             /\ seq'[s].state = IF s \in ToSet(ids) THEN "error" ELSE seq[s].state
  <2>1. PICK q \in SeqType : q = seq[s]
    BY <1>3
  <2>2. PICK p : p = [q EXCEPT !.state = "error"]
    OBVIOUS
  <2>3. /\ p \in SeqType /\ p.req = q.req /\ p.tokens = q.tokens /\ p.offset = q.offset
        /\ p.kv = q.kv /\ p.prefill = q.prefill /\ p.state = "error"
    BY <2>2 DEF SeqType, States
  <2>4. seq'[s] = IF s \in ToSet(ids) THEN p ELSE q
    BY <1>4, <2>1, <2>2
  <2> QED BY <2>1, <2>3, <2>4 DEF Same
<1>6. SeqTypes'
  <2>1. seq' \in [Live' -> SeqType]
    <3> DEFINE Body(s) == IF s \in ToSet(ids) THEN [seq[s] EXCEPT !.state = "error"] ELSE seq[s]
    <3>1. seq' = [s \in Live |-> Body(s)]
      BY <1>4
    <3> HIDE DEF Body
    <3>2. \A s \in Live : Body(s) \in SeqType
      BY <1>5, <3>1
    <3> QED BY <1>2, <3>1, <3>2
  <2> QED BY <1>1, <1>2, <2>1, NoBatchIsEmpty DEF SeqTypes
<1>7. OnceQueued'
  BY <1>1, <1>2 DEF OnceQueued
<1>8. BatchAgrees' /\ BatchKnown'
  BY <1>1, NoBatchIsEmpty DEF BatchAgrees, BatchKnown
<1>9. CachesKnown'
  <2> SUFFICES ASSUME NEW s \in Live \ exposed'
               PROVE  (/\ Fresh(s) \/ Started(s)
                       /\ seq[s].state = "completion" => Started(s)
                       /\ seq[s].state \in {"waiting", "prefill"} => Fresh(s)
                       /\ seq[s].state = "prompt" /\ seq[s].offset > 0 => Fresh(s))'
    BY <1>2 DEF CachesKnown
  <2>1. s \in Live \ exposed
    BY <1>1
  <2>2. (Fresh(s)' <=> Fresh(s)) /\ (Started(s)' <=> Started(s)) /\ seq'[s].offset = seq[s].offset
    BY <1>5 DEF Same, Fresh, Started
  <2>3. seq'[s].state = "error" \/ seq'[s].state = seq[s].state
    BY <1>5
  <2> QED BY <2>1, <2>2, <2>3 DEF CachesKnown
<1>10. RunsPrompted'
  <2> SUFFICES ASSUME NEW s \in Runs \ exposed'
               PROVE  seq'[s].state \in {"completion", "done", "error"}
    BY <1>2 DEF RunsPrompted
  <2>1. s \in Live
    BY DEF Live
  <2>2. CASE s \in ToSet(ids)
    BY <1>5, <2>1, <2>2
  <2>3. CASE s \notin ToSet(ids)
    <3>1. s \in Runs \ (exposed \cup ToSet(batch.prompt))
      BY <1>1, <2>3
    <3> QED BY <1>5, <2>1, <2>3, <3>1 DEF RunsPrompted
  <2> QED BY <2>2, <2>3
<1>11. PipeAgrees'
  <2>1. \A i \in 1..Len(lastIds) : lastIds[i] \in exposed'
    BY <1>1, MembersHavePositions DEF SeqTypes
  <2> QED BY <1>1, <2>1 DEF PipeAgrees
<1>12. Bounded'
  <2>1. \A s \in Live' : seq'[s].req = seq[s].req
    BY <1>2, <1>5 DEF Same
  <2>2. running \in Seq(Nat) /\ waiting \in Seq(Nat) /\ running' = running /\ waiting' = waiting
    BY <1>1 DEF SeqTypes
  <2> QED BY <1>2, <2>1, <2>2, FewerKeepBounded
<1>13. RunsCount'
  <2> SUFFICES ASSUME NEW s \in Runs PROVE (IsRunning(s) \/ Finished(s))' \/ s \in skipped'
    BY <1>2 DEF RunsCount
  <2>1. s \in Live
    BY DEF Live
  <2>2. CASE s \in ToSet(ids)
    BY <1>5, <2>1, <2>2 DEF Finished
  <2>3. CASE s \notin ToSet(ids)
    <3>1. seq'[s].state = seq[s].state
      BY <1>5, <2>1, <2>3
    <3>2. IsRunning(s) \/ Finished(s) \/ s \in ToSet(rest) \cup skipped
      BY <2>3 DEF RunsCount
    <3> QED BY <1>1, <3>1, <3>2 DEF IsRunning, Finished
  <2> QED BY <2>2, <2>3
<1> QED BY <1>6, <1>7, <1>8, <1>9, <1>10, <1>11, <1>12, <1>13

\* Nothing has been admitted.
LEMMA InitBatch == Init => BatchInv
<1> SUFFICES ASSUME Init PROVE BatchInv
  OBVIOUS
<1>1. /\ waiting = << >> /\ running = << >> /\ seq = << >> /\ batch = NoBatch /\ lastIds = << >>
      /\ nextId = 1 /\ pc = "collect"
  BY DEF Init, SchedInit
<1>2. << >> \in Seq(Nat) /\ ToSet(<< >>) = {} /\ IsInjective(<< >>)
  BY EmptyQueue
<1>3. Runs = {} /\ Waits = {} /\ Live = {}
  BY <1>1, <1>2 DEF Runs, Waits, Live
<1>4. SeqTypes
  <2>1. seq \in [Live -> SeqType]
    BY <1>1, <1>3
  <2> QED BY <1>1, <1>2, <1>3, <2>1, NoBatchIsEmpty DEF SeqTypes
<1>5. /\ OnceQueued /\ BatchAgrees /\ CachesKnown /\ BatchKnown /\ RunsPrompted
      /\ RunsCount /\ PipeAgrees
  BY <1>1, <1>2, <1>3, NoBatchIsEmpty
     DEF OnceQueued, BatchAgrees, CachesKnown, BatchKnown, RunsPrompted, RunsCount, PipeAgrees
<1>6. Bounded
  <2>1. ToSet(running \o waiting) = {}
    BY <1>1, <1>2, ConcatIsUnion
  <2> QED BY <2>1, FS_EmptySet, AdmissionAssumption DEF Bounded
<1> QED BY <1>4, <1>5, <1>6 DEF BatchInv

\* Every step keeps what is known of sequences, and takes away none but those
\* that may leave.
LEMMA NextKeepsBatch ==
  ASSUME ArrivalInv, BatchInv, [Next]_vars
  PROVE  BatchInv' /\ \A s \in DOMAIN seq \ DOMAIN seq' : Leaves(s)
<1>0. ASSUME BatchInv', Live \subseteq Live' PROVE \A s \in DOMAIN seq \ DOMAIN seq' : Leaves(s)
  BY <1>0 DEF BatchInv, SeqTypes
<1>1. CASE Collect
  <2>1. BatchInv'
    BY <1>1, CollectKeepsBatch
  <2>2. running \in Seq(Nat) /\ IsInjective(running) /\ waiting \in Seq(Nat) /\ IsInjective(waiting)
    BY DEF BatchInv, SeqTypes, OnceQueued
  <2>3. running' = Reaped(running, closed) /\ waiting' = Reaped(waiting, closed)
    BY <1>1 DEF Collect, Reap
  <2>4. \A s \in Live \ Live' : Finished(s) \/ seq[s].req \in closed
    BY <2>2, <2>3, ReapedProperties DEF Live, Runs, Waits
  <2> QED BY <2>1, <2>4 DEF BatchInv, SeqTypes, Leaves
<1>2. CASE DispatchBypass
  <2>1. bypass # << >> /\ pc = "dispatch" /\ Dispatch(Head(bypass))
    BY <1>2 DEF DispatchBypass, TakeBypassControl
  <2>2. Class[Head(bypass)] # "workload"
    <3>1. Head(bypass) \in ToSet(bypass)
      BY <2>1, TailKeeps DEF ArrivalInv, RequestQueues, OncePlaced
    <3> QED BY <3>1 DEF ArrivalInv, ByClass
  <2>3. UNCHANGED <<waiting, running, seq, batch, pipe, lastIds, exposed, skipped, nextId, pc>>
    BY <2>1, <2>2 DEF Dispatch
  <2>4. BatchInv'
    BY <2>1, <2>3, OthersKeepBatch DEF BatchInv, BatchAgrees
  <2> QED BY <1>0, <2>3, <2>4 DEF Live, Runs, Waits
<1>3. CASE DispatchOrdered
  <2>1. PICK r : r = Head(ordered)
    OBVIOUS
  <2>2. ordered # << >> /\ pc = "dispatch" /\ Dispatch(r) /\ Admissible(r, Active)
    BY <1>3, <2>1 DEF DispatchOrdered, PopAdmissible
  <2>3. r \in Request
    BY <2>1, <2>2, HeadTailProperties DEF ArrivalInv, RequestQueues
  <2>4. UNCHANGED <<running, batch, pipe, lastIds, exposed, skipped, pc>>
    BY <2>2 DEF Dispatch
  <2>5. CASE Class[r] = "workload"
    <3>1. AddRequest(r)
      BY <2>2, <2>5 DEF Dispatch
    <3>2. BatchInv'
      BY <2>2, <2>3, <2>4, <2>5, <3>1, AddRequestKeepsBatch
    <3>3. DOMAIN seq \subseteq DOMAIN seq'
      BY <3>1 DEF AddRequest
    <3> QED BY <3>2, <3>3
  <2>6. CASE Class[r] # "workload"
    <3>1. UNCHANGED <<waiting, seq, nextId>>
      BY <2>2, <2>6 DEF Dispatch
    <3>2. BatchInv'
      BY <2>2, <2>4, <3>1, OthersKeepBatch DEF BatchInv, BatchAgrees
    <3> QED BY <3>1, <3>2
  <2> QED BY <2>5, <2>6
<1>4. ASSUME UNCHANGED schedVars, nextId' = nextId, pc' # "step" => batch = NoBatch
      PROVE  BatchInv' /\ \A s \in DOMAIN seq \ DOMAIN seq' : Leaves(s)
  <2>1. UNCHANGED <<waiting, running, seq, batch, pipe, lastIds, exposed, skipped, nextId>>
    BY <1>4 DEF schedVars
  <2> QED BY <1>4, <2>1, OthersKeepBatch
<1>5. CASE EndDispatch
  BY <1>4, <1>5 DEF EndDispatch, BatchInv, BatchAgrees
<1>6. CASE Receive
  BY <1>4, <1>6 DEF Receive, BatchInv, BatchAgrees
<1>7. CASE Wake
  BY <1>4, <1>7 DEF Wake, BatchInv, BatchAgrees
<1>8. CASE DoSchedule
  BY <1>8, ScheduleKeepsBatch
<1>9. CASE RunCompletions
  <2>1. BatchInv'
    <3>1. CASE CompletionStep /\ pc' = "step"
      BY <1>9, <3>1, CompletionKeepsBatch, Zenon DEF RunCompletions
    <3>2. CASE FailBatch(batch.completion, batch.prompt) /\ pc' = "collect"
      BY <1>9, <3>2, FailKeepsBatch, SMTT(40) DEF RunCompletions
    <3> QED BY <1>9, <3>1, <3>2 DEF RunCompletions
  <2>2. UNCHANGED <<waiting, running>>
    BY <1>9 DEF RunCompletions, CompletionStep, RunBatch, FailBatch
  <2> QED BY <1>0, <2>1, <2>2 DEF Live, Runs, Waits
<1>10. CASE RunPrompts
  <2>1. BatchInv'
    <3>1. CASE PromptStep
      BY <1>10, <3>1, PromptKeepsBatch, Zenon DEF RunPrompts
    <3>2. CASE FailBatch(batch.prompt, << >>)
      BY <1>10, <3>2, FailKeepsBatch, SMTT(40) DEF RunPrompts
    <3> QED BY <1>10, <3>1, <3>2 DEF RunPrompts
  <2>2. UNCHANGED <<waiting, running>>
    BY <1>10 DEF RunPrompts, PromptStep, RunBatch, FailBatch
  <2> QED BY <1>0, <2>1, <2>2 DEF Live, Runs, Waits
<1>11. CASE EndStep
  BY <1>4, <1>11 DEF EndStep
<1>12. ASSUME NEW r \in Request, Send(r) \/ Close(r)
       PROVE  BatchInv' /\ \A s \in DOMAIN seq \ DOMAIN seq' : Leaves(s)
  BY <1>4, <1>12 DEF Send, Close, BatchInv, BatchAgrees
<1>13. CASE UNCHANGED vars
  BY <1>4, <1>13 DEF vars, engineVars, BatchInv, BatchAgrees
<1> QED
  BY <1>1, <1>2, <1>3, <1>5, <1>6, <1>7, <1>8, <1>9, <1>10, <1>11, <1>12, <1>13
  DEF Next, EngineStep

-----------------------------------------------------------------------------
(* The theorems. *)

\* What is known of sequences: each is in one queue, a batch is of one bucket,
\* and before and after its prompt step a sequence that no known weakness has
\* harmed has the cache it needs.
THEOREM BatchesKnown == Spec => []BatchInv
<1>1. ArrivalInv /\ BatchInv /\ [Next]_vars => BatchInv'
  BY NextKeepsBatch
<1> QED BY <1>1, InitBatch, ArrivalKnown, PTL DEF Spec

\* Admission keeps the order of arrival, loses nothing and keeps the bound on
\* active sequences (AdmissionQueue, collect_pending_requests and add_request).
THEOREM AdmissionIsSound == Spec => []AdmissionSound
<1>1. ArrivalInv /\ BatchInv => AdmissionSound
  BY ArrivalInvGivesOrder DEF AdmissionSound, BatchInv
<1> QED BY <1>1, ArrivalKnown, BatchesKnown, PTL

\* Whatever batches the scheduler forms and however often one fails, a sequence
\* that no known weakness has harmed attends to the cache of its own tokens.
THEOREM HarmIsContained == Spec => []OnlyExposedHarmed
<1>1. BatchInv => OnlyExposedHarmed
  <2> SUFFICES ASSUME BatchInv, NEW s \in DOMAIN seq \ exposed PROVE seq[s].kv # Junk
    BY DEF OnlyExposedHarmed
  <2>1. s \in Live \ exposed /\ seq[s] \in SeqType
    BY DEF BatchInv, SeqTypes
  <2>2. Fresh(s) \/ Started(s)
    BY <2>1 DEF BatchInv, CachesKnown
  <2>3. seq[s].kv \in Nat
    BY <2>1, <2>2 DEF Fresh, Started, SeqType
  <2> QED BY <2>3, SchedulerAssumption
<1> QED BY <1>1, BatchesKnown, PTL

\* A sequence leaves the engine finished, with its client gone, or because the
\* failure of another batch skipped it before its prompt step (engine/mod.rs
\* and the retain of is_running in schedule; no other step drops any).
THEOREM NoSequenceDropped == Spec => NoneDropped
<1>1. ArrivalInv /\ BatchInv /\ [Next]_vars =>
        [\A s \in DOMAIN seq \ DOMAIN seq' :
            Finished(s) \/ seq[s].req \in closed \/ s \in skipped]_vars
  BY NextKeepsBatch DEF Leaves
<1> QED BY <1>1, ArrivalKnown, BatchesKnown, PTL DEF Spec, NoneDropped

=============================================================================
