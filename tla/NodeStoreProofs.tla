--------------------------- MODULE NodeStoreProofs ---------------------------
(* Every operation of the runtime store maps a runtime record to a runtime *)
(* record, which queues it shortens and which keep inflight: the lemmas    *)
(* that GraphRunner, Cron and GroupOutbox share.                           *)
EXTENDS NodeStore, SequenceTheorems, FiniteSetTheorems, TLAPS

\* A node without a record reads as a well-formed one.
LEMMA FreshRuntimeType == FreshRuntime \in Runtime
BY EmptySeq DEF FreshRuntime, Runtime, NodeStates

\* The operations that only set scalar fields.
LEMMA UpdateStateType ==
  ASSUME NEW r \in Runtime, NEW s \in NodeStates
  PROVE  UpdateState(r, s) \in Runtime
BY DEF UpdateState, Runtime

LEMMA TransitionToIdleType ==
  ASSUME NEW r \in Runtime PROVE TransitionToIdle(r) \in Runtime
BY DEF TransitionToIdle, Runtime, NodeStates

LEMMA ClearInflightType ==
  ASSUME NEW r \in Runtime PROVE ClearInflight(r) \in Runtime
BY DEF ClearInflight, Runtime

LEMMA ClearDeleteRequestedType ==
  ASSUME NEW r \in Runtime PROVE ClearDeleteRequested(r) \in Runtime
BY DEF ClearDeleteRequested, Runtime

LEMMA FinishStopRequestedType ==
  ASSUME NEW r \in Runtime PROVE FinishStopRequested(r) \in Runtime
BY DEF FinishStopRequested, Runtime, NodeStates

LEMMA RecoverStaleWorkingType ==
  ASSUME NEW r \in Runtime PROVE RecoverStaleWorking(r) \in Runtime
BY DEF RecoverStaleWorking, StaleWorking, Runtime, NodeStates

\* The operations that empty the queue or the held outputs.
LEMMA CancelWorkType ==
  ASSUME NEW r \in Runtime PROVE CancelWork(r) \in Runtime
BY EmptySeq DEF CancelWork, Runtime, NodeStates

LEMMA MarkDeleteRequestedType ==
  ASSUME NEW r \in Runtime PROVE MarkDeleteRequested(r) \in Runtime
BY EmptySeq DEF MarkDeleteRequested, Runtime, NodeStates

LEMMA ResumeType ==
  ASSUME NEW r \in Runtime
  PROVE  Resume(r) \in Runtime /\ Released(r) \in Seq(Output)
BY EmptySeq DEF Resume, Released, Runtime, NodeStates

\* The queue operations.
LEMMA AppendPendingType ==
  ASSUME NEW r \in Runtime, NEW it \in Item
  PROVE  AppendPending(r, it) \in Runtime
<1>1. Append(r.pending, it) \in Seq(Item)
  BY AppendProperties DEF Runtime
<1>2. [r EXCEPT !.pending = Append(r.pending, it)] \in Runtime
  BY <1>1 DEF Runtime
<1> QED BY <1>2 DEF AppendPending

LEMMA PopPendingType ==
  ASSUME NEW r \in Runtime
  PROVE  PopPending(r) \in Runtime
<1>1. r.pending # << >> => Tail(r.pending) \in Seq(Item)
  BY HeadTailProperties DEF Runtime
<1> QED BY <1>1 DEF PopPending, Runtime

LEMMA DequeueType ==
  ASSUME NEW r \in Runtime, CanDequeue(r)
  PROVE  DequeueToWorking(r) \in Runtime /\ DequeueToWorking(r).inflight \in Item
<1>1. Head(r.pending) \in Item /\ Tail(r.pending) \in Seq(Item)
  BY HeadTailProperties DEF Runtime, CanDequeue
<1> QED BY <1>1 DEF DequeueToWorking, Runtime, NodeStates

\* What stays of a queue is a queue: Remaining picks places of s.
LEMMA RemainingType ==
  ASSUME NEW s \in Seq(Item)
  PROVE  Remaining(s) \in Seq(Item)
<1> DEFINE stay    == {i \in DOMAIN s : ~Consumable(s, i)}
           rank(i) == Cardinality({j \in stay : j <= i})
           nth(k)  == CHOOSE i \in DOMAIN s :
                        (\E j \in stay : rank(j) = k) => i \in stay /\ rank(i) = k
<1>1. DOMAIN s = 1..Len(s) /\ Len(s) \in Nat
  BY LenProperties
<1>2. IsFiniteSet(DOMAIN s)
  BY <1>1, FS_Interval
<1>3. IsFiniteSet(stay)
  BY <1>2, FS_Subset
<1>4. Cardinality(stay) \in Nat
  BY <1>3, FS_CardinalityType
<1>5. ASSUME NEW k \in 1..Cardinality(stay)
      PROVE  s[nth(k)] \in Item
  <2>1. stay # {}
    BY <1>4, <1>3, FS_EmptySet
  <2>2. PICK d \in DOMAIN s : TRUE
    BY <2>1
  <2>3. \E i \in DOMAIN s :
          (\E j \in stay : rank(j) = k) => i \in stay /\ rank(i) = k
    <3>1. CASE \E j \in stay : rank(j) = k
      BY <3>1
    <3>2. CASE ~ \E j \in stay : rank(j) = k
      BY <2>2, <3>2
    <3> QED BY <3>1, <3>2
  <2>4. nth(k) \in DOMAIN s
    BY <2>3
  <2> QED BY <2>4, ElementOfSeq, <1>1
<1> DEFINE n    == Cardinality(stay)
           f(k) == s[nth(k)]
           kept == [k \in 1..n |-> f(k)]
<1>6. Remaining(s) = kept
  BY DEF Remaining
<1>7. n \in Nat /\ \A k \in 1..n : f(k) \in Item
  BY <1>4, <1>5
<1> HIDE DEF n, f
<1>8. kept \in [1..n -> Item]
  BY <1>7
<1>9. kept \in Seq(Item)
  BY <1>7, <1>8, SeqDef
<1> QED BY <1>6, <1>9

LEMMA ConsumeType ==
  ASSUME NEW r \in Runtime
  PROVE  ConsumeMidTurnInputs(r) \in Runtime
<1>1. Remaining(r.pending) \in Seq(Item)
  BY RemainingType DEF Runtime
<1> QED BY <1>1 DEF ConsumeMidTurnInputs, Runtime

\* Held outputs: an output without a target is never held.
LEMMA CompleteWorkType ==
  ASSUME NEW r \in Runtime, NEW out,
         out.targets # {} => out \in Output
  PROVE  CompleteWork(r, out) \in Runtime
<1>1. FinalState(r) \in NodeStates
  BY DEF FinalState, NodeStates
<1>2. r.held \in Seq(Output)
  BY DEF Runtime
<1>3. out.targets # {} => Append(r.held, out) \in Seq(Output)
  BY <1>2, AppendProperties
<1> QED BY <1>1, <1>2, <1>3 DEF CompleteWork, Runtime

\* The bounded history of completed requests.
LEMMA RecordCompletionType ==
  ASSUME NEW r \in Runtime, NEW trace \in Traces
  PROVE  RecordCompletion(r, trace) \in Runtime
<1> DEFINE s == r.completed
           w == Without(s, trace)
           a == Append(w, trace)
<1>1. s \in Seq(Traces)
  BY DEF Runtime
<1>2. DOMAIN s = 1..Len(s) /\ Len(s) \in Nat
  BY <1>1, LenProperties
<1>3. \A i \in 1..Len(s) : s[i] \in Traces
  BY <1>1, ElementOfSeq
<1>4. w \in Seq(Traces)
  <2>1. CASE trace \notin Elements(s)
    BY <2>1, <1>1 DEF Without
  <2>2. CASE trace \in Elements(s)
    <3> DEFINE i == CHOOSE i \in DOMAIN s : s[i] = trace
    <3>1. i \in DOMAIN s
      BY <2>2 DEF Elements
    <3> HIDE DEF i
    <3>2. SubSeq(s, 1, i - 1) \in Seq(Traces)
      BY <1>2, <1>3, <3>1, SubSeqProperties
    <3>3. SubSeq(s, i + 1, Len(s)) \in Seq(Traces)
      BY <1>2, <1>3, <3>1, SubSeqProperties
    <3>4. SubSeq(s, 1, i - 1) \o SubSeq(s, i + 1, Len(s)) \in Seq(Traces)
      BY <3>2, <3>3, ConcatProperties
    <3> QED BY <2>2, <3>4 DEF Without, i
  <2> QED BY <2>1, <2>2
<1> HIDE DEF w
<1>5. a \in Seq(Traces)
  BY <1>4, AppendProperties
<1>6. Len(a) \in Nat /\ \A i \in 1..Len(a) : a[i] \in Traces
  BY <1>5, LenProperties, ElementOfSeq
<1> HIDE DEF a
<1>7. Newest(a, HistoryLimit) \in Seq(Traces)
  <2>1. HistoryLimit \in Nat \ {0}
    BY HistoryLimitAssumption
  <2>2. CASE Len(a) <= HistoryLimit
    BY <2>2, <1>5 DEF Newest
  <2>3. CASE ~(Len(a) <= HistoryLimit)
    <3>1. SubSeq(a, Len(a) - HistoryLimit + 1, Len(a)) \in Seq(Traces)
      BY <1>6, <2>1, <2>3, SubSeqProperties
    <3> QED BY <2>3, <3>1 DEF Newest
  <2> QED BY <2>2, <2>3
<1>8. RecordCompletion(r, trace) = [r EXCEPT !.completed = Newest(a, HistoryLimit)]
  BY DEF RecordCompletion, a, w
<1> QED BY <1>7, <1>8 DEF Runtime

\* Most operations keep or empty the queue, and keep or clear inflight.
Shrinks(r, q) ==
  /\ q \in Runtime
  /\ q.pending = r.pending \/ q.pending = << >>
  /\ q.inflight = r.inflight \/ q.inflight = NoItem

LEMMA OperationsShrink ==
  ASSUME NEW r \in Runtime
  PROVE  /\ Shrinks(r, r)
         /\ Shrinks(r, ClearInflight(r))
         /\ Shrinks(r, TransitionToIdle(r))
         /\ Shrinks(r, FinishStopRequested(r))
         /\ Shrinks(r, CompleteWork(r, [targets |-> {}]))
         /\ Shrinks(r, RecoverStaleWorking(r))
         /\ Shrinks(r, CancelWork(r))
         /\ Shrinks(r, UpdateState(r, "stop"))
         /\ Shrinks(r, Resume(r))
         /\ Shrinks(r, MarkDeleteRequested(r))
         /\ Shrinks(r, ClearDeleteRequested(r))
         /\ \A t \in Traces : Shrinks(r, RecordCompletion(r, t))
<1>1. Shrinks(r, r)
  BY DEF Shrinks
<1>2. Shrinks(r, ClearInflight(r))
  BY ClearInflightType DEF Shrinks, ClearInflight, Runtime
<1>3. Shrinks(r, TransitionToIdle(r))
  BY TransitionToIdleType DEF Shrinks, TransitionToIdle, Runtime
<1>4. Shrinks(r, FinishStopRequested(r))
  BY FinishStopRequestedType DEF Shrinks, FinishStopRequested, Runtime
<1>5. Shrinks(r, CompleteWork(r, [targets |-> {}]))
  <2>1. CompleteWork(r, [targets |-> {}]) \in Runtime
    BY CompleteWorkType
  <2> QED BY <2>1 DEF Shrinks, CompleteWork, Runtime
<1>6. Shrinks(r, RecoverStaleWorking(r))
  BY RecoverStaleWorkingType DEF Shrinks, RecoverStaleWorking, Runtime
<1>7. Shrinks(r, CancelWork(r))
  BY CancelWorkType DEF Shrinks, CancelWork, Runtime
<1>8. Shrinks(r, UpdateState(r, "stop"))
  BY UpdateStateType DEF Shrinks, UpdateState, Runtime, NodeStates
<1>9. Shrinks(r, Resume(r))
  BY ResumeType DEF Shrinks, Resume, Runtime
<1>10. Shrinks(r, MarkDeleteRequested(r))
  BY MarkDeleteRequestedType DEF Shrinks, MarkDeleteRequested, Runtime
<1>11. Shrinks(r, ClearDeleteRequested(r))
  BY ClearDeleteRequestedType DEF Shrinks, ClearDeleteRequested, Runtime
<1>12. \A t \in Traces : Shrinks(r, RecordCompletion(r, t))
  BY RecordCompletionType DEF Shrinks, RecordCompletion, Runtime
<1> QED BY <1>1, <1>2, <1>3, <1>4, <1>5, <1>6, <1>7, <1>8, <1>9, <1>10, <1>11, <1>12

\* Which operations touch inflight: only the two that clear it, besides
\* dequeue_pending_to_working.
LEMMA InflightKept ==
  ASSUME NEW r \in Runtime
  PROVE  /\ \A it : AppendPending(r, it).inflight = r.inflight
         /\ \A s : UpdateState(r, s).inflight = r.inflight
         /\ PopPending(r).inflight = r.inflight
         /\ TransitionToIdle(r).inflight = r.inflight
         /\ CancelWork(r).inflight = r.inflight
         /\ ConsumeMidTurnInputs(r).inflight = r.inflight
         /\ MarkDeleteRequested(r).inflight = r.inflight
         /\ ClearDeleteRequested(r).inflight = r.inflight
         /\ RecoverStaleWorking(r).inflight = r.inflight
         /\ Resume(r).inflight = r.inflight
         /\ \A out : CompleteWork(r, out).inflight = r.inflight
         /\ \A tr : RecordCompletion(r, tr).inflight = r.inflight
         /\ ClearInflight(r).inflight = NoItem
         /\ FinishStopRequested(r).inflight = IF r.stopReq THEN NoItem ELSE r.inflight
<1>1. /\ \A it : AppendPending(r, it).inflight = r.inflight
      /\ \A s : UpdateState(r, s).inflight = r.inflight
      /\ PopPending(r).inflight = r.inflight
      /\ TransitionToIdle(r).inflight = r.inflight
      /\ CancelWork(r).inflight = r.inflight
  BY DEF AppendPending, UpdateState, PopPending, TransitionToIdle, CancelWork, Runtime
<1>2. /\ ConsumeMidTurnInputs(r).inflight = r.inflight
      /\ MarkDeleteRequested(r).inflight = r.inflight
      /\ ClearDeleteRequested(r).inflight = r.inflight
      /\ RecoverStaleWorking(r).inflight = r.inflight
      /\ Resume(r).inflight = r.inflight
  BY DEF ConsumeMidTurnInputs, MarkDeleteRequested, ClearDeleteRequested,
         RecoverStaleWorking, Resume, Runtime
<1>3. /\ \A out : CompleteWork(r, out).inflight = r.inflight
      /\ \A tr : RecordCompletion(r, tr).inflight = r.inflight
      /\ ClearInflight(r).inflight = NoItem
      /\ FinishStopRequested(r).inflight = IF r.stopReq THEN NoItem ELSE r.inflight
  BY DEF CompleteWork, RecordCompletion, ClearInflight, FinishStopRequested, Runtime
<1> QED BY <1>1, <1>2, <1>3

-----------------------------------------------------------------------------
(* What consume_mid_turn_user_inputs leaves in the queue                   *)

\* Counting up to a place: how many places of P there are up to i.
UpTo(P, i) == {j \in P : j <= i}

LEMMA CountUp ==
  ASSUME NEW P \in SUBSET Nat, IsFiniteSet(P)
  PROVE  /\ \A i \in P : Cardinality(UpTo(P, i)) \in 1..Cardinality(P)
         /\ \A i, j \in P : i < j => Cardinality(UpTo(P, i)) < Cardinality(UpTo(P, j))
<1>1. Cardinality(P) \in Nat
  BY FS_CardinalityType
<1>2. ASSUME NEW i \in P
      PROVE  /\ IsFiniteSet(UpTo(P, i)) /\ Cardinality(UpTo(P, i)) \in Nat
             /\ Cardinality(UpTo(P, i)) <= Cardinality(P)
             /\ Cardinality(UpTo(P, i)) # 0
  <2>1. UpTo(P, i) \in SUBSET P /\ i \in UpTo(P, i)
    BY DEF UpTo
  <2>2. IsFiniteSet(UpTo(P, i)) /\ Cardinality(UpTo(P, i)) <= Cardinality(P)
    BY <2>1, FS_Subset
  <2>3. Cardinality(UpTo(P, i)) \in Nat
    BY <2>2, FS_CardinalityType
  <2> QED BY <2>1, <2>2, <2>3, FS_EmptySet
<1>3. ASSUME NEW i \in P, NEW j \in P, i < j
      PROVE  Cardinality(UpTo(P, i)) < Cardinality(UpTo(P, j))
  <2>1. UpTo(P, i) \in SUBSET UpTo(P, j) /\ j \in UpTo(P, j) /\ j \notin UpTo(P, i)
    <3>1. i \in Nat /\ j \in Nat /\ \A x \in P : x \in Nat
      OBVIOUS
    <3>2. \A x \in P : x <= i => x <= j
      BY <1>3, <3>1
    <3>3. j <= j /\ ~(j <= i)
      BY <1>3, <3>1
    <3> QED BY <3>2, <3>3 DEF UpTo
  <2>2. /\ Cardinality(UpTo(P, i)) <= Cardinality(UpTo(P, j))
        /\ Cardinality(UpTo(P, j)) = Cardinality(UpTo(P, i)) => UpTo(P, j) = UpTo(P, i)
    BY <1>2, <2>1, FS_Subset
  <2> QED BY <1>2, <2>1, <2>2
<1>4. \A i \in P : Cardinality(UpTo(P, i)) \in 1..Cardinality(P)
  BY <1>1, <1>2
<1> QED BY <1>3, <1>4

\* Every count from 1 to the number of places is that of some place.
LEMMA CountOnto ==
  ASSUME NEW P \in SUBSET Nat, IsFiniteSet(P), NEW k \in 1..Cardinality(P)
  PROVE  \E i \in P : Cardinality(UpTo(P, i)) = k
<1> SUFFICES ASSUME \A i \in P : Cardinality(UpTo(P, i)) # k PROVE FALSE
  OBVIOUS
<1> DEFINE N == Cardinality(P)
           T == (1..N) \ {k}
           count == [i \in P |-> Cardinality(UpTo(P, i))]
<1>1. N \in Nat
  BY FS_CardinalityType
<1>2. IsFiniteSet(1..N) /\ Cardinality(1..N) = N
  BY <1>1, FS_Interval
<1>3. IsFiniteSet(T) /\ Cardinality(T) < Cardinality(P)
  <2>1. k \in 1..N
    OBVIOUS
  <2>2. IsFiniteSet(T) /\ Cardinality(T) = Cardinality(1..N) - 1
    BY <1>2, <2>1, FS_RemoveElement
  <2> QED BY <1>1, <1>2, <2>2
<1>4. count \in [P -> T]
  BY CountUp
<1> HIDE DEF count, T
<1>5. \E x, y \in P : x # y /\ count[x] = count[y]
  BY <1>3, <1>4, FS_PigeonHole
<1>6. PICK x \in P, y \in P : x # y /\ count[x] = count[y]
  BY <1>5
<1>7. x \in Nat /\ y \in Nat /\ (x < y \/ y < x)
  BY <1>6
<1>8. count[x] \in Int /\ count[y] \in Int
  BY <1>4 DEF T
<1>9. count[x] < count[y] \/ count[y] < count[x]
  BY <1>7, CountUp DEF count
<1> QED BY <1>6, <1>8, <1>9

\* The places whose item stays.
Stay(s) == {i \in DOMAIN s : ~Consumable(s, i)}

\* What is left of a queue is its places that stay, all of them, in order: no
\* item is lost, doubled or overtaken by the ones that are consumed.
THEOREM RemainingInOrder ==
  ASSUME NEW s \in Seq(Item)
  PROVE  \E f \in [DOMAIN Remaining(s) -> Stay(s)] :
           /\ \A k \in DOMAIN Remaining(s) : Remaining(s)[k] = s[f[k]]
           /\ \A j, k \in DOMAIN Remaining(s) : j < k => f[j] < f[k]
           /\ \A i \in Stay(s) : \E k \in DOMAIN Remaining(s) : f[k] = i
<1> DEFINE rank(i) == Cardinality({j \in Stay(s) : j <= i})
           nth(k)  == CHOOSE i \in DOMAIN s :
                        (\E j \in Stay(s) : rank(j) = k) => i \in Stay(s) /\ rank(i) = k
           N == Cardinality(Stay(s))
           f == [k \in 1..N |-> nth(k)]
<1>1. Remaining(s) = [k \in 1..N |-> s[nth(k)]]
  BY DEF Remaining, Stay
<1>2. \A i : rank(i) = Cardinality(UpTo(Stay(s), i))
  BY DEF UpTo
<1>3. DOMAIN s = 1..Len(s) /\ Len(s) \in Nat
  BY LenProperties
<1>4. Stay(s) \in SUBSET Nat /\ Stay(s) \in SUBSET (DOMAIN s)
  BY <1>3 DEF Stay
<1>5. IsFiniteSet(Stay(s)) /\ N \in Nat
  <2>1. IsFiniteSet(DOMAIN s)
    BY <1>3, FS_Interval
  <2>2. IsFiniteSet(Stay(s))
    BY <1>4, <2>1, FS_Subset
  <2> QED BY <2>2, FS_CardinalityType
<1> HIDE DEF rank, N
<1>6. ASSUME NEW k \in 1..N
      PROVE  nth(k) \in Stay(s) /\ rank(nth(k)) = k
  <2>1. \E j \in Stay(s) : rank(j) = k
    BY <1>2, <1>4, <1>5, CountOnto DEF N
  <2>2. \E i \in DOMAIN s : (\E j \in Stay(s) : rank(j) = k) => i \in Stay(s) /\ rank(i) = k
    BY <1>4, <2>1
  <2> QED BY <2>1, <2>2
<1>7. f \in [1..N -> Stay(s)] /\ \A k \in 1..N : f[k] = nth(k) /\ rank(f[k]) = k
  BY <1>6
<1> HIDE DEF nth
<1>8. DOMAIN Remaining(s) = 1..N /\ \A k \in 1..N : Remaining(s)[k] = s[f[k]]
  BY <1>1, <1>7
<1> HIDE DEF f
<1>9. /\ \A i \in Stay(s) : rank(i) \in 1..N
      /\ \A i, j \in Stay(s) : i < j => rank(i) < rank(j)
  BY <1>2, <1>4, <1>5, CountUp DEF N
<1>10. ASSUME NEW j \in 1..N, NEW k \in 1..N, j < k PROVE f[j] < f[k]
  <2>1. f[j] \in Nat /\ f[k] \in Nat /\ rank(f[j]) = j /\ rank(f[k]) = k
    BY <1>4, <1>7
  <2>2. f[k] # f[j] /\ ~(f[k] < f[j])
    BY <1>5, <1>7, <1>9, <1>10, <2>1
  <2> QED BY <2>1, <2>2
<1>11. ASSUME NEW i \in Stay(s) PROVE \E k \in 1..N : f[k] = i
  <2>1. rank(i) \in 1..N /\ rank(f[rank(i)]) = rank(i)
    BY <1>7, <1>9
  <2>2. f[rank(i)] \in Stay(s) /\ f[rank(i)] \in Nat /\ i \in Nat
    BY <1>4, <1>7, <2>1
  <2>3. f[rank(i)] = i
    BY <1>5, <1>9, <2>1, <2>2
  <2> QED BY <2>1, <2>3
<1>12. f \in [DOMAIN Remaining(s) -> Stay(s)]
  BY <1>7, <1>8
<1> WITNESS f \in [DOMAIN Remaining(s) -> Stay(s)]
<1> QED BY <1>8, <1>10, <1>11

\* What is consumed: at most MidTurnLimit items, all of them mid-turn inputs,
\* and none while an earlier mid-turn input stays.
THEOREM ConsumedFirst ==
  ASSUME NEW s \in Seq(Item)
  PROVE  /\ Cardinality(DOMAIN s \ Stay(s)) <= MidTurnLimit
         /\ \A i \in DOMAIN s \ Stay(s) : MidTurnInput(s[i])
         /\ \A i, j \in DOMAIN s :
              i < j /\ MidTurnInput(s[i]) /\ j \notin Stay(s) => i \notin Stay(s)
<1> DEFINE M == {i \in DOMAIN s : MidTurnInput(s[i])}
           C == DOMAIN s \ Stay(s)
           count == [i \in C |-> Cardinality(UpTo(M, i))]
<1>1. DOMAIN s = 1..Len(s) /\ Len(s) \in Nat
  BY LenProperties
<1>2. M \in SUBSET Nat /\ C \in SUBSET M /\ C \in SUBSET (DOMAIN s)
  BY <1>1 DEF Stay, Consumable
<1>3. IsFiniteSet(M) /\ IsFiniteSet(C) /\ Cardinality(C) \in Nat
  <2>1. IsFiniteSet(DOMAIN s)
    BY <1>1, FS_Interval
  <2>2. M \in SUBSET (DOMAIN s)
    OBVIOUS
  <2>3. IsFiniteSet(M) /\ IsFiniteSet(C)
    BY <1>2, <2>1, <2>2, FS_Subset
  <2> QED BY <2>3, FS_CardinalityType
<1>4. ASSUME NEW i \in DOMAIN s
      PROVE  {j \in 1..i : MidTurnInput(s[j])} = UpTo(M, i)
  BY <1>1 DEF UpTo
<1>5. ASSUME NEW i \in DOMAIN s
      PROVE  i \in C <=> i \in M /\ Cardinality(UpTo(M, i)) <= MidTurnLimit
  BY <1>4 DEF Stay, Consumable
<1> HIDE DEF M, C
<1>6. /\ \A i \in M : Cardinality(UpTo(M, i)) \in 1..Cardinality(M)
      /\ \A i, j \in M : i < j => Cardinality(UpTo(M, i)) < Cardinality(UpTo(M, j))
  BY <1>2, <1>3, CountUp
<1>7. MidTurnLimit \in Nat /\ IsFiniteSet(1..MidTurnLimit)
      /\ Cardinality(1..MidTurnLimit) = MidTurnLimit
  BY MidTurnLimitAssumption, FS_Interval
<1>8. Cardinality(C) <= MidTurnLimit
  <2> SUFFICES ASSUME MidTurnLimit < Cardinality(C) PROVE FALSE
    BY <1>3, <1>7
  <2>1. count \in [C -> 1..MidTurnLimit]
    BY <1>2, <1>5, <1>6, <1>7
  <2>2. \A i \in C : count[i] = Cardinality(UpTo(M, i))
    OBVIOUS
  <2> HIDE DEF count
  <2>3. \E x, y \in C : x # y /\ count[x] = count[y]
    BY <1>3, <1>7, <2>1, FS_PigeonHole
  <2>4. PICK x \in C, y \in C : x # y /\ count[x] = count[y]
    BY <2>3
  <2>5. x \in M /\ y \in M /\ x \in Nat /\ y \in Nat /\ (x < y \/ y < x)
    BY <1>2, <2>4
  <2>6. count[x] \in Int /\ count[y] \in Int
    BY <1>7, <2>1
  <2>7. count[x] < count[y] \/ count[y] < count[x]
    BY <1>6, <2>2, <2>5
  <2> QED BY <2>4, <2>6, <2>7
<1>9. ASSUME NEW i \in DOMAIN s, NEW j \in DOMAIN s, i < j, i \in M, j \in C
      PROVE  i \in C
  <2>1. j \in M /\ Cardinality(UpTo(M, i)) < Cardinality(UpTo(M, j))
    BY <1>2, <1>6, <1>9
  <2>2. Cardinality(UpTo(M, i)) \in Int /\ Cardinality(UpTo(M, j)) \in Int
    BY <1>6, <1>9, <2>1
  <2> QED BY <1>5, <1>7, <1>9, <2>1, <2>2
<1> QED BY <1>2, <1>8, <1>9 DEF M, C
=============================================================================
