----------------------- MODULE TransactionQueueProofs ------------------------
(***************************************************************************)
(* Mutual exclusion of KeyedTransactionQueue for every set of threads,     *)
(* keys and calls and every way the calls nest, and that it implements     *)
(* Transactions wherever the calls nest along an order of the keys.        *)
(***************************************************************************)
EXTENDS TransactionQueue, SequenceTheorems, TLAPS

\* Why it holds: the func of a call runs above the frame that drains its key,
\* a key that is being drained is marked running, and it is drained once.
RunAboveDrain ==
  \A t \in Threads : \A i \in DOMAIN stack[t] :
    stack[t][i].op = "run" =>
      \E j \in DOMAIN stack[t] :
        j < i /\ stack[t][j] = Drain(Key[stack[t][i].of])

DrainedIsRunning ==
  \A t \in Threads : \A i \in DOMAIN stack[t] :
    stack[t][i].op = "drain" => running[stack[t][i].of]

OneDrain ==
  \A t, u \in Threads :
    \A i \in DOMAIN stack[t], j \in DOMAIN stack[u] :
      stack[t][i].op = "drain" /\ stack[t][i] = stack[u][j] => t = u /\ i = j

QueuedByKey ==
  \A k \in Keys : \A i \in DOMAIN queue[k] : Key[queue[k][i]] = k

QueueInv ==
  QueueTypeOK /\ RunAboveDrain /\ DrainedIsRunning /\ OneDrain /\ QueuedByKey

\* The places of a stack after a push and after a pop.
LEMMA PushPlaces ==
  ASSUME QueueTypeOK, NEW t \in Threads, NEW f \in Frame, Push(t, f)
  PROVE  /\ stack' \in [Threads -> Seq(Frame)]
         /\ DOMAIN stack'[t] = 1..(Len(stack[t]) + 1)
         /\ DOMAIN stack[t] = 1..Len(stack[t]) /\ Len(stack[t]) \in Nat
         /\ \A i \in DOMAIN stack[t] : stack'[t][i] = stack[t][i]
         /\ stack'[t][Len(stack[t]) + 1] = f
         /\ \A u \in Threads \ {t} : stack'[u] = stack[u]
<1>1. stack[t] \in Seq(Frame) /\ stack \in [Threads -> Seq(Frame)]
  BY DEF QueueTypeOK
<1>2. stack'[t] = Append(stack[t], f)
      /\ \A u \in Threads \ {t} : stack'[u] = stack[u]
  BY <1>1 DEF Push
<1>3. Append(stack[t], f) \in Seq(Frame)
  BY <1>1, AppendProperties
<1>4. stack' \in [Threads -> Seq(Frame)]
  BY <1>1, <1>3 DEF Push
<1> QED BY <1>1, <1>2, <1>4, AppendProperties, LenProperties

LEMMA PopPlaces ==
  ASSUME QueueTypeOK, NEW t \in Threads, stack[t] # << >>, Pop(t)
  PROVE  /\ stack' \in [Threads -> Seq(Frame)]
         /\ DOMAIN stack[t] = 1..Len(stack[t]) /\ Len(stack[t]) \in Nat \ {0}
         /\ DOMAIN stack'[t] = 1..(Len(stack[t]) - 1)
         /\ \A i \in DOMAIN stack'[t] : stack'[t][i] = stack[t][i]
         /\ \A u \in Threads \ {t} : stack'[u] = stack[u]
<1>1. stack[t] \in Seq(Frame) /\ stack \in [Threads -> Seq(Frame)]
  BY DEF QueueTypeOK
<1>2. DOMAIN stack[t] = 1..Len(stack[t]) /\ Len(stack[t]) \in Nat \ {0}
  BY <1>1, LenProperties, EmptySeq
<1> DEFINE s == SubSeq(stack[t], 1, Len(stack[t]) - 1)
<1>3. stack' = [stack EXCEPT ![t] = s]
  BY DEF Pop
<1>4. /\ s \in Seq(Frame) /\ DOMAIN s = 1..(Len(stack[t]) - 1)
      /\ \A i \in DOMAIN s : s[i] = stack[t][i]
  BY <1>1, <1>2
<1> HIDE DEF s
<1> QED BY <1>1, <1>2, <1>3, <1>4

LEMMA FrameTypes ==
  /\ \A k \in Keys : Drain(k) \in Frame /\ Drain(k).op = "drain" /\ Drain(k).of = k
  /\ \A x \in Tasks : /\ Run(x) \in Frame /\ Run(x).op = "run" /\ Run(x).of = x
                      /\ Wait(x) \in Frame /\ Wait(x).op = "wait"
BY DEF Frame, Drain, Run, Wait

\* Pushing a frame: a func needs its key drained below it, a drain needs a key
\* that nobody drains.
LEMMA PushKeeps ==
  ASSUME QueueInv, NEW t \in Threads, NEW f \in Frame, Push(t, f),
         f.op = "run" => IsActive(t, Key[f.of]),
         f.op = "drain" => ~running[f.of] /\ running'[f.of],
         \A k \in Keys : running[k] => running'[k]
  PROVE  RunAboveDrain' /\ DrainedIsRunning' /\ OneDrain'
<1> DEFINE n == Len(stack[t])
<1>1. /\ stack' \in [Threads -> Seq(Frame)]
      /\ DOMAIN stack'[t] = 1..(n + 1)
      /\ DOMAIN stack[t] = 1..n /\ n \in Nat
      /\ \A i \in DOMAIN stack[t] : stack'[t][i] = stack[t][i]
      /\ stack'[t][n + 1] = f
      /\ \A u \in Threads \ {t} : stack'[u] = stack[u]
  BY PushPlaces DEF QueueInv
<1>2. \A u \in Threads : \A i \in DOMAIN stack[u] :
        stack[u][i] \in Frame /\ (stack[u][i].op = "drain" => stack[u][i].of \in Keys)
  <2>1. \A u \in Threads : stack[u] \in Seq(Frame)
    BY DEF QueueInv, QueueTypeOK
  <2>2. \A u \in Threads : \A i \in DOMAIN stack[u] : stack[u][i] \in Frame
    BY <2>1
  <2> QED BY <2>2 DEF Frame
<1>3. \A u \in Threads : \A i \in DOMAIN stack'[u] :
        \/ i \in DOMAIN stack[u] /\ stack'[u][i] = stack[u][i]
        \/ u = t /\ i = n + 1 /\ stack'[u][i] = f
  BY <1>1
<1>4. \A u \in Threads : \A i \in DOMAIN stack[u] :
        i \in DOMAIN stack'[u] /\ stack'[u][i] = stack[u][i]
  BY <1>1
<1> HIDE DEF n
<1>5. RunAboveDrain'
  <2> SUFFICES ASSUME NEW u \in Threads, NEW i \in DOMAIN stack'[u],
                      stack'[u][i].op = "run"
               PROVE  \E j \in DOMAIN stack'[u] :
                        j < i /\ stack'[u][j] = Drain(Key[stack'[u][i].of])
    BY DEF RunAboveDrain, Drain
  <2>1. CASE i \in DOMAIN stack[u] /\ stack'[u][i] = stack[u][i]
    BY <2>1, <1>4 DEF QueueInv, RunAboveDrain
  <2>2. CASE u = t /\ i = n + 1 /\ stack'[u][i] = f
    <3>1. PICK j \in DOMAIN stack[t] : stack[t][j] = Drain(Key[f.of])
      BY <2>2 DEF IsActive
    <3> QED BY <2>2, <3>1, <1>1, <1>4
  <2> QED BY <1>3, <2>1, <2>2
<1>6. DrainedIsRunning'
  BY <1>2, <1>3 DEF QueueInv, DrainedIsRunning
<1>7. \A u \in Threads : \A i \in DOMAIN stack[u] :
        f.op = "drain" => stack[u][i] # f
  BY DEF QueueInv, DrainedIsRunning
<1>8. OneDrain'
  BY <1>3, <1>7 DEF QueueInv, OneDrain
<1> QED BY <1>5, <1>6, <1>8

\* Popping a frame keeps the order of the others.  The end of a drain ends
\* the leadership of the only thread that had it.
LEMMA PopKeeps ==
  ASSUME QueueInv, NEW t \in Threads, stack[t] # << >>, Pop(t),
         \A k \in Keys : running[k] => running'[k] \/ Top(t) = Drain(k)
  PROVE  RunAboveDrain' /\ DrainedIsRunning' /\ OneDrain'
<1> DEFINE n == Len(stack[t])
<1>1. /\ DOMAIN stack[t] = 1..n /\ n \in Nat \ {0}
      /\ DOMAIN stack'[t] = 1..(n - 1)
      /\ \A i \in DOMAIN stack'[t] : stack'[t][i] = stack[t][i]
      /\ \A u \in Threads \ {t} : stack'[u] = stack[u]
  BY PopPlaces DEF QueueInv
<1>2. \A u \in Threads : \A i \in DOMAIN stack'[u] :
        /\ i \in DOMAIN stack[u] /\ stack'[u][i] = stack[u][i]
        /\ \A j \in DOMAIN stack[u] : j < i => j \in DOMAIN stack'[u]
        /\ u # t \/ i # n
  BY <1>1
<1>3. \A u \in Threads : \A i \in DOMAIN stack[u] :
        stack[u][i].op = "drain" => stack[u][i].of \in Keys
                                    /\ stack[u][i] = Drain(stack[u][i].of)
  <2>1. \A u \in Threads : stack[u] \in Seq(Frame)
    BY DEF QueueInv, QueueTypeOK
  <2>2. \A u \in Threads : \A i \in DOMAIN stack[u] : stack[u][i] \in Frame
    BY <2>1
  <2> QED BY <2>2 DEF Frame, Drain
<1>4. n \in DOMAIN stack[t] /\ Top(t) = stack[t][n]
  BY <1>1 DEF Top
<1> HIDE DEF n
<1>5. RunAboveDrain'
  <2> SUFFICES ASSUME NEW u \in Threads, NEW i \in DOMAIN stack'[u],
                      stack'[u][i].op = "run"
               PROVE  \E j \in DOMAIN stack'[u] :
                        j < i /\ stack'[u][j] = Drain(Key[stack'[u][i].of])
    BY DEF RunAboveDrain, Drain
  <2>1. PICK j \in DOMAIN stack[u] :
          j < i /\ stack[u][j] = Drain(Key[stack[u][i].of])
    BY <1>2 DEF QueueInv, RunAboveDrain
  <2> QED BY <2>1, <1>2
<1>6. DrainedIsRunning'
  <2> SUFFICES ASSUME NEW u \in Threads, NEW i \in DOMAIN stack'[u],
                      stack'[u][i].op = "drain"
               PROVE  running'[stack'[u][i].of]
    BY DEF DrainedIsRunning
  <2>1. i \in DOMAIN stack[u] /\ stack'[u][i] = stack[u][i] /\ (u # t \/ i # n)
    BY <1>2
  <2>2. stack[u][i] # Top(t)
    BY <2>1, <1>4 DEF QueueInv, OneDrain
  <2> QED BY <2>1, <2>2, <1>3 DEF QueueInv, DrainedIsRunning
<1>7. OneDrain'
  BY <1>2 DEF QueueInv, OneDrain
<1> QED BY <1>5, <1>6, <1>7

\* Every step keeps the invariant.
LEMMA StepKeeps ==
  ASSUME QueueInv, NEW t \in Threads, Call(t) \/ Proceed(t)
  PROVE  QueueInv'
<1>a. QueueTypeOK /\ QueuedByKey
  BY DEF QueueInv
<1>b. \A x \in Tasks : Key[x] \in Keys
  BY QueueKeyAssumption
<1>1. ASSUME NEW x \in Tasks, RunInline(t, x) PROVE QueueInv'
  <2>1. Push(t, Run(x)) /\ IsActive(t, Key[x]) /\ Becomes(x, "running")
        /\ UNCHANGED <<queue, running>>
    BY <1>1 DEF RunInline
  <2>2. RunAboveDrain' /\ DrainedIsRunning' /\ OneDrain'
    BY <2>1, PushKeeps, FrameTypes
  <2>3. QueueTypeOK'
    BY <1>a, <2>1, PushPlaces, FrameTypes DEF QueueTypeOK, Becomes
  <2>4. QueuedByKey'
    BY <1>a, <2>1 DEF QueuedByKey
  <2> QED BY <2>2, <2>3, <2>4 DEF QueueInv
<1>2. ASSUME NEW x \in Tasks, RunQueued(t, x) PROVE QueueInv'
  <2>1. /\ queue' = [queue EXCEPT ![Key[x]] = Append(@, x)]
        /\ Becomes(x, "queued")
        /\ running' = [running EXCEPT ![Key[x]] = TRUE]
        /\ \/ ~running[Key[x]] /\ Push(t, Drain(Key[x]))
           \/ running[Key[x]] /\ Push(t, Wait(x))
    BY <1>2 DEF RunQueued
  <2>2. running'[Key[x]] /\ \A k \in Keys : running[k] => running'[k]
    BY <1>a, <1>b, <2>1 DEF QueueTypeOK
  <2>3. RunAboveDrain' /\ DrainedIsRunning' /\ OneDrain'
    BY <1>b, <2>1, <2>2, PushKeeps, FrameTypes
  <2>4. queue[Key[x]] \in Seq(Tasks) /\ Append(queue[Key[x]], x) \in Seq(Tasks)
    BY <1>a, <1>b, AppendProperties DEF QueueTypeOK
  <2>5. stack' \in [Threads -> Seq(Frame)]
    BY <1>a, <1>b, <2>1, PushPlaces, FrameTypes
  <2>6. QueueTypeOK'
    BY <1>a, <1>b, <2>1, <2>4, <2>5 DEF QueueTypeOK, Becomes
  <2>7. QueuedByKey'
    <3> SUFFICES ASSUME NEW k \in Keys, NEW i \in DOMAIN queue'[k]
                 PROVE  Key[queue'[k][i]] = k
      BY DEF QueuedByKey
    <3>1. CASE k # Key[x]
      BY <3>1, <1>a, <1>b, <2>1 DEF QueuedByKey, QueueTypeOK
    <3>2. CASE k = Key[x]
      <4>1. queue'[k] = Append(queue[k], x)
        BY <3>2, <1>a, <1>b, <2>1 DEF QueueTypeOK
      <4>2. \/ i \in DOMAIN queue[k] /\ queue'[k][i] = queue[k][i]
            \/ queue'[k][i] = x
        BY <4>1, <2>4, <3>2, AppendProperties, LenProperties
      <4> QED BY <4>2, <3>2, <1>a DEF QueuedByKey
    <3> QED BY <3>1, <3>2
  <2> QED BY <2>3, <2>6, <2>7 DEF QueueInv
<1>3. ASSUME NEW k \in Keys, DrainTask(t, k) PROVE QueueInv'
  <2> DEFINE x == Head(queue[k])
  <2>1. /\ stack[t] # << >> /\ Top(t) = Drain(k) /\ queue[k] # << >>
        /\ queue' = [queue EXCEPT ![k] = Tail(@)] /\ UNCHANGED running
        /\ Push(t, Run(x)) /\ Becomes(x, "running")
    BY <1>3 DEF DrainTask
  <2>2. queue[k] \in Seq(Tasks) /\ stack[t] \in Seq(Frame)
    BY <1>a DEF QueueTypeOK
  <2>3. /\ x \in Tasks /\ Key[x] = k /\ Tail(queue[k]) \in Seq(Tasks)
        /\ \A i \in DOMAIN Tail(queue[k]) : Key[Tail(queue[k])[i]] = k
    <3>1. /\ x = queue[k][1] /\ 1 \in DOMAIN queue[k] /\ x \in Tasks
          /\ Tail(queue[k]) \in Seq(Tasks)
      BY <2>1, <2>2
    <3>2. \A i \in DOMAIN Tail(queue[k]) :
            Tail(queue[k])[i] = queue[k][i + 1] /\ i + 1 \in DOMAIN queue[k]
      BY <2>1, <2>2
    <3> QED BY <3>1, <3>2, <1>a DEF QueuedByKey
  <2> HIDE DEF x
  <2>4. IsActive(t, Key[x])
    BY <2>1, <2>2, <2>3, LenProperties, EmptySeq DEF IsActive, Top
  <2>5. RunAboveDrain' /\ DrainedIsRunning' /\ OneDrain'
    BY <2>1, <2>3, <2>4, PushKeeps, FrameTypes
  <2>6. QueueTypeOK'
    BY <1>a, <2>1, <2>3, PushPlaces, FrameTypes DEF QueueTypeOK, Becomes
  <2>7. QueuedByKey'
    BY <1>a, <2>1, <2>3 DEF QueuedByKey, QueueTypeOK
  <2> QED BY <2>5, <2>6, <2>7 DEF QueueInv
<1>4. ASSUME NEW k \in Keys, DrainEnd(t, k) PROVE QueueInv'
  <2>1. /\ stack[t] # << >> /\ Top(t) = Drain(k)
        /\ running' = [running EXCEPT ![k] = FALSE] /\ Pop(t)
        /\ UNCHANGED <<queue, status>>
    BY <1>4 DEF DrainEnd
  <2>2. \A l \in Keys : running[l] => running'[l] \/ Top(t) = Drain(l)
    BY <1>a, <2>1 DEF QueueTypeOK
  <2>3. RunAboveDrain' /\ DrainedIsRunning' /\ OneDrain'
    BY <2>1, <2>2, PopKeeps
  <2>4. QueueTypeOK' /\ QueuedByKey'
    BY <1>a, <2>1, PopPlaces DEF QueueTypeOK, QueuedByKey
  <2> QED BY <2>3, <2>4 DEF QueueInv
<1>5. ASSUME NEW x \in Tasks, Finish(t, x) \/ Wake(t, x) PROVE QueueInv'
  <2>1. /\ stack[t] # << >> /\ Pop(t) /\ UNCHANGED <<queue, running>>
        /\ Becomes(x, "done") \/ UNCHANGED status
    BY <1>5 DEF Finish, Wake
  <2>2. RunAboveDrain' /\ DrainedIsRunning' /\ OneDrain'
    BY <2>1, PopKeeps
  <2>3. QueueTypeOK' /\ QueuedByKey'
    BY <1>a, <2>1, PopPlaces DEF QueueTypeOK, QueuedByKey, Becomes
  <2> QED BY <2>2, <2>3 DEF QueueInv
<1> QED BY <1>1, <1>2, <1>3, <1>4, <1>5 DEF Call, Proceed

LEMMA InvExcludes == QueueInv => MutualExclusion
<1> SUFFICES ASSUME QueueInv, NEW t \in Threads, NEW u \in Threads,
                    NEW i \in DOMAIN stack[t], NEW j \in DOMAIN stack[u],
                    stack[t][i].op = "run", stack[u][j].op = "run",
                    Key[stack[t][i].of] = Key[stack[u][j].of]
             PROVE  t = u
  BY DEF MutualExclusion
<1>1. PICK a \in DOMAIN stack[t] : stack[t][a] = Drain(Key[stack[t][i].of])
  BY DEF QueueInv, RunAboveDrain
<1>2. PICK b \in DOMAIN stack[u] : stack[u][b] = Drain(Key[stack[t][i].of])
  BY DEF QueueInv, RunAboveDrain
<1> QED BY <1>1, <1>2 DEF QueueInv, OneDrain, Drain

LEMMA InitQueue == Init => QueueInv
BY EmptySeq DEF Init, QueueInv, QueueTypeOK, RunAboveDrain, DrainedIsRunning,
                OneDrain, QueuedByKey

LEMMA StutterQueue == QueueInv /\ UNCHANGED vars => QueueInv'
BY DEF vars, QueueInv, QueueTypeOK, RunAboveDrain, DrainedIsRunning, OneDrain,
       QueuedByKey

LEMMA QueueInvariant == Spec => []QueueInv
<1>1. QueueInv /\ [Next]_vars => QueueInv'
  BY StepKeeps, StutterQueue DEF Next
<1> QED BY InitQueue, <1>1, PTL DEF Spec

\* KeyedTransactionQueue never lets two threads run transactions of one key
\* at once, for any number of threads, keys and calls and however the calls
\* nest, even where a cyclic nesting makes threads wait for each other.
THEOREM Excludes == Spec => []MutualExclusion
BY QueueInvariant, InvExcludes, PTL

-----------------------------------------------------------------------------
(* The queue implements Transactions                                       *)

\* A call that runs has one frame, a queued call is in the queue of its key
\* once, and the caller of either stays below what it does for the call.
FrameIsRunning ==
  \A t \in Threads : \A i \in DOMAIN stack[t] :
    stack[t][i].op = "run" => status[stack[t][i].of] = "running"

RunningHasFrame ==
  \A x \in Tasks : status[x] = "running" =>
    \E t \in Threads : \E i \in DOMAIN stack[t] : stack[t][i] = Run(x)

OneFrame ==
  \A t, u \in Threads : \A i \in DOMAIN stack[t], j \in DOMAIN stack[u] :
    stack[t][i].op = "run" /\ stack[t][i] = stack[u][j] => t = u /\ i = j

QueuedInQueue ==
  \A x \in Tasks : status[x] = "queued" =>
    \E i \in DOMAIN queue[Key[x]] : queue[Key[x]][i] = x

QueueIsQueued ==
  \A k \in Keys : \A i, j \in DOMAIN queue[k] :
    status[queue[k][i]] = "queued" /\ (queue[k][i] = queue[k][j] => i = j)

For(x) == {Run(x), Wait(x), Drain(Key[x])}

CallerBelow ==
  \A x \in Tasks : status[x] \in {"queued", "running"} /\ Parent[x] \in Tasks =>
    \E t \in Threads : \E i \in DOMAIN stack[t] :
      /\ stack[t][i] = Run(Parent[x])
      /\ i + 1 \in DOMAIN stack[t] /\ stack[t][i + 1] \in For(x)

CallInv ==
  /\ FrameIsRunning /\ RunningHasFrame /\ OneFrame
  /\ QueuedInQueue /\ QueueIsQueued /\ CallerBelow

\* Up a stack the keys go up in rank, so the calls of one key that a thread is
\* in lie inside each other.
KeyOf(f) == IF f.op = "drain" THEN f.of ELSE Key[f.of]

RanksGrow(rank) ==
  \A t \in Threads : \A i, j \in DOMAIN stack[t] :
    i < j => rank[KeyOf(stack[t][i])] <= rank[KeyOf(stack[t][j])]

Chain ==
  \A t \in Threads : \A i, j \in DOMAIN stack[t] :
    /\ i < j /\ stack[t][i].op = "run" /\ stack[t][j].op = "run"
    /\ Key[stack[t][i].of] = Key[stack[t][j].of]
    => stack[t][i].of \in Abstract!Enclosing(stack[t][j].of)

Nested(rank) == RanksGrow(rank) /\ Chain

LEMMA FramesDiffer ==
  ASSUME NEW x \in Tasks, NEW y \in Tasks, NEW k \in Keys, NEW l \in Keys
  PROVE  /\ Run(x) # Wait(y) /\ Run(x) # Drain(k) /\ Wait(x) # Drain(k)
         /\ Run(x) = Run(y) => x = y
         /\ Wait(x) = Wait(y) => x = y
         /\ Drain(k) = Drain(l) => k = l
BY DEF Run, Wait, Drain

\* The frames of a stack, whatever their kind.
LEMMA FrameKinds ==
  ASSUME QueueTypeOK, NEW t \in Threads
  PROVE  /\ stack[t] \in Seq(Frame) /\ Len(stack[t]) \in Nat
         /\ DOMAIN stack[t] = 1..Len(stack[t])
         /\ \A i \in DOMAIN stack[t] :
              /\ stack[t][i].op = "run" =>
                   stack[t][i].of \in Tasks /\ stack[t][i] = Run(stack[t][i].of)
              /\ stack[t][i].op \in {"drain", "run", "wait"}
              /\ KeyOf(stack[t][i]) \in Keys
<1>1. stack[t] \in Seq(Frame)
  BY DEF QueueTypeOK
<1>2. \A i \in DOMAIN stack[t] : stack[t][i] \in Frame
  BY <1>1
<1>3. ASSUME NEW f \in Frame
      PROVE  /\ f.op = "run" => f.of \in Tasks /\ f = Run(f.of)
             /\ f.op \in {"drain", "run", "wait"} /\ KeyOf(f) \in Keys
  BY <1>3, QueueKeyAssumption DEF Frame, Run, KeyOf
<1> QED BY <1>1, <1>2, <1>3, LenProperties

\* The caller of x and the calls around it are around x.
LEMMA EnclosingCaller ==
  ASSUME NEW x \in Tasks, Parent[x] \in Tasks
  PROVE  /\ Parent[x] \in Abstract!Enclosing(x)
         /\ Abstract!Enclosing(Parent[x]) \subseteq Abstract!Enclosing(x)
BY DEF Abstract!Enclosing, Abstract!CallerIn

LEMMA EnclosingLeast ==
  ASSUME NEW x \in Tasks, NEW S \in SUBSET Tasks, NEW y \in Abstract!Enclosing(x),
         Parent[x] \in Tasks => Parent[x] \in S,
         \A z \in S : Parent[z] \in Tasks => Parent[z] \in S
  PROVE  y \in S
BY DEF Abstract!Enclosing, Abstract!CallerIn

\* A key whose leader is about to take the next call has no call running.
LEMMA LeaderOnTop ==
  ASSUME QueueInv, NEW t \in Threads, NEW k \in Keys, stack[t] # << >>,
         Top(t) = Drain(k), NEW u \in Threads, NEW i \in DOMAIN stack[u],
         stack[u][i].op = "run"
  PROVE  Key[stack[u][i].of] # k
<1> SUFFICES ASSUME Key[stack[u][i].of] = k PROVE FALSE
  OBVIOUS
<1>1. PICK j \in DOMAIN stack[u] : j < i /\ stack[u][j] = Drain(k)
  BY DEF QueueInv, RunAboveDrain
<1>2. /\ DOMAIN stack[t] = 1..Len(stack[t]) /\ Len(stack[t]) \in Nat \ {0}
      /\ DOMAIN stack[u] = 1..Len(stack[u])
  BY FrameKinds, EmptySeq DEF QueueInv
<1>3. stack[t][Len(stack[t])] = Drain(k) /\ Len(stack[t]) \in DOMAIN stack[t]
  BY <1>2 DEF Top
<1>4. u = t /\ j = Len(stack[t])
  BY <1>1, <1>3, FrameTypes DEF QueueInv, OneDrain
<1> QED BY <1>1, <1>2, <1>4

\* The frames that a push or a pop leaves in place.
LEMMA Pushed ==
  ASSUME QueueInv, NEW t \in Threads, NEW f \in Frame, Push(t, f)
  PROVE  LET n == Len(stack[t]) IN
         /\ n \in Nat /\ n + 1 \in DOMAIN stack'[t] /\ stack'[t][n + 1] = f
         /\ n + 1 \notin DOMAIN stack[t]
         /\ \A i \in DOMAIN stack[t] : i \in Nat /\ i < n + 1
         /\ \A u \in Threads : \A i \in DOMAIN stack[u] :
              i \in DOMAIN stack'[u] /\ stack'[u][i] = stack[u][i]
         /\ \A u \in Threads : \A i \in DOMAIN stack'[u] :
              \/ i \in DOMAIN stack[u] /\ stack'[u][i] = stack[u][i]
              \/ u = t /\ i = n + 1 /\ stack'[u][i] = f
<1> DEFINE n == Len(stack[t])
<1>1. /\ DOMAIN stack'[t] = 1..(n + 1)
      /\ DOMAIN stack[t] = 1..n /\ n \in Nat
      /\ \A i \in DOMAIN stack[t] : stack'[t][i] = stack[t][i]
      /\ stack'[t][n + 1] = f
      /\ \A u \in Threads \ {t} : stack'[u] = stack[u]
  BY PushPlaces DEF QueueInv
<1> HIDE DEF n
<1>2. /\ \A u \in Threads : \A i \in DOMAIN stack[u] :
           i \in DOMAIN stack'[u] /\ stack'[u][i] = stack[u][i]
      /\ \A u \in Threads : \A i \in DOMAIN stack'[u] :
           \/ i \in DOMAIN stack[u] /\ stack'[u][i] = stack[u][i]
           \/ u = t /\ i = n + 1 /\ stack'[u][i] = f
  BY <1>1
<1> QED BY <1>1, <1>2 DEF n

LEMMA Popped ==
  ASSUME QueueInv, NEW t \in Threads, stack[t] # << >>, Pop(t)
  PROVE  LET n == Len(stack[t]) IN
         /\ n \in DOMAIN stack[t] /\ stack[t][n] = Top(t)
         /\ \A u \in Threads : \A i \in DOMAIN stack'[u] :
              /\ i \in DOMAIN stack[u] /\ stack'[u][i] = stack[u][i]
              /\ ~(u = t /\ i = n)
         /\ \A u \in Threads : \A i \in DOMAIN stack[u] :
              i \in DOMAIN stack'[u] \/ (u = t /\ i = n)
         /\ n + 1 \notin DOMAIN stack[t]
<1> DEFINE n == Len(stack[t])
<1>1. /\ DOMAIN stack[t] = 1..n /\ n \in Nat \ {0}
      /\ DOMAIN stack'[t] = 1..(n - 1)
      /\ \A i \in DOMAIN stack'[t] : stack'[t][i] = stack[t][i]
      /\ \A u \in Threads \ {t} : stack'[u] = stack[u]
  BY PopPlaces DEF QueueInv
<1>2. n \in DOMAIN stack[t] /\ stack[t][n] = Top(t) /\ n + 1 \notin DOMAIN stack[t]
  BY <1>1 DEF Top
<1> HIDE DEF n
<1>3. /\ \A u \in Threads : \A i \in DOMAIN stack'[u] :
           /\ i \in DOMAIN stack[u] /\ stack'[u][i] = stack[u][i]
           /\ ~(u = t /\ i = n)
      /\ \A u \in Threads : \A i \in DOMAIN stack[u] :
           i \in DOMAIN stack'[u] \/ (u = t /\ i = n)
  BY <1>1
<1> QED BY <1>2, <1>3 DEF n

\* A call that starts to run was not running, and it keeps a frame for it.
LEMMA StartsRunning ==
  ASSUME QueueInv, CallInv, NEW t \in Threads, NEW x \in Tasks, Push(t, Run(x)),
         status[x] \in {"new", "queued"}, Becomes(x, "running")
  PROVE  FrameIsRunning' /\ RunningHasFrame' /\ OneFrame'
<1> DEFINE n == Len(stack[t])
<1>1. /\ n + 1 \in DOMAIN stack'[t] /\ stack'[t][n + 1] = Run(x)
      /\ \A u \in Threads : \A i \in DOMAIN stack[u] :
           i \in DOMAIN stack'[u] /\ stack'[u][i] = stack[u][i]
      /\ \A u \in Threads : \A i \in DOMAIN stack'[u] :
           \/ i \in DOMAIN stack[u] /\ stack'[u][i] = stack[u][i]
           \/ u = t /\ i = n + 1 /\ stack'[u][i] = Run(x)
  BY Pushed, FrameTypes
<1>2. Run(x).op = "run" /\ Run(x).of = x
  BY FrameTypes
<1>3. \A y \in Tasks : status'[y] = IF y = x THEN "running" ELSE status[y]
  BY DEF Becomes, QueueInv, QueueTypeOK
<1>4. \A u \in Threads : \A i \in DOMAIN stack[u] :
        stack[u][i].op = "run" => /\ stack[u][i].of \in Tasks
                                  /\ stack[u][i].of # x /\ stack[u][i] # Run(x)
  BY <1>2, FrameKinds DEF QueueInv, CallInv, FrameIsRunning
<1> HIDE DEF n
<1>5. FrameIsRunning'
  BY <1>1, <1>2, <1>3, <1>4 DEF CallInv, FrameIsRunning
<1>6. RunningHasFrame'
  BY <1>1, <1>3 DEF CallInv, RunningHasFrame, Run
<1>7. OneFrame'
  BY <1>1, <1>2, <1>4 DEF CallInv, OneFrame
<1> QED BY <1>5, <1>6, <1>7

\* A frame that is no func's comes or goes.
LEMMA PushedOther ==
  ASSUME QueueInv, CallInv, NEW t \in Threads, NEW f \in Frame, Push(t, f),
         f.op # "run", \A y \in Tasks : (status'[y] = "running") = (status[y] = "running")
  PROVE  FrameIsRunning' /\ RunningHasFrame' /\ OneFrame'
<1> DEFINE n == Len(stack[t])
<1>1. /\ \A u \in Threads : \A i \in DOMAIN stack[u] :
           i \in DOMAIN stack'[u] /\ stack'[u][i] = stack[u][i]
      /\ \A u \in Threads : \A i \in DOMAIN stack'[u] :
           \/ i \in DOMAIN stack[u] /\ stack'[u][i] = stack[u][i]
           \/ u = t /\ i = n + 1 /\ stack'[u][i] = f
  BY Pushed
<1> HIDE DEF n
<1>2. FrameIsRunning'
  BY <1>1, FrameKinds DEF QueueInv, CallInv, FrameIsRunning
<1>3. RunningHasFrame'
  BY <1>1 DEF CallInv, RunningHasFrame, Run
<1>4. OneFrame'
  BY <1>1 DEF CallInv, OneFrame
<1> QED BY <1>2, <1>3, <1>4

LEMMA PoppedOther ==
  ASSUME QueueInv, CallInv, NEW t \in Threads, stack[t] # << >>, Pop(t),
         Top(t).op # "run", status' = status
  PROVE  FrameIsRunning' /\ RunningHasFrame' /\ OneFrame'
<1> DEFINE n == Len(stack[t])
<1>1. /\ stack[t][n] = Top(t)
      /\ \A u \in Threads : \A i \in DOMAIN stack'[u] :
           i \in DOMAIN stack[u] /\ stack'[u][i] = stack[u][i]
      /\ \A u \in Threads : \A i \in DOMAIN stack[u] :
           i \in DOMAIN stack'[u] \/ (u = t /\ i = n)
  BY Popped
<1> HIDE DEF n
<1>2. FrameIsRunning'
  BY <1>1 DEF CallInv, FrameIsRunning
<1>3. RunningHasFrame'
  <2> SUFFICES ASSUME NEW x \in Tasks, status[x] = "running"
               PROVE  \E u \in Threads : \E i \in DOMAIN stack'[u] : stack'[u][i] = Run(x)
    BY DEF RunningHasFrame, Run
  <2>0. PICK u \in Threads : \E i \in DOMAIN stack[u] : stack[u][i] = Run(x)
    BY DEF CallInv, RunningHasFrame
  <2>1. PICK i \in DOMAIN stack[u] : stack[u][i] = Run(x)
    BY <2>0
  <2>2. i \in DOMAIN stack'[u]
    BY <1>1, <2>1, FrameTypes
  <2> QED BY <1>1, <2>1, <2>2
<1>4. OneFrame'
  BY <1>1 DEF CallInv, OneFrame
<1> QED BY <1>2, <1>3, <1>4

\* A caller's frame stays below a push; a pop may end what it did for a call
\* only when that call is done.
LEMMA PushCaller ==
  ASSUME QueueInv, CallInv, NEW t \in Threads, NEW f \in Frame, Push(t, f),
         NEW x \in Tasks, status[x] \in {"queued", "running"}, Parent[x] \in Tasks
  PROVE  \E u \in Threads : \E i \in DOMAIN stack'[u] :
           /\ stack'[u][i] = Run(Parent[x])
           /\ i + 1 \in DOMAIN stack'[u] /\ stack'[u][i + 1] \in For(x)
BY Pushed DEF CallInv, CallerBelow

LEMMA PopCaller ==
  ASSUME QueueInv, CallInv, NEW t \in Threads, stack[t] # << >>, Pop(t),
         NEW x \in Tasks, status[x] \in {"queued", "running"}, Parent[x] \in Tasks,
         Top(t) \notin For(x)
  PROVE  \E u \in Threads : \E i \in DOMAIN stack'[u] :
           /\ stack'[u][i] = Run(Parent[x])
           /\ i + 1 \in DOMAIN stack'[u] /\ stack'[u][i + 1] \in For(x)
<1>0. PICK u \in Threads : \E i \in DOMAIN stack[u] :
        /\ stack[u][i] = Run(Parent[x])
        /\ i + 1 \in DOMAIN stack[u] /\ stack[u][i + 1] \in For(x)
  BY DEF CallInv, CallerBelow
<1>1. PICK i \in DOMAIN stack[u] :
        /\ stack[u][i] = Run(Parent[x])
        /\ i + 1 \in DOMAIN stack[u] /\ stack[u][i + 1] \in For(x)
  BY <1>0
<1>2. i \in DOMAIN stack'[u] /\ i + 1 \in DOMAIN stack'[u]
      /\ stack'[u][i] = stack[u][i] /\ stack'[u][i + 1] = stack[u][i + 1]
  BY <1>1, Popped
<1> QED BY <1>1, <1>2

LEMMA PushNests ==
  ASSUME QueueInv, NEW rank \in [Keys -> Nat], Nested(rank),
         NEW t \in Threads, NEW f \in Frame, Push(t, f), KeyOf(f) \in Keys,
         stack[t] # << >> => rank[KeyOf(Top(t))] <= rank[KeyOf(f)],
         f.op = "run" => \A i \in DOMAIN stack[t] :
           stack[t][i].op = "run" /\ Key[stack[t][i].of] = Key[f.of] =>
             stack[t][i].of \in Abstract!Enclosing(f.of)
  PROVE  Nested(rank)'
<1> DEFINE n == Len(stack[t])
<1>1. /\ n \in Nat /\ n + 1 \notin DOMAIN stack[t]
      /\ \A i \in DOMAIN stack[t] : i \in Nat /\ i < n + 1
      /\ \A u \in Threads : \A i \in DOMAIN stack'[u] :
           \/ i \in DOMAIN stack[u] /\ stack'[u][i] = stack[u][i]
           \/ u = t /\ i = n + 1 /\ stack'[u][i] = f
  BY Pushed
<1>2. \A i \in DOMAIN stack[t] : /\ stack[t] # << >> /\ n \in DOMAIN stack[t]
                                 /\ stack[t][n] = Top(t) /\ (i < n \/ i = n)
  BY <1>1, FrameKinds DEF QueueInv, Top
<1> HIDE DEF n
<1>3. ASSUME NEW i \in DOMAIN stack[t]
      PROVE  rank[KeyOf(stack[t][i])] <= rank[KeyOf(f)]
  <2>1. /\ KeyOf(stack[t][i]) \in Keys /\ KeyOf(Top(t)) \in Keys
        /\ stack[t][n] = Top(t) /\ n \in DOMAIN stack[t] /\ (i < n \/ i = n)
        /\ rank[KeyOf(Top(t))] <= rank[KeyOf(f)]
    BY <1>2, FrameKinds DEF QueueInv
  <2>2. rank[KeyOf(stack[t][i])] <= rank[KeyOf(Top(t))]
    BY <2>1 DEF Nested, RanksGrow
  <2> QED BY <2>1, <2>2
<1>4. RanksGrow(rank)'
  <2> SUFFICES ASSUME NEW u \in Threads, NEW i \in DOMAIN stack'[u],
                      NEW j \in DOMAIN stack'[u], i < j
               PROVE  rank[KeyOf(stack'[u][i])] <= rank[KeyOf(stack'[u][j])]
    BY DEF RanksGrow, KeyOf
  <2>1. i \in DOMAIN stack[u] /\ stack'[u][i] = stack[u][i]
    BY <1>1
  <2>2. CASE j \in DOMAIN stack[u] /\ stack'[u][j] = stack[u][j]
    BY <2>1, <2>2 DEF Nested, RanksGrow
  <2>3. CASE u = t /\ stack'[u][j] = f
    BY <1>3, <2>1, <2>3
  <2> QED BY <1>1, <2>2, <2>3
<1>5. Chain'
  <2> SUFFICES ASSUME NEW u \in Threads, NEW i \in DOMAIN stack'[u],
                      NEW j \in DOMAIN stack'[u], i < j,
                      stack'[u][i].op = "run", stack'[u][j].op = "run",
                      Key[stack'[u][i].of] = Key[stack'[u][j].of]
               PROVE  stack'[u][i].of \in Abstract!Enclosing(stack'[u][j].of)
    BY DEF Chain, Abstract!Enclosing, Abstract!CallerIn
  <2>1. i \in DOMAIN stack[u] /\ stack'[u][i] = stack[u][i]
    BY <1>1
  <2>2. CASE j \in DOMAIN stack[u] /\ stack'[u][j] = stack[u][j]
    BY <2>1, <2>2 DEF Nested, Chain
  <2>3. CASE u = t /\ stack'[u][j] = f
    BY <2>1, <2>3
  <2> QED BY <1>1, <2>2, <2>3
<1> QED BY <1>4, <1>5 DEF Nested

LEMMA PopNests ==
  ASSUME QueueInv, NEW rank \in [Keys -> Nat], Nested(rank),
         NEW t \in Threads, stack[t] # << >>, Pop(t)
  PROVE  Nested(rank)'
<1>1. \A u \in Threads : \A i \in DOMAIN stack'[u] :
        i \in DOMAIN stack[u] /\ stack'[u][i] = stack[u][i]
  BY Popped
<1>2. RanksGrow(rank)'
  <2> SUFFICES ASSUME NEW u \in Threads, NEW i \in DOMAIN stack'[u],
                      NEW j \in DOMAIN stack'[u], i < j
               PROVE  rank[KeyOf(stack'[u][i])] <= rank[KeyOf(stack'[u][j])]
    BY DEF RanksGrow, KeyOf
  <2> QED BY <1>1 DEF Nested, RanksGrow
<1>3. Chain'
  <2> SUFFICES ASSUME NEW u \in Threads, NEW i \in DOMAIN stack'[u],
                      NEW j \in DOMAIN stack'[u], i < j,
                      stack'[u][i].op = "run", stack'[u][j].op = "run",
                      Key[stack'[u][i].of] = Key[stack'[u][j].of]
               PROVE  stack'[u][i].of \in Abstract!Enclosing(stack'[u][j].of)
    BY DEF Chain, Abstract!Enclosing, Abstract!CallerIn
  <2> QED BY <1>1 DEF Nested, Chain
<1> QED BY <1>2, <1>3 DEF Nested

\* A call made inside a func that the thread runs: its caller is on top.
LEMMA CallerOnTop ==
  ASSUME QueueInv, NEW t \in Threads, NEW x \in Tasks, Calls(t, x)
  PROVE  /\ status[x] = "new"
         /\ stack[t] = << >> => Parent[x] \notin Tasks
         /\ stack[t] # << >> =>
              LET n == Len(stack[t]) IN
              /\ Parent[x] \in Tasks /\ Top(t) = Run(Parent[x])
              /\ n \in DOMAIN stack[t] /\ stack[t][n] = Run(Parent[x])
<1>1. /\ status[x] = "new"
      /\ stack[t] = << >> => Parent[x] \notin Tasks
      /\ stack[t] # << >> => Parent[x] \in Tasks /\ Top(t) = Run(Parent[x])
  BY NoTaskAssumption DEF Calls
<1>2. stack[t] # << >> => Len(stack[t]) \in DOMAIN stack[t]
  BY FrameKinds, EmptySeq DEF QueueInv
<1> QED BY <1>1, <1>2 DEF Top

\* The calls of its key that the thread is in are around a re-entrant call.
LEMMA InlineEnclosed ==
  ASSUME QueueInv, NEW rank \in [Keys -> Nat], Nested(rank), NestedBy(rank),
         NEW t \in Threads, NEW x \in Tasks, Calls(t, x),
         NEW i \in DOMAIN stack[t], stack[t][i].op = "run",
         Key[stack[t][i].of] = Key[x]
  PROVE  stack[t][i].of \in Abstract!Enclosing(x)
<1> DEFINE n == Len(stack[t])
           p == Parent[x]
           y == stack[t][i].of
<1>1. DOMAIN stack[t] = 1..n /\ n \in Nat /\ y \in Tasks /\ stack[t][i] = Run(y)
  BY FrameKinds DEF QueueInv
<1>2. stack[t] # << >>
  BY <1>1
<1>3. p \in Tasks /\ n \in DOMAIN stack[t] /\ stack[t][n] = Run(p)
  BY <1>2, CallerOnTop
<1>4. p \in Abstract!Enclosing(x) /\ Abstract!Enclosing(p) \subseteq Abstract!Enclosing(x)
  BY <1>3, EnclosingCaller
<1>5. Run(p).op = "run" /\ Run(p).of = p /\ KeyOf(Run(p)) = Key[p]
      /\ KeyOf(Run(y)) = Key[y]
  BY <1>1, <1>3, FrameTypes DEF KeyOf
<1>6. CASE i = n
  BY <1>1, <1>3, <1>4, <1>5, <1>6
<1>7. CASE i < n
  <2>1. rank[Key[y]] <= rank[Key[p]]
    BY <1>1, <1>3, <1>5, <1>7 DEF Nested, RanksGrow
  <2>2. rank[Key[p]] <= rank[Key[x]]
    BY <1>3 DEF NestedBy
  <2>3. Key[p] \in Keys /\ Key[x] \in Keys /\ Key[y] = Key[x]
    BY <1>3, QueueKeyAssumption
  <2>4. Key[p] = Key[y]
    <3>1. rank[Key[p]] = rank[Key[x]]
      BY <2>1, <2>2, <2>3
    <3> QED BY <2>3, <3>1 DEF NestedBy
  <2>5. y \in Abstract!Enclosing(p)
    BY <1>1, <1>3, <1>5, <1>7, <2>4 DEF Nested, Chain
  <2> QED BY <1>4, <2>5
<1> QED BY <1>1, <1>6, <1>7

LEMMA CallRank ==
  ASSUME QueueInv, NEW rank \in [Keys -> Nat], NestedBy(rank),
         NEW t \in Threads, NEW x \in Tasks, Calls(t, x), stack[t] # << >>
  PROVE  rank[KeyOf(Top(t))] <= rank[Key[x]]
<1>1. Parent[x] \in Tasks /\ Top(t) = Run(Parent[x])
  BY CallerOnTop
<1>2. KeyOf(Run(Parent[x])) = Key[Parent[x]]
  BY <1>1, FrameTypes DEF KeyOf
<1> QED BY <1>1, <1>2 DEF NestedBy

\* Every step of the queue is a step of Transactions, or none.
LEMMA PromisedIs ==
  ASSUME QueueTypeOK
  PROVE  /\ Promised = [x \in Tasks |-> Promised[x]]
         /\ \A x \in Tasks : /\ (Promised[x] = "open") = (status[x] = "running")
                             /\ status[x] \in {"new", "queued"} => Promised[x] = "new"
<1>1. \A x \in Tasks : status[x] \in {"new", "queued", "running", "done"}
  BY DEF QueueTypeOK
<1> QED BY <1>1 DEF Promised

LEMMA OpensCall ==
  ASSUME QueueTypeOK, NEW x \in Tasks, status[x] \in {"new", "queued"},
         Becomes(x, "running"),
         \A y \in Tasks : status[y] = "running" /\ Key[y] = Key[x] =>
           y \in Abstract!Enclosing(x)
  PROVE  Abstract!Next
<1>1. Promised' = [Promised EXCEPT ![x] = "open"]
  BY DEF Promised, Becomes, QueueTypeOK
<1>2. Promised[x] = "new"
      /\ \A y \in Tasks : Promised[y] = "open" => status[y] = "running"
  BY PromisedIs
<1>3. Abstract!Begin(x)
  BY <1>1, <1>2 DEF Abstract!Begin
<1> QED BY <1>3 DEF Abstract!Next

\* The caller of a new call is below the frame that was pushed for it.
LEMMA NewCaller ==
  ASSUME QueueInv, NEW t \in Threads, NEW x \in Tasks, Calls(t, x),
         stack[t] # << >>, NEW f \in Frame, f \in For(x), Push(t, f)
  PROVE  \E u \in Threads : \E i \in DOMAIN stack'[u] :
           /\ stack'[u][i] = Run(Parent[x])
           /\ i + 1 \in DOMAIN stack'[u] /\ stack'[u][i + 1] \in For(x)
<1> DEFINE n == Len(stack[t])
<1>1. n \in DOMAIN stack[t] /\ stack[t][n] = Run(Parent[x])
  BY CallerOnTop
<1>2. /\ n + 1 \in DOMAIN stack'[t] /\ stack'[t][n + 1] = f
      /\ n \in DOMAIN stack'[t] /\ stack'[t][n] = stack[t][n]
  BY <1>1, Pushed
<1> HIDE DEF n
<1> QED BY <1>1, <1>2

LEMMA InlineStep ==
  ASSUME QueueInv, CallInv, NEW rank \in [Keys -> Nat], Nested(rank), NestedBy(rank),
         NEW t \in Threads, NEW x \in Tasks, RunInline(t, x)
  PROVE  CallInv' /\ Nested(rank)' /\ Abstract!Next
<1>1. /\ Calls(t, x) /\ IsActive(t, Key[x]) /\ Push(t, Run(x))
      /\ Becomes(x, "running") /\ UNCHANGED <<queue, running>>
  BY DEF RunInline
<1>2. stack[t] # << >>
  BY <1>1 DEF IsActive
<1>3. status[x] = "new" /\ Parent[x] \in Tasks /\ Key[x] \in Keys
  BY <1>1, <1>2, CallerOnTop, QueueKeyAssumption
<1>4. Run(x) \in Frame /\ Run(x).op = "run" /\ Run(x).of = x /\ KeyOf(Run(x)) = Key[x]
  BY FrameTypes DEF KeyOf
<1>5. \A y \in Tasks : status'[y] = IF y = x THEN "running" ELSE status[y]
  BY <1>1 DEF Becomes, QueueInv, QueueTypeOK
<1>6. \A i \in DOMAIN stack[t] :
        stack[t][i].op = "run" /\ Key[stack[t][i].of] = Key[x] =>
          stack[t][i].of \in Abstract!Enclosing(x)
  BY <1>1, InlineEnclosed
<1>7. FrameIsRunning' /\ RunningHasFrame' /\ OneFrame'
  BY <1>1, <1>3, StartsRunning
<1>8. QueuedInQueue' /\ QueueIsQueued'
  <2>1. \A k \in Keys : \A i \in DOMAIN queue[k] : queue[k][i] \in Tasks
    BY DEF QueueInv, QueueTypeOK
  <2> QED BY <1>1, <1>3, <1>5, <2>1 DEF CallInv, QueuedInQueue, QueueIsQueued
<1>9. CallerBelow'
  <2> SUFFICES ASSUME NEW y \in Tasks, status'[y] \in {"queued", "running"},
                      Parent[y] \in Tasks
               PROVE  \E u \in Threads : \E i \in DOMAIN stack'[u] :
                        /\ stack'[u][i] = Run(Parent[y])
                        /\ i + 1 \in DOMAIN stack'[u] /\ stack'[u][i + 1] \in For(y)
    BY DEF CallerBelow, For, Run, Wait, Drain
  <2>1. CASE y = x
    <3>1. Run(x) \in For(x)
      BY DEF For
    <3> QED BY <1>1, <1>2, <1>4, <2>1, <3>1, NewCaller
  <2>2. CASE y # x
    BY <1>1, <1>4, <1>5, <2>2, PushCaller
  <2> QED BY <2>1, <2>2
<1>10. Nested(rank)'
  BY <1>1, <1>3, <1>4, <1>6, CallRank, PushNests
<1>11. ASSUME NEW y \in Tasks, status[y] = "running", Key[y] = Key[x]
       PROVE  y \in Abstract!Enclosing(x)
  <2>1. PICK u \in Threads : \E i \in DOMAIN stack[u] : stack[u][i] = Run(y)
    BY <1>11 DEF CallInv, RunningHasFrame
  <2>2. PICK i \in DOMAIN stack[u] : stack[u][i] = Run(y)
    BY <2>1
  <2>3. Run(y).op = "run" /\ Run(y).of = y
    BY FrameTypes
  <2>4. PICK j \in DOMAIN stack[u] : stack[u][j] = Drain(Key[x])
    BY <1>11, <2>2, <2>3 DEF QueueInv, RunAboveDrain
  <2>5. u = t
    BY <1>1, <1>3, <2>4, FrameTypes DEF IsActive, QueueInv, OneDrain
  <2> QED BY <1>6, <1>11, <2>2, <2>3, <2>5
<1>12. Abstract!Next
  BY <1>1, <1>3, <1>11, OpensCall DEF QueueInv
<1> QED BY <1>7, <1>8, <1>9, <1>10, <1>12 DEF CallInv

LEMMA QueuedStep ==
  ASSUME QueueInv, CallInv, NEW rank \in [Keys -> Nat], Nested(rank), NestedBy(rank),
         NEW t \in Threads, NEW x \in Tasks, RunQueued(t, x)
  PROVE  CallInv' /\ Nested(rank)' /\ Promised' = Promised
<1>1. /\ Calls(t, x)
      /\ queue' = [queue EXCEPT ![Key[x]] = Append(@, x)] /\ Becomes(x, "queued")
  BY DEF RunQueued
<1>2. Key[x] \in Keys /\ status[x] = "new"
  BY <1>1, CallerOnTop, QueueKeyAssumption
<1>3. PICK f \in {Drain(Key[x]), Wait(x)} : Push(t, f)
  BY DEF RunQueued
<1>4. f \in Frame /\ f.op # "run" /\ KeyOf(f) = Key[x] /\ f \in For(x)
  BY <1>2, <1>3, FrameTypes DEF KeyOf, For, Wait
<1>5. \A y \in Tasks : status'[y] = IF y = x THEN "queued" ELSE status[y]
  BY <1>1 DEF Becomes, QueueInv, QueueTypeOK
<1>6. FrameIsRunning' /\ RunningHasFrame' /\ OneFrame'
  BY <1>2, <1>3, <1>4, <1>5, PushedOther
<1>7. /\ \A k \in Keys : queue[k] \in Seq(Tasks)
      /\ \A k \in Keys : k # Key[x] => queue'[k] = queue[k]
      /\ queue'[Key[x]] = Append(queue[Key[x]], x)
  BY <1>1, <1>2 DEF QueueInv, QueueTypeOK
<1>8. \A k \in Keys : /\ Len(queue[k]) \in Nat /\ DOMAIN queue[k] = 1..Len(queue[k])
                      /\ \A i \in DOMAIN queue[k] : /\ queue[k][i] \in Tasks
                                                    /\ queue[k][i] # x
  <2>1. \A k \in Keys : /\ Len(queue[k]) \in Nat /\ DOMAIN queue[k] = 1..Len(queue[k])
                        /\ \A i \in DOMAIN queue[k] : queue[k][i] \in Tasks
    BY <1>7, LenProperties, ElementOfSeq
  <2> QED BY <1>2, <2>1 DEF CallInv, QueueIsQueued
<1>9. /\ DOMAIN queue'[Key[x]] = 1..(Len(queue[Key[x]]) + 1)
      /\ \A i \in DOMAIN queue[Key[x]] : queue'[Key[x]][i] = queue[Key[x]][i]
      /\ queue'[Key[x]][Len(queue[Key[x]]) + 1] = x
  BY <1>2, <1>7, <1>8, AppendProperties
<1>10. QueuedInQueue'
  <2> SUFFICES ASSUME NEW y \in Tasks, status'[y] = "queued"
               PROVE  \E i \in DOMAIN queue'[Key[y]] : queue'[Key[y]][i] = y
    BY DEF QueuedInQueue
  <2>1. CASE y = x
    BY <1>2, <1>8, <1>9, <2>1
  <2>2. CASE y # x
    <3>1. PICK i \in DOMAIN queue[Key[y]] : queue[Key[y]][i] = y
      BY <1>5, <2>2 DEF CallInv, QueuedInQueue
    <3>2. Key[y] \in Keys
      BY QueueKeyAssumption
    <3>3. i \in DOMAIN queue'[Key[y]] /\ queue'[Key[y]][i] = queue[Key[y]][i]
      <4>1. CASE Key[y] = Key[x]
        BY <1>2, <1>8, <1>9, <3>1, <4>1
      <4>2. CASE Key[y] # Key[x]
        BY <1>7, <3>1, <3>2, <4>2
      <4> QED BY <4>1, <4>2
    <3> QED BY <3>1, <3>3
  <2> QED BY <2>1, <2>2
<1>11. QueueIsQueued'
  <2> SUFFICES ASSUME NEW k \in Keys, NEW i \in DOMAIN queue'[k], NEW j \in DOMAIN queue'[k]
               PROVE  /\ status'[queue'[k][i]] = "queued"
                      /\ queue'[k][i] = queue'[k][j] => i = j
    BY DEF QueueIsQueued
  <2>1. CASE k # Key[x]
    BY <1>5, <1>7, <1>8, <2>1 DEF CallInv, QueueIsQueued
  <2>2. CASE k = Key[x]
    <3>1. \A l \in DOMAIN queue'[k] : \/ l \in DOMAIN queue[k] /\ queue'[k][l] = queue[k][l]
                                      \/ l = Len(queue[k]) + 1 /\ queue'[k][l] = x
      BY <1>8, <1>9, <2>2
    <3> QED BY <1>5, <1>8, <3>1 DEF CallInv, QueueIsQueued
  <2> QED BY <2>1, <2>2
<1>12. CallerBelow'
  <2> SUFFICES ASSUME NEW y \in Tasks, status'[y] \in {"queued", "running"},
                      Parent[y] \in Tasks
               PROVE  \E u \in Threads : \E i \in DOMAIN stack'[u] :
                        /\ stack'[u][i] = Run(Parent[y])
                        /\ i + 1 \in DOMAIN stack'[u] /\ stack'[u][i + 1] \in For(y)
    BY DEF CallerBelow, For, Run, Wait, Drain
  <2>1. CASE y = x
    <3>1. stack[t] # << >>
      BY <1>1, <2>1, CallerOnTop
    <3> QED BY <1>1, <1>3, <1>4, <2>1, <3>1, NewCaller
  <2>2. CASE y # x
    BY <1>3, <1>4, <1>5, <2>2, PushCaller
  <2> QED BY <2>1, <2>2
<1>13. Nested(rank)'
  BY <1>1, <1>2, <1>3, <1>4, CallRank, PushNests
<1>14. Promised' = Promised
  BY <1>2, <1>5 DEF Promised
<1> QED BY <1>6, <1>10, <1>11, <1>12, <1>13, <1>14 DEF CallInv

LEMMA DrainTaskStep ==
  ASSUME QueueInv, CallInv, NEW rank \in [Keys -> Nat], Nested(rank), NestedBy(rank),
         NEW t \in Threads, NEW k \in Keys, DrainTask(t, k)
  PROVE  CallInv' /\ Nested(rank)' /\ Abstract!Next
<1> DEFINE x == Head(queue[k])
<1>1. /\ stack[t] # << >> /\ Top(t) = Drain(k) /\ queue[k] # << >>
      /\ queue' = [queue EXCEPT ![k] = Tail(@)]
      /\ Push(t, Run(x)) /\ Becomes(x, "running")
  BY DEF DrainTask
<1>2. \A l \in Keys : /\ queue[l] \in Seq(Tasks) /\ Len(queue[l]) \in Nat
                      /\ DOMAIN queue[l] = 1..Len(queue[l])
                      /\ \A i \in DOMAIN queue[l] : queue[l][i] \in Tasks
  BY LenProperties, ElementOfSeq DEF QueueInv, QueueTypeOK
<1>3. /\ x = queue[k][1] /\ 1 \in DOMAIN queue[k]
      /\ Len(queue[k]) \in Nat \ {0}
      /\ DOMAIN Tail(queue[k]) = 1..(Len(queue[k]) - 1)
      /\ \A i \in DOMAIN Tail(queue[k]) : Tail(queue[k])[i] = queue[k][i + 1]
  <2>1. queue[k] \in Seq(Tasks) /\ queue[k] # << >>
    BY <1>1, <1>2
  <2> QED BY <2>1
<1> HIDE DEF x
<1>4. x \in Tasks /\ Key[x] = k /\ status[x] = "queued"
  BY <1>2, <1>3 DEF QueueInv, QueuedByKey, CallInv, QueueIsQueued
<1>5. \A y \in Tasks : status'[y] = IF y = x THEN "running" ELSE status[y]
  BY <1>1 DEF Becomes, QueueInv, QueueTypeOK
<1>6. /\ \A l \in Keys : l # k => queue'[l] = queue[l]
      /\ queue'[k] = Tail(queue[k])
  BY <1>1 DEF QueueInv, QueueTypeOK
<1>7. Run(x) \in Frame /\ Run(x).op = "run" /\ Run(x).of = x /\ KeyOf(Run(x)) = k
  BY <1>4, FrameTypes DEF KeyOf
<1>8. FrameIsRunning' /\ RunningHasFrame' /\ OneFrame'
  BY <1>1, <1>4, StartsRunning
<1>9. QueuedInQueue'
  <2> SUFFICES ASSUME NEW y \in Tasks, status'[y] = "queued"
               PROVE  \E i \in DOMAIN queue'[Key[y]] : queue'[Key[y]][i] = y
    BY DEF QueuedInQueue
  <2>1. y # x /\ status[y] = "queued" /\ Key[y] \in Keys
    BY <1>5, QueueKeyAssumption
  <2>2. PICK i \in DOMAIN queue[Key[y]] : queue[Key[y]][i] = y
    BY <2>1 DEF CallInv, QueuedInQueue
  <2>3. CASE Key[y] # k
    BY <1>6, <2>1, <2>2, <2>3
  <2>4. CASE Key[y] = k
    <3>1. i \in 1..Len(queue[k]) /\ i # 1 /\ queue[k][i] = y
      BY <1>2, <1>3, <2>1, <2>2, <2>4
    <3>2. i - 1 \in DOMAIN Tail(queue[k]) /\ (i - 1) + 1 = i
      BY <1>3, <3>1
    <3>3. Tail(queue[k])[i - 1] = y
      BY <1>3, <3>1, <3>2
    <3> QED BY <1>6, <2>4, <3>2, <3>3
  <2> QED BY <2>3, <2>4
<1>10. QueueIsQueued'
  <2> SUFFICES ASSUME NEW l \in Keys, NEW i \in DOMAIN queue'[l], NEW j \in DOMAIN queue'[l]
               PROVE  /\ status'[queue'[l][i]] = "queued"
                      /\ queue'[l][i] = queue'[l][j] => i = j
    BY DEF QueueIsQueued
  <2>1. CASE l # k
    <3>1. /\ i \in DOMAIN queue[l] /\ j \in DOMAIN queue[l] /\ queue'[l] = queue[l]
          /\ queue[l][i] \in Tasks /\ Key[queue[l][i]] = l
      BY <1>2, <1>6, <2>1 DEF QueueInv, QueuedByKey
    <3>2. queue[l][i] # x
      BY <1>4, <2>1, <3>1
    <3> QED BY <1>5, <3>1, <3>2 DEF CallInv, QueueIsQueued
  <2>2. CASE l = k
    <3>1. /\ i \in 1..(Len(queue[k]) - 1) /\ queue'[l][i] = queue[k][i + 1]
          /\ j \in 1..(Len(queue[k]) - 1) /\ queue'[l][j] = queue[k][j + 1]
      BY <1>3, <1>6, <2>2
    <3>2. i + 1 \in DOMAIN queue[k] /\ j + 1 \in DOMAIN queue[k] /\ i + 1 # 1
      BY <1>2, <1>3, <3>1
    <3>3. queue[k][i + 1] \in Tasks /\ queue[k][i + 1] # x
      BY <1>2, <1>3, <3>2 DEF CallInv, QueueIsQueued
    <3>4. status[queue[k][i + 1]] = "queued"
          /\ (queue[k][i + 1] = queue[k][j + 1] => i + 1 = j + 1)
      BY <3>2 DEF CallInv, QueueIsQueued
    <3> QED BY <1>5, <3>1, <3>3, <3>4
  <2> QED BY <2>1, <2>2
<1>11. CallerBelow'
  <2> SUFFICES ASSUME NEW y \in Tasks, status'[y] \in {"queued", "running"},
                      Parent[y] \in Tasks
               PROVE  \E u \in Threads : \E i \in DOMAIN stack'[u] :
                        /\ stack'[u][i] = Run(Parent[y])
                        /\ i + 1 \in DOMAIN stack'[u] /\ stack'[u][i + 1] \in For(y)
    BY DEF CallerBelow, For, Run, Wait, Drain
  <2>1. status[y] \in {"queued", "running"}
    BY <1>4, <1>5
  <2> QED BY <1>1, <1>7, <2>1, PushCaller
<1>12. \A u \in Threads : \A i \in DOMAIN stack[u] :
         stack[u][i].op = "run" => Key[stack[u][i].of] # k
  BY <1>1, LeaderOnTop
<1>13. Nested(rank)'
  <2>1. KeyOf(Top(t)) = k /\ rank[k] <= rank[k]
    BY <1>1, FrameTypes DEF KeyOf
  <2> QED BY <1>1, <1>4, <1>7, <1>12, <2>1, PushNests
<1>14. \A y \in Tasks : status[y] = "running" => Key[y] # k
  BY <1>12, FrameTypes DEF CallInv, RunningHasFrame
<1>15. Abstract!Next
  BY <1>1, <1>4, <1>14, OpensCall DEF QueueInv
<1> QED BY <1>8, <1>9, <1>10, <1>11, <1>13, <1>15 DEF CallInv

LEMMA DrainEndStep ==
  ASSUME QueueInv, CallInv, NEW rank \in [Keys -> Nat], Nested(rank),
         NEW t \in Threads, NEW k \in Keys, DrainEnd(t, k)
  PROVE  CallInv' /\ Nested(rank)' /\ Promised' = Promised
<1>1. /\ stack[t] # << >> /\ Top(t) = Drain(k) /\ queue[k] = << >> /\ Pop(t)
      /\ queue' = queue /\ status' = status
  BY DEF DrainEnd
<1>2. FrameIsRunning' /\ RunningHasFrame' /\ OneFrame'
  BY <1>1, FrameTypes, PoppedOther
<1>3. QueuedInQueue' /\ QueueIsQueued'
  BY <1>1 DEF CallInv, QueuedInQueue, QueueIsQueued
<1>4. \A u \in Threads : \A i \in DOMAIN stack[u] :
        stack[u][i].op = "run" => Key[stack[u][i].of] # k
  BY <1>1, LeaderOnTop
<1>5. CallerBelow'
  <2> SUFFICES ASSUME NEW y \in Tasks, status[y] \in {"queued", "running"},
                      Parent[y] \in Tasks
               PROVE  \E u \in Threads : \E i \in DOMAIN stack'[u] :
                        /\ stack'[u][i] = Run(Parent[y])
                        /\ i + 1 \in DOMAIN stack'[u] /\ stack'[u][i + 1] \in For(y)
    BY <1>1 DEF CallerBelow, For, Run, Wait, Drain
  <2>1. CASE Top(t) \notin For(y)
    BY <1>1, <2>1, PopCaller
  <2>2. CASE Top(t) \in For(y)
    <3>1. Key[y] = k
      BY <1>1, <2>2, FramesDiffer, QueueKeyAssumption DEF For
    <3>2. status[y] # "queued"
      BY <1>1, <3>1 DEF CallInv, QueuedInQueue
    <3>3. status[y] # "running"
      BY <1>4, <3>1, FrameTypes DEF CallInv, RunningHasFrame
    <3> QED BY <3>2, <3>3
  <2> QED BY <2>1, <2>2
<1>6. Nested(rank)'
  BY <1>1, PopNests
<1>7. Promised' = Promised
  BY <1>1 DEF Promised
<1> QED BY <1>2, <1>3, <1>5, <1>6, <1>7 DEF CallInv

LEMMA WakeStep ==
  ASSUME QueueInv, CallInv, NEW rank \in [Keys -> Nat], Nested(rank),
         NEW t \in Threads, NEW x \in Tasks, Wake(t, x)
  PROVE  CallInv' /\ Nested(rank)' /\ Promised' = Promised
<1>1. /\ stack[t] # << >> /\ Top(t) = Wait(x) /\ status[x] = "done" /\ Pop(t)
      /\ queue' = queue /\ status' = status
  BY DEF Wake
<1>2. FrameIsRunning' /\ RunningHasFrame' /\ OneFrame'
  BY <1>1, FrameTypes, PoppedOther
<1>3. QueuedInQueue' /\ QueueIsQueued'
  BY <1>1 DEF CallInv, QueuedInQueue, QueueIsQueued
<1>4. CallerBelow'
  <2> SUFFICES ASSUME NEW y \in Tasks, status[y] \in {"queued", "running"},
                      Parent[y] \in Tasks
               PROVE  \E u \in Threads : \E i \in DOMAIN stack'[u] :
                        /\ stack'[u][i] = Run(Parent[y])
                        /\ i + 1 \in DOMAIN stack'[u] /\ stack'[u][i + 1] \in For(y)
    BY <1>1 DEF CallerBelow, For, Run, Wait, Drain
  <2>1. Top(t) \notin For(y)
    BY <1>1, FramesDiffer, QueueKeyAssumption DEF For
  <2> QED BY <1>1, <2>1, PopCaller
<1>5. Nested(rank)'
  BY <1>1, PopNests
<1>6. Promised' = Promised
  BY <1>1 DEF Promised
<1> QED BY <1>2, <1>3, <1>4, <1>5, <1>6 DEF CallInv

\* The calls that a call in progress lies inside of have a frame below
\* another one: each of them made a call that did not return.
LEMMA AroundIsBelow ==
  ASSUME QueueInv, CallInv, NEW y \in Tasks, status[y] = "running",
         NEW z \in Abstract!Enclosing(y)
  PROVE  \E u \in Threads : \E i \in DOMAIN stack[u] :
           stack[u][i] = Run(z) /\ i + 1 \in DOMAIN stack[u]
<1> DEFINE S == {w \in Tasks : \E u \in Threads : \E i \in DOMAIN stack[u] :
                   stack[u][i] = Run(w) /\ i + 1 \in DOMAIN stack[u]}
<1>1. Parent[y] \in Tasks => Parent[y] \in S
  BY DEF CallInv, CallerBelow
<1>2. ASSUME NEW w \in S, Parent[w] \in Tasks PROVE Parent[w] \in S
  <2>1. w \in Tasks /\ status[w] = "running"
    BY FrameTypes DEF CallInv, FrameIsRunning
  <2> QED BY <1>2, <2>1 DEF CallInv, CallerBelow
<1>3. S \in SUBSET Tasks
  OBVIOUS
<1> HIDE DEF S
<1>4. z \in S
  BY <1>1, <1>2, <1>3, EnclosingLeast
<1> QED BY <1>4 DEF S

LEMMA FinishStep ==
  ASSUME QueueInv, CallInv, NEW rank \in [Keys -> Nat], Nested(rank),
         NEW t \in Threads, NEW x \in Tasks, Finish(t, x)
  PROVE  CallInv' /\ Nested(rank)' /\ Abstract!Next
<1> DEFINE n == Len(stack[t])
<1>1. /\ stack[t] # << >> /\ Top(t) = Run(x) /\ Becomes(x, "done") /\ Pop(t)
      /\ queue' = queue
  BY DEF Finish
<1>2. /\ n \in DOMAIN stack[t] /\ stack[t][n] = Run(x) /\ n + 1 \notin DOMAIN stack[t]
      /\ \A u \in Threads : \A i \in DOMAIN stack'[u] :
           /\ i \in DOMAIN stack[u] /\ stack'[u][i] = stack[u][i]
           /\ ~(u = t /\ i = n)
      /\ \A u \in Threads : \A i \in DOMAIN stack[u] :
           i \in DOMAIN stack'[u] \/ (u = t /\ i = n)
  BY <1>1, Popped
<1>3. \A y \in Tasks : status'[y] = IF y = x THEN "done" ELSE status[y]
  BY <1>1 DEF Becomes, QueueInv, QueueTypeOK
<1>4. Run(x).op = "run" /\ Run(x).of = x
  BY FrameTypes
<1>5. \A u \in Threads : \A i \in DOMAIN stack[u] :
        stack[u][i] = Run(x) => u = t /\ i = n
  BY <1>2, <1>4 DEF CallInv, OneFrame
<1>6. status[x] = "running"
  BY <1>2, <1>4 DEF CallInv, FrameIsRunning
<1> HIDE DEF n
<1>7. FrameIsRunning'
  <2> SUFFICES ASSUME NEW u \in Threads, NEW i \in DOMAIN stack'[u],
                      stack'[u][i].op = "run"
               PROVE  status'[stack'[u][i].of] = "running"
    BY DEF FrameIsRunning
  <2>1. /\ i \in DOMAIN stack[u] /\ stack'[u][i] = stack[u][i]
        /\ stack[u][i] # Run(x)
    BY <1>2, <1>5
  <2>2. stack[u][i].of \in Tasks /\ stack[u][i] = Run(stack[u][i].of)
    BY <2>1, FrameKinds DEF QueueInv
  <2>3. stack[u][i].of # x
    BY <2>1, <2>2
  <2>4. status[stack[u][i].of] = "running"
    BY <2>1 DEF CallInv, FrameIsRunning
  <2> QED BY <1>3, <2>1, <2>2, <2>3, <2>4
<1>8. RunningHasFrame'
  <2> SUFFICES ASSUME NEW y \in Tasks, status'[y] = "running"
               PROVE  \E u \in Threads : \E i \in DOMAIN stack'[u] : stack'[u][i] = Run(y)
    BY DEF RunningHasFrame, Run
  <2>0. y # x /\ status[y] = "running"
    BY <1>3
  <2>1. PICK u \in Threads : \E i \in DOMAIN stack[u] : stack[u][i] = Run(y)
    BY <2>0 DEF CallInv, RunningHasFrame
  <2>2. PICK i \in DOMAIN stack[u] : stack[u][i] = Run(y)
    BY <2>1
  <2>3. Run(y) # Run(x)
    BY <2>0, FrameTypes
  <2>4. i \in DOMAIN stack'[u] /\ stack'[u][i] = stack[u][i]
    BY <1>2, <2>2, <2>3
  <2> QED BY <2>2, <2>4
<1>9. OneFrame'
  BY <1>2 DEF CallInv, OneFrame
<1>10. QueuedInQueue' /\ QueueIsQueued'
  <2>1. \A k \in Keys : \A i \in DOMAIN queue[k] : queue[k][i] \in Tasks
    BY DEF QueueInv, QueueTypeOK
  <2> QED BY <1>1, <1>3, <1>6, <2>1 DEF CallInv, QueuedInQueue, QueueIsQueued
<1>11. CallerBelow'
  <2> SUFFICES ASSUME NEW y \in Tasks, status'[y] \in {"queued", "running"},
                      Parent[y] \in Tasks
               PROVE  \E u \in Threads : \E i \in DOMAIN stack'[u] :
                        /\ stack'[u][i] = Run(Parent[y])
                        /\ i + 1 \in DOMAIN stack'[u] /\ stack'[u][i + 1] \in For(y)
    BY DEF CallerBelow, For, Run, Wait, Drain
  <2>1. y # x /\ status[y] \in {"queued", "running"}
    BY <1>3
  <2>2. Top(t) \notin For(y)
    BY <1>1, <2>1, FramesDiffer, QueueKeyAssumption DEF For
  <2> QED BY <1>1, <2>1, <2>2, PopCaller
<1>12. Nested(rank)'
  BY <1>1, PopNests
<1>13. Abstract!Next
  <2>1. Promised' = [Promised EXCEPT ![x] = "done"]
    BY <1>1 DEF Promised, Becomes, QueueInv, QueueTypeOK
  <2>2. Promised[x] = "open"
        /\ \A y \in Tasks : Promised[y] = "open" => status[y] = "running"
    BY <1>6, PromisedIs DEF QueueInv
  <2>3. ASSUME NEW y \in Tasks, status[y] = "running"
        PROVE  x \notin Abstract!Enclosing(y)
    BY <1>2, <1>5, <2>3, AroundIsBelow
  <2>4. Abstract!End(x)
    BY <2>1, <2>2, <2>3 DEF Abstract!End
  <2> QED BY <2>4 DEF Abstract!Next
<1> QED BY <1>7, <1>8, <1>9, <1>10, <1>11, <1>12, <1>13 DEF CallInv

\* The stacks, the queues and the statuses keep their types: a queue never
\* holds anything but calls, and a stack nothing but frames of this queue.
THEOREM QueueTypes == Spec => []QueueTypeOK
<1>1. QueueInv => QueueTypeOK
  BY DEF QueueInv
<1> QED BY <1>1, QueueInvariant, PTL

\* KeyedTransactionQueue implements Transactions for any threads, keys and
\* calls that nest along an order of the keys: at every moment the calls of
\* one key that are in progress lie inside each other, and a call ends after
\* the calls it made.  The order is needed: without it a leader that drains
\* another key can run a call of another thread, which re-enters the leader's
\* first key inside a transaction that did not make it.
THEOREM Serial ==
  ASSUME NEW rank \in [Keys -> Nat]
  PROVE  NestedBy(rank) /\ Spec => SerialTransactions
<1> DEFINE Inv == QueueInv /\ CallInv /\ Nested(rank) /\ NestedBy(rank)
<1>1. NestedBy(rank) /\ Init => Inv
  <2>1. Init => QueueInv
    BY InitQueue
  <2>2. Init => CallInv
    BY EmptySeq DEF Init, CallInv, FrameIsRunning, RunningHasFrame, OneFrame,
                    QueuedInQueue, QueueIsQueued, CallerBelow
  <2>3. Init => Nested(rank)
    BY EmptySeq DEF Init, Nested, RanksGrow, Chain
  <2> QED BY <2>1, <2>2, <2>3
<1>2. Init => Abstract!Init
  BY DEF Init, Abstract!Init, Promised
<1>3. Inv /\ Next => Inv' /\ [Abstract!Next]_Promised
  <2> SUFFICES ASSUME QueueInv, CallInv, Nested(rank), NestedBy(rank), NEW t \in Threads,
                      Call(t) \/ Proceed(t)
               PROVE  Inv' /\ [Abstract!Next]_Promised
    BY DEF Next
  <2>1. QueueInv'
    BY StepKeeps
  <2>2. CASE Call(t)
    BY <2>1, <2>2, InlineStep, QueuedStep DEF Call
  <2>3. CASE Proceed(t)
    BY <2>1, <2>3, DrainTaskStep, DrainEndStep, FinishStep, WakeStep DEF Proceed
  <2> QED BY <2>2, <2>3 DEF NestedBy
<1>4. Inv /\ UNCHANGED vars => Inv' /\ [Abstract!Next]_Promised
  <2>1. QueueInv /\ UNCHANGED vars => QueueInv'
    BY StutterQueue
  <2>2. CallInv /\ UNCHANGED vars => CallInv'
    BY DEF vars, CallInv, FrameIsRunning, RunningHasFrame, OneFrame,
           QueuedInQueue, QueueIsQueued, CallerBelow, For, Run, Wait, Drain
  <2>3. Nested(rank) /\ UNCHANGED vars => Nested(rank)'
    BY DEF vars, Nested, RanksGrow, Chain, KeyOf, Abstract!Enclosing, Abstract!CallerIn
  <2>4. UNCHANGED vars => Promised' = Promised
    BY DEF vars, Promised
  <2>5. NestedBy(rank)' = NestedBy(rank)
    BY DEF NestedBy
  <2> QED BY <2>1, <2>2, <2>3, <2>4, <2>5
<1> HIDE DEF Inv
<1> QED BY <1>1, <1>2, <1>3, <1>4, PTL DEF Spec, SerialTransactions, Abstract!Spec
=============================================================================
