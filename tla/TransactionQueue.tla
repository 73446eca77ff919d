-------------------------- MODULE TransactionQueue ---------------------------
(***************************************************************************)
(* KeyedTransactionQueue of file_transaction.py.  The first thread to call *)
(* run for a key becomes its leader and drains the queue of that key, the  *)
(* calls of other threads included; the others wait.  A call for a key     *)
(* that its own thread is draining runs at once.  A call is made once, by  *)
(* an idle thread or by the func of its Parent.                            *)
(***************************************************************************)
EXTENDS Naturals, Sequences

CONSTANTS Threads, Tasks, Keys, Key, Parent, NoTask

ASSUME QueueKeyAssumption == Key \in [Tasks -> Keys]
ASSUME QueueParentAssumption == Parent \in [Tasks -> Tasks \cup {NoTask}]
ASSUME NoTaskAssumption == NoTask \notin Tasks

\* The calls nest along an order of the keys.
NestedBy(rank) ==
  /\ \A k, l \in Keys : rank[k] = rank[l] => k = l
  /\ \A x \in Tasks :
       Parent[x] \in Tasks => rank[Key[Parent[x]]] <= rank[Key[x]]

VARIABLES queue,    \* state.tasks of every key
          running,  \* state.running of every key
          stack,    \* the frames of every thread
          status    \* of every call: "done" is task.done

vars == <<queue, running, stack, status>>

\* _drain of a key, the func of a call, task.done.wait() of a call.
Drain(k) == [op |-> "drain", of |-> k]
Run(x)   == [op |-> "run", of |-> x]
Wait(x)  == [op |-> "wait", of |-> x]
Frame    == [op : {"drain"}, of : Keys] \cup [op : {"run", "wait"}, of : Tasks]

Top(t) == stack[t][Len(stack[t])]
Push(t, f) == stack' = [stack EXCEPT ![t] = Append(@, f)]
Pop(t) == stack' = [stack EXCEPT ![t] = SubSeq(@, 1, Len(@) - 1)]
Becomes(x, s) == status' = [status EXCEPT ![x] = s]

\* Mutant: the active keys are not thread-local.
IsActiveAnywhere(t, k) ==
  \E u \in Threads : \E i \in DOMAIN stack[u] : stack[u][i] = Drain(k)

\* _is_active: the key is in the thread-local active_keys.
IsActive(t, k) == \E i \in DOMAIN stack[t] : stack[t][i] = Drain(k)

Init ==
  /\ queue = [k \in Keys |-> << >>] /\ running = [k \in Keys |-> FALSE]
  /\ stack = [t \in Threads |-> << >>] /\ status = [x \in Tasks |-> "new"]

Calls(t, x) ==
  /\ status[x] = "new"
  /\ IF stack[t] = << >> THEN Parent[x] = NoTask
     ELSE Parent[x] \in Tasks /\ Top(t) = Run(Parent[x])

\* Re-entrant call.
RunInline(t, x) ==
  /\ Calls(t, x) /\ IsActive(t, Key[x])
  /\ Push(t, Run(x)) /\ Becomes(x, "running")
  /\ UNCHANGED <<queue, running>>

\* Mutant: a thread that drains another key does not wait.
RunQueuedNeverWaits(t, x) ==
  /\ Calls(t, x) /\ ~IsActive(t, Key[x])
  /\ queue' = [queue EXCEPT ![Key[x]] = Append(@, x)] /\ Becomes(x, "queued")
  /\ running' = [running EXCEPT ![Key[x]] = TRUE]
  /\ \/ ~running[Key[x]] /\ Push(t, Drain(Key[x]))
     \/ running[Key[x]] /\ stack[t] # << >> /\ Push(t, Drain(Key[x]))
     \/ running[Key[x]] /\ stack[t] = << >> /\ Push(t, Wait(x))

\* The call is queued under _guard; the first one drains, the others wait.
RunQueued(t, x) ==
  /\ Calls(t, x) /\ ~IsActive(t, Key[x])
  /\ queue' = [queue EXCEPT ![Key[x]] = Append(@, x)] /\ Becomes(x, "queued")
  /\ running' = [running EXCEPT ![Key[x]] = TRUE]
  /\ \/ ~running[Key[x]] /\ Push(t, Drain(Key[x]))
     \/ running[Key[x]] /\ Push(t, Wait(x))

DrainTask(t, k) ==
  /\ stack[t] # << >> /\ Top(t) = Drain(k) /\ queue[k] # << >>
  /\ queue' = [queue EXCEPT ![k] = Tail(@)]
  /\ Push(t, Run(Head(queue[k]))) /\ Becomes(Head(queue[k]), "running")
  /\ UNCHANGED running

\* Mutant: the leader goes as soon as one call is done.
DrainEndEarly(t, k) ==
  /\ stack[t] # << >> /\ Top(t) = Drain(k)
  /\ queue[k] = << >> \/ \E x \in Tasks : Key[x] = k /\ status[x] = "done"
  /\ running' = [running EXCEPT ![k] = FALSE] /\ Pop(t)
  /\ UNCHANGED <<queue, status>>

\* The check and the end of the leadership are one step under _guard.
DrainEnd(t, k) ==
  /\ stack[t] # << >> /\ Top(t) = Drain(k) /\ queue[k] = << >>
  /\ running' = [running EXCEPT ![k] = FALSE] /\ Pop(t)
  /\ UNCHANGED <<queue, status>>

\* func returns or raises, possibly before it made all its calls.
Finish(t, x) ==
  /\ stack[t] # << >> /\ Top(t) = Run(x)
  /\ Becomes(x, "done") /\ Pop(t)
  /\ UNCHANGED <<queue, running>>

Wake(t, x) ==
  /\ stack[t] # << >> /\ Top(t) = Wait(x) /\ status[x] = "done"
  /\ Pop(t)
  /\ UNCHANGED <<queue, running, status>>

Call(t) == \E x \in Tasks : RunInline(t, x) \/ RunQueued(t, x)
Proceed(t) ==
  \/ \E k \in Keys : DrainTask(t, k) \/ DrainEnd(t, k)
  \/ \E x \in Tasks : Finish(t, x) \/ Wake(t, x)

Next == \E t \in Threads : Call(t) \/ Proceed(t)

Spec == Init /\ [][Next]_vars

\* Every thread keeps running and every func ends.
FairSpec == Spec /\ \A t \in Threads : WF_vars(Proceed(t))

-----------------------------------------------------------------------------
(* Properties                                                              *)

\* Stacks hold frames, queues hold calls (_QueueState, active_keys).
QueueTypeOK ==
  /\ queue \in [Keys -> Seq(Tasks)] /\ running \in [Keys -> BOOLEAN]
  /\ stack \in [Threads -> Seq(Frame)]
  /\ status \in [Tasks -> {"new", "queued", "running", "done"}]

\* Two threads never run transactions of one key at the same time, however
\* the calls nest: there is one leader per key, and it alone runs them.
MutualExclusion ==
  \A t, u \in Threads :
    \A i \in DOMAIN stack[t], j \in DOMAIN stack[u] :
      /\ stack[t][i].op = "run" /\ stack[u][j].op = "run"
      /\ Key[stack[t][i].of] = Key[stack[u][j].of]
      => t = u

\* What the callers see of a call: it is open while its func runs.
Promised == [x \in Tasks |-> CASE status[x] = "running" -> "open"
                               [] status[x] = "queued"  -> "new"
                               [] OTHER                 -> status[x]]

\* The queue gives its callers serial transactions.
Abstract == INSTANCE Transactions WITH status <- Promised
SerialTransactions == Abstract!Spec

\* Every call returns to its caller: no call is left in the queue when the
\* leader goes, and nobody waits for a leader that waits for him.
EveryCallReturns == \A t \in Threads : stack[t] # << >> ~> stack[t] = << >>
=============================================================================
