-------------------------- MODULE GraphRunnerProofs --------------------------
(***************************************************************************)
(* What holds of the graph runner for every graph, every number of         *)
(* threads, clients and requests, and every set of operations; the         *)
(* theorems that leave some operations out say which.                      *)
(***************************************************************************)
EXTENDS GraphRunner, NodeStoreProofs

-----------------------------------------------------------------------------
(* The parts of the type invariant, one lemma per way a step changes them. *)

\* An operation on the record of one node.
LEMMA StoreStep ==
  ASSUME StoreOK, NEW n \in Nodes, NEW r \in Runtime, Store(n, r),
         alive' \subseteq Nodes
  PROVE  StoreOK'
BY DEF StoreOK, Store

LEMMA StoreSame == StoreOK /\ UNCHANGED <<rt, alive>> => StoreOK'
BY DEF StoreOK

LEMMA RecordType == ASSUME StoreOK, NEW n \in Nodes PROVE rt[n] \in Runtime
BY DEF StoreOK

LEMMA HistorySame ==
  HistoryOK /\ UNCHANGED history /\ requests' \in 0..MaxRequests
    /\ used' \subseteq Traces => HistoryOK'
BY DEF HistoryOK, history

\* A request was counted against the bound.
LEMMA RequestType ==
  ASSUME HistoryOK, NEW c, NEW op, NEW n, Request(c, op, n)
  PROVE  requests' \in 0..MaxRequests
BY MaxRequestsAssumption DEF HistoryOK, Request

LEMMA AcceptStep ==
  ASSUME StoreOK, HistoryOK, NEW n \in Nodes, NEW it \in Item, Accept(n, it),
         UNCHANGED <<alive, used>>, requests' \in 0..MaxRequests
  PROVE  StoreOK' /\ HistoryOK'
<1>1. StoreOK'
  BY StoreStep, RecordType, AppendPendingType DEF Accept, StoreOK
<1>2. queued' \in [Nodes -> SUBSET Item] /\ started' = started
  BY DEF Accept, HistoryOK
<1> QED BY <1>1, <1>2 DEF HistoryOK

LEMMA RemoveStep ==
  ASSUME StoreOK, HistoryOK, NEW n \in Nodes, NEW r \in Runtime, Remove(n, r),
         UNCHANGED <<alive, used>>, requests' \in 0..MaxRequests
  PROVE  StoreOK' /\ HistoryOK'
<1>1. StoreOK'
  BY StoreStep DEF Remove, StoreOK
<1>2. queued' \in [Nodes -> SUBSET Item] /\ started' = started
  BY DEF Remove, HistoryOK
<1> QED BY <1>1, <1>2 DEF HistoryOK

LEMMA UpdateStep ==
  ASSUME StoreOK, HistoryOK, NEW n \in Nodes, NEW r \in Runtime, Update(n, r),
         UNCHANGED <<used>>, alive' \subseteq Nodes,
         requests' \in 0..MaxRequests
  PROVE  StoreOK' /\ HistoryOK'
BY StoreStep DEF Update, HistoryOK, history

\* A config transaction that writes a whole record back.
LEMMA WriteConfigStep ==
  ASSUME StoreOK, HistoryOK, NEW n \in Nodes, NEW r \in Runtime,
         WriteConfig(n, r), UNCHANGED <<requests, used>>
  PROVE  StoreOK' /\ HistoryOK'
<1>1. alive' \subseteq Nodes
  BY DEF WriteConfig, StoreOK
<1> QED BY <1>1, StoreStep DEF WriteConfig, HistoryOK, history

\* Threads.
LEMMA ThreadStep ==
  ASSUME ThreadsOK, NEW t \in Threads, NEW x \in Thread,
         x.pc # "free" => x.node \in Nodes /\ x.item # NoItem,
         x.pc = "propagate" => x.item.depth < MaxDepth,
         th' = [th EXCEPT ![t] = x]
  PROVE  ThreadsOK'
BY DEF ThreadsOK, Live

LEMMA ThreadsSame == ThreadsOK /\ UNCHANGED th => ThreadsOK'
BY DEF ThreadsOK, Live

LEMMA LiveThread ==
  ASSUME ThreadsOK, NEW t \in Threads, Live(t)
  PROVE  /\ th[t] \in Thread /\ th[t].node \in Nodes /\ th[t].item \in Item
         /\ th[t].snap \in Runtime /\ th[t].tasks \subseteq Nodes
         /\ th[t].item.trace \in Traces
BY DEF ThreadsOK, Thread, Item

LEMMA GotoStep ==
  ASSUME ThreadsOK, NEW t \in Threads, Live(t),
         NEW p \in ThreadPc \ {"propagate"}, Goto(t, p)
  PROVE  ThreadsOK'
<1> DEFINE x == [th[t] EXCEPT !.pc = p]
<1>1. x \in Thread /\ x.node \in Nodes /\ x.item # NoItem /\ x.pc = p
  BY DEF ThreadsOK, Thread
<1>2. th' = [th EXCEPT ![t] = x]
  BY DEF Goto
<1> HIDE DEF x
<1> QED BY <1>1, <1>2, ThreadStep

LEMMA FreeThreadType == FreeThread \in Thread
BY FreshRuntimeType DEF FreeThread, Thread, ThreadPc, Hows

\* Clients.
LEMMA ClientStepType ==
  ASSUME ClientsOK, NEW c \in Clients, NEW x \in Client,
         x.pc # "none" => x.node \in Nodes,
         x.pc = "emit_append" => x.item # NoItem,
         x.pc = "resume_release" => x.outs # << >>,
         cl' = [cl EXCEPT ![c] = x]
  PROVE  ClientsOK'
BY DEF ClientsOK

LEMMA ClientsSame == ClientsOK /\ UNCHANGED cl => ClientsOK'
BY DEF ClientsOK

LEMMA IdleClientType ==
  IdleClient \in Client /\ IdleClient.pc = "none" /\ IdleClient.outs = << >>
BY FreshRuntimeType, EmptySeq DEF IdleClient, Client, ClientPc

LEMMA ReplyStep ==
  ASSUME ClientsOK, NEW c \in Clients, Reply(c)
  PROVE  ClientsOK'
BY ClientStepType, IdleClientType DEF Reply

LEMMA ContinueStep ==
  ASSUME ClientsOK, NEW c \in Clients, NEW n \in Nodes,
         NEW p \in ClientPc \ {"emit_append", "resume_release"},
         Continue(c, n, p)
  PROVE  ClientsOK'
<1> DEFINE x == [IdleClient EXCEPT !.pc = p, !.node = n]
<1>1. x \in Client /\ x.node \in Nodes /\ x.pc = p
  BY IdleClientType DEF IdleClient, Client
<1>2. cl' = [cl EXCEPT ![c] = x]
  BY DEF Continue
<1> HIDE DEF x
<1> QED BY <1>1, <1>2, ClientStepType

\* Scheduler and runner.
LEMMA SchedulerSame == SchedulerOK /\ UNCHANGED <<spc, batch>> => SchedulerOK'
BY DEF SchedulerOK, batch

LEMMA RunnerSame == RunnerOK /\ UNCHANGED runner => RunnerOK'
BY DEF RunnerOK, runner

LEMMA EnsureAndWakeStep ==
  ASSUME SchedulerOK, RunnerOK, EnsureAndWake, UNCHANGED batch
  PROVE  SchedulerOK' /\ RunnerOK'
BY DEF EnsureAndWake, NewRunner, SchedulerOK, RunnerOK, batch, SchedulerPc

LEMMA EnsureAndWakeOwnStep ==
  ASSUME SchedulerOK, RunnerOK, NEW t, EnsureAndWakeOwn(t), UNCHANGED batch
  PROVE  SchedulerOK' /\ RunnerOK'
BY DEF EnsureAndWakeOwn, NewRunner, SchedulerOK, RunnerOK, batch, SchedulerPc

-----------------------------------------------------------------------------
(* Every step preserves the type invariant: one lemma per process.         *)

\* The scheduler thread (_graph_scheduler_loop, _run_scheduler_batch).
LEMMA SchedulerType ==
  ASSUME TypeOK, Scheduler
  PROVE  TypeOK'
<1> USE DEF TypeOK
<1>a. HistoryOK => requests \in 0..MaxRequests /\ used \subseteq Traces
  BY DEF HistoryOK
<1>1. CASE SchedWait
  BY <1>1, <1>a, StoreSame, ThreadsSame, ClientsSame, HistorySame
     DEF SchedWait, SchedulerOK, RunnerOK, SchedulerPc, batch
<1>2. CASE SchedExit
  BY <1>2, <1>a, StoreSame, ThreadsSame, ClientsSame, HistorySame, RunnerSame
     DEF SchedExit, SchedulerOK, SchedulerPc, batch
<1>3. CASE SchedCleanup
  BY <1>3, <1>a, StoreSame, ThreadsSame, ClientsSame, HistorySame
     DEF SchedCleanup, SchedulerOK, RunnerOK, SchedulerPc, StoreOK
<1>4. CASE SchedBatchEnd
  BY <1>4, <1>a, StoreSame, ThreadsSame, ClientsSame, HistorySame, RunnerSame
     DEF SchedBatchEnd, SchedulerOK, SchedulerPc
<1>5. ASSUME NEW n \in Nodes, SchedVisit(n) PROVE TypeOK'
  <2>1. SchedulerOK'
    BY <1>5 DEF SchedVisit, SchedulerOK, SchedulerPc, ReadyPending, CanDequeue
  <2> QED BY <2>1, <1>5, <1>a, StoreSame, ThreadsSame, ClientsSame,
             HistorySame, RunnerSame DEF SchedVisit
<1>6. CASE SchedCheckActive
  <2>1. SchedulerOK'
    BY <1>6 DEF SchedCheckActive, SchedulerOK, SchedulerPc
  <2> QED BY <2>1, <1>6, <1>a, StoreSame, ThreadsSame, ClientsSame,
             HistorySame, RunnerSame DEF SchedCheckActive
<1>7. CASE SchedRecover
  <2>1. cur \in Nodes /\ SchedulerOK'
    BY <1>7 DEF SchedRecover, SchedulerOK, SchedulerPc
  <2>2. Update(cur, RecoverStaleWorking(rt[cur])) /\ alive' \subseteq Nodes
    BY <1>7 DEF SchedRecover, StoreOK
  <2>3. UNCHANGED <<runner, th, cl, requests, used>>
    BY <1>7 DEF SchedRecover
  <2>4. RecoverStaleWorking(rt[cur]) \in Runtime
    BY <2>1, RecordType, RecoverStaleWorkingType
  <2>5. StoreOK' /\ HistoryOK'
    BY <2>1, <2>2, <2>3, <2>4, <1>a, UpdateStep
  <2> QED BY <2>1, <2>3, <2>5, ThreadsSame, ClientsSame, RunnerSame
<1>8. CASE SchedDequeue
  <2>1. cur \in Nodes /\ spc = "dequeue"
    BY <1>8 DEF SchedDequeue, SchedulerOK
  <2>2. UNCHANGED <<alive, todo, ready, runner, th, cl, requests, used>>
    BY <1>8 DEF SchedDequeue
  <2>3. CASE ~CanDequeue(rt[cur])
    <3>1. spc' = "scan" /\ cur' = NoNode /\ UNCHANGED <<rt, picked, history>>
      BY <1>8, <2>3 DEF SchedDequeue
    <3>2. SchedulerOK'
      BY <2>2, <3>1 DEF SchedulerOK, SchedulerPc
    <3> QED BY <2>2, <3>1, <3>2, <1>a, StoreSame, ThreadsSame, ClientsSame,
               HistorySame, RunnerSame
  <2>4. CASE CanDequeue(rt[cur])
    <3> DEFINE r == DequeueToWorking(rt[cur])
    <3>1. r \in Runtime /\ r.inflight \in Item
      BY <2>1, <2>4, RecordType, DequeueType
    <3>2. /\ Store(cur, r) /\ picked' = r.inflight
          /\ queued' = [queued EXCEPT ![cur] = @ \ Taken(cur, r)]
          /\ started' = started \cup {<<cur, r.inflight>>}
          /\ spc' = "submit" /\ cur' = cur
      BY <1>8, <2>4 DEF SchedDequeue
    <3> HIDE DEF r
    <3>3. StoreOK'
      BY <2>1, <2>2, <3>1, <3>2, StoreStep DEF StoreOK
    <3>4. HistoryOK'
      BY <2>1, <2>2, <3>1, <3>2 DEF HistoryOK
    <3>5. SchedulerOK'
      BY <2>1, <2>2, <3>1, <3>2, NoItemAssumption DEF SchedulerOK, SchedulerPc
    <3> QED BY <2>2, <3>3, <3>4, <3>5, ThreadsSame, ClientsSame, RunnerSame
  <2> QED BY <2>3, <2>4
<1>9. CASE SchedSubmit
  <2>1. cur \in Nodes /\ picked \in Item
    BY <1>9 DEF SchedSubmit, SchedulerOK
  <2>2. /\ spc' = "scan" /\ cur' = NoNode /\ picked' = NoItem
        /\ UNCHANGED <<rt, alive, todo, ready, wake, runnerStop, finished, cl,
                       requests, used, history>>
    BY <1>9 DEF SchedSubmit
  <2>3. SchedulerOK'
    BY <2>2 DEF SchedulerOK, SchedulerPc
  <2>4. ThreadsOK' /\ RunnerOK'
    <3>1. CASE UNCHANGED <<th, active>>
      BY <3>1, <2>2, ThreadsSame DEF RunnerOK
    <3>2. CASE ~UNCHANGED <<th, active>>
      <4> DEFINE x == [FreeThread EXCEPT !.pc = "start", !.node = cur,
                                         !.item = picked]
      <4>1. PICK t \in Threads : /\ th' = [th EXCEPT ![t] = x]
                                 /\ active' = active \cup {t}
        BY <1>9, <3>2 DEF SchedSubmit
      <4>2. x \in Thread /\ x.pc = "start" /\ x.node = cur /\ x.item = picked
        BY <2>1, FreeThreadType DEF FreeThread, Thread, ThreadPc
      <4> HIDE DEF x
      <4>3. ThreadsOK'
        BY <4>1, <4>2, <2>1, ThreadStep, NoItemAssumption
      <4> QED BY <4>1, <4>3, <2>2 DEF RunnerOK
    <3> QED BY <3>1, <3>2
  <2> QED BY <2>2, <2>3, <2>4, <1>a, StoreSame, ClientsSame, HistorySame
<1> QED BY <1>1, <1>2, <1>3, <1>4, <1>5, <1>6, <1>7, <1>8, <1>9 DEF Scheduler

\* An executor step that leaves everything but its node and its pc alone.
LEMMA ExecStoreType ==
  ASSUME TypeOK, NEW t \in Threads, Live(t), NEW r \in Runtime,
         NEW p \in ThreadPc \ {"propagate"}, ExecStore(t, r, p)
  PROVE  TypeOK'
<1>1. /\ Update(th[t].node, r) /\ Goto(t, p)
      /\ UNCHANGED <<alive, spc, batch, runner, cl, requests, used>>
  BY DEF ExecStore, NoSched, NoApi
<1>2. th[t].node \in Nodes /\ alive' \subseteq Nodes
      /\ requests' \in 0..MaxRequests
  BY <1>1, LiveThread DEF TypeOK, StoreOK, HistoryOK
<1> QED BY <1>1, <1>2, UpdateStep, GotoStep, SchedulerSame, RunnerSame,
           ClientsSame DEF TypeOK

\* An executor step that only moves its thread.
LEMMA ExecMoveType ==
  ASSUME TypeOK, ThreadsOK',
         UNCHANGED <<rt, alive, spc, batch, runner, cl, requests, used, history>>
  PROVE  TypeOK'
BY StoreSame, SchedulerSame, RunnerSame, ClientsSame, HistorySame
   DEF TypeOK, HistoryOK

\* An executor step on its thread and on the record of its node.
LEMMA ExecUpdateType ==
  ASSUME TypeOK, ThreadsOK', NEW n \in Nodes, NEW r \in Runtime, Update(n, r),
         UNCHANGED <<alive, spc, batch, runner, cl, requests, used>>
  PROVE  TypeOK'
<1>1. alive' \subseteq Nodes /\ requests' \in 0..MaxRequests
  BY DEF TypeOK, StoreOK, HistoryOK
<1> QED BY <1>1, UpdateStep, SchedulerSame, RunnerSame, ClientsSame DEF TypeOK

\* The steps of an iteration (_run_single_node_iteration).
LEMMA ExecutorType ==
  ASSUME TypeOK, NEW t \in Threads, Executor(t)
  PROVE  TypeOK'
<1> DEFINE n == th[t].node
           r == rt[n]
<1>a. Live(t)
  BY DEF Executor, ExecBegin, ExecEntry, ExecCancel, ExecCancelFinish,
         ExecConsume, ExecSucceed, ExecFail, ExecEnd, ExecAfter,
         ExecRecordRead, ExecRecordWrite, ExecClear, ExecToIdle, ExecMemory,
         ExecGoal, ExecGoalWrite, ExecGoalEnds, ExecGoalContinue,
         ExecComplete, ExecPropagate, ExecReturn, Live
<1>b. /\ n \in Nodes /\ th[t].item \in Item /\ th[t].item.trace \in Traces
      /\ th[t] \in Thread /\ th[t].snap \in Runtime /\ th[t].tasks \subseteq Nodes
      /\ th[t].item # NoItem
  BY <1>a, LiveThread DEF TypeOK, ThreadsOK
<1>c. r \in Runtime
  BY <1>b, RecordType DEF TypeOK
<1>d. r.stopReq \in BOOLEAN
  BY <1>c DEF Runtime
<1>e. ThreadsOK /\ StoreOK /\ HistoryOK /\ SchedulerOK /\ RunnerOK /\ ClientsOK
  BY DEF TypeOK
<1>f. FinishStopRequested(r) \in Runtime /\ ClearInflight(r) \in Runtime
      /\ TransitionToIdle(r) \in Runtime
  BY <1>c, FinishStopRequestedType, ClearInflightType, TransitionToIdleType
<1>g. ASSUME NEW x \in Thread, x.node = n, x.item = th[t].item,
             x.pc = "propagate" => th[t].item.depth < MaxDepth,
             th' = [th EXCEPT ![t] = x]
      PROVE  ThreadsOK'
  BY <1>b, <1>e, <1>g, ThreadStep
<1>1. CASE ExecBegin(t)
  <2>1. CASE n \in UntypedNodes
    <3> DEFINE x == [th[t] EXCEPT !.pc = "to_idle", !.how = "untyped"]
    <3>1. th' = [th EXCEPT ![t] = x]
      BY <1>1, <2>1 DEF ExecBegin
    <3>2. x \in Thread /\ x.node = n /\ x.item = th[t].item /\ x.pc = "to_idle"
      BY <1>b DEF Thread, ThreadPc, Hows
    <3> HIDE DEF x
    <3>3. ThreadsOK'
      BY <1>g, <3>1, <3>2
    <3> QED BY <1>1, <1>b, <1>f, <2>1, <3>3, ExecUpdateType
            DEF ExecBegin, NoSched, NoApi
  <2>2. CASE n \notin UntypedNodes
    <3> DEFINE x == [th[t] EXCEPT !.pc = "entry", !.cancelled = r.stopReq]
    <3>1. th' = [th EXCEPT ![t] = x]
      BY <1>1, <2>2 DEF ExecBegin
    <3>2. x \in Thread /\ x.node = n /\ x.item = th[t].item /\ x.pc = "entry"
      BY <1>b, <1>d DEF Thread, ThreadPc
    <3> HIDE DEF x
    <3>3. ThreadsOK'
      BY <1>g, <3>1, <3>2
    <3> QED BY <1>1, <2>2, <3>3, ExecMoveType DEF ExecBegin, NoSched, NoApi
  <2> QED BY <2>1, <2>2
<1>2. CASE ExecEntry(t)
  <2>1. CASE Goto(t, "logic") /\ UNCHANGED <<rt, history>>
    <3>1. ThreadsOK'
      BY <2>1, <1>a, <1>e, GotoStep DEF ThreadPc
    <3> QED BY <1>2, <2>1, <3>1, ExecMoveType DEF ExecEntry, NoSched, NoApi
  <2>2. CASE ~(Goto(t, "logic") /\ UNCHANGED <<rt, history>>)
    <3> DEFINE x == [th[t] EXCEPT !.pc = "to_idle", !.how = "notice"]
    <3>1. th' = [th EXCEPT ![t] = x] /\ Update(n, ClearInflight(r))
      BY <1>2, <2>2 DEF ExecEntry
    <3>2. x \in Thread /\ x.node = n /\ x.item = th[t].item /\ x.pc = "to_idle"
      BY <1>b DEF Thread, ThreadPc, Hows
    <3> HIDE DEF x
    <3>3. ThreadsOK'
      BY <1>g, <3>1, <3>2
    <3> QED BY <1>2, <1>b, <1>f, <3>1, <3>3, ExecUpdateType
            DEF ExecEntry, NoSched, NoApi
  <2> QED BY <2>1, <2>2
<1>3. CASE ExecCancel(t)
  <2>1. ThreadsOK'
    BY <1>3, <1>a, <1>e, GotoStep DEF ExecCancel, ThreadPc
  <2> QED BY <1>3, <2>1, ExecMoveType DEF ExecCancel, store, NoSched, NoApi
<1>4. CASE ExecCancelFinish(t)
  BY <1>4, <1>a, <1>f, ExecStoreType DEF ExecCancelFinish, ThreadPc
<1>5. CASE ExecConsume(t)
  <2> DEFINE q == ConsumeMidTurnInputs(r)
  <2>1. q \in Runtime
    BY <1>c, ConsumeType
  <2>2. Remove(n, q)
        /\ UNCHANGED <<alive, th, spc, batch, runner, cl, requests, used>>
    BY <1>5 DEF ExecConsume, NoSched, NoApi
  <2> HIDE DEF q
  <2>3. requests' \in 0..MaxRequests
    BY <2>2, <1>e DEF HistoryOK
  <2> QED BY <1>b, <1>e, <2>1, <2>2, <2>3, RemoveStep, ThreadsSame,
             SchedulerSame, RunnerSame, ClientsSame DEF TypeOK
<1>6. CASE ExecSucceed(t)
  BY <1>6, <1>a, <1>f, ExecStoreType DEF ExecSucceed, ThreadPc
<1>7. CASE ExecFail(t)
  <2> DEFINE x == [th[t] EXCEPT
                     !.pc = IF r.stopReq THEN "end_return" ELSE "record",
                     !.how = IF r.stopReq THEN @ ELSE "failed"]
  <2>1. th' = [th EXCEPT ![t] = x]
    BY <1>7 DEF ExecFail
  <2>2. x \in Thread /\ x.node = n /\ x.item = th[t].item /\ x.pc # "propagate"
    BY <1>b DEF Thread, ThreadPc, Hows
  <2> HIDE DEF x
  <2>3. ThreadsOK'
    BY <1>g, <2>1, <2>2
  <2> QED BY <1>7, <1>b, <1>f, <2>3, ExecUpdateType DEF ExecFail, NoSched, NoApi
<1>8. CASE ExecEnd(t)
  <2>1. ThreadsOK'
    BY <1>8, <1>a, <1>e, GotoStep DEF ExecEnd, ThreadPc
  <2> QED BY <1>8, <2>1, ExecMoveType DEF ExecEnd, store, NoSched, NoApi
<1>9. CASE ExecAfter(t)
  BY <1>9, <1>a, <1>f, ExecStoreType DEF ExecAfter, ThreadPc
<1>10. CASE ExecRecordRead(t)
  <2>1. ThreadsOK'
    <3> DEFINE x == [th[t] EXCEPT !.pc = "write", !.snap = r]
    <3>1. th' = [th EXCEPT ![t] = x] \/ Goto(t, "clear")
      BY <1>10 DEF ExecRecordRead
    <3>2. x \in Thread /\ x.node = n /\ x.item = th[t].item /\ x.pc = "write"
      BY <1>b, <1>c DEF Thread, ThreadPc
    <3> HIDE DEF x
    <3> QED BY <1>g, <3>1, <3>2, <1>a, <1>e, GotoStep DEF ThreadPc
  <2> QED BY <1>10, <2>1, ExecMoveType DEF ExecRecordRead, store, NoSched, NoApi
<1>11. CASE ExecRecordWrite(t)
  <2> DEFINE q == RecordCompletion(th[t].snap, th[t].item.trace)
             x == [th[t] EXCEPT !.pc = "clear", !.snap = FreshRuntime]
  <2>1. q \in Runtime
    BY <1>b, RecordCompletionType
  <2>2. /\ WriteConfig(n, q) /\ th' = [th EXCEPT ![t] = x]
        /\ UNCHANGED <<spc, batch, runner, cl, requests, used>>
    BY <1>11 DEF ExecRecordWrite, NoSched, NoApi
  <2>3. x \in Thread /\ x.node = n /\ x.item = th[t].item /\ x.pc = "clear"
    BY <1>b, FreshRuntimeType DEF Thread, ThreadPc
  <2> HIDE DEF q, x
  <2>4. ThreadsOK'
    BY <1>g, <2>2, <2>3
  <2> QED BY <1>b, <1>e, <2>1, <2>2, <2>4, WriteConfigStep, SchedulerSame,
             RunnerSame, ClientsSame DEF TypeOK
<1>12. CASE ExecClear(t)
  BY <1>12, <1>a, <1>f, ExecStoreType DEF ExecClear, ThreadPc
<1>13. CASE ExecToIdle(t)
  BY <1>13, <1>a, <1>f, ExecStoreType DEF ExecToIdle, ThreadPc
<1>14. CASE ExecMemory(t)
  <2>1. ThreadsOK'
    BY <1>14, <1>a, <1>e, GotoStep DEF ExecMemory, ThreadPc
  <2> QED BY <1>14, <2>1, ExecMoveType DEF ExecMemory, store, NoSched, NoApi
<1>15. CASE ExecGoal(t)
  <2>1. ThreadsOK'
    <3> DEFINE x == [th[t] EXCEPT !.pc = "goal_write", !.snap = r]
    <3>1. \/ th' = [th EXCEPT ![t] = x]
          \/ Goto(t, "complete") \/ Goto(t, "return")
      BY <1>15 DEF ExecGoal
    <3>2. x \in Thread /\ x.node = n /\ x.item = th[t].item
          /\ x.pc = "goal_write"
      BY <1>b, <1>c DEF Thread, ThreadPc
    <3> HIDE DEF x
    <3> QED BY <1>g, <3>1, <3>2, <1>a, <1>e, GotoStep DEF ThreadPc
  <2> QED BY <1>15, <2>1, ExecMoveType DEF ExecGoal, store, NoSched, NoApi
<1>16. CASE ExecGoalWrite(t)
  <2> DEFINE x == [th[t] EXCEPT !.pc = "goal_next", !.snap = FreshRuntime]
  <2>1. /\ WriteConfig(n, th[t].snap) /\ th' = [th EXCEPT ![t] = x]
        /\ UNCHANGED <<spc, batch, runner, cl, requests, used>>
    BY <1>16 DEF ExecGoalWrite, NoSched, NoApi
  <2>2. x \in Thread /\ x.node = n /\ x.item = th[t].item /\ x.pc = "goal_next"
    BY <1>b, FreshRuntimeType DEF Thread, ThreadPc
  <2> HIDE DEF x
  <2>3. ThreadsOK'
    BY <1>g, <2>1, <2>2
  <2> QED BY <1>b, <1>e, <2>1, <2>3, WriteConfigStep, SchedulerSame,
             RunnerSame, ClientsSame DEF TypeOK
<1>17. CASE ExecGoalEnds(t)
  <2>1. ThreadsOK'
    BY <1>17, <1>a, <1>e, GotoStep DEF ExecGoalEnds, ThreadPc
  <2> QED BY <1>17, <2>1, ExecMoveType DEF ExecGoalEnds, store, NoSched, NoApi
<1>18. CASE ExecGoalContinue(t)
  <2> DEFINE it == [trace |-> th[t].item.trace, depth |-> th[t].item.depth + 1,
                    src |-> "goal_continuation"]
  <2>1. it \in Item
    BY <1>18, <1>b, MaxDepthAssumption DEF ExecGoalContinue, Item, Sources
  <2>2. ThreadsOK'
    BY <1>18, <1>a, <1>e, GotoStep DEF ExecGoalContinue, ThreadPc
  <2>3. UNCHANGED <<alive, cl, requests, used>>
    BY <1>18 DEF ExecGoalContinue, NoApi
  <2>4. \/ UNCHANGED <<rt, history, spc, batch, runner>>
        \/ Accept(n, it) /\ EnsureAndWakeOwn(t) /\ UNCHANGED batch
    BY <1>18 DEF ExecGoalContinue, NoSched
  <2> HIDE DEF it
  <2>5. requests' \in 0..MaxRequests /\ used' \subseteq Traces
    BY <2>3, <1>e DEF HistoryOK
  <2>6. CASE UNCHANGED <<rt, history, spc, batch, runner>>
    BY <2>2, <2>3, <2>6, ExecMoveType
  <2>7. CASE Accept(n, it) /\ EnsureAndWakeOwn(t) /\ UNCHANGED batch
    BY <1>b, <1>e, <2>1, <2>2, <2>3, <2>5, <2>7, AcceptStep,
       EnsureAndWakeOwnStep, ClientsSame DEF TypeOK
  <2> QED BY <2>4, <2>6, <2>7
<1>19. ASSUME NEW out \in SUBSET Nodes, ExecComplete(t, out) PROVE TypeOK'
  <2> DEFINE o == [trace |-> th[t].item.trace, depth |-> th[t].item.depth,
                   targets |-> out]
             x == [th[t] EXCEPT !.pc = "propagate", !.tasks = out]
             y == [th[t] EXCEPT !.pc = "return"]
  <2>1. out # {} => th[t].item.depth < MaxDepth
    BY <1>19 DEF ExecComplete
  <2>2. o.targets # {} => o \in Output
    BY <1>b, <2>1, MaxDepthAssumption DEF Item, Output
  <2>3. Update(n, CompleteWork(r, o))
        /\ UNCHANGED <<alive, spc, batch, runner, cl, requests, used>>
    BY <1>19 DEF ExecComplete, NoSched, NoApi
  <2>4. \/ th' = [th EXCEPT ![t] = y]
        \/ out # {} /\ th' = [th EXCEPT ![t] = x]
    BY <1>19 DEF ExecComplete
  <2>5. /\ x \in Thread /\ x.node = n /\ x.item = th[t].item
        /\ y \in Thread /\ y.node = n /\ y.item = th[t].item /\ y.pc = "return"
    BY <1>b DEF Thread, ThreadPc
  <2> HIDE DEF o, x, y
  <2>6. ThreadsOK'
    BY <1>g, <2>1, <2>4, <2>5
  <2>7. CompleteWork(r, o) \in Runtime
    BY <1>c, <2>2, CompleteWorkType
  <2> QED BY <1>b, <2>3, <2>6, <2>7, ExecUpdateType
<1>20. ASSUME NEW m \in Nodes, ExecPropagate(t, m) PROVE TypeOK'
  <2> DEFINE it == Propagated(th[t].item.trace, th[t].item.depth)
             x == [th[t] EXCEPT !.tasks = @ \ {m},
                     !.pc = IF th[t].tasks = {m} THEN "return" ELSE @]
  <2>1. th[t].item.depth < MaxDepth
    BY <1>20, <1>e DEF ExecPropagate, ThreadsOK
  <2>2. it \in Item
    BY <2>1, <1>b, MaxDepthAssumption DEF Propagated, Item, Sources
  <2>3. th' = [th EXCEPT ![t] = x]
    BY <1>20 DEF ExecPropagate
  <2>4. x \in Thread /\ x.node = n /\ x.item = th[t].item
    BY <1>b DEF Thread, ThreadPc
  <2>5. UNCHANGED <<alive, cl, requests, used>>
    BY <1>20 DEF ExecPropagate, NoApi
  <2>6. \/ UNCHANGED <<rt, history, spc, batch, runner>>
        \/ Accept(m, it) /\ EnsureAndWakeOwn(t) /\ UNCHANGED batch
    BY <1>20 DEF ExecPropagate, NoSched
  <2> HIDE DEF it, x
  <2>7. ThreadsOK'
    BY <1>g, <2>1, <2>3, <2>4
  <2>8. requests' \in 0..MaxRequests
    BY <2>5, <1>e DEF HistoryOK
  <2>9. CASE UNCHANGED <<rt, history, spc, batch, runner>>
    BY <2>5, <2>7, <2>9, ExecMoveType
  <2>10. CASE Accept(m, it) /\ EnsureAndWakeOwn(t) /\ UNCHANGED batch
    BY <1>e, <2>2, <2>5, <2>7, <2>8, <2>10, AcceptStep,
       EnsureAndWakeOwnStep, ClientsSame DEF TypeOK
  <2> QED BY <2>6, <2>9, <2>10
<1>21. CASE ExecReturn(t)
  <2>1. ThreadsOK'
    BY <1>21, <1>e, FreeThreadType, ThreadStep DEF ExecReturn, FreeThread
  <2>2. RunnerOK'
    BY <1>21, <1>b, <1>e DEF ExecReturn, RunnerOK
  <2>3. UNCHANGED <<rt, alive, spc, batch, history, cl, requests, used>>
    BY <1>21 DEF ExecReturn, NoApi
  <2>4. requests' \in 0..MaxRequests /\ used' \subseteq Traces
    BY <2>3, <1>e DEF HistoryOK
  <2> QED BY <1>e, <2>1, <2>2, <2>3, <2>4, StoreSame, SchedulerSame,
             ClientsSame, HistorySame DEF TypeOK
<1> QED BY <1>1, <1>2, <1>3, <1>4, <1>5, <1>6, <1>7, <1>8, <1>9, <1>10, <1>11,
           <1>12, <1>13, <1>14, <1>15, <1>16, <1>17, <1>18, <1>19, <1>20,
           <1>21 DEF Executor

\* A client step that changes neither the scheduler nor the executors, on the
\* record of one node.
LEMMA ClientUpdateType ==
  ASSUME TypeOK, ClientsOK', NEW n \in Nodes, NEW r \in Runtime,
         Update(n, r) \/ Remove(n, r), NoSched, NoExec,
         UNCHANGED <<alive, used>>, requests' \in 0..MaxRequests
  PROVE  TypeOK'
<1>1. StoreOK' /\ HistoryOK'
  BY UpdateStep, RemoveStep DEF TypeOK, StoreOK
<1> QED BY <1>1, SchedulerSame, RunnerSame, ThreadsSame
        DEF TypeOK, NoSched, NoExec

\* A client that accepts an item for one node.
LEMMA ClientAcceptType ==
  ASSUME TypeOK, ClientsOK', NEW n \in Nodes, NEW it \in Item,
         Accept(n, it), SchedulerOK', RunnerOK', NoExec,
         UNCHANGED <<alive, used>>, requests' \in 0..MaxRequests
  PROVE  TypeOK'
BY AcceptStep, ThreadsSame DEF TypeOK, NoExec

\* Setting the cancel events of the executors of one node.
LEMMA CancellationStep ==
  ASSUME ThreadsOK, NEW n, RequestCancellation(n)
  PROVE  ThreadsOK'
<1>1. ASSUME NEW t \in Threads
      PROVE  /\ th'[t] \in Thread /\ th'[t].pc = th[t].pc
             /\ th'[t].node = th[t].node /\ th'[t].item = th[t].item
  <2>1. th[t] \in Thread
    BY DEF ThreadsOK
  <2>2. th'[t] = th[t] \/ th'[t] = [th[t] EXCEPT !.cancelled = TRUE]
    BY DEF RequestCancellation
  <2> QED BY <2>1, <2>2 DEF Thread
<1>2. th' = [t \in Threads |-> th'[t]]
  BY DEF RequestCancellation
<1>3. th' \in [Threads -> Thread]
  BY <1>1, <1>2
<1> QED BY <1>1, <1>3 DEF ThreadsOK, Live

\* The requests of an API thread.
LEMMA ClientRequestType ==
  ASSUME TypeOK, NEW c \in Clients, ClientRequest(c)
  PROVE  TypeOK'
<1>a. StoreOK /\ HistoryOK /\ SchedulerOK /\ RunnerOK /\ ThreadsOK /\ ClientsOK
  BY DEF TypeOK
<1>b. PICK n \in Nodes :
        \/ \E tr \in Traces : Emit(c, n, tr)
        \/ \E key \in Keys, src \in Keyed : Enqueue(c, n, key, src)
        \/ Pop(c, n) \/ ResumeNode(c, n) \/ StopNode(c, n) \/ DeleteNode(c, n)
        \/ \E s \in {"stop", "working"} : SetState(c, n, s)
        \/ EditRead(c, n)
  BY DEF ClientRequest
<1> DEFINE r == rt[n]
<1>c. r \in Runtime
  BY <1>a, RecordType
<1>d. requests' \in 0..MaxRequests
  BY <1>a, <1>b, RequestType
     DEF Emit, Enqueue, Pop, ResumeNode, StopNode, DeleteNode, SetState, EditRead
<1>e. ASSUME NEW x \in Client, x.node = n,
             x.pc = "emit_append" => x.item # NoItem,
             x.pc = "resume_release" => x.outs # << >>,
             cl' = [cl EXCEPT ![c] = x]
      PROVE  ClientsOK'
  BY <1>a, <1>e, ClientStepType
<1>1. ASSUME NEW tr \in Traces, Emit(c, n, tr) PROVE TypeOK'
  <2> DEFINE it == [trace |-> tr, depth |-> 0, src |-> "emit"]
             x == [IdleClient EXCEPT !.pc = "emit_append", !.node = n,
                                     !.item = it]
  <2>1. it \in Item
    BY MaxDepthAssumption DEF Item, Sources
  <2>2. cl' = [cl EXCEPT ![c] = x] /\ used' \subseteq Traces
    BY <1>1, <1>a DEF Emit, HistoryOK
  <2>3. UNCHANGED <<rt, alive, spc, batch, runner, th, history>>
    BY <1>1 DEF Emit, store, NoSched, NoExec
  <2> HIDE DEF it
  <2>4. x \in Client /\ x.node = n /\ x.pc = "emit_append" /\ x.item = it
    BY <2>1, IdleClientType DEF IdleClient, Client, ClientPc
  <2> HIDE DEF x
  <2>5. ClientsOK'
    BY <1>e, <2>1, <2>2, <2>4, NoItemAssumption
  <2> QED BY <1>a, <1>d, <2>2, <2>3, <2>5, StoreSame, HistorySame,
             SchedulerSame, RunnerSame, ThreadsSame DEF TypeOK
<1>2. ASSUME NEW key \in Keys, NEW src \in Keyed, Enqueue(c, n, key, src)
      PROVE  TypeOK'
  <2> DEFINE it == [trace |-> key, depth |-> 0, src |-> src]
  <2>1. it \in Item
    BY MaxDepthAssumption, KeysAssumption DEF Item, Sources, Keyed
  <2>2. /\ Accept(n, it)
        /\ Reply(c) \/ Continue(c, n, "wake")
        /\ NoSched /\ NoExec /\ UNCHANGED <<alive, used>>
    BY <1>2 DEF Enqueue
  <2> HIDE DEF it
  <2>3. ClientsOK'
    BY <1>a, <2>2, ReplyStep, ContinueStep DEF ClientPc
  <2>4. SchedulerOK' /\ RunnerOK'
    BY <1>a, <2>2, SchedulerSame, RunnerSame DEF NoSched
  <2> QED BY <1>d, <2>1, <2>2, <2>3, <2>4, ClientAcceptType
<1>3. CASE Pop(c, n)
  BY <1>3, <1>a, <1>c, <1>d, PopPendingType, ClientsSame, ClientUpdateType
     DEF Pop
<1>4. CASE ResumeNode(c, n)
  <2> DEFINE p == IF Released(r) = << >> THEN "wake" ELSE "resume_release"
             x == [IdleClient EXCEPT !.pc = p, !.node = n, !.outs = Released(r)]
  <2>1. /\ Update(n, Resume(r)) /\ cl' = [cl EXCEPT ![c] = x]
        /\ NoSched /\ NoExec /\ UNCHANGED <<alive, used>>
    BY <1>4 DEF ResumeNode
  <2>2. Resume(r) \in Runtime /\ Released(r) \in Seq(Output)
    BY <1>c, ResumeType
  <2>3. x \in Client /\ x.node = n /\ x.outs = Released(r) /\ x.pc = p
    BY <2>2, IdleClientType DEF IdleClient, Client, ClientPc
  <2>4. ClientsOK'
    <3> HIDE DEF x
    <3> QED BY <1>e, <2>1, <2>3
  <2> QED BY <1>d, <2>1, <2>2, <2>4, ClientUpdateType
<1>5. CASE StopNode(c, n)
  <2>1. ClientsOK'
    BY <1>5, <1>a, ContinueStep DEF StopNode, ClientPc
  <2> QED BY <1>5, <1>c, <1>d, <2>1, CancelWorkType, ClientUpdateType DEF StopNode
<1>6. CASE DeleteNode(c, n)
  <2>1. ClientsOK'
    BY <1>6, <1>a, ContinueStep DEF DeleteNode, ClientPc
  <2> QED BY <1>6, <1>c, <1>d, <2>1, MarkDeleteRequestedType, ClientUpdateType
          DEF DeleteNode
<1>7. ASSUME NEW s \in {"stop", "working"}, SetState(c, n, s) PROVE TypeOK'
  BY <1>7, <1>a, <1>c, <1>d, UpdateStateType, ClientsSame, ClientUpdateType
     DEF SetState, NodeStates
<1>8. CASE EditRead(c, n)
  <2> DEFINE x == [IdleClient EXCEPT !.pc = "edit_write", !.node = n, !.snap = r]
  <2>1. /\ cl' = [cl EXCEPT ![c] = x]
        /\ UNCHANGED <<rt, alive, used, history, spc, batch, runner, th>>
    BY <1>8 DEF EditRead, NoSched, NoExec
  <2>2. x \in Client /\ x.node = n /\ x.pc = "edit_write"
    BY <1>c, IdleClientType DEF IdleClient, Client, ClientPc
  <2> HIDE DEF x
  <2>3. ClientsOK'
    BY <1>e, <2>1, <2>2
  <2>4. used' \subseteq Traces
    BY <1>a, <2>1 DEF HistoryOK
  <2> QED BY <1>a, <1>d, <2>1, <2>3, <2>4, StoreSame, HistorySame,
             SchedulerSame, RunnerSame, ThreadsSame DEF TypeOK
<1> QED BY <1>b, <1>1, <1>2, <1>3, <1>4, <1>5, <1>6, <1>7, <1>8

\* The steps that finish a request.
LEMMA ClientStepsType ==
  ASSUME TypeOK, NEW c \in Clients, ClientStep(c)
  PROVE  TypeOK'
<1> DEFINE n == cl[c].node
           r == rt[n]
<1>a. StoreOK /\ HistoryOK /\ SchedulerOK /\ RunnerOK /\ ThreadsOK /\ ClientsOK
  BY DEF TypeOK
<1>b. cl[c].pc # "none"
  BY DEF ClientStep, EmitAppend, ClientWake, StopRequest, DeleteRequest,
         ResumeRelease, DeleteArchive, DeleteRollback, DeleteClear, EditWrite
<1>c. n \in Nodes /\ cl[c] \in Client /\ r \in Runtime
  BY <1>a, <1>b, RecordType DEF ClientsOK
<1>d. requests \in 0..MaxRequests /\ used \subseteq Traces
  BY <1>a DEF HistoryOK
<1>1. CASE EmitAppend(c)
  <2>1. cl[c].item \in Item
    BY <1>1, <1>a, <1>c DEF EmitAppend, ClientsOK, Client
  <2>2. /\ Accept(n, cl[c].item)
        /\ Reply(c) \/ Continue(c, n, "wake")
        /\ NoSched /\ NoExec /\ UNCHANGED <<alive, requests, used>>
    BY <1>1 DEF EmitAppend
  <2>3. ClientsOK'
    BY <1>a, <1>c, <2>2, ReplyStep, ContinueStep DEF ClientPc
  <2>4. SchedulerOK' /\ RunnerOK'
    BY <1>a, <2>2, SchedulerSame, RunnerSame DEF NoSched
  <2> QED BY <1>c, <1>d, <2>1, <2>2, <2>3, <2>4, ClientAcceptType
<1>2. CASE ClientWake(c)
  <2>1. ClientsOK' /\ SchedulerOK' /\ RunnerOK'
    BY <1>2, <1>a, ReplyStep, EnsureAndWakeStep DEF ClientWake
  <2> QED BY <1>2, <1>a, <1>d, <2>1, StoreSame, HistorySame, ThreadsSame
          DEF ClientWake, NoExec, TypeOK
<1>3. CASE StopRequest(c)
  <2>1. ClientsOK' /\ ThreadsOK'
    BY <1>3, <1>a, ReplyStep, CancellationStep DEF StopRequest
  <2> QED BY <1>3, <1>a, <1>d, <2>1, StoreSame, HistorySame, SchedulerSame,
             RunnerSame DEF StopRequest, NoSched, TypeOK
<1>4. CASE DeleteRequest(c)
  <2>1. ClientsOK' /\ ThreadsOK'
    BY <1>4, <1>a, <1>c, ContinueStep, CancellationStep
       DEF DeleteRequest, ClientPc
  <2> QED BY <1>4, <1>a, <1>d, <2>1, StoreSame, HistorySame, SchedulerSame,
             RunnerSame DEF DeleteRequest, NoSched, TypeOK
<1>5. ASSUME NEW m \in Nodes, ResumeRelease(c, m) PROVE TypeOK'
  <2> DEFINE outs == cl[c].outs
             out  == Head(outs)
             cut  == [out EXCEPT !.targets = @ \ {m}]
             rest == IF out.targets = {m} THEN Tail(outs)
                     ELSE <<cut>> \o Tail(outs)
             it   == Propagated(out.trace, out.depth)
             x    == [cl[c] EXCEPT !.outs = rest,
                        !.pc = IF rest = << >> THEN "wake" ELSE @]
  <2>1. outs \in Seq(Output) /\ outs # << >> /\ m \in out.targets
        /\ cl[c].pc = "resume_release"
    BY <1>5, <1>a, <1>c DEF ResumeRelease, ClientsOK, Client
  <2>2. out \in Output /\ Tail(outs) \in Seq(Output)
    BY <2>1, HeadTailProperties
  <2>3. it \in Item
    BY <2>2, MaxDepthAssumption DEF Propagated, Output, Item, Sources
  <2>4. rest \in Seq(Output)
    <3>1. CASE out.targets = {m}
      BY <3>1, <2>2
    <3>2. CASE out.targets # {m}
      <4>1. cut \in Output
        BY <3>2, <2>1, <2>2 DEF Output
      <4> HIDE DEF cut, out, outs
      <4>2. <<cut>> \in Seq(Output)
        BY <4>1
      <4> QED BY <3>2, <2>2, <4>2, ConcatProperties
    <3> QED BY <3>1, <3>2
  <2>5. \/ Reply(c) /\ UNCHANGED <<rt, history>> /\ NoSched
        \/ /\ Accept(m, it) /\ cl' = [cl EXCEPT ![c] = x]
           /\ EnsureAndWake /\ UNCHANGED batch
    BY <1>5 DEF ResumeRelease
  <2>6. NoExec /\ UNCHANGED <<alive, requests, used>>
    BY <1>5 DEF ResumeRelease
  <2> HIDE DEF out, outs, it, rest
  <2>7. /\ x \in Client /\ x.node = n
        /\ x.pc = "resume_release" => x.outs # << >>
        /\ x.pc \in {"wake", "resume_release"}
    BY <1>c, <2>1, <2>4 DEF Client, ClientPc
  <2> HIDE DEF x
  <2>8. CASE Reply(c) /\ UNCHANGED <<rt, history>> /\ NoSched
    BY <1>a, <1>d, <2>6, <2>8, ReplyStep, StoreSame, HistorySame,
       SchedulerSame, RunnerSame, ThreadsSame DEF NoSched, NoExec, TypeOK
  <2>9. CASE /\ Accept(m, it) /\ cl' = [cl EXCEPT ![c] = x]
             /\ EnsureAndWake /\ UNCHANGED batch
    <3>1. ClientsOK'
      BY <1>a, <1>c, <2>7, <2>9, ClientStepType
    <3>2. SchedulerOK' /\ RunnerOK'
      BY <1>a, <2>9, EnsureAndWakeStep
    <3> QED BY <1>d, <2>3, <2>6, <2>9, <3>1, <3>2, ClientAcceptType
  <2> QED BY <2>5, <2>8, <2>9
<1>6. CASE DeleteArchive(c)
  <2>1. ClientsOK'
    BY <1>6, <1>a, <1>c, ReplyStep, ContinueStep DEF DeleteArchive, ClientPc
  <2>2. StoreOK'
    BY <1>6, <1>a DEF DeleteArchive, StoreOK
  <2> QED BY <1>6, <1>a, <1>d, <2>1, <2>2, HistorySame, SchedulerSame,
             RunnerSame, ThreadsSame DEF DeleteArchive, NoSched, NoExec, TypeOK
<1>7. CASE DeleteRollback(c)
  <2>1. ClientsOK'
    BY <1>7, <1>a, ReplyStep DEF DeleteRollback
  <2>2. alive' \subseteq Nodes
    BY <1>7, <1>a, <1>c DEF DeleteRollback, StoreOK
  <2>3. PICK q \in Runtime : Update(n, q)
    BY <1>7, <1>c, ClearDeleteRequestedType DEF DeleteRollback
  <2>4. NoSched /\ NoExec /\ UNCHANGED <<requests, used>>
    BY <1>7 DEF DeleteRollback
  <2>5. StoreOK' /\ HistoryOK'
    BY <1>a, <1>c, <1>d, <2>2, <2>3, <2>4, UpdateStep
  <2> QED BY <1>a, <2>1, <2>4, <2>5, SchedulerSame, RunnerSame, ThreadsSame
          DEF NoSched, NoExec, TypeOK
<1>8. CASE DeleteClear(c)
  BY <1>8, <1>a, <1>c, <1>d, ReplyStep, FreshRuntimeType, ClientUpdateType
     DEF DeleteClear
<1>9. CASE EditWrite(c)
  <2>1. cl[c].snap \in Runtime
    BY <1>c DEF Client
  <2>2. StoreOK' /\ HistoryOK'
    BY <1>9, <1>a, <1>c, <2>1, WriteConfigStep DEF EditWrite
  <2> QED BY <1>9, <1>a, <2>2, ReplyStep, SchedulerSame, RunnerSame, ThreadsSame
          DEF EditWrite, NoSched, NoExec, TypeOK
<1> QED BY <1>1, <1>2, <1>3, <1>4, <1>5, <1>6, <1>7, <1>8, <1>9 DEF ClientStep

\* The remaining steps: the status call, a blocked graph deletion, a restart.
LEMMA OtherType ==
  ASSUME TypeOK, StatusCleanup \/ GraphDeleteBlocked \/ Restart
  PROVE  TypeOK'
<1>a. requests \in 0..MaxRequests /\ used \subseteq Traces
  BY DEF TypeOK, HistoryOK
<1>1. CASE StatusCleanup
  BY <1>1, <1>a, StoreSame, HistorySame, SchedulerSame, ThreadsSame, ClientsSame
     DEF StatusCleanup, RunnerOK, TypeOK
<1>2. CASE GraphDeleteBlocked
  <2>1. requests' \in 0..MaxRequests
    BY <1>2, <1>a, MaxRequestsAssumption DEF GraphDeleteBlocked
  <2> QED BY <1>2, <1>a, <2>1, StoreSame, HistorySame, SchedulerSame,
             ThreadsSame, ClientsSame
          DEF GraphDeleteBlocked, RunnerOK, NoExec, TypeOK
<1>3. CASE Restart
  <2>1. StoreOK'
    BY <1>3, FreshRuntimeType DEF Restart, StoreOK, TypeOK
  <2>2. SchedulerOK' /\ RunnerOK'
    BY <1>3 DEF Restart, SchedulerOK, RunnerOK, SchedulerPc
  <2>3. ThreadsOK'
    BY <1>3, FreeThreadType DEF Restart, ThreadsOK, Live, FreeThread
  <2>4. ClientsOK'
    BY <1>3, IdleClientType DEF Restart, ClientsOK
  <2>5. HistoryOK'
    BY <1>3, MaxRequestsAssumption DEF Restart, HistoryOK, TypeOK
  <2> QED BY <2>1, <2>2, <2>3, <2>4, <2>5 DEF TypeOK
<1> QED BY <1>1, <1>2, <1>3

LEMMA InitType == Init => TypeOK
<1> SUFFICES ASSUME Init PROVE TypeOK
  OBVIOUS
<1>1. StoreOK
  BY FreshRuntimeType DEF Init, StoreOK
<1>2. SchedulerOK /\ RunnerOK
  BY DEF Init, SchedulerOK, RunnerOK, SchedulerPc
<1>3. ThreadsOK
  BY FreeThreadType DEF Init, ThreadsOK, Live, FreeThread
<1>4. ClientsOK
  BY IdleClientType DEF Init, ClientsOK
<1>5. HistoryOK
  BY MaxRequestsAssumption DEF Init, HistoryOK
<1> QED BY <1>1, <1>2, <1>3, <1>4, <1>5 DEF TypeOK

LEMMA StutterType == TypeOK /\ UNCHANGED vars => TypeOK'
BY StoreSame, HistorySame, SchedulerSame, RunnerSame, ThreadsSame, ClientsSame
   DEF TypeOK, HistoryOK, vars, batch, runner, history

LEMMA NextType == TypeOK /\ [Next]_vars => TypeOK'
BY SchedulerType, ExecutorType, ClientStepsType, ClientRequestType, OtherType,
   StutterType DEF Next

\* The state of the runner is well formed in every reachable state: whatever
\* the threads do, the store holds node records, the scheduler holds an item
\* when it submits one, a running executor has a node and an item, and a
\* request that releases held outputs has some left.
THEOREM TypeCorrect == Spec => []TypeOK
BY InitType, NextType, PTL DEF Spec

-----------------------------------------------------------------------------
(* Executors and tasks.  The invariant says why the scheduler's check that *)
(* no task of the node runs is still right when the task is submitted:     *)
(* between the two only the scheduler adds tasks, and a task in the table  *)
(* keeps its node until its future is done.                                *)

TasksAreLive == \A t \in active : Live(t)
CurUnclaimed == spc \in {"recover", "dequeue", "submit"}
                  => \A t \in active : th[t].node # cur
TaskInv == TypeOK /\ TasksAreLive /\ CurUnclaimed /\ OneTaskPerNode

\* With no runner ever stopped, the table names every live executor.
AllLiveAreTasks ==
  /\ ~runnerStop
  /\ \A t \in Threads : Live(t) => t \in active
  /\ spc = "dead" => active = {}

\* No executor starts, ends or changes its node.
SameTasks == \A u \in Threads : th'[u].node = th[u].node /\ (Live(u)' <=> Live(u))

\* The scheduler stands still, or a new runner replaces a dead one.
SameRunner ==
  \/ UNCHANGED <<spc, cur, runnerStop, active>>
  \/ spc = "dead" /\ spc' = "wait" /\ active' = {} /\ runnerStop' = FALSE

LEMMA SameTasksOnMove ==
  ASSUME ThreadsOK, NEW t \in Threads, Live(t), NEW x, x.pc # "free",
         x.node = th[t].node, th' = [th EXCEPT ![t] = x]
  PROVE  SameTasks
BY DEF ThreadsOK, SameTasks, Live

LEMMA SameTasksOnGoto ==
  ASSUME ThreadsOK, NEW t \in Threads, Live(t), NEW p, p # "free", Goto(t, p)
  PROVE  SameTasks
BY DEF ThreadsOK, Thread, SameTasks, Live, Goto

\* An executor step keeps tasks and runner, unless the executor returns.
LEMMA ExecutorKeeps ==
  ASSUME TypeOK, NEW t \in Threads, Executor(t)
  PROVE  (SameTasks /\ SameRunner) \/ ExecReturn(t)
<1> SUFFICES ASSUME ~ExecReturn(t) PROVE SameTasks /\ SameRunner
  OBVIOUS
<1>a. ThreadsOK /\ th[t] \in Thread
  BY DEF TypeOK, ThreadsOK
<1>1. SameRunner
  BY DEF Executor, SameRunner, NoSched, batch, runner, ExecStore,
         EnsureAndWakeOwn, NewRunner, ExecBegin, ExecEntry, ExecCancel,
         ExecCancelFinish, ExecConsume, ExecSucceed, ExecFail, ExecEnd,
         ExecAfter, ExecRecordRead, ExecRecordWrite, ExecClear, ExecToIdle,
         ExecMemory, ExecGoal, ExecGoalWrite, ExecGoalEnds, ExecGoalContinue,
         ExecComplete, ExecPropagate
<1>2. SameTasks
  <2>1. CASE ExecBegin(t)
    BY <2>1, <1>a DEF ExecBegin, ThreadsOK, Thread, SameTasks, Live
  <2>2. CASE ExecEntry(t)
    BY <2>2, <1>a DEF ExecEntry, Goto, ThreadsOK, Thread, SameTasks, Live
  <2>3. CASE ExecCancel(t) \/ ExecEnd(t) \/ ExecMemory(t) \/ ExecGoalEnds(t)
             \/ ExecGoalContinue(t)
    BY <2>3, <1>a, SameTasksOnGoto
       DEF ExecCancel, ExecEnd, ExecMemory, ExecGoalEnds, ExecGoalContinue, Live
  <2>4. CASE ExecCancelFinish(t) \/ ExecSucceed(t) \/ ExecAfter(t)
             \/ ExecClear(t) \/ ExecToIdle(t)
    BY <2>4, <1>a, SameTasksOnGoto
       DEF ExecCancelFinish, ExecSucceed, ExecAfter, ExecClear, ExecToIdle,
           ExecStore, Live
  <2>5. CASE ExecConsume(t)
    BY <2>5 DEF ExecConsume, SameTasks, Live
  <2>6. CASE ExecFail(t)
    BY <2>6, <1>a DEF ExecFail, ThreadsOK, Thread, SameTasks, Live
  <2>7. CASE ExecRecordRead(t) \/ ExecGoal(t)
    BY <2>7, <1>a
       DEF ExecRecordRead, ExecGoal, Goto, ThreadsOK, Thread, SameTasks, Live
  <2>8. CASE ExecRecordWrite(t) \/ ExecGoalWrite(t)
    BY <2>8, <1>a
       DEF ExecRecordWrite, ExecGoalWrite, ThreadsOK, Thread, SameTasks, Live
  <2>9. ASSUME NEW out \in SUBSET Nodes, ExecComplete(t, out) PROVE SameTasks
    BY <2>9, <1>a DEF ExecComplete, ThreadsOK, Thread, SameTasks, Live
  <2>10. ASSUME NEW m \in Nodes, ExecPropagate(t, m) PROVE SameTasks
    BY <2>10, <1>a DEF ExecPropagate, ThreadsOK, Thread, SameTasks, Live
  <2> QED BY <2>1, <2>2, <2>3, <2>4, <2>5, <2>6, <2>7, <2>8, <2>9, <2>10
          DEF Executor
<1> QED BY <1>1, <1>2

LEMMA CancellationKeeps ==
  ASSUME ThreadsOK, NEW n, RequestCancellation(n)
  PROVE  SameTasks
BY DEF RequestCancellation, ThreadsOK, Thread, SameTasks, Live

\* The API threads start and end no task.
LEMMA ClientKeeps ==
  ASSUME TypeOK, NEW c \in Clients, ClientStep(c) \/ ClientRequest(c)
  PROVE  SameTasks /\ SameRunner
<1>1. SameRunner
  <2>1. CASE ClientStep(c)
    BY <2>1 DEF ClientStep, SameRunner, NoSched, batch, runner, EnsureAndWake,
         NewRunner, EmitAppend, ClientWake, StopRequest, DeleteRequest,
         ResumeRelease, DeleteArchive, DeleteRollback, DeleteClear, EditWrite
  <2>2. CASE ClientRequest(c)
    BY <2>2 DEF ClientRequest, SameRunner, NoSched, batch, runner, Emit,
         Enqueue, Pop, SetState, ResumeNode, StopNode, DeleteNode, EditRead
  <2> QED BY <2>1, <2>2
<1>2. UNCHANGED th \/ RequestCancellation(cl[c].node)
  BY DEF ClientStep, ClientRequest, NoExec, EmitAppend, ClientWake,
         StopRequest, DeleteRequest, ResumeRelease, DeleteArchive,
         DeleteRollback, DeleteClear, EditWrite, Emit, Enqueue, Pop, SetState,
         ResumeNode, StopNode, DeleteNode, EditRead
<1>3. SameTasks
  BY <1>2, CancellationKeeps DEF TypeOK, SameTasks, Live
<1> QED BY <1>1, <1>3

\* A step that keeps tasks and runner keeps both invariants.
LEMMA KeepTasks ==
  ASSUME TaskInv, TypeOK', SameTasks, SameRunner
  PROVE  TaskInv' /\ (AllLiveAreTasks => AllLiveAreTasks')
<1>a. active \subseteq Threads
  BY DEF TaskInv, TypeOK, RunnerOK
<1>1. CASE UNCHANGED <<spc, cur, runnerStop, active>>
  BY <1>1, <1>a DEF TaskInv, TasksAreLive, CurUnclaimed, OneTaskPerNode,
                    SameTasks, AllLiveAreTasks
<1>2. CASE spc = "dead" /\ spc' = "wait" /\ active' = {} /\ runnerStop' = FALSE
  BY <1>2, <1>a DEF TaskInv, TasksAreLive, CurUnclaimed, OneTaskPerNode,
                    SameTasks, AllLiveAreTasks
<1> QED BY <1>1, <1>2 DEF SameRunner

\* The scheduler's own steps.
LEMMA SchedulerTasks ==
  ASSUME TaskInv, TypeOK', Scheduler
  PROVE  TaskInv' /\ (AllLiveAreTasks => AllLiveAreTasks')
<1> USE DEF TaskInv, TasksAreLive, CurUnclaimed, OneTaskPerNode, AllLiveAreTasks
<1>a. active \subseteq Threads /\ th \in [Threads -> Thread]
  BY DEF TypeOK, RunnerOK, ThreadsOK
<1>1. CASE SchedWait \/ SchedCleanup \/ SchedBatchEnd
  BY <1>1 DEF SchedWait, SchedCleanup, SchedBatchEnd, runner, Live
<1>2. CASE SchedExit
  BY <1>2 DEF SchedExit, runner, Live
<1>3. ASSUME NEW n \in Nodes, SchedVisit(n)
      PROVE  TaskInv' /\ (AllLiveAreTasks => AllLiveAreTasks')
  BY <1>3 DEF SchedVisit, runner, Live
<1>4. CASE SchedCheckActive
  BY <1>4 DEF SchedCheckActive, runner, Live
<1>5. CASE SchedRecover
  BY <1>5 DEF SchedRecover, runner, Live
<1>6. CASE SchedDequeue
  BY <1>6 DEF SchedDequeue, runner, Live
<1>7. CASE SchedSubmit
  <2>1. spc = "submit" /\ spc' = "scan" /\ UNCHANGED runnerStop
    BY <1>7 DEF SchedSubmit
  <2>2. \A t \in active : th[t].node # cur
    BY <2>1
  <2>3. CASE UNCHANGED <<th, active>>
    BY <2>1, <2>3 DEF Live
  <2>4. CASE ~UNCHANGED <<th, active>>
    <3>1. PICK t \in Threads :
            /\ ~Live(t) /\ active' = active \cup {t}
            /\ th' = [th EXCEPT ![t] = [FreeThread EXCEPT !.pc = "start",
                                          !.node = cur, !.item = picked]]
      BY <1>7, <2>4 DEF SchedSubmit
    <3>2. th'[t].pc = "start" /\ th'[t].node = cur
      BY <3>1, <1>a DEF FreeThread
    <3>3. \A u \in Threads \ {t} : th'[u] = th[u]
      BY <3>1, <1>a
    <3>4. t \notin active
      BY <3>1
    <3>5. TasksAreLive'
      BY <3>1, <3>2, <3>3, <3>4, <1>a DEF Live
    <3>6. OneTaskPerNode'
      BY <3>1, <3>2, <3>3, <3>4, <2>2, <1>a
    <3>7. AllLiveAreTasks => AllLiveAreTasks'
      BY <3>1, <3>2, <3>3, <2>1, <1>a DEF Live
    <3> QED BY <2>1, <3>5, <3>6, <3>7
  <2> QED BY <2>3, <2>4
<1> QED BY <1>1, <1>2, <1>3, <1>4, <1>5, <1>6, <1>7 DEF Scheduler

\* An executor that returns leaves the table as it leaves the threads.
LEMMA ReturnTasks ==
  ASSUME TaskInv, TypeOK', NEW t \in Threads, ExecReturn(t)
  PROVE  TaskInv' /\ (AllLiveAreTasks => AllLiveAreTasks')
<1>a. active \subseteq Threads /\ th \in [Threads -> Thread]
  BY DEF TaskInv, TypeOK, RunnerOK, ThreadsOK
<1>1. /\ active' = active \ {t} /\ UNCHANGED <<spc, cur, runnerStop>>
      /\ th' = [th EXCEPT ![t] = FreeThread]
  BY DEF ExecReturn, batch
<1>2. \A u \in Threads \ {t} : th'[u] = th[u]
  BY <1>1, <1>a
<1>3. ~Live(t)'
  BY <1>1, <1>a DEF Live, FreeThread
<1>4. TasksAreLive' /\ CurUnclaimed' /\ OneTaskPerNode'
  BY <1>1, <1>2, <1>a
     DEF TaskInv, TasksAreLive, CurUnclaimed, OneTaskPerNode, Live
<1>5. AllLiveAreTasks => AllLiveAreTasks'
  BY <1>1, <1>2, <1>3, <1>a DEF AllLiveAreTasks, Live
<1> QED BY <1>4, <1>5 DEF TaskInv

LEMMA OtherTasks ==
  ASSUME TaskInv, TypeOK', StatusCleanup \/ GraphDeleteBlocked \/ Restart
  PROVE  /\ TaskInv'
         /\ AllLiveAreTasks /\ "stop_runner" \notin Ops => AllLiveAreTasks'
<1>1. CASE StatusCleanup
  BY <1>1 DEF StatusCleanup, batch, TaskInv, TasksAreLive, CurUnclaimed,
              OneTaskPerNode, AllLiveAreTasks, Live
<1>2. CASE GraphDeleteBlocked
  BY <1>2 DEF GraphDeleteBlocked, NoExec, batch, TaskInv, TasksAreLive,
              CurUnclaimed, OneTaskPerNode, AllLiveAreTasks, Live
<1>3. CASE Restart
  BY <1>3 DEF Restart, FreeThread, TaskInv, TasksAreLive, CurUnclaimed,
              OneTaskPerNode, AllLiveAreTasks, Live
<1> QED BY <1>1, <1>2, <1>3

LEMMA TasksInductive ==
  ASSUME TaskInv, [Next]_vars
  PROVE  /\ TaskInv'
         /\ AllLiveAreTasks /\ "stop_runner" \notin Ops => AllLiveAreTasks'
<1>a. TypeOK /\ TypeOK'
  BY NextType DEF TaskInv
<1>1. CASE Scheduler
  BY <1>1, <1>a, SchedulerTasks
<1>2. ASSUME NEW t \in Threads, Executor(t)
      PROVE  TaskInv' /\ (AllLiveAreTasks => AllLiveAreTasks')
  BY <1>2, <1>a, ExecutorKeeps, KeepTasks, ReturnTasks
<1>3. ASSUME NEW c \in Clients, ClientStep(c) \/ ClientRequest(c)
      PROVE  TaskInv' /\ (AllLiveAreTasks => AllLiveAreTasks')
  BY <1>3, <1>a, ClientKeeps, KeepTasks
<1>4. CASE StatusCleanup \/ GraphDeleteBlocked \/ Restart
  BY <1>4, <1>a, OtherTasks
<1>5. CASE UNCHANGED vars
  <2>1. UNCHANGED <<th, spc, cur, runnerStop, active>>
    BY <1>5 DEF vars
  <2>2. SameTasks /\ SameRunner
    BY <2>1 DEF SameTasks, SameRunner, Live
  <2> QED BY <1>a, <2>2, KeepTasks
<1> QED BY <1>1, <1>2, <1>3, <1>4, <1>5 DEF Next

LEMMA InitTasks == Init => TaskInv /\ AllLiveAreTasks
BY InitType DEF Init, TaskInv, TasksAreLive, CurUnclaimed, OneTaskPerNode,
                AllLiveAreTasks, FreeThread, Live

\* One runner never runs two tasks of one node at once, whatever requests,
\* failures, stopped runners and restarts there are: the promise that
\* _run_scheduler_batch makes before it dequeues.
THEOREM OneTask == Spec => []OneTaskPerNode
<1>1. Init => TaskInv
  BY InitTasks
<1>2. TaskInv /\ [Next]_vars => TaskInv'
  BY TasksInductive
<1>3. TaskInv => OneTaskPerNode
  BY DEF TaskInv
<1> QED BY <1>1, <1>2, <1>3, PTL DEF Spec

\* As long as no blocked graph deletion stops a runner under its executors,
\* no two executors of the process work for one node: then the task table of
\* the only runner names them all.  (With a refused graph deletion
\* it is false: README, section 3.)
THEOREM Exclusive ==
  ASSUME "stop_runner" \notin Ops
  PROVE  Spec => []ExclusiveExecutor
<1> DEFINE Inv == TaskInv /\ AllLiveAreTasks
<1>1. Init => Inv
  BY InitTasks
<1>2. Inv /\ [Next]_vars => Inv'
  BY TasksInductive
<1>3. Inv => ExclusiveExecutor
  BY DEF TaskInv, AllLiveAreTasks, OneTaskPerNode, ExclusiveExecutor
<1> QED BY <1>1, <1>2, <1>3, PTL DEF Spec

-----------------------------------------------------------------------------
(* The executor and the inflight item of its node.  The control API never  *)
(* touches inflight, and the config transactions of an executor write back *)
(* the inflight they have read.  Left out are the requests after which it  *)
(* is false: a node deletion clears the record under an executor that is no *)
(* longer registered, saved settings bring back an old record, and a graph *)
(* deletion that gives up leaves executors behind that no runner knows.    *)

\* The steps after set_inflight(None) on which nothing was dequeued yet.
AfterClear == {"to_idle", "memory", "goal", "goal_write", "goal_next", "complete",
               "complete_empty"}

ThreadOwns(t) ==
  /\ th[t].pc \in AfterClear => rt[th[t].node].inflight = NoItem
  /\ th[t].pc = "goal_write" => th[t].snap.inflight = NoItem
  /\ "delete" \notin Ops =>
       /\ th[t].pc \in BeforeClear => rt[th[t].node].inflight = th[t].item
       /\ th[t].pc = "write" => th[t].snap.inflight = th[t].item

OwnInv ==
  /\ \A t \in Threads : ThreadOwns(t)
  /\ "delete" \notin Ops /\ spc = "submit" => rt[cur].inflight = picked
  /\ \A c \in Clients : /\ cl[c].pc # "edit_write"
                        /\ "delete" \notin Ops =>
                             cl[c].pc \notin {"delete_request", "delete_wait", "delete_clear"}

\* With the same executors at the same steps and each inflight as it was, or
\* cleared by a deletion, nothing changes hands.
SameExecutors ==
  \A u \in Threads : /\ th'[u].pc = th[u].pc /\ th'[u].node = th[u].node
                     /\ th'[u].item = th[u].item /\ th'[u].snap = th[u].snap

SameInflight ==
  \A n \in Nodes : \/ rt'[n].inflight = rt[n].inflight
                   \/ "delete" \in Ops /\ rt'[n].inflight = NoItem

LEMMA KeepOwns ==
  ASSUME TypeOK, OwnInv, SameExecutors, SameInflight
  PROVE  \A t \in Threads : ThreadOwns(t)'
<1> SUFFICES ASSUME NEW t \in Threads PROVE ThreadOwns(t)'
  OBVIOUS
<1>1. CASE th[t].pc = "free"
  BY <1>1 DEF SameExecutors, ThreadOwns, AfterClear, BeforeClear
<1>2. CASE th[t].pc # "free"
  <2>1. th[t].node \in Nodes /\ ThreadOwns(t)
    BY <1>2 DEF TypeOK, ThreadsOK, Live, OwnInv
  <2>2. \/ rt'[th[t].node].inflight = rt[th[t].node].inflight
        \/ "delete" \in Ops /\ rt'[th[t].node].inflight = NoItem
    BY <2>1 DEF SameInflight
  <2> QED BY <2>1, <2>2 DEF SameExecutors, ThreadOwns
<1> QED BY <1>1, <1>2

\* A store operation that keeps inflight.
LEMMA StoreKeepsInflight ==
  ASSUME TypeOK, NEW n \in Nodes, NEW r, Store(n, r),
         \/ r.inflight = rt[n].inflight
         \/ "delete" \in Ops /\ r.inflight = NoItem
  PROVE  SameInflight
BY DEF TypeOK, StoreOK, Store, SameInflight

LEMMA SameStoreInflight == UNCHANGED rt => SameInflight
BY DEF SameInflight

\* The requests and the steps that finish them.
LEMMA RequestInflight ==
  ASSUME TypeOK, NEW c \in Clients, ClientRequest(c)
  PROVE  SameInflight
<1>1. PICK n \in Nodes :
    \/ \E tr \in Traces : Emit(c, n, tr)
    \/ \E key \in Keys, src \in Keyed : Enqueue(c, n, key, src)
    \/ Pop(c, n) \/ ResumeNode(c, n) \/ StopNode(c, n) \/ DeleteNode(c, n)
    \/ \E s \in {"stop", "working"} : SetState(c, n, s)
    \/ EditRead(c, n)
  BY DEF ClientRequest
<1>2. rt[n] \in Runtime
  BY RecordType DEF TypeOK
<1>3. \/ UNCHANGED rt
      \/ \E r : Store(n, r) /\ r.inflight = rt[n].inflight
  <2>1. CASE \E tr \in Traces : Emit(c, n, tr)
    BY <2>1 DEF Emit, store
  <2>2. CASE \E key \in Keys, src \in Keyed : Enqueue(c, n, key, src)
    BY <2>2, <1>2, InflightKept DEF Enqueue, Accept
  <2>3. CASE Pop(c, n)
    BY <2>3, <1>2, InflightKept DEF Pop, Remove
  <2>4. CASE ResumeNode(c, n)
    BY <2>4, <1>2, InflightKept DEF ResumeNode, Update
  <2>5. CASE StopNode(c, n)
    BY <2>5, <1>2, InflightKept DEF StopNode, Remove
  <2>6. CASE DeleteNode(c, n)
    BY <2>6, <1>2, InflightKept DEF DeleteNode, Remove
  <2>7. CASE \E s \in {"stop", "working"} : SetState(c, n, s)
    BY <2>7, <1>2, InflightKept DEF SetState, Update
  <2>8. CASE EditRead(c, n)
    BY <2>8 DEF EditRead
  <2> QED BY <1>1, <2>1, <2>2, <2>3, <2>4, <2>5, <2>6, <2>7, <2>8
<1> QED BY <1>3, StoreKeepsInflight, SameStoreInflight

LEMMA ClientStepInflight ==
  ASSUME TypeOK, OwnInv, NEW c \in Clients, ClientStep(c)
  PROVE  SameInflight
<1>1. cl[c].pc # "none" => cl[c].node \in Nodes
  BY DEF TypeOK, ClientsOK
<1>2. \A n \in Nodes : rt[n] \in Runtime
  BY RecordType DEF TypeOK
<1>3. /\ cl[c].pc # "edit_write"
      /\ "delete" \notin Ops => cl[c].pc # "delete_clear"
  BY DEF OwnInv
<1>4. CASE EmitAppend(c)
  BY <1>1, <1>2, <1>4, InflightKept, StoreKeepsInflight DEF EmitAppend, Accept
<1>5. CASE ClientWake(c) \/ StopRequest(c) \/ DeleteRequest(c) \/ DeleteArchive(c)
  BY <1>5, SameStoreInflight DEF ClientWake, StopRequest, DeleteRequest, DeleteArchive
<1>6. ASSUME NEW m \in Nodes, ResumeRelease(c, m) PROVE SameInflight
  BY <1>2, <1>6, InflightKept, StoreKeepsInflight, SameStoreInflight
     DEF ResumeRelease, Accept
<1>7. CASE DeleteRollback(c)
  <2>1. cl[c].node \in Nodes
    BY <1>1, <1>7 DEF DeleteRollback
  <2>2. \E r : Store(cl[c].node, r) /\ r.inflight = rt[cl[c].node].inflight
    BY <1>2, <1>7, <2>1, InflightKept DEF DeleteRollback, Update
  <2> QED BY <2>1, <2>2, StoreKeepsInflight
<1>8. CASE DeleteClear(c)
  <2>1. cl[c].node \in Nodes /\ "delete" \in Ops /\ Store(cl[c].node, FreshRuntime)
    BY <1>1, <1>3, <1>8 DEF DeleteClear, Remove
  <2>2. FreshRuntime.inflight = NoItem
    BY DEF FreshRuntime
  <2> QED BY <2>1, <2>2, StoreKeepsInflight
<1>9. ~EditWrite(c)
  BY <1>3 DEF EditWrite
<1> QED BY <1>4, <1>5, <1>6, <1>7, <1>8, <1>9 DEF ClientStep

\* What the API threads do to the rest.
LEMMA CancellationExecutors ==
  ASSUME TypeOK, NEW n, RequestCancellation(n)
  PROVE  SameExecutors
BY DEF RequestCancellation, TypeOK, ThreadsOK, Thread, SameExecutors

LEMMA ClientOwn ==
  ASSUME TypeOK, OwnInv, "edit" \notin Ops, NEW c \in Clients,
         ClientStep(c) \/ ClientRequest(c)
  PROVE  OwnInv'
<1>1. SameInflight
  BY RequestInflight, ClientStepInflight
<1>2. UNCHANGED th \/ RequestCancellation(cl[c].node)
  BY DEF ClientStep, ClientRequest, NoExec, EmitAppend, ClientWake,
         StopRequest, DeleteRequest, ResumeRelease, DeleteArchive,
         DeleteRollback, DeleteClear, EditWrite, Emit, Enqueue, Pop, SetState,
         ResumeNode, StopNode, DeleteNode, EditRead
<1>3. SameExecutors
  BY <1>2, CancellationExecutors DEF SameExecutors
<1>4. SameRunner /\ picked' = picked
  <2>1. picked' = picked
    BY DEF ClientStep, ClientRequest, NoSched, batch, EmitAppend, ClientWake,
         StopRequest, DeleteRequest, ResumeRelease, DeleteArchive,
         DeleteRollback, DeleteClear, EditWrite, Emit, Enqueue, Pop, SetState,
         ResumeNode, StopNode, DeleteNode, EditRead
  <2> QED BY <2>1, ClientKeeps
<1>5. "delete" \notin Ops /\ spc' = "submit" => rt'[cur'].inflight = picked'
  BY <1>1, <1>4 DEF SameRunner, SameInflight, OwnInv, TypeOK, SchedulerOK
<1>6. /\ \A d \in Clients \ {c} : cl'[d] = cl[d]
      /\ cl'[c].pc # "edit_write"
      /\ "delete" \notin Ops =>
           cl'[c].pc \notin {"delete_request", "delete_wait", "delete_clear"}
  <2>1. cl \in [Clients -> Client] /\ cl[c].pc # "edit_write"
    BY DEF TypeOK, ClientsOK, OwnInv
  <2>2. "delete" \notin Ops => cl[c].pc \notin {"delete_request", "delete_wait", "delete_clear"}
    BY DEF OwnInv
  <2> DEFINE Moved(S) == /\ \A d \in Clients \ {c} : cl'[d] = cl[d]
                         /\ cl'[c].pc \in S
  <2>3. \A n, p : Continue(c, n, p) => Moved({p})
    BY <2>1 DEF Continue, IdleClient
  <2>4. Reply(c) => Moved({"none"})
    BY <2>1 DEF Reply, IdleClient
  <2>5. CASE ClientStep(c)
    <3>1. CASE EmitAppend(c) \/ ClientWake(c) \/ StopRequest(c) \/ DeleteRollback(c)
               \/ DeleteClear(c) \/ EditWrite(c)
      <4>1. Moved({"none", "wake"})
        BY <2>3, <2>4, <3>1 DEF EmitAppend, ClientWake, StopRequest, DeleteRollback,
                                DeleteClear, EditWrite
      <4> QED BY <4>1
    <3>2. ASSUME NEW m \in Nodes, ResumeRelease(c, m)
          PROVE  Moved({"none", "wake", "resume_release"})
      <4>1. CASE Reply(c)
        BY <2>4, <4>1
      <4>2. CASE ~Reply(c)
        BY <2>1, <3>2, <4>2 DEF ResumeRelease, Client
      <4> QED BY <4>1, <4>2
    <3>3. CASE DeleteRequest(c) \/ DeleteArchive(c)
      <4>1. "delete" \in Ops /\ Moved({"none", "delete_wait", "delete_clear"})
        BY <2>2, <2>3, <2>4, <3>3 DEF DeleteRequest, DeleteArchive
      <4> QED BY <4>1
    <3> QED BY <2>5, <3>1, <3>2, <3>3 DEF ClientStep
  <2>6. CASE ClientRequest(c)
    <3>1. PICK n \in Nodes :
        \/ \E tr \in Traces : Emit(c, n, tr)
        \/ \E key \in Keys, src \in Keyed : Enqueue(c, n, key, src)
        \/ Pop(c, n) \/ ResumeNode(c, n) \/ StopNode(c, n) \/ DeleteNode(c, n)
        \/ \E s \in {"stop", "working"} : SetState(c, n, s)
        \/ EditRead(c, n)
      BY <2>6 DEF ClientRequest
    <3>2. CASE \E tr \in Traces : Emit(c, n, tr)
      BY <2>1, <3>2 DEF Emit, IdleClient
    <3>3. CASE \E key \in Keys, src \in Keyed : Enqueue(c, n, key, src)
      <4>1. Moved({"none", "wake"})
        BY <2>3, <2>4, <3>3 DEF Enqueue
      <4> QED BY <4>1
    <3>4. CASE Pop(c, n) \/ \E s \in {"stop", "working"} : SetState(c, n, s)
      <4>1. cl' = cl
        BY <3>4 DEF Pop, SetState
      <4> QED BY <2>1, <2>2, <4>1
    <3>5. CASE ResumeNode(c, n)
      BY <2>1, <3>5 DEF ResumeNode, IdleClient
    <3>6. CASE StopNode(c, n)
      BY <2>3, <3>6 DEF StopNode
    <3>7. CASE DeleteNode(c, n)
      <4>1. "delete" \in Ops /\ Moved({"delete_request"})
        BY <2>3, <3>7 DEF DeleteNode, Request
      <4> QED BY <4>1
    <3>8. ~EditRead(c, n)
      BY DEF EditRead, Request
    <3> QED BY <3>1, <3>2, <3>3, <3>4, <3>5, <3>6, <3>7, <3>8
  <2> QED BY <2>5, <2>6
<1>7. \A d \in Clients : /\ cl'[d].pc # "edit_write"
                         /\ "delete" \notin Ops =>
                              cl'[d].pc \notin {"delete_request", "delete_wait", "delete_clear"}
  BY <1>6 DEF OwnInv
<1> QED BY <1>1, <1>3, <1>5, <1>7, KeepOwns DEF OwnInv

\* The scheduler.  It dequeues for a node without an executor, and what it
\* submits is what it has dequeued.
LEMMA SchedulerOwn ==
  ASSUME TaskInv, AllLiveAreTasks, OwnInv, Scheduler
  PROVE  OwnInv'
<1>a. TypeOK /\ rt \in [Nodes -> Runtime] /\ th \in [Threads -> Thread]
  BY DEF TaskInv, TypeOK, StoreOK, ThreadsOK
<1>b. UNCHANGED cl
  BY DEF Scheduler, SchedWait, SchedExit, SchedCleanup, SchedBatchEnd, SchedVisit,
         SchedCheckActive, SchedRecover, SchedDequeue, SchedSubmit
<1>1. CASE /\ UNCHANGED <<rt, th>> /\ spc' # "submit"
  <2>1. SameExecutors /\ SameInflight
    BY <1>1 DEF SameExecutors, SameInflight
  <2> QED BY <1>a, <1>b, <1>1, <2>1, KeepOwns DEF OwnInv
<1>2. CASE SchedRecover
  <2>1. spc = "recover" /\ UNCHANGED th /\ spc' # "submit" /\ Store(cur, RecoverStaleWorking(rt[cur]))
    BY <1>2 DEF SchedRecover, Update
  <2>2. cur \in Nodes
    BY <1>a, <2>1 DEF TypeOK, SchedulerOK
  <2>3. SameExecutors /\ SameInflight
    BY <1>a, <2>1, <2>2, InflightKept, StoreKeepsInflight DEF SameExecutors
  <2> QED BY <1>a, <1>b, <2>1, <2>3, KeepOwns DEF OwnInv
<1>3. CASE SchedDequeue /\ spc' = "submit"
  <2> DEFINE r == DequeueToWorking(rt[cur])
  <2>1. /\ spc = "dequeue" /\ UNCHANGED th /\ cur' = cur /\ picked' = r.inflight
        /\ rt' = [rt EXCEPT ![cur] = r]
    BY <1>3 DEF SchedDequeue, Store
  <2>2. cur \in Nodes
    BY <1>a, <2>1 DEF TypeOK, SchedulerOK
  <2> HIDE DEF r
  <2>3. rt'[cur] = r /\ \A n \in Nodes \ {cur} : rt'[n] = rt[n]
    BY <1>a, <2>1, <2>2
  <2>4. \A t \in Threads : Live(t) => th[t].node \in Nodes \ {cur}
    BY <1>a, <2>1 DEF AllLiveAreTasks, TaskInv, CurUnclaimed, TypeOK, ThreadsOK
  <2>5. ASSUME NEW t \in Threads PROVE ThreadOwns(t)'
    <3>1. CASE ~Live(t)
      BY <2>1, <3>1 DEF Live, ThreadOwns, AfterClear, BeforeClear
    <3>2. CASE Live(t)
      <4>1. rt'[th[t].node] = rt[th[t].node] /\ th'[t] = th[t] /\ ThreadOwns(t)
        BY <2>1, <2>3, <2>4, <3>2 DEF OwnInv
      <4> QED BY <4>1 DEF ThreadOwns
    <3> QED BY <3>1, <3>2
  <2> QED BY <1>b, <2>1, <2>3, <2>5 DEF OwnInv
<1>4. CASE SchedSubmit
  <2>1. spc = "submit" /\ spc' = "scan" /\ UNCHANGED rt /\ cur \in Nodes
    BY <1>4, <1>a DEF SchedSubmit, TypeOK, SchedulerOK
  <2>2. CASE UNCHANGED th
    BY <1>1, <2>1, <2>2
  <2>3. CASE ~UNCHANGED th
    <3>1. PICK t \in Threads :
            th' = [th EXCEPT ![t] = [FreeThread EXCEPT !.pc = "start",
                                       !.node = cur, !.item = picked]]
      BY <1>4, <2>3 DEF SchedSubmit
    <3>2. /\ th'[t].pc = "start" /\ th'[t].node = cur /\ th'[t].item = picked
          /\ \A u \in Threads \ {t} : th'[u] = th[u]
      BY <1>a, <3>1 DEF FreeThread
    <3>3. ThreadOwns(t)'
      BY <2>1, <3>2 DEF ThreadOwns, AfterClear, OwnInv
    <3>4. \A u \in Threads \ {t} : ThreadOwns(u)'
      BY <2>1, <3>2 DEF ThreadOwns, OwnInv
    <3> QED BY <1>b, <2>1, <3>3, <3>4 DEF OwnInv
  <2> QED BY <2>2, <2>3
<1>5. \/ UNCHANGED <<rt, th>> /\ spc' # "submit"
      \/ SchedRecover \/ (SchedDequeue /\ spc' = "submit") \/ SchedSubmit
  BY DEF Scheduler, SchedWait, SchedExit, SchedCleanup, SchedBatchEnd, SchedVisit,
         SchedCheckActive, SchedDequeue
<1> QED BY <1>1, <1>2, <1>3, <1>4, <1>5

\* An executor: its own step is all that its node sees.
OthersAlone(t) ==
  /\ \A u \in Threads \ {t} : th'[u] = th[u]
  /\ \A n \in Nodes \ {th[t].node} : rt'[n].inflight = rt[n].inflight

LEMMA OwnStep ==
  ASSUME TaskInv, AllLiveAreTasks, OwnInv, NEW t \in Threads, Live(t),
         OthersAlone(t), ThreadOwns(t)', UNCHANGED <<cl, picked>>,
         \/ UNCHANGED <<spc, cur>>
         \/ spc' # "submit"
  PROVE  OwnInv'
<1>1. t \in active /\ \A u \in Threads : Live(u) => u \in active /\ th[u].node \in Nodes
  BY DEF AllLiveAreTasks, TaskInv, TypeOK, ThreadsOK
<1>2. ASSUME NEW u \in Threads \ {t} PROVE ThreadOwns(u)'
  <2>1. th'[u] = th[u] /\ ThreadOwns(u)
    BY DEF OthersAlone, OwnInv
  <2>2. CASE ~Live(u)
    BY <2>1, <2>2 DEF Live, ThreadOwns, AfterClear, BeforeClear
  <2>3. CASE Live(u)
    <3>1. th[u].node \in Nodes \ {th[t].node}
      BY <1>1, <2>3 DEF TaskInv, OneTaskPerNode
    <3>2. rt'[th[u].node].inflight = rt[th[u].node].inflight
      BY <3>1 DEF OthersAlone
    <3> QED BY <2>1, <3>2 DEF ThreadOwns
  <2> QED BY <2>2, <2>3
<1>3. "delete" \notin Ops /\ spc' = "submit" => rt'[cur'].inflight = picked'
  <2> SUFFICES ASSUME "delete" \notin Ops, spc' = "submit"
               PROVE  rt'[cur'].inflight = picked'
    OBVIOUS
  <2>1. UNCHANGED <<spc, cur>> /\ cur \in Nodes /\ th[t].node # cur
    BY <1>1 DEF TaskInv, CurUnclaimed, TypeOK, SchedulerOK
  <2> QED BY <2>1 DEF OthersAlone, OwnInv
<1> QED BY <1>2, <1>3 DEF OwnInv

\* The ways an executor step is put together.
Moves(t, p) ==
  /\ th'[t].pc = p /\ th'[t].node = th[t].node /\ th'[t].item = th[t].item
  /\ \A u \in Threads \ {t} : th'[u] = th[u]

Writes(n, r) == rt'[n] = r /\ \A m \in Nodes \ {n} : rt'[m] = rt[m]

LEMMA GotoMoves ==
  ASSUME TypeOK, NEW t \in Threads, NEW p, Goto(t, p)
  PROVE  Moves(t, p) /\ th'[t].snap = th[t].snap
BY DEF TypeOK, ThreadsOK, Thread, Goto, Moves

LEMMA StoreWrites ==
  ASSUME TypeOK, NEW n \in Nodes, NEW r, Store(n, r)
  PROVE  Writes(n, r)
BY DEF TypeOK, StoreOK, Store, Writes

LEMMA WritesAlone ==
  ASSUME NEW t, NEW p, Moves(t, p),
         UNCHANGED rt \/ \E r : Writes(th[t].node, r)
  PROVE  OthersAlone(t)
BY DEF Moves, Writes, OthersAlone

\* Steps that end the work on the item or have ended it before.
LEMMA OwnsNothing ==
  ASSUME NEW t, th'[t].pc \in {"end_return", "return", "propagate", "free"}
  PROVE  ThreadOwns(t)'
BY DEF ThreadOwns, AfterClear, BeforeClear

\* The steps up to set_inflight(None).
LEMMA EarlyOwn ==
  ASSUME TypeOK, NEW t \in Threads, Live(t), ThreadOwns(t),
         \/ ExecBegin(t) \/ ExecEntry(t) \/ ExecCancel(t) \/ ExecCancelFinish(t)
         \/ ExecConsume(t) \/ ExecSucceed(t) \/ ExecFail(t) \/ ExecEnd(t)
         \/ ExecAfter(t) \/ ExecRecordRead(t) \/ ExecRecordWrite(t) \/ ExecClear(t)
  PROVE  OthersAlone(t) /\ ThreadOwns(t)'
<1> DEFINE n == th[t].node
           r == rt[n]
<1>a. n \in Nodes /\ r \in Runtime /\ th \in [Threads -> Thread] /\ th[t].snap \in Runtime
  BY LiveThread, RecordType DEF TypeOK, ThreadsOK
<1>b. FinishStopRequested(r) = r \/ r.stopReq
  BY DEF FinishStopRequested
<1>1. CASE ExecBegin(t)
  <2>1. CASE n \in UntypedNodes
    <3>1. Moves(t, "to_idle") /\ Writes(n, ClearInflight(r))
      BY <1>a, <1>1, <2>1, StoreWrites DEF ExecBegin, Update, Moves, Thread
    <3>2. ClearInflight(r).inflight = NoItem
      BY <1>a, InflightKept
    <3> QED BY <3>1, <3>2, WritesAlone DEF Moves, Writes, ThreadOwns, BeforeClear
  <2>2. CASE n \notin UntypedNodes
    <3>1. Moves(t, "entry") /\ th[t].pc = "start" /\ UNCHANGED rt
      BY <1>a, <1>1, <2>2 DEF ExecBegin, Moves, Thread
    <3> QED BY <3>1, WritesAlone DEF Moves, ThreadOwns, BeforeClear, AfterClear
  <2> QED BY <2>1, <2>2
<1>2. CASE ExecEntry(t)
  <2>1. \/ Goto(t, "logic") /\ UNCHANGED rt
        \/ /\ Update(n, ClearInflight(r))
           /\ th' = [th EXCEPT ![t].pc = "to_idle", ![t].how = "notice"]
    BY <1>2 DEF ExecEntry
  <2>2. CASE Goto(t, "logic") /\ UNCHANGED rt
    <3>1. Moves(t, "logic") /\ th[t].pc = "entry"
      BY <1>2, <2>2, GotoMoves DEF ExecEntry
    <3> QED BY <2>2, <3>1, WritesAlone DEF Moves, ThreadOwns, BeforeClear, AfterClear
  <2>3. CASE /\ Update(n, ClearInflight(r))
             /\ th' = [th EXCEPT ![t].pc = "to_idle", ![t].how = "notice"]
    <3>1. Moves(t, "to_idle") /\ Writes(n, ClearInflight(r))
      BY <1>a, <2>3, StoreWrites DEF Update, Moves, Thread
    <3>2. ClearInflight(r).inflight = NoItem
      BY <1>a, InflightKept
    <3> QED BY <3>1, <3>2, WritesAlone DEF Moves, Writes, ThreadOwns, BeforeClear
  <2> QED BY <2>1, <2>2, <2>3
<1>3. CASE ExecCancel(t)
  <2>1. Moves(t, "cancelling") /\ th[t].pc \in {"entry", "logic"} /\ UNCHANGED rt
    BY <1>3, GotoMoves DEF ExecCancel, store
  <2> QED BY <2>1, WritesAlone DEF Moves, ThreadOwns, BeforeClear, AfterClear
<1>4. CASE ExecCancelFinish(t)
  <2>1. Moves(t, "end_return") /\ Writes(n, FinishStopRequested(r))
    BY <1>a, <1>4, GotoMoves, StoreWrites DEF ExecCancelFinish, ExecStore, Update
  <2> QED BY <2>1, WritesAlone, OwnsNothing DEF Moves
<1>5. CASE ExecConsume(t)
  <2>1. UNCHANGED th /\ Writes(n, ConsumeMidTurnInputs(r))
    BY <1>a, <1>5, StoreWrites DEF ExecConsume, Remove
  <2>2. ConsumeMidTurnInputs(r).inflight = r.inflight
    BY <1>a, InflightKept
  <2> QED BY <2>1, <2>2 DEF OthersAlone, Writes, ThreadOwns
<1>6. CASE ExecSucceed(t)
  <2>1. /\ Moves(t, IF r.stopReq THEN "end_return" ELSE "end_ok")
        /\ Writes(n, FinishStopRequested(r)) /\ th[t].pc = "logic"
    BY <1>a, <1>6, GotoMoves, StoreWrites DEF ExecSucceed, ExecStore, Update
  <2>2. CASE r.stopReq
    BY <2>1, <2>2, WritesAlone, OwnsNothing DEF Moves
  <2>3. CASE ~r.stopReq
    BY <1>b, <2>1, <2>3, WritesAlone DEF Moves, Writes, ThreadOwns, BeforeClear, AfterClear
  <2> QED BY <2>2, <2>3
<1>7. CASE ExecFail(t)
  <2>1. /\ Moves(t, IF r.stopReq THEN "end_return" ELSE "record")
        /\ Writes(n, FinishStopRequested(r)) /\ th[t].pc = "logic"
    BY <1>a, <1>7, StoreWrites DEF ExecFail, Update, Moves, Thread
  <2>2. CASE r.stopReq
    BY <2>1, <2>2, WritesAlone, OwnsNothing DEF Moves
  <2>3. CASE ~r.stopReq
    BY <1>b, <2>1, <2>3, WritesAlone DEF Moves, Writes, ThreadOwns, BeforeClear, AfterClear
  <2> QED BY <2>2, <2>3
<1>8. CASE ExecEnd(t)
  <2>1. /\ UNCHANGED rt
        /\ \/ Moves(t, "after") /\ th[t].pc = "end_ok"
           \/ Moves(t, "return")
    BY <1>8, GotoMoves DEF ExecEnd, store
  <2> QED BY <2>1, WritesAlone, OwnsNothing DEF Moves, ThreadOwns, BeforeClear, AfterClear
<1>9. CASE ExecAfter(t)
  <2>1. /\ Moves(t, IF r.stopReq THEN "return" ELSE "record")
        /\ Writes(n, FinishStopRequested(r)) /\ th[t].pc = "after"
    BY <1>a, <1>9, GotoMoves, StoreWrites DEF ExecAfter, ExecStore, Update
  <2>2. CASE r.stopReq
    BY <2>1, <2>2, WritesAlone, OwnsNothing DEF Moves
  <2>3. CASE ~r.stopReq
    BY <1>b, <2>1, <2>3, WritesAlone DEF Moves, Writes, ThreadOwns, BeforeClear, AfterClear
  <2> QED BY <2>2, <2>3
<1>10. CASE ExecRecordRead(t)
  <2>1. UNCHANGED rt /\ th[t].pc = "record"
    BY <1>10 DEF ExecRecordRead, store
  <2>2. CASE Goto(t, "clear")
    BY <2>1, <2>2, GotoMoves, WritesAlone DEF Moves, ThreadOwns, BeforeClear, AfterClear
  <2>3. CASE ~Goto(t, "clear")
    <3>1. Moves(t, "write") /\ th'[t].snap = r
      BY <1>a, <1>10, <2>3 DEF ExecRecordRead, Moves, Thread
    <3> QED BY <2>1, <3>1, WritesAlone DEF Moves, ThreadOwns, BeforeClear, AfterClear
  <2> QED BY <2>2, <2>3
<1>11. CASE ExecRecordWrite(t)
  <2>1. /\ Moves(t, "clear") /\ th[t].pc = "write"
        /\ Writes(n, RecordCompletion(th[t].snap, th[t].item.trace))
    BY <1>a, <1>11, StoreWrites DEF ExecRecordWrite, WriteConfig, Moves, Thread
  <2>2. RecordCompletion(th[t].snap, th[t].item.trace).inflight = th[t].snap.inflight
    BY <1>a, InflightKept
  <2> QED BY <2>1, <2>2, WritesAlone DEF Moves, Writes, ThreadOwns, BeforeClear, AfterClear
<1>12. CASE ExecClear(t)
  <2>1. /\ Moves(t, IF th[t].how = "failed" THEN "to_idle" ELSE "memory")
        /\ Writes(n, ClearInflight(r))
    BY <1>a, <1>12, GotoMoves, StoreWrites DEF ExecClear, ExecStore, Update
  <2>2. ClearInflight(r).inflight = NoItem
    BY <1>a, InflightKept
  <2> QED BY <2>1, <2>2, WritesAlone DEF Moves, Writes, ThreadOwns, BeforeClear
<1> QED BY <1>1, <1>2, <1>3, <1>4, <1>5, <1>6, <1>7, <1>8, <1>9, <1>10, <1>11, <1>12

\* The steps after it.
LEMMA LateOwn ==
  ASSUME TypeOK, NEW t \in Threads, Live(t), ThreadOwns(t),
         \/ ExecToIdle(t) \/ ExecMemory(t) \/ ExecGoal(t) \/ ExecGoalWrite(t)
         \/ ExecGoalEnds(t) \/ ExecGoalContinue(t)
         \/ \E out \in SUBSET Nodes : ExecComplete(t, out)
         \/ \E m \in Nodes : ExecPropagate(t, m)
  PROVE  OthersAlone(t) /\ ThreadOwns(t)'
<1> DEFINE n == th[t].node
           r == rt[n]
<1>a. n \in Nodes /\ r \in Runtime /\ th \in [Threads -> Thread] /\ th[t].snap \in Runtime
  BY LiveThread, RecordType DEF TypeOK, ThreadsOK
<1>1. CASE ExecToIdle(t)
  <2>1. /\ Moves(t, IF th[t].how = "untyped" THEN "return" ELSE "end_return")
        /\ Writes(n, TransitionToIdle(r))
    BY <1>a, <1>1, GotoMoves, StoreWrites DEF ExecToIdle, ExecStore, Update
  <2> QED BY <2>1, WritesAlone, OwnsNothing DEF Moves
<1>2. CASE ExecMemory(t) \/ ExecGoalEnds(t)
  <2>1. /\ UNCHANGED rt
        /\ \/ Moves(t, "goal") /\ th[t].pc = "memory"
           \/ Moves(t, "return")
           \/ Moves(t, "complete") /\ th[t].pc = "goal_next"
    BY <1>2, GotoMoves DEF ExecMemory, ExecGoalEnds, store
  <2> QED BY <2>1, WritesAlone, OwnsNothing DEF Moves, ThreadOwns, BeforeClear, AfterClear
<1>3. CASE ExecGoal(t)
  <2>1. UNCHANGED rt /\ th[t].pc = "goal"
    BY <1>3 DEF ExecGoal, store
  <2>2. CASE Goto(t, "complete") \/ Goto(t, "return")
    <3>1. Moves(t, "complete") \/ Moves(t, "return")
      BY <2>2, GotoMoves
    <3> QED BY <2>1, <3>1, WritesAlone, OwnsNothing
            DEF Moves, ThreadOwns, BeforeClear, AfterClear
  <2>3. CASE ~Goto(t, "complete") /\ ~Goto(t, "return")
    <3>1. Moves(t, "goal_write") /\ th'[t].snap = r
      BY <1>a, <1>3, <2>3 DEF ExecGoal, Moves, Thread
    <3> QED BY <2>1, <3>1, WritesAlone DEF Moves, ThreadOwns, BeforeClear, AfterClear
  <2> QED BY <2>2, <2>3
<1>4. CASE ExecGoalWrite(t)
  <2>1. Moves(t, "goal_next") /\ th[t].pc = "goal_write" /\ Writes(n, th[t].snap)
    BY <1>a, <1>4, StoreWrites DEF ExecGoalWrite, WriteConfig, Moves, Thread
  <2> QED BY <2>1, WritesAlone DEF Moves, Writes, ThreadOwns, BeforeClear, AfterClear
<1>5. CASE ExecGoalContinue(t)
  <2>1. CASE Goto(t, "return") /\ UNCHANGED rt
    BY <2>1, GotoMoves, WritesAlone, OwnsNothing DEF Moves
  <2>2. CASE ~(Goto(t, "return") /\ UNCHANGED rt)
    <3>1. PICK it : Accept(n, it) /\ Goto(t, "complete_empty") /\ th[t].pc = "goal_next"
      BY <1>5, <2>2 DEF ExecGoalContinue
    <3>2. Moves(t, "complete_empty") /\ Writes(n, AppendPending(r, it))
      BY <1>a, <3>1, GotoMoves, StoreWrites DEF Accept
    <3>3. AppendPending(r, it).inflight = r.inflight
      BY <1>a, InflightKept
    <3> QED BY <3>1, <3>2, <3>3, WritesAlone
            DEF Moves, Writes, ThreadOwns, BeforeClear, AfterClear
  <2> QED BY <2>1, <2>2
<1>6. ASSUME NEW out \in SUBSET Nodes, ExecComplete(t, out)
      PROVE  OthersAlone(t) /\ ThreadOwns(t)'
  <2>1. Moves(t, "return") \/ Moves(t, "propagate")
    BY <1>a, <1>6 DEF ExecComplete, Moves, Thread
  <2>2. \E x : Writes(n, x)
    BY <1>a, <1>6, StoreWrites DEF ExecComplete, Update
  <2> QED BY <2>1, <2>2, WritesAlone, OwnsNothing DEF Moves
<1>7. ASSUME NEW m \in Nodes, ExecPropagate(t, m)
      PROVE  OthersAlone(t) /\ ThreadOwns(t)'
  <2>0. /\ th[t].pc = "propagate"
        /\ th' = [th EXCEPT ![t].tasks = th[t].tasks \ {m},
                            ![t].pc = IF th[t].tasks = {m} THEN "return" ELSE th[t].pc]
    BY <1>7 DEF ExecPropagate
  <2>1. Moves(t, "return") \/ Moves(t, "propagate")
    <3>1. \A u \in Threads \ {t} : th'[u] = th[u]
      BY <1>a, <2>0
    <3>2. th'[t].pc \in {"return", "propagate"}
      BY <1>a, <2>0 DEF Thread
    <3>3. th'[t].node = th[t].node /\ th'[t].item = th[t].item
      BY <1>a, <2>0 DEF Thread
    <3> QED BY <3>1, <3>2, <3>3 DEF Moves
  <2>2. \A k \in Nodes : rt'[k].inflight = rt[k].inflight
    <3>1. CASE UNCHANGED rt
      BY <3>1
    <3>2. CASE ~UNCHANGED rt
      <4>1. PICK it : Accept(m, it)
        BY <1>7, <3>2 DEF ExecPropagate
      <4>2. Writes(m, AppendPending(rt[m], it)) /\ rt[m] \in Runtime
        BY <4>1, StoreWrites, RecordType DEF Accept, TypeOK
      <4>3. AppendPending(rt[m], it).inflight = rt[m].inflight
        BY <4>2, InflightKept
      <4> QED BY <4>2, <4>3 DEF Writes
    <3> QED BY <3>1, <3>2
  <2> QED BY <2>1, <2>2, OwnsNothing DEF Moves, OthersAlone
<1> QED BY <1>1, <1>2, <1>3, <1>4, <1>5, <1>6, <1>7

LEMMA ExecutorOwn ==
  ASSUME TaskInv, AllLiveAreTasks, OwnInv, NEW t \in Threads, Executor(t)
  PROVE  OwnInv'
<1>1. TypeOK /\ ThreadOwns(t) /\ th \in [Threads -> Thread]
  BY DEF TaskInv, OwnInv, TypeOK, ThreadsOK
<1>2. Live(t)
  BY DEF Executor, Live, ExecBegin, ExecEntry, ExecCancel,
         ExecCancelFinish, ExecConsume, ExecSucceed, ExecFail, ExecEnd,
         ExecAfter, ExecRecordRead, ExecRecordWrite, ExecClear, ExecToIdle,
         ExecMemory, ExecGoal, ExecGoalWrite, ExecGoalEnds, ExecGoalContinue,
         ExecComplete, ExecPropagate, ExecReturn
<1>3. UNCHANGED <<cl, picked>>
  BY DEF Executor, NoSched, NoApi, batch, ExecStore,
         ExecBegin, ExecEntry, ExecCancel,
         ExecCancelFinish, ExecConsume, ExecSucceed, ExecFail, ExecEnd,
         ExecAfter, ExecRecordRead, ExecRecordWrite, ExecClear, ExecToIdle,
         ExecMemory, ExecGoal, ExecGoalWrite, ExecGoalEnds, ExecGoalContinue,
         ExecComplete, ExecPropagate, ExecReturn
<1>4. UNCHANGED <<spc, cur>> \/ spc' # "submit"
  BY <1>1, ExecutorKeeps DEF SameRunner, ExecReturn, batch
<1>5. CASE ExecReturn(t)
  <2>1. OthersAlone(t) /\ th'[t].pc = "free"
    BY <1>1, <1>5 DEF ExecReturn, OthersAlone, FreeThread
  <2> QED BY <1>2, <1>3, <1>4, <2>1, OwnsNothing, OwnStep
<1>6. CASE ~ExecReturn(t)
  <2>1. OthersAlone(t) /\ ThreadOwns(t)'
    BY <1>1, <1>2, <1>6, EarlyOwn, LateOwn DEF Executor
  <2> QED BY <1>2, <1>3, <1>4, <2>1, OwnStep
<1> QED BY <1>5, <1>6

LEMMA OwnInductive ==
  ASSUME TaskInv, AllLiveAreTasks, OwnInv, "edit" \notin Ops, [Next]_vars
  PROVE  OwnInv'
<1>a. TypeOK
  BY DEF TaskInv
<1>1. CASE Scheduler
  BY <1>1, SchedulerOwn
<1>2. ASSUME NEW t \in Threads, Executor(t) PROVE OwnInv'
  BY <1>2, ExecutorOwn
<1>3. ASSUME NEW c \in Clients, ClientStep(c) \/ ClientRequest(c) PROVE OwnInv'
  BY <1>3, <1>a, ClientOwn
<1>4. CASE UNCHANGED <<rt, th, cl, spc, cur, picked>>
  BY <1>4 DEF OwnInv, ThreadOwns
<1>5. CASE Restart
  <2>1. /\ \A t \in Threads : th'[t].pc = "free" 
        /\ \A c \in Clients : cl'[c].pc = "none"
        /\ spc' = "dead"
    BY <1>5 DEF Restart, FreeThread, IdleClient
  <2> QED BY <2>1, OwnsNothing DEF OwnInv
<1>6. StatusCleanup \/ GraphDeleteBlocked \/ UNCHANGED vars
        => UNCHANGED <<rt, th, cl, spc, cur, picked>>
  BY DEF StatusCleanup, GraphDeleteBlocked, NoExec, batch, vars
<1> QED BY <1>1, <1>2, <1>3, <1>4, <1>5, <1>6 DEF Next

LEMMA InitOwn == Init => OwnInv
BY DEF Init, OwnInv, ThreadOwns, FreeThread, IdleClient, AfterClear, BeforeClear

\* Without the requests named above, for every graph and every number of
\* threads, clients and requests: while an executor works on an item, from
\* dequeue_pending_to_working to set_inflight(None), that item is the inflight
\* of its node.  Pauses, resumes, stops, pops, keyed requests, failures and
\* restarts do not change that.
THEOREM RunsInflight ==
  ASSUME Ops \cap {"delete", "edit", "stop_runner"} = {}
  PROVE  Spec => []RunningItemIsInflight
<1> DEFINE Inv == TaskInv /\ AllLiveAreTasks /\ OwnInv
<1>0. "delete" \notin Ops /\ "edit" \notin Ops /\ "stop_runner" \notin Ops
  OBVIOUS
<1>1. Init => Inv
  BY InitTasks, InitOwn
<1>2. Inv /\ [Next]_vars => Inv'
  BY <1>0, TasksInductive, OwnInductive
<1>3. Inv => RunningItemIsInflight
  BY <1>0 DEF OwnInv, ThreadOwns, RunningItemIsInflight
<1> QED BY <1>1, <1>2, <1>3, PTL DEF Spec

-----------------------------------------------------------------------------
(* Held outputs and the pause.  Every operation of the two stores keeps    *)
(* what HeldOK says of a record, so the copies that config transactions    *)
(* write back do too.  That inflight is empty matters only where nodes are *)
(* deleted: MarkDeleteRequested puts a node with inflight back to working. *)

HeldOK(r) ==
  r.held # << >> => /\ r.state = "stop" /\ ~r.stopReq
                    /\ "delete" \in Ops => r.inflight = NoItem

StoreHeld == \A n \in Nodes : HeldOK(rt[n])

HeldInv ==
  /\ StoreHeld
  /\ \A t \in Threads : HeldOK(th[t].snap)
  /\ \A c \in Clients : HeldOK(cl[c].snap)

LEMMA HeldKept ==
  ASSUME NEW r \in Runtime, HeldOK(r)
  PROVE  /\ \A it : HeldOK(AppendPending(r, it))
         /\ HeldOK(UpdateState(r, "stop"))
         /\ HeldOK(PopPending(r))
         /\ HeldOK(TransitionToIdle(r))
         /\ HeldOK(ConsumeMidTurnInputs(r))
         /\ "delete" \in Ops => HeldOK(MarkDeleteRequested(r))
         /\ HeldOK(ClearDeleteRequested(r))
         /\ HeldOK(RecoverStaleWorking(r))
         /\ HeldOK(Resume(r))
         /\ HeldOK(DequeueToWorking(r))
         /\ \A tr : HeldOK(RecordCompletion(r, tr))
         /\ HeldOK(ClearInflight(r))
         /\ HeldOK(FinishStopRequested(r))
<1>1. /\ \A it : HeldOK(AppendPending(r, it))
      /\ HeldOK(UpdateState(r, "stop"))
      /\ HeldOK(PopPending(r))
      /\ HeldOK(TransitionToIdle(r))
  BY DEF AppendPending, UpdateState, PopPending, TransitionToIdle, Runtime, HeldOK
<1>2. /\ HeldOK(ConsumeMidTurnInputs(r))
      /\ "delete" \in Ops => HeldOK(MarkDeleteRequested(r))
      /\ HeldOK(ClearDeleteRequested(r))
      /\ HeldOK(RecoverStaleWorking(r))
  BY DEF ConsumeMidTurnInputs, MarkDeleteRequested, ClearDeleteRequested,
         RecoverStaleWorking, StaleWorking, Runtime, HeldOK
<1>3. /\ HeldOK(Resume(r))
      /\ HeldOK(DequeueToWorking(r))
      /\ \A tr : HeldOK(RecordCompletion(r, tr))
      /\ HeldOK(ClearInflight(r))
      /\ HeldOK(FinishStopRequested(r))
  BY DEF Resume, DequeueToWorking, CanDequeue, RecordCompletion, ClearInflight,
         FinishStopRequested, Runtime, HeldOK
<1> QED BY <1>1, <1>2, <1>3

\* A finished iteration adds an output only to a node that stays paused.
LEMMA CompletionHeld ==
  ASSUME NEW r \in Runtime, HeldOK(r), NEW out, "delete" \in Ops => r.inflight = NoItem
  PROVE  HeldOK(CompleteWork(r, out))
BY DEF CompleteWork, FinalState, Runtime, HeldOK

LEMMA FreshHeld == HeldOK(FreshRuntime)
BY DEF FreshRuntime, HeldOK

LEMMA WriteHeld ==
  ASSUME TypeOK, StoreHeld, NEW n \in Nodes, NEW r, Store(n, r), HeldOK(r)
  PROVE  StoreHeld'
<1>1. rt'[n] = r /\ \A m \in Nodes \ {n} : rt'[m] = rt[m]
  BY StoreWrites DEF Writes
<1>2. HeldOK(rt'[n]) /\ \A m \in Nodes \ {n} : HeldOK(rt'[m])
  BY <1>1 DEF StoreHeld
<1> QED BY <1>2 DEF StoreHeld, HeldOK

LEMMA SameHeld == StoreHeld /\ UNCHANGED rt => StoreHeld'
BY DEF StoreHeld, HeldOK

LEMMA RequestHeld ==
  ASSUME TypeOK, StoreHeld, "stop" \notin Ops, "set_working" \notin Ops,
         NEW c \in Clients, ClientRequest(c)
  PROVE  StoreHeld'
<1>1. PICK n \in Nodes :
    \/ \E tr \in Traces : Emit(c, n, tr)
    \/ \E key \in Keys, src \in Keyed : Enqueue(c, n, key, src)
    \/ Pop(c, n) \/ ResumeNode(c, n) \/ StopNode(c, n) \/ DeleteNode(c, n)
    \/ \E s \in {"stop", "working"} : SetState(c, n, s)
    \/ EditRead(c, n)
  BY DEF ClientRequest
<1>2. rt[n] \in Runtime /\ HeldOK(rt[n])
  BY RecordType DEF TypeOK, StoreHeld
<1>3. \/ UNCHANGED rt
      \/ \E r : Store(n, r) /\ HeldOK(r)
  <2>1. CASE \E tr \in Traces : Emit(c, n, tr)
    BY <2>1 DEF Emit, store
  <2>2. CASE \E key \in Keys, src \in Keyed : Enqueue(c, n, key, src)
    BY <2>2, <1>2, HeldKept DEF Enqueue, Accept
  <2>3. CASE Pop(c, n)
    BY <2>3, <1>2, HeldKept DEF Pop, Remove
  <2>4. CASE ResumeNode(c, n)
    BY <2>4, <1>2, HeldKept DEF ResumeNode, Update
  <2>5. ~StopNode(c, n)
    BY DEF StopNode, Request
  <2>6. CASE DeleteNode(c, n)
    BY <2>6, <1>2, HeldKept DEF DeleteNode, Request, Remove
  <2>7. CASE \E s \in {"stop", "working"} : SetState(c, n, s)
    BY <2>7, <1>2, HeldKept DEF SetState, Update
  <2>8. CASE EditRead(c, n)
    BY <2>8 DEF EditRead
  <2> QED BY <1>1, <2>1, <2>2, <2>3, <2>4, <2>5, <2>6, <2>7, <2>8
<1> QED BY <1>3, WriteHeld, SameHeld

LEMMA ClientStepHeld ==
  ASSUME TypeOK, HeldInv, NEW c \in Clients, ClientStep(c)
  PROVE  StoreHeld'
<1>1. cl[c].pc # "none" => cl[c].node \in Nodes
  BY DEF TypeOK, ClientsOK
<1>2. StoreHeld /\ \A n \in Nodes : rt[n] \in Runtime /\ HeldOK(rt[n])
  BY RecordType DEF TypeOK, HeldInv, StoreHeld
<1>4. CASE EmitAppend(c)
  BY <1>1, <1>2, <1>4, HeldKept, WriteHeld DEF EmitAppend, Accept
<1>5. CASE ClientWake(c) \/ StopRequest(c) \/ DeleteRequest(c) \/ DeleteArchive(c)
  BY <1>2, <1>5, SameHeld DEF ClientWake, StopRequest, DeleteRequest, DeleteArchive
<1>6. ASSUME NEW m \in Nodes, ResumeRelease(c, m) PROVE StoreHeld'
  <2>1. UNCHANGED rt \/ \E it : Store(m, AppendPending(rt[m], it))
    BY <1>6 DEF ResumeRelease, Accept
  <2> QED BY <1>2, <2>1, HeldKept, WriteHeld, SameHeld
<1>7. CASE DeleteRollback(c)
  <2>1. cl[c].node \in Nodes
    BY <1>1, <1>7 DEF DeleteRollback
  <2>2. \E r : Store(cl[c].node, r) /\ HeldOK(r)
    BY <1>2, <1>7, <2>1, HeldKept DEF DeleteRollback, Update
  <2> QED BY <1>2, <2>1, <2>2, WriteHeld
<1>8. CASE DeleteClear(c)
  BY <1>1, <1>2, <1>8, FreshHeld, WriteHeld DEF DeleteClear, Remove
<1>9. CASE EditWrite(c)
  BY <1>1, <1>2, <1>9, WriteHeld DEF EditWrite, WriteConfig, HeldInv
<1> QED BY <1>4, <1>5, <1>6, <1>7, <1>8, <1>9 DEF ClientStep

\* An executor writes a record that an operation made of the one it found or
\* of its copy; the copy is the record it reads, or none.
LEMMA ExecutorHeld ==
  ASSUME TypeOK, HeldInv, NEW t \in Threads, Live(t), Executor(t),
         "delete" \in Ops => ThreadOwns(t)
  PROVE  StoreHeld'
<1> DEFINE n == th[t].node
           r == rt[n]
<1>a. /\ n \in Nodes /\ r \in Runtime /\ th[t].snap \in Runtime
      /\ StoreHeld /\ HeldOK(r) /\ HeldOK(th[t].snap)
  BY LiveThread, RecordType DEF TypeOK, HeldInv, StoreHeld
<1>1. CASE \/ ExecBegin(t) \/ ExecEntry(t) \/ ExecCancelFinish(t) \/ ExecSucceed(t)
           \/ ExecFail(t) \/ ExecAfter(t) \/ ExecClear(t) \/ ExecToIdle(t)
  <2>1. \/ UNCHANGED rt
        \/ Store(n, ClearInflight(r)) \/ Store(n, FinishStopRequested(r))
        \/ Store(n, TransitionToIdle(r))
    BY <1>1 DEF ExecBegin, ExecEntry, ExecCancelFinish, ExecSucceed, ExecFail,
                ExecAfter, ExecClear, ExecToIdle, ExecStore, Update
  <2> QED BY <1>a, <2>1, HeldKept, WriteHeld, SameHeld
<1>2. CASE \/ ExecCancel(t) \/ ExecEnd(t) \/ ExecRecordRead(t) \/ ExecMemory(t)
           \/ ExecGoal(t) \/ ExecGoalEnds(t) \/ ExecReturn(t)
  <2>1. UNCHANGED rt
    BY <1>2 DEF ExecCancel, ExecEnd, ExecRecordRead, ExecMemory, ExecGoal,
                ExecGoalEnds, ExecReturn, store
  <2> QED BY <1>a, <2>1, SameHeld
<1>3. CASE ExecConsume(t)
  BY <1>a, <1>3, HeldKept, WriteHeld DEF ExecConsume, Remove
<1>4. CASE ExecRecordWrite(t) \/ ExecGoalWrite(t)
  <2>1. \/ Store(n, RecordCompletion(th[t].snap, th[t].item.trace))
        \/ Store(n, th[t].snap)
    BY <1>4 DEF ExecRecordWrite, ExecGoalWrite, WriteConfig
  <2> QED BY <1>a, <2>1, HeldKept, WriteHeld
<1>5. ASSUME NEW m \in Nodes, ExecGoalContinue(t) \/ ExecPropagate(t, m)
      PROVE  StoreHeld'
  <2>1. \/ UNCHANGED rt
        \/ \E k \in Nodes : \E it : Store(k, AppendPending(rt[k], it))
    BY <1>a, <1>5 DEF ExecGoalContinue, ExecPropagate, Accept
  <2>2. \A k \in Nodes : rt[k] \in Runtime /\ HeldOK(rt[k])
    BY <1>a, RecordType DEF TypeOK, StoreHeld
  <2> QED BY <1>a, <2>1, <2>2, HeldKept, WriteHeld, SameHeld
<1>6. ASSUME NEW out \in SUBSET Nodes, ExecComplete(t, out)
      PROVE  StoreHeld'
  <2>1. /\ th[t].pc \in {"complete", "complete_empty"}
        /\ \E o : Store(n, CompleteWork(r, o))
    BY <1>6 DEF ExecComplete, Update
  <2>2. "delete" \in Ops => r.inflight = NoItem
    BY <2>1 DEF ThreadOwns, AfterClear
  <2> QED BY <1>a, <2>1, <2>2, CompletionHeld, WriteHeld
<1> QED BY <1>1, <1>2, <1>3, <1>4, <1>5, <1>6, <1>a DEF Executor

LEMMA SchedulerHeld ==
  ASSUME TypeOK, StoreHeld, Scheduler
  PROVE  StoreHeld'
<1>1. \/ UNCHANGED rt
      \/ /\ spc = "recover"
         /\ Store(cur, RecoverStaleWorking(rt[cur]))
      \/ /\ spc = "dequeue"
         /\ Store(cur, DequeueToWorking(rt[cur]))
  BY DEF Scheduler, SchedWait, SchedExit, SchedCleanup, SchedBatchEnd, SchedVisit,
         SchedCheckActive, SchedRecover, SchedDequeue, SchedSubmit, Update
<1>2. spc \in {"recover", "dequeue"} => cur \in Nodes /\ rt[cur] \in Runtime /\ HeldOK(rt[cur])
  BY RecordType DEF TypeOK, SchedulerOK, StoreHeld
<1> QED BY <1>1, <1>2, HeldKept, WriteHeld, SameHeld

\* Where the copies come from.
LEMMA ThreadCopies ==
  ASSUME TypeOK, [Next]_vars, NEW t \in Threads
  PROVE  \/ th'[t].snap = th[t].snap \/ th'[t].snap = FreshRuntime
         \/ \E n \in Nodes : th'[t].snap = rt[n]
<1>a. th \in [Threads -> Thread]
  BY DEF TypeOK, ThreadsOK
<1> DEFINE Copied(u) == \/ th'[u].snap = th[u].snap \/ th'[u].snap = FreshRuntime
                        \/ \E n \in Nodes : th'[u].snap = rt[n]
<1>1. ASSUME UNCHANGED th PROVE Copied(t)
  BY <1>1
<1>2. CASE Scheduler
  <2>1. CASE UNCHANGED th
    BY <2>1
  <2>2. CASE ~UNCHANGED th
    <3>1. PICK u \in Threads :
            th' = [th EXCEPT ![u] = [FreeThread EXCEPT !.pc = "start",
                                       !.node = cur, !.item = picked]]
      BY <1>2, <2>2 DEF Scheduler, SchedWait, SchedExit, SchedCleanup, SchedBatchEnd,
           SchedVisit, SchedCheckActive, SchedRecover, SchedDequeue, SchedSubmit
    <3> QED BY <1>a, <3>1 DEF FreeThread
  <2> QED BY <2>1, <2>2
<1>3. ASSUME NEW u \in Threads, Executor(u) PROVE Copied(t)
  <2>a. Live(u) /\ th[u].node \in Nodes
    <3>1. Live(u)
      BY <1>3 DEF Executor, Live, ExecBegin, ExecEntry, ExecCancel,
         ExecCancelFinish, ExecConsume, ExecSucceed, ExecFail, ExecEnd,
         ExecAfter, ExecRecordRead, ExecRecordWrite, ExecClear, ExecToIdle,
         ExecMemory, ExecGoal, ExecGoalWrite, ExecGoalEnds, ExecGoalContinue,
         ExecComplete, ExecPropagate, ExecReturn
    <3> QED BY <3>1, LiveThread DEF TypeOK
  <2>b. \A p : Goto(u, p) => th'[t].snap = th[t].snap
    BY <1>a DEF Goto, Thread
  <2>1. CASE \/ ExecCancel(u) \/ ExecCancelFinish(u) \/ ExecSucceed(u) \/ ExecEnd(u)
             \/ ExecAfter(u) \/ ExecClear(u) \/ ExecToIdle(u) \/ ExecMemory(u)
             \/ ExecGoalEnds(u) \/ ExecGoalContinue(u)
    <3>1. \E p : Goto(u, p)
      BY <2>1 DEF ExecCancel, ExecCancelFinish, ExecSucceed, ExecEnd, ExecAfter,
                  ExecClear, ExecToIdle, ExecMemory, ExecGoalEnds, ExecGoalContinue, ExecStore
    <3> QED BY <2>b, <3>1
  <2>2. CASE ExecBegin(u) \/ ExecEntry(u)
    BY <1>a, <2>2, <2>b DEF ExecBegin, ExecEntry, Thread
  <2>3. CASE ExecConsume(u)
    BY <2>3 DEF ExecConsume
  <2>4. CASE ExecFail(u)
    BY <1>a, <2>4 DEF ExecFail, Thread
  <2>5. CASE ExecRecordRead(u)
    <3>1. CASE Goto(u, "clear")
      BY <2>b, <3>1
    <3>2. CASE ~Goto(u, "clear")
      <4>1. th' = [th EXCEPT ![u].pc = "write", ![u].snap = rt[th[u].node]]
        BY <2>5, <3>2 DEF ExecRecordRead
      <4> QED BY <1>a, <2>a, <4>1 DEF Thread
    <3> QED BY <3>1, <3>2
  <2>6. CASE ExecGoal(u)
    <3>1. CASE Goto(u, "complete") \/ Goto(u, "return")
      BY <2>b, <3>1
    <3>2. CASE ~Goto(u, "complete") /\ ~Goto(u, "return")
      <4>1. th' = [th EXCEPT ![u].pc = "goal_write", ![u].snap = rt[th[u].node]]
        BY <2>6, <3>2 DEF ExecGoal
      <4> QED BY <1>a, <2>a, <4>1 DEF Thread
    <3> QED BY <3>1, <3>2
  <2>7. CASE ExecRecordWrite(u) \/ ExecGoalWrite(u)
    <3>1. \E p : th' = [th EXCEPT ![u].pc = p, ![u].snap = FreshRuntime]
      BY <2>7 DEF ExecRecordWrite, ExecGoalWrite
    <3> QED BY <1>a, <3>1 DEF Thread
  <2>8. ASSUME NEW out \in SUBSET Nodes, ExecComplete(u, out) PROVE Copied(t)
    BY <1>a, <2>8 DEF ExecComplete, Thread
  <2>9. ASSUME NEW m \in Nodes, ExecPropagate(u, m) PROVE Copied(t)
    <3>1. \E p : th' = [th EXCEPT ![u].tasks = th[u].tasks \ {m}, ![u].pc = p]
      BY <2>9 DEF ExecPropagate
    <3> QED BY <1>a, <3>1 DEF Thread
  <2>10. CASE ExecReturn(u)
    BY <1>a, <2>10 DEF ExecReturn, FreeThread
  <2> QED BY <1>3, <2>1, <2>2, <2>3, <2>4, <2>5, <2>6, <2>7, <2>8, <2>9, <2>10 DEF Executor
<1>4. ASSUME NEW c \in Clients, ClientStep(c) \/ ClientRequest(c) PROVE Copied(t)
  <2>1. UNCHANGED th \/ RequestCancellation(cl[c].node)
    BY <1>4 DEF ClientStep, ClientRequest, NoExec, EmitAppend, ClientWake,
         StopRequest, DeleteRequest, ResumeRelease, DeleteArchive,
         DeleteRollback, DeleteClear, EditWrite, Emit, Enqueue, Pop, SetState,
         ResumeNode, StopNode, DeleteNode, EditRead
  <2> QED BY <2>1, CancellationExecutors DEF SameExecutors
<1>5. CASE Restart
  BY <1>5 DEF Restart, FreeThread
<1>6. StatusCleanup \/ GraphDeleteBlocked \/ UNCHANGED vars => UNCHANGED th
  BY DEF StatusCleanup, GraphDeleteBlocked, NoExec, vars
<1> QED BY <1>1, <1>2, <1>3, <1>4, <1>5, <1>6 DEF Next

LEMMA ClientCopies ==
  ASSUME TypeOK, [Next]_vars, NEW d \in Clients
  PROVE  \/ cl'[d].snap = cl[d].snap \/ cl'[d].snap = FreshRuntime
         \/ \E n \in Nodes : cl'[d].snap = rt[n]
<1>a. cl \in [Clients -> Client]
  BY DEF TypeOK, ClientsOK
<1> DEFINE Copied == \/ cl'[d].snap = cl[d].snap \/ cl'[d].snap = FreshRuntime
                     \/ \E n \in Nodes : cl'[d].snap = rt[n]
<1>b. ASSUME NEW c, NEW n, NEW p, Continue(c, n, p) PROVE Copied
  BY <1>a, <1>b DEF Continue, IdleClient
<1>c. ASSUME NEW c, Reply(c) PROVE Copied
  BY <1>a, <1>c DEF Reply, IdleClient
<1>1. ASSUME NEW c \in Clients, ClientStep(c) PROVE Copied
  <2>3. CASE \/ EmitAppend(c) \/ ClientWake(c) \/ StopRequest(c) \/ DeleteRequest(c)
             \/ DeleteArchive(c) \/ DeleteRollback(c) \/ DeleteClear(c) \/ EditWrite(c)
    <3>1. Reply(c) \/ \E n, p : Continue(c, n, p)
      BY <2>3 DEF EmitAppend, ClientWake, StopRequest, DeleteRequest, DeleteArchive,
                  DeleteRollback, DeleteClear, EditWrite
    <3> QED BY <1>b, <1>c, <3>1
  <2>4. ASSUME NEW m \in Nodes, ResumeRelease(c, m) PROVE Copied
    <3>1. CASE Reply(c)
      BY <1>c, <3>1
    <3>2. CASE ~Reply(c)
      <4>1. \E o, p : cl' = [cl EXCEPT ![c].outs = o, ![c].pc = p]
        BY <2>4, <3>2 DEF ResumeRelease
      <4> QED BY <1>a, <4>1 DEF Client
    <3> QED BY <3>1, <3>2
  <2> QED BY <1>1, <2>3, <2>4 DEF ClientStep
<1>2. ASSUME NEW c \in Clients, ClientRequest(c) PROVE Copied
  <2>1. PICK n \in Nodes :
      \/ \E tr \in Traces : Emit(c, n, tr)
      \/ \E key \in Keys, src \in Keyed : Enqueue(c, n, key, src)
      \/ Pop(c, n) \/ ResumeNode(c, n) \/ StopNode(c, n) \/ DeleteNode(c, n)
      \/ \E s \in {"stop", "working"} : SetState(c, n, s)
      \/ EditRead(c, n)
    BY <1>2 DEF ClientRequest
  <2>2. CASE \E tr \in Traces : Emit(c, n, tr)
    BY <1>a, <2>2 DEF Emit, IdleClient
  <2>3. CASE \/ \E key \in Keys, src \in Keyed : Enqueue(c, n, key, src)
             \/ StopNode(c, n) \/ DeleteNode(c, n)
    <3>1. Reply(c) \/ \E p : Continue(c, n, p)
      BY <2>3 DEF Enqueue, StopNode, DeleteNode
    <3> QED BY <1>b, <1>c, <3>1
  <2>4. CASE Pop(c, n) \/ \E s \in {"stop", "working"} : SetState(c, n, s)
    BY <2>4 DEF Pop, SetState
  <2>5. CASE ResumeNode(c, n)
    BY <1>a, <2>5 DEF ResumeNode, IdleClient
  <2>6. CASE EditRead(c, n)
    BY <1>a, <2>6 DEF EditRead, IdleClient
  <2> QED BY <2>1, <2>2, <2>3, <2>4, <2>5, <2>6
<1>3. CASE Restart
  BY <1>3 DEF Restart, IdleClient
<1>4. Scheduler => UNCHANGED cl
  BY DEF Scheduler, SchedWait, SchedExit, SchedCleanup, SchedBatchEnd, SchedVisit,
         SchedCheckActive, SchedRecover, SchedDequeue, SchedSubmit
<1>5. ASSUME NEW t \in Threads, Executor(t) PROVE UNCHANGED cl
  BY <1>5 DEF Executor, NoApi, ExecStore,
         ExecBegin, ExecEntry, ExecCancel,
         ExecCancelFinish, ExecConsume, ExecSucceed, ExecFail, ExecEnd,
         ExecAfter, ExecRecordRead, ExecRecordWrite, ExecClear, ExecToIdle,
         ExecMemory, ExecGoal, ExecGoalWrite, ExecGoalEnds, ExecGoalContinue,
         ExecComplete, ExecPropagate, ExecReturn
<1>6. StatusCleanup \/ GraphDeleteBlocked \/ UNCHANGED vars => UNCHANGED cl
  BY DEF StatusCleanup, GraphDeleteBlocked, vars
<1> QED BY <1>1, <1>2, <1>3, <1>4, <1>5, <1>6 DEF Next

LEMMA HeldInductive ==
  ASSUME TaskInv, HeldInv, "stop" \notin Ops, "set_working" \notin Ops,
         "delete" \in Ops => OwnInv, [Next]_vars
  PROVE  HeldInv'
<1>a. TypeOK /\ StoreHeld
  BY DEF TaskInv, HeldInv
<1>1. StoreHeld'
  <2>1. CASE Scheduler
    BY <1>a, <2>1, SchedulerHeld
  <2>2. ASSUME NEW t \in Threads, Executor(t) PROVE StoreHeld'
    <3>1. Live(t)
      BY <2>2 DEF Executor, Live, ExecBegin, ExecEntry, ExecCancel,
         ExecCancelFinish, ExecConsume, ExecSucceed, ExecFail, ExecEnd,
         ExecAfter, ExecRecordRead, ExecRecordWrite, ExecClear, ExecToIdle,
         ExecMemory, ExecGoal, ExecGoalWrite, ExecGoalEnds, ExecGoalContinue,
         ExecComplete, ExecPropagate, ExecReturn
    <3>2. "delete" \in Ops => ThreadOwns(t)
      BY DEF OwnInv
    <3> QED BY <1>a, <2>2, <3>1, <3>2, ExecutorHeld
  <2>3. ASSUME NEW c \in Clients, ClientStep(c) \/ ClientRequest(c) PROVE StoreHeld'
    BY <1>a, <2>3, ClientStepHeld, RequestHeld
  <2>4. CASE Restart
    BY <2>4, FreshHeld DEF Restart, StoreHeld, HeldOK
  <2>5. StatusCleanup \/ GraphDeleteBlocked \/ UNCHANGED vars => UNCHANGED rt
    BY DEF StatusCleanup, GraphDeleteBlocked, vars
  <2> QED BY <1>a, <2>1, <2>2, <2>3, <2>4, <2>5, SameHeld DEF Next
<1>2. ASSUME NEW t \in Threads PROVE HeldOK(th'[t].snap)
  BY <1>a, ThreadCopies, FreshHeld DEF HeldInv, StoreHeld
<1>3. ASSUME NEW c \in Clients PROVE HeldOK(cl'[c].snap)
  BY <1>a, ClientCopies, FreshHeld DEF HeldInv, StoreHeld
<1> QED BY <1>1, <1>2, <1>3 DEF HeldInv, HeldOK

LEMMA InitHeld == Init => HeldInv
<1> SUFFICES ASSUME Init PROVE HeldInv
  OBVIOUS
<1>1. /\ \A n \in Nodes : rt[n] = FreshRuntime
      /\ \A t \in Threads : th[t].snap = FreshRuntime
      /\ \A c \in Clients : cl[c].snap = FreshRuntime
  BY DEF Init, FreeThread, IdleClient
<1> QED BY <1>1, FreshHeld DEF HeldInv, StoreHeld

\* Held outputs wait at a paused node and nowhere else: complete_work keeps
\* the pause it held them for, resume gives them out with the pause, and no
\* config transaction that writes back an old record separates the two.  Left
\* out are the requests after which it is false: "stop" and the state
\* "working" end a pause without giving the outputs out, and where nodes are
\* deleted too, a settings edit or a refused graph deletion can leave a
\* paused node with an inflight item, which the deletion puts back to working.
THEOREM HeldWithPause ==
  ASSUME Ops \cap {"stop", "set_working"} = {},
         "delete" \in Ops => Ops \cap {"edit", "stop_runner"} = {}
  PROVE  Spec => []HeldOnlyWhilePaused
<1> DEFINE Inv == TaskInv /\ HeldInv /\ ("delete" \in Ops => AllLiveAreTasks /\ OwnInv)
<1>0. /\ "stop" \notin Ops /\ "set_working" \notin Ops
      /\ "delete" \in Ops => "edit" \notin Ops /\ "stop_runner" \notin Ops
  OBVIOUS
<1>1. Init => Inv
  BY InitTasks, InitOwn, InitHeld
<1>2. Inv /\ [Next]_vars => Inv'
  BY <1>0, TasksInductive, OwnInductive, HeldInductive
<1>3. Inv => HeldOnlyWhilePaused
  BY DEF HeldInv, StoreHeld, HeldOK, HeldOnlyWhilePaused
<1> QED BY <1>1, <1>2, <1>3, PTL DEF Spec

-----------------------------------------------------------------------------
(* What a step does to the records.  Handled are the operations that leave *)
(* the held outputs alone; the others are named with the step that does    *)
(* them.                                                                   *)

Handled(r, q) ==
  \/ \E it : q = AppendPending(r, it)
  \/ \E s \in {"stop", "working"} : q = UpdateState(r, s)
  \/ q \in {r, PopPending(r), TransitionToIdle(r), ConsumeMidTurnInputs(r)}
  \/ q \in {CancelWork(r), MarkDeleteRequested(r), ClearDeleteRequested(r)}
  \/ q \in {RecoverStaleWorking(r), DequeueToWorking(r), ClearInflight(r),
            FinishStopRequested(r)}

CompletedBy(t, n, q) ==
  /\ th[t].node = n /\ th[t].pc \in {"complete", "complete_empty"}
  /\ \E o : q = CompleteWork(rt[n], o)

WrittenBackBy(t, n, q) ==
  /\ th[t].node = n /\ th[t].pc \in {"write", "goal_write"}
  /\ th'[t].pc \in {"clear", "goal_next"}
  /\ q = th[t].snap \/ \E tr : q = RecordCompletion(th[t].snap, tr)

Made(n, q) ==
  \/ Handled(rt[n], q)
  \/ \E t \in Threads : CompletedBy(t, n, q) \/ WrittenBackBy(t, n, q)
  \/ \E c \in Clients :
       \/ ResumeNode(c, n) /\ q = Resume(rt[n])
       \/ cl[c].pc = "delete_clear" /\ cl[c].node = n /\ q = FreshRuntime
       \/ cl[c].pc = "edit_write" /\ cl[c].node = n /\ q = cl[c].snap

LEMMA ExecutorLive ==
  ASSUME NEW t, Executor(t)
  PROVE  Live(t)
BY DEF Executor, Live, ExecBegin, ExecEntry, ExecCancel, ExecCancelFinish,
       ExecConsume, ExecSucceed, ExecFail, ExecEnd, ExecAfter, ExecRecordRead,
       ExecRecordWrite, ExecClear, ExecToIdle, ExecMemory, ExecGoal,
       ExecGoalWrite, ExecGoalEnds, ExecGoalContinue, ExecComplete,
       ExecPropagate, ExecReturn

LEMMA ExecutorMakes ==
  ASSUME TypeOK, NEW t \in Threads, Executor(t)
  PROVE  UNCHANGED rt \/ \E n \in Nodes : \E q : Store(n, q) /\ Made(n, q)
<1> DEFINE n == th[t].node
           r == rt[n]
<1>a. n \in Nodes /\ th \in [Threads -> Thread]
  BY ExecutorLive, LiveThread DEF TypeOK, ThreadsOK
<1>1. CASE \/ ExecBegin(t) \/ ExecEntry(t) \/ ExecCancelFinish(t) \/ ExecSucceed(t)
           \/ ExecFail(t) \/ ExecAfter(t) \/ ExecClear(t) \/ ExecToIdle(t)
           \/ ExecConsume(t)
  <2>1. \/ UNCHANGED rt
        \/ Store(n, ClearInflight(r)) \/ Store(n, FinishStopRequested(r))
        \/ Store(n, TransitionToIdle(r)) \/ Store(n, ConsumeMidTurnInputs(r))
    BY <1>1 DEF ExecBegin, ExecEntry, ExecCancelFinish, ExecSucceed, ExecFail,
                ExecAfter, ExecClear, ExecToIdle, ExecStore, Update, ExecConsume, Remove
  <2> QED BY <1>a, <2>1 DEF Made, Handled
<1>2. CASE \/ ExecCancel(t) \/ ExecEnd(t) \/ ExecRecordRead(t) \/ ExecMemory(t)
           \/ ExecGoal(t) \/ ExecGoalEnds(t) \/ ExecReturn(t)
  BY <1>2 DEF ExecCancel, ExecEnd, ExecRecordRead, ExecMemory, ExecGoal,
              ExecGoalEnds, ExecReturn, store
<1>3. CASE ExecRecordWrite(t) \/ ExecGoalWrite(t)
  <2>1. /\ th[t].pc \in {"write", "goal_write"}
        /\ \/ Store(n, RecordCompletion(th[t].snap, th[t].item.trace))
           \/ Store(n, th[t].snap)
        /\ \E p \in {"clear", "goal_next"} :
             th' = [th EXCEPT ![t].pc = p, ![t].snap = FreshRuntime]
    BY <1>3 DEF ExecRecordWrite, ExecGoalWrite, WriteConfig
  <2>2. th'[t].pc \in {"clear", "goal_next"}
    BY <1>a, <2>1 DEF Thread
  <2>3. PICK q : Store(n, q) /\ (q = th[t].snap \/ \E tr : q = RecordCompletion(th[t].snap, tr))
    BY <2>1
  <2>4. WrittenBackBy(t, n, q)
    BY <2>1, <2>2, <2>3 DEF WrittenBackBy
  <2> QED BY <1>a, <2>3, <2>4 DEF Made
<1>4. ASSUME NEW m \in Nodes, ExecGoalContinue(t) \/ ExecPropagate(t, m)
      PROVE  UNCHANGED rt \/ \E k \in Nodes : \E q : Store(k, q) /\ Made(k, q)
  <2>1. \/ UNCHANGED rt
        \/ \E k \in Nodes : \E it : Store(k, AppendPending(rt[k], it))
    BY <1>a, <1>4 DEF ExecGoalContinue, ExecPropagate, Accept
  <2> QED BY <2>1 DEF Made, Handled
<1>5. ASSUME NEW out \in SUBSET Nodes, ExecComplete(t, out)
      PROVE  \E q : Store(n, q) /\ Made(n, q)
  <2>1. PICK o : Store(n, CompleteWork(r, o))
    BY <1>5 DEF ExecComplete, Update
  <2>2. CompletedBy(t, n, CompleteWork(r, o))
    BY <1>5 DEF CompletedBy, ExecComplete
  <2> QED BY <2>1, <2>2 DEF Made
<1> QED BY <1>1, <1>2, <1>3, <1>4, <1>5, <1>a DEF Executor

LEMMA ClientMakes ==
  ASSUME TypeOK, NEW c \in Clients, ClientStep(c) \/ ClientRequest(c)
  PROVE  UNCHANGED rt \/ \E n \in Nodes : \E q : Store(n, q) /\ Made(n, q)
<1>a. cl[c].pc # "none" => cl[c].node \in Nodes
  BY DEF TypeOK, ClientsOK
<1>1. CASE ClientStep(c)
  <2>1. CASE EmitAppend(c)
    BY <1>a, <2>1 DEF EmitAppend, Accept, Made, Handled
  <2>2. CASE ClientWake(c) \/ StopRequest(c) \/ DeleteRequest(c) \/ DeleteArchive(c)
    BY <2>2 DEF ClientWake, StopRequest, DeleteRequest, DeleteArchive
  <2>3. ASSUME NEW m \in Nodes, ResumeRelease(c, m)
        PROVE  UNCHANGED rt \/ \E q : Store(m, q) /\ Made(m, q)
    <3>1. UNCHANGED rt \/ \E it : Store(m, AppendPending(rt[m], it))
      BY <2>3 DEF ResumeRelease, Accept
    <3> QED BY <3>1 DEF Made, Handled
  <2>4. CASE DeleteRollback(c)
    <3>1. cl[c].node \in Nodes
      BY <1>a, <2>4 DEF DeleteRollback
    <3>2. \/ Store(cl[c].node, ClearDeleteRequested(rt[cl[c].node]))
          \/ Store(cl[c].node, rt[cl[c].node])
      BY <2>4 DEF DeleteRollback, Update
    <3> QED BY <3>1, <3>2 DEF Made, Handled
  <2>5. CASE DeleteClear(c)
    BY <1>a, <2>5 DEF DeleteClear, Remove, Made
  <2>6. CASE EditWrite(c)
    BY <1>a, <2>6 DEF EditWrite, WriteConfig, Made
  <2> QED BY <1>1, <2>1, <2>2, <2>3, <2>4, <2>5, <2>6 DEF ClientStep
<1>2. CASE ClientRequest(c)
  <2>1. PICK n \in Nodes :
      \/ \E tr \in Traces : Emit(c, n, tr)
      \/ \E key \in Keys, src \in Keyed : Enqueue(c, n, key, src)
      \/ Pop(c, n) \/ ResumeNode(c, n) \/ StopNode(c, n) \/ DeleteNode(c, n)
      \/ \E s \in {"stop", "working"} : SetState(c, n, s)
      \/ EditRead(c, n)
    BY <1>2 DEF ClientRequest
  <2>2. CASE (\E tr \in Traces : Emit(c, n, tr)) \/ EditRead(c, n)
    BY <2>2 DEF Emit, store, EditRead
  <2>3. CASE \E key \in Keys, src \in Keyed : Enqueue(c, n, key, src)
    <3>1. \E it : Store(n, AppendPending(rt[n], it))
      BY <2>3 DEF Enqueue, Accept
    <3> QED BY <3>1 DEF Made, Handled
  <2>4. CASE Pop(c, n) \/ StopNode(c, n) \/ DeleteNode(c, n)
    <3>1. \/ Store(n, PopPending(rt[n])) \/ Store(n, CancelWork(rt[n]))
          \/ Store(n, MarkDeleteRequested(rt[n]))
      BY <2>4 DEF Pop, StopNode, DeleteNode, Remove
    <3> QED BY <3>1 DEF Made, Handled
  <2>5. CASE ResumeNode(c, n)
    <3>1. Store(n, Resume(rt[n]))
      BY <2>5 DEF ResumeNode, Update
    <3> QED BY <2>5, <3>1 DEF Made
  <2>6. CASE \E s \in {"stop", "working"} : SetState(c, n, s)
    <3>1. \E s \in {"stop", "working"} : Store(n, UpdateState(rt[n], s))
      BY <2>6 DEF SetState, Update
    <3> QED BY <3>1 DEF Made, Handled
  <2> QED BY <2>1, <2>2, <2>3, <2>4, <2>5, <2>6
<1> QED BY <1>1, <1>2

LEMMA RecordChange ==
  ASSUME TypeOK, [Next]_vars
  PROVE  \/ UNCHANGED rt \/ Restart
         \/ \E n \in Nodes : \E q : Store(n, q) /\ Made(n, q)
<1>1. CASE Scheduler
  <2>1. \/ UNCHANGED rt
        \/ /\ spc = "recover"
           /\ Store(cur, RecoverStaleWorking(rt[cur]))
        \/ /\ spc = "dequeue"
           /\ Store(cur, DequeueToWorking(rt[cur]))
    BY <1>1 DEF Scheduler, SchedWait, SchedExit, SchedCleanup, SchedBatchEnd, SchedVisit,
         SchedCheckActive, SchedRecover, SchedDequeue, SchedSubmit, Update
  <2>2. spc \in {"recover", "dequeue"} => cur \in Nodes
    BY DEF TypeOK, SchedulerOK
  <2> QED BY <2>1, <2>2 DEF Made, Handled
<1>2. StatusCleanup \/ GraphDeleteBlocked \/ UNCHANGED vars => UNCHANGED rt
  BY DEF StatusCleanup, GraphDeleteBlocked, vars
<1> QED BY <1>1, <1>2, ExecutorMakes, ClientMakes DEF Next

-----------------------------------------------------------------------------
(* Nothing waits at a node that is being deleted.                          *)

ClosedOK(r) == r.delReq => r.pending = << >>

StoreClosed == \A n \in Nodes : ClosedOK(rt[n])

ClosedInv ==
  /\ StoreClosed
  /\ \A t \in Threads : ClosedOK(th[t].snap)
  /\ \A c \in Clients : ClosedOK(cl[c].snap)

LEMMA HandledClosed ==
  ASSUME NEW r \in Runtime, ClosedOK(r), NEW q, Handled(r, q)
  PROVE  ClosedOK(q)
<1>1. CASE \/ \E it : q = AppendPending(r, it)
           \/ \E s \in {"stop", "working"} : q = UpdateState(r, s)
  BY <1>1 DEF AppendPending, Refuses, UpdateState, Runtime, ClosedOK
<1>2. CASE q \in {r, PopPending(r), TransitionToIdle(r), ConsumeMidTurnInputs(r)}
  BY <1>2 DEF PopPending, TransitionToIdle, ConsumeMidTurnInputs, Runtime, ClosedOK
<1>3. CASE q \in {CancelWork(r), MarkDeleteRequested(r), ClearDeleteRequested(r)}
  BY <1>3 DEF CancelWork, MarkDeleteRequested, ClearDeleteRequested, Runtime, ClosedOK
<1>4. CASE q = DequeueToWorking(r)
  <2>1. q = r \/ (~r.delReq /\ q.delReq = r.delReq)
    BY <1>4 DEF DequeueToWorking, CanDequeue, Runtime
  <2> QED BY <2>1 DEF ClosedOK
<1>5. CASE q \in {RecoverStaleWorking(r), ClearInflight(r), FinishStopRequested(r)}
  BY <1>5 DEF RecoverStaleWorking, StaleWorking, ClearInflight, FinishStopRequested,
              Runtime, ClosedOK
<1> QED BY <1>1, <1>2, <1>3, <1>4, <1>5 DEF Handled

LEMMA OtherClosed ==
  ASSUME NEW r \in Runtime, ClosedOK(r)
  PROVE  /\ \A o : ClosedOK(CompleteWork(r, o))
         /\ \A tr : ClosedOK(RecordCompletion(r, tr))
         /\ ClosedOK(Resume(r)) /\ ClosedOK(FreshRuntime)
BY DEF CompleteWork, RecordCompletion, Resume, FreshRuntime, Runtime, ClosedOK

LEMMA ClosedInductive ==
  ASSUME TypeOK, ClosedInv, [Next]_vars
  PROVE  ClosedInv'
<1>f. ClosedOK(FreshRuntime)
  BY DEF FreshRuntime, ClosedOK
<1>1. StoreClosed'
  <2>1. CASE UNCHANGED rt
    BY <2>1 DEF ClosedInv, StoreClosed, ClosedOK
  <2>2. CASE Restart
    BY <2>2, <1>f DEF Restart, StoreClosed, ClosedOK
  <2>3. ASSUME NEW n \in Nodes, NEW q, Store(n, q), Made(n, q)
        PROVE  StoreClosed'
    <3>1. rt[n] \in Runtime /\ ClosedOK(rt[n])
      BY RecordType DEF TypeOK, ClosedInv, StoreClosed
    <3>2. ClosedOK(q)
      <4>1. CASE Handled(rt[n], q)
        BY <3>1, <4>1, HandledClosed
      <4>2. ASSUME NEW t \in Threads, CompletedBy(t, n, q) \/ WrittenBackBy(t, n, q)
            PROVE  ClosedOK(q)
        <5>1. th[t].snap \in Runtime /\ ClosedOK(th[t].snap)
          BY DEF TypeOK, ThreadsOK, Thread, ClosedInv
        <5> QED BY <3>1, <4>2, <5>1, OtherClosed DEF CompletedBy, WrittenBackBy
      <4>3. ASSUME NEW c \in Clients,
                   q \in {Resume(rt[n]), FreshRuntime, cl[c].snap}
            PROVE  ClosedOK(q)
        BY <3>1, <4>3, OtherClosed DEF ClosedInv
      <4> QED BY <2>3, <4>1, <4>2, <4>3 DEF Made
    <3>3. rt'[n] = q /\ \A m \in Nodes \ {n} : rt'[m] = rt[m]
      BY <2>3, StoreWrites DEF Writes
    <3>4. ClosedOK(rt'[n]) /\ \A m \in Nodes \ {n} : ClosedOK(rt'[m])
      BY <3>2, <3>3 DEF ClosedInv, StoreClosed
    <3> QED BY <3>4 DEF StoreClosed, ClosedOK
  <2> QED BY <2>1, <2>2, <2>3, RecordChange
<1>2. ASSUME NEW t \in Threads PROVE ClosedOK(th'[t].snap)
  BY <1>f, ThreadCopies DEF ClosedInv, StoreClosed
<1>3. ASSUME NEW c \in Clients PROVE ClosedOK(cl'[c].snap)
  BY <1>f, ClientCopies DEF ClosedInv, StoreClosed
<1> QED BY <1>1, <1>2, <1>3 DEF ClosedInv, ClosedOK

\* Nothing is queued behind a deletion, whatever requests, failures, restarts
\* and stale writes there are: append_pending refuses under the node's lock,
\* and a copy that a config transaction writes back is one from before the
\* deletion, with its queue, or one from behind it, without.
THEOREM QueueClosed == Spec => []QueueClosedByDeletion
<1> DEFINE Inv == TypeOK /\ ClosedInv
<1>1. Init => Inv
  <2> SUFFICES ASSUME Init PROVE ClosedInv
    BY InitType
  <2>1. /\ \A n \in Nodes : rt[n] = FreshRuntime
        /\ \A t \in Threads : th[t].snap = FreshRuntime
        /\ \A c \in Clients : cl[c].snap = FreshRuntime
    BY DEF Init, FreeThread, IdleClient
  <2>2. ClosedOK(FreshRuntime)
    BY DEF FreshRuntime, ClosedOK
  <2> QED BY <2>1, <2>2 DEF ClosedInv, StoreClosed
<1>2. Inv /\ [Next]_vars => Inv'
  BY NextType, ClosedInductive
<1>3. Inv => QueueClosedByDeletion
  BY DEF ClosedInv, StoreClosed, ClosedOK, QueueClosedByDeletion
<1> QED BY <1>1, <1>2, <1>3, PTL DEF Spec

-----------------------------------------------------------------------------
(* Outputs on their way.  WayInv says where copies may be: with an         *)
(* executor only while it propagates, with an API thread only while it     *)
(* releases; and that the copy of a record that an executor will write     *)
(* back has every output its node holds by then, because only the executor *)
(* of a node adds to them.                                                 *)

Writing == {"write", "goal_write"}

TasksPlace == \A t \in Threads : th[t].tasks # {} => th[t].pc = "propagate"
OutsPlace  == \A c \in Clients : cl[c].outs # << >> => cl[c].pc = "resume_release"
CopyHolds  == \A t \in Threads : th[t].pc \in Writing =>
                Elements(rt[th[t].node].held) \subseteq Elements(th[t].snap.held)

WayInv == TasksPlace /\ OutsPlace /\ CopyHolds

\* What a step does to an executor's tasks and copy.
StaysThread(t) ==
  /\ th'[t].pc = th[t].pc /\ th'[t].node = th[t].node /\ th'[t].item = th[t].item
  /\ th'[t].snap = th[t].snap /\ th'[t].tasks = th[t].tasks

ReadsRecord(t) ==
  /\ th[t].pc # "propagate" /\ th'[t].tasks = th[t].tasks
  /\ th'[t].node = th[t].node /\ th'[t].snap = rt[th[t].node] /\ UNCHANGED rt

GoesOn(t) ==
  /\ th[t].pc # "propagate" /\ th'[t].pc \notin Writing
  /\ th'[t].tasks = th[t].tasks \/ th'[t].tasks = {} \/ th'[t].pc = "propagate"

ThreadWay(t) ==
  \/ StaysThread(t) \/ ReadsRecord(t) \/ GoesOn(t)
  \/ \E m \in Nodes : ExecPropagate(t, m)

LEMMA ExecutorWay ==
  ASSUME TypeOK, NEW t \in Threads, Executor(t), NEW u \in Threads
  PROVE  ThreadWay(u)
<1>a. th \in [Threads -> Thread]
  BY DEF TypeOK, ThreadsOK
<1>b. ASSUME NEW x, th' = [th EXCEPT ![t] = x] PROVE u # t => StaysThread(u)
  BY <1>a, <1>b DEF StaysThread
<1>c. ASSUME NEW p, Goto(t, p), th[t].pc # "propagate", p \notin Writing
      PROVE  ThreadWay(u)
  <2>1. u # t => StaysThread(u)
    BY <1>a, <1>c DEF Goto, StaysThread
  <2>2. GoesOn(t)
    BY <1>a, <1>c DEF Goto, GoesOn, Thread
  <2> QED BY <2>1, <2>2 DEF ThreadWay
<1>1. CASE \/ ExecCancel(t) \/ ExecCancelFinish(t) \/ ExecSucceed(t) \/ ExecEnd(t)
           \/ ExecAfter(t) \/ ExecClear(t) \/ ExecToIdle(t) \/ ExecMemory(t)
           \/ ExecGoalEnds(t) \/ ExecGoalContinue(t)
  <2>1. th[t].pc # "propagate" /\ \E p : Goto(t, p) /\ p \notin Writing
    BY <1>1 DEF ExecCancel, ExecCancelFinish, ExecSucceed, ExecEnd, ExecAfter,
                ExecClear, ExecToIdle, ExecMemory, ExecGoalEnds, ExecGoalContinue,
                ExecStore, Writing
  <2> QED BY <1>c, <2>1
<1>2. CASE ExecBegin(t) \/ ExecEntry(t) \/ ExecFail(t)
  <2>1. /\ th[t].pc # "propagate"
        /\ \/ \E p : Goto(t, p) /\ p \notin Writing
           \/ \E p, h : th' = [th EXCEPT ![t].pc = p, ![t].how = h] /\ p \notin Writing
           \/ \E p, h : th' = [th EXCEPT ![t].pc = p, ![t].cancelled = h] /\ p \notin Writing
    <3>1. CASE ExecBegin(t)
      BY <3>1 DEF ExecBegin, Writing
    <3>2. CASE ExecEntry(t)
      BY <3>2 DEF ExecEntry, Writing
    <3>3. CASE ExecFail(t)
      <4> DEFINE p == IF rt[th[t].node].stopReq THEN "end_return" ELSE "record"
                 h == IF rt[th[t].node].stopReq THEN th[t].how ELSE "failed"
      <4>1. /\ th[t].pc = "logic" /\ p \notin Writing
            /\ th' = [th EXCEPT ![t].pc = p, ![t].how = h]
        BY <3>3 DEF ExecFail, Writing
      <4> QED BY <4>1
    <3> QED BY <1>2, <3>1, <3>2, <3>3
  <2>2. ASSUME NEW p, NEW h, p \notin Writing,
               \/ th' = [th EXCEPT ![t].pc = p, ![t].how = h]
               \/ th' = [th EXCEPT ![t].pc = p, ![t].cancelled = h]
        PROVE  ThreadWay(u)
    <3>1. u # t => StaysThread(u)
      BY <1>a, <2>2 DEF StaysThread
    <3>2. GoesOn(t)
      BY <1>a, <2>1, <2>2 DEF GoesOn, Thread
    <3> QED BY <3>1, <3>2 DEF ThreadWay
  <2> QED BY <1>c, <2>1, <2>2
<1>3. CASE ExecConsume(t)
  BY <1>3 DEF ExecConsume, ThreadWay, StaysThread
<1>4. CASE ExecRecordRead(t) \/ ExecGoal(t)
  <2>1. /\ th[t].pc # "propagate" /\ UNCHANGED rt
        /\ \/ \E p : Goto(t, p) /\ p \notin Writing
           \/ \E p : th' = [th EXCEPT ![t].pc = p, ![t].snap = rt[th[t].node]]
    BY <1>4 DEF ExecRecordRead, ExecGoal, store, Writing
  <2>2. ASSUME NEW p, th' = [th EXCEPT ![t].pc = p, ![t].snap = rt[th[t].node]]
        PROVE  ThreadWay(u)
    <3>1. u # t => StaysThread(u)
      BY <1>a, <2>2 DEF StaysThread
    <3>2. /\ th'[t].snap = rt[th[t].node]
          /\ th'[t].node = th[t].node /\ th'[t].tasks = th[t].tasks
      BY <1>a, <2>2 DEF Thread
    <3>3. ReadsRecord(t)
      BY <2>1, <3>2 DEF ReadsRecord
    <3> QED BY <3>1, <3>3 DEF ThreadWay
  <2> QED BY <1>c, <2>1, <2>2
<1>5. CASE ExecRecordWrite(t) \/ ExecGoalWrite(t)
  <2>1. /\ th[t].pc # "propagate"
        /\ \E p : th' = [th EXCEPT ![t].pc = p, ![t].snap = FreshRuntime] /\ p \notin Writing
    BY <1>5 DEF ExecRecordWrite, ExecGoalWrite, Writing
  <2>2. u # t => StaysThread(u)
    BY <1>a, <2>1 DEF StaysThread
  <2>3. GoesOn(t)
    BY <1>a, <2>1 DEF GoesOn, Thread
  <2> QED BY <2>2, <2>3 DEF ThreadWay
<1>6. ASSUME NEW out \in SUBSET Nodes, ExecComplete(t, out) PROVE ThreadWay(u)
  <2>1. /\ th[t].pc # "propagate"
        /\ \/ th' = [th EXCEPT ![t].pc = "return"]
           \/ th' = [th EXCEPT ![t].pc = "propagate", ![t].tasks = out]
    BY <1>6 DEF ExecComplete
  <2>2. u # t => StaysThread(u)
    BY <1>a, <2>1 DEF StaysThread
  <2>3. GoesOn(t)
    BY <1>a, <2>1 DEF GoesOn, Thread, Writing
  <2> QED BY <2>2, <2>3 DEF ThreadWay
<1>7. ASSUME NEW m \in Nodes, ExecPropagate(t, m) PROVE ThreadWay(u)
  <2>1. \E p : th' = [th EXCEPT ![t].tasks = th[t].tasks \ {m}, ![t].pc = p]
    BY <1>7 DEF ExecPropagate
  <2>2. u # t => StaysThread(u)
    BY <1>a, <2>1 DEF StaysThread
  <2> QED BY <1>7, <2>2 DEF ThreadWay
<1>8. CASE ExecReturn(t)
  <2>1. th[t].pc # "propagate" /\ th' = [th EXCEPT ![t] = FreeThread]
    BY <1>8 DEF ExecReturn
  <2>2. GoesOn(t)
    BY <1>a, <2>1 DEF GoesOn, FreeThread, Writing
  <2> QED BY <1>b, <2>1, <2>2 DEF ThreadWay
<1> QED BY <1>1, <1>2, <1>3, <1>4, <1>5, <1>6, <1>7, <1>8 DEF Executor

LEMMA ThreadsWay ==
  ASSUME TypeOK, [Next]_vars, "restart" \notin Ops, NEW u \in Threads
  PROVE  ThreadWay(u)
<1>a. th \in [Threads -> Thread]
  BY DEF TypeOK, ThreadsOK
<1>s. UNCHANGED th => ThreadWay(u)
  BY DEF ThreadWay, StaysThread
<1>1. CASE Scheduler
  <2>1. CASE UNCHANGED th
    BY <1>s, <2>1
  <2>2. CASE ~UNCHANGED th
    <3>1. PICK t \in Threads :
            /\ ~Live(t)
            /\ th' = [th EXCEPT ![t] = [FreeThread EXCEPT !.pc = "start",
                                          !.node = cur, !.item = picked]]
      BY <1>1, <2>2 DEF Scheduler, SchedWait, SchedExit, SchedCleanup, SchedBatchEnd,
           SchedVisit, SchedCheckActive, SchedRecover, SchedDequeue, SchedSubmit
    <3>2. u # t => StaysThread(u)
      BY <1>a, <3>1 DEF StaysThread
    <3>3. GoesOn(t)
      BY <1>a, <3>1 DEF GoesOn, FreeThread, Live, Writing
    <3> QED BY <3>2, <3>3 DEF ThreadWay
  <2> QED BY <2>1, <2>2
<1>2. ASSUME NEW t \in Threads, Executor(t) PROVE ThreadWay(u)
  BY <1>2, ExecutorWay
<1>3. ASSUME NEW c \in Clients, ClientStep(c) \/ ClientRequest(c) PROVE ThreadWay(u)
  <2>1. UNCHANGED th \/ RequestCancellation(cl[c].node)
    BY <1>3 DEF ClientStep, ClientRequest, NoExec, EmitAppend, ClientWake,
         StopRequest, DeleteRequest, ResumeRelease, DeleteArchive,
         DeleteRollback, DeleteClear, EditWrite, Emit, Enqueue, Pop, SetState,
         ResumeNode, StopNode, DeleteNode, EditRead
  <2>2. RequestCancellation(cl[c].node) => StaysThread(u)
    BY <1>a DEF RequestCancellation, StaysThread, Thread
  <2> QED BY <1>s, <2>1, <2>2 DEF ThreadWay
<1>4. ~Restart
  BY DEF Restart
<1>5. StatusCleanup \/ GraphDeleteBlocked \/ UNCHANGED vars => UNCHANGED th
  BY DEF StatusCleanup, GraphDeleteBlocked, NoExec, vars
<1> QED BY <1>1, <1>2, <1>3, <1>4, <1>5, <1>s DEF Next

\* What a step does to the outputs an API thread releases.
ClientWay(d) ==
  \/ cl'[d].pc = cl[d].pc /\ cl'[d].outs = cl[d].outs
  \/ /\ cl[d].pc # "resume_release"
     /\ cl'[d].outs # << >> => cl'[d].pc = "resume_release"
  \/ \E m \in Nodes : ResumeRelease(d, m)

LEMMA ClientsWay ==
  ASSUME TypeOK, [Next]_vars, "restart" \notin Ops, NEW d \in Clients
  PROVE  ClientWay(d)
<1>a. cl \in [Clients -> Client]
  BY DEF TypeOK, ClientsOK
<1>s. UNCHANGED cl => ClientWay(d)
  BY DEF ClientWay
<1>b. ASSUME NEW c \in Clients, NEW x, cl' = [cl EXCEPT ![c] = x],
             cl[c].pc # "resume_release",
             x.outs # << >> => x.pc = "resume_release"
      PROVE  ClientWay(d)
  BY <1>a, <1>b DEF ClientWay
<1>c. ASSUME NEW c \in Clients, cl[c].pc # "resume_release",
             Reply(c) \/ \E n, p : Continue(c, n, p)
      PROVE  ClientWay(d)
  <2>1. CASE Reply(c)
    BY <1>b, <1>c, <2>1 DEF Reply, IdleClient
  <2>2. ASSUME NEW n, NEW p, Continue(c, n, p) PROVE ClientWay(d)
    BY <1>b, <1>c, <2>2 DEF Continue, IdleClient
  <2> QED BY <1>c, <2>1, <2>2
<1>1. ASSUME NEW c \in Clients, ClientStep(c) PROVE ClientWay(d)
  <2>1. CASE \/ EmitAppend(c) \/ ClientWake(c) \/ StopRequest(c) \/ DeleteRequest(c)
             \/ DeleteArchive(c) \/ DeleteRollback(c) \/ DeleteClear(c) \/ EditWrite(c)
    <3>1. /\ cl[c].pc # "resume_release"
          /\ Reply(c) \/ \E n, p : Continue(c, n, p)
      BY <2>1 DEF EmitAppend, ClientWake, StopRequest, DeleteRequest, DeleteArchive,
                  DeleteRollback, DeleteClear, EditWrite
    <3> QED BY <1>c, <3>1
  <2>2. ASSUME NEW m \in Nodes, ResumeRelease(c, m) PROVE ClientWay(d)
    <3>1. CASE c = d
      BY <2>2, <3>1 DEF ClientWay
    <3>2. CASE c # d
      <4>1. Reply(c) \/ \E o, p : cl' = [cl EXCEPT ![c].outs = o, ![c].pc = p]
        BY <2>2 DEF ResumeRelease
      <4>2. cl'[d] = cl[d]
        BY <1>a, <3>2, <4>1 DEF Reply
      <4> QED BY <4>2 DEF ClientWay
    <3> QED BY <3>1, <3>2
  <2> QED BY <1>1, <2>1, <2>2 DEF ClientStep
<1>2. ASSUME NEW c \in Clients, ClientRequest(c) PROVE ClientWay(d)
  <2>1. PICK n \in Nodes :
      \/ \E tr \in Traces : Emit(c, n, tr)
      \/ \E key \in Keys, src \in Keyed : Enqueue(c, n, key, src)
      \/ Pop(c, n) \/ ResumeNode(c, n) \/ StopNode(c, n) \/ DeleteNode(c, n)
      \/ \E s \in {"stop", "working"} : SetState(c, n, s)
      \/ EditRead(c, n)
    BY <1>2 DEF ClientRequest
  <2>2. CASE \E tr \in Traces : Emit(c, n, tr)
    <3>1. cl[c].pc # "resume_release" /\ \E it : cl' = [cl EXCEPT ![c] =
             [IdleClient EXCEPT !.pc = "emit_append", !.node = n, !.item = it]]
      BY <2>2 DEF Emit, Request
    <3> QED BY <1>b, <3>1 DEF IdleClient
  <2>3. CASE \/ \E key \in Keys, src \in Keyed : Enqueue(c, n, key, src)
             \/ StopNode(c, n) \/ DeleteNode(c, n)
    <3>1. cl[c].pc # "resume_release" /\ (Reply(c) \/ \E p : Continue(c, n, p))
      BY <2>3 DEF Enqueue, StopNode, DeleteNode, Request
    <3> QED BY <1>c, <3>1
  <2>4. CASE Pop(c, n) \/ \E s \in {"stop", "working"} : SetState(c, n, s)
    BY <1>s, <2>4 DEF Pop, SetState
  <2>5. CASE ResumeNode(c, n)
    <3> DEFINE p == IF Released(rt[n]) = << >> THEN "wake" ELSE "resume_release"
               x == [IdleClient EXCEPT !.pc = p, !.node = n, !.outs = Released(rt[n])]
    <3>1. cl[c].pc # "resume_release" /\ cl' = [cl EXCEPT ![c] = x]
      BY <2>5 DEF ResumeNode, Request
    <3>2. x.outs # << >> => x.pc = "resume_release"
      BY DEF IdleClient
    <3> HIDE DEF x
    <3> QED BY <1>b, <3>1, <3>2
  <2>6. CASE EditRead(c, n)
    BY <1>b, <2>6 DEF EditRead, Request, IdleClient
  <2> QED BY <2>1, <2>2, <2>3, <2>4, <2>5, <2>6
<1>3. ~Restart
  BY DEF Restart
<1>4. Scheduler => UNCHANGED cl
  BY DEF Scheduler, SchedWait, SchedExit, SchedCleanup, SchedBatchEnd, SchedVisit,
         SchedCheckActive, SchedRecover, SchedDequeue, SchedSubmit
<1>5. ASSUME NEW t \in Threads, Executor(t) PROVE UNCHANGED cl
  BY <1>5 DEF Executor, NoApi, ExecStore,
         ExecBegin, ExecEntry, ExecCancel,
         ExecCancelFinish, ExecConsume, ExecSucceed, ExecFail, ExecEnd,
         ExecAfter, ExecRecordRead, ExecRecordWrite, ExecClear, ExecToIdle,
         ExecMemory, ExecGoal, ExecGoalWrite, ExecGoalEnds, ExecGoalContinue,
         ExecComplete, ExecPropagate, ExecReturn
<1>6. StatusCleanup \/ GraphDeleteBlocked \/ UNCHANGED vars => UNCHANGED cl
  BY DEF StatusCleanup, GraphDeleteBlocked, vars
<1> QED BY <1>1, <1>2, <1>3, <1>4, <1>5, <1>6, <1>s DEF Next

LEMMA HandledHeld ==
  ASSUME NEW r \in Runtime, NEW q, Handled(r, q)
  PROVE  q.held = r.held
<1>1. CASE \/ \E it : q = AppendPending(r, it)
           \/ \E s \in {"stop", "working"} : q = UpdateState(r, s)
  BY <1>1 DEF AppendPending, UpdateState, Runtime
<1>2. CASE q \in {r, PopPending(r), TransitionToIdle(r), ConsumeMidTurnInputs(r)}
  BY <1>2 DEF PopPending, TransitionToIdle, ConsumeMidTurnInputs, Runtime
<1>3. CASE q \in {CancelWork(r), MarkDeleteRequested(r), ClearDeleteRequested(r)}
  BY <1>3 DEF CancelWork, MarkDeleteRequested, ClearDeleteRequested, Runtime
<1>4. CASE q = DequeueToWorking(r)
  BY <1>4 DEF DequeueToWorking, Runtime
<1>5. CASE q \in {RecoverStaleWorking(r), ClearInflight(r), FinishStopRequested(r)}
  BY <1>5 DEF RecoverStaleWorking, ClearInflight, FinishStopRequested, Runtime
<1> QED BY <1>1, <1>2, <1>3, <1>4, <1>5 DEF Handled

LEMMA CompletedHeld ==
  ASSUME NEW r \in Runtime, NEW o
  PROVE  Elements(r.held) \subseteq Elements(CompleteWork(r, o).held)
<1>1. r.held \in Seq(Output)
  BY DEF Runtime
<1>2. CompleteWork(r, o).held \in {r.held, Append(r.held, o)}
  BY DEF CompleteWork, Runtime
<1>3. Elements(r.held) \subseteq Elements(Append(r.held, o))
  BY <1>1 DEF Elements
<1> QED BY <1>2, <1>3

LEMMA OtherHeld ==
  ASSUME NEW r \in Runtime
  PROVE  /\ \A tr : RecordCompletion(r, tr).held = r.held
         /\ Elements(Resume(r).held) \subseteq Elements(r.held)
         /\ Elements(FreshRuntime.held) = {}
<1>1. \A tr : RecordCompletion(r, tr).held = r.held
  BY DEF RecordCompletion, Runtime
<1>2. Resume(r).held \in {r.held, << >>}
  BY DEF Resume, Runtime
<1>3. Elements(<< >>) = {} /\ FreshRuntime.held = << >>
  BY DEF Elements, FreshRuntime
<1> QED BY <1>1, <1>2, <1>3

\* While an executor is about to write, nothing is added to what its node
\* holds.
LEMMA CopyHoldsKept ==
  ASSUME TaskInv, AllLiveAreTasks, WayInv, [Next]_vars,
         Ops \cap {"edit", "restart"} = {}, OwnInv,
         NEW t \in Threads, th'[t].pc \in Writing
  PROVE  Elements(rt'[th'[t].node].held) \subseteq Elements(th'[t].snap.held)
<1>a. /\ TypeOK /\ "restart" \notin Ops
      /\ th \in [Threads -> Thread]
  BY DEF TaskInv, TypeOK, ThreadsOK
<1>1. CASE ReadsRecord(t)
  BY <1>1 DEF ReadsRecord
<1>2. CASE StaysThread(t)
  <2> DEFINE n == th[t].node
  <2>1. /\ th[t].pc \in Writing /\ th'[t].node = n /\ th'[t].snap = th[t].snap
        /\ Elements(rt[n].held) \subseteq Elements(th[t].snap.held)
    BY <1>2 DEF StaysThread, WayInv, CopyHolds
  <2>2. Live(t) /\ n \in Nodes /\ rt[n] \in Runtime
    BY <1>a, <2>1, LiveThread, RecordType DEF TypeOK, Live, Writing
  <2>3. \A u \in Threads : th[u].node = n /\ Live(u) => u = t
    BY <2>2 DEF TaskInv, AllLiveAreTasks, OneTaskPerNode
  <2>4. Elements(rt'[n].held) \subseteq Elements(rt[n].held)
    <3>1. CASE UNCHANGED rt
      BY <3>1
    <3>2. ~Restart
      BY <1>a DEF Restart
    <3>3. ASSUME NEW k \in Nodes, NEW q, Store(k, q), Made(k, q)
          PROVE  Elements(rt'[n].held) \subseteq Elements(rt[n].held)
      <4>1. rt'[k] = q /\ \A m \in Nodes \ {k} : rt'[m] = rt[m]
        BY <1>a, <3>3, StoreWrites DEF Writes
      <4>2. CASE k # n
        BY <2>2, <4>1, <4>2
      <4>3. CASE k = n
        <5>1. CASE Handled(rt[n], q)
          BY <2>2, <4>1, <4>3, <5>1, HandledHeld
        <5>2. ASSUME NEW u \in Threads, CompletedBy(u, n, q) \/ WrittenBackBy(u, n, q)
              PROVE  FALSE
          <6>1. th[u].node = n /\ Live(u)
            BY <5>2 DEF CompletedBy, WrittenBackBy, Live
          <6>2. u = t
            BY <2>3, <6>1
          <6> QED BY <1>2, <2>1, <5>2, <6>2
                  DEF CompletedBy, WrittenBackBy, StaysThread, Writing
        <5>3. ASSUME NEW c \in Clients, q \in {Resume(rt[n]), FreshRuntime}
              PROVE  Elements(rt'[n].held) \subseteq Elements(rt[n].held)
          BY <2>2, <4>1, <4>3, <5>3, OtherHeld
        <5>4. \A c \in Clients : cl[c].pc # "edit_write"
          BY DEF OwnInv
        <5> QED BY <3>3, <4>3, <5>1, <5>2, <5>3, <5>4 DEF Made
      <4> QED BY <4>2, <4>3
    <3> QED BY <1>a, <3>1, <3>2, <3>3, RecordChange
  <2> QED BY <2>1, <2>4
<1>3. ~GoesOn(t)
  BY DEF GoesOn
<1>4. \A m \in Nodes : ~ExecPropagate(t, m)
  <2> SUFFICES ASSUME NEW m \in Nodes, ExecPropagate(t, m) PROVE FALSE
    OBVIOUS
  <2>1. \E p : p \in {"return", "propagate"} /\
               th' = [th EXCEPT ![t].tasks = th[t].tasks \ {m}, ![t].pc = p]
    BY DEF ExecPropagate
  <2> QED BY <1>a, <2>1 DEF Thread, Writing
<1> QED BY <1>a, <1>1, <1>2, <1>3, <1>4, ThreadsWay DEF ThreadWay

LEMMA WayInductive ==
  ASSUME TaskInv, AllLiveAreTasks, WayInv, [Next]_vars,
         Ops \cap {"edit", "restart"} = {}, OwnInv
  PROVE  WayInv'
<1>a. /\ TypeOK /\ "restart" \notin Ops
      /\ th \in [Threads -> Thread] /\ cl \in [Clients -> Client]
  BY DEF TaskInv, TypeOK, ThreadsOK, ClientsOK
<1>1. ASSUME NEW t \in Threads PROVE th'[t].tasks # {} => th'[t].pc = "propagate"
  <2>1. th[t].tasks # {} => th[t].pc = "propagate"
    BY DEF WayInv, TasksPlace
  <2>2. CASE StaysThread(t) \/ ReadsRecord(t) \/ GoesOn(t)
    BY <2>1, <2>2 DEF StaysThread, ReadsRecord, GoesOn
  <2>3. ASSUME NEW m \in Nodes, ExecPropagate(t, m)
        PROVE  th'[t].tasks # {} => th'[t].pc = "propagate"
    <3> DEFINE p == IF th[t].tasks = {m} THEN "return" ELSE th[t].pc
    <3>1. /\ th[t].pc = "propagate" /\ m \in th[t].tasks
          /\ th' = [th EXCEPT ![t].tasks = th[t].tasks \ {m}, ![t].pc = p]
      BY <2>3 DEF ExecPropagate
    <3>2. th'[t].tasks = th[t].tasks \ {m} /\ th'[t].pc = p
      BY <1>a, <3>1 DEF Thread
    <3> QED BY <3>1, <3>2
  <2> QED BY <1>a, <2>2, <2>3, ThreadsWay DEF ThreadWay
<1>2. ASSUME NEW d \in Clients PROVE cl'[d].outs # << >> => cl'[d].pc = "resume_release"
  <2>1. cl[d].outs # << >> => cl[d].pc = "resume_release"
    BY DEF WayInv, OutsPlace
  <2>2. ASSUME NEW m \in Nodes, ResumeRelease(d, m)
        PROVE  cl'[d].outs # << >> => cl'[d].pc = "resume_release"
    <3>1. CASE Reply(d)
      BY <1>a, <3>1 DEF Reply, IdleClient
    <3>2. CASE ~Reply(d)
      <4>1. PICK o : cl' = [cl EXCEPT ![d].outs = o,
                              ![d].pc = IF o = << >> THEN "wake" ELSE cl[d].pc]
        BY <2>2, <3>2 DEF ResumeRelease
      <4>2. cl[d].pc = "resume_release"
        BY <2>2 DEF ResumeRelease
      <4>3. cl'[d].outs = o /\ cl'[d].pc = IF o = << >> THEN "wake" ELSE cl[d].pc
        BY <1>a, <4>1 DEF Client
      <4> QED BY <4>2, <4>3
    <3> QED BY <3>1, <3>2
  <2> QED BY <1>a, <2>1, <2>2, ClientsWay DEF ClientWay
<1> QED BY <1>1, <1>2, CopyHoldsKept DEF WayInv, TasksPlace, OutsPlace, CopyHolds

\* Where a copy on its way is, before and after a step.
LEMMA WayPlaces ==
  ASSUME NEW copy
  PROVE  copy \in OnTheWay <=>
           \/ \E n \in Nodes : copy \in HeldCopies(n)
           \/ \E c \in Clients : copy \in ReleasedCopies(c)
           \/ \E t \in Threads : copy \in SentCopies(t)
<1>1. copy \in UNION {HeldCopies(n) : n \in Nodes}
        <=> \E n \in Nodes : copy \in HeldCopies(n)
  OBVIOUS
<1>2. copy \in UNION {ReleasedCopies(c) : c \in Clients}
        <=> \E c \in Clients : copy \in ReleasedCopies(c)
  OBVIOUS
<1>3. copy \in UNION {SentCopies(t) : t \in Threads}
        <=> \E t \in Threads : copy \in SentCopies(t)
  OBVIOUS
<1> QED BY <1>1, <1>2, <1>3 DEF OnTheWay

LEMMA WayPlacesNext ==
  ASSUME NEW copy
  PROVE  /\ \A n \in Nodes : copy \in HeldCopies(n)' => copy \in OnTheWay'
         /\ \A c \in Clients : copy \in ReleasedCopies(c)' => copy \in OnTheWay'
         /\ \A t \in Threads : copy \in SentCopies(t)' => copy \in OnTheWay'
<1>1. ASSUME NEW n \in Nodes, copy \in HeldCopies(n)'
      PROVE  copy \in UNION {HeldCopies(k)' : k \in Nodes}
  BY <1>1
<1>2. ASSUME NEW c \in Clients, copy \in ReleasedCopies(c)'
      PROVE  copy \in UNION {ReleasedCopies(k)' : k \in Clients}
  BY <1>2
<1>3. ASSUME NEW t \in Threads, copy \in SentCopies(t)'
      PROVE  copy \in UNION {SentCopies(k)' : k \in Threads}
  BY <1>3
<1> QED BY <1>1, <1>2, <1>3 DEF OnTheWay

LEMMA ElementsOfRest ==
  ASSUME NEW S, NEW s \in Seq(S), s # << >>, NEW x
  PROVE  /\ Elements(s) \subseteq {Head(s)} \cup Elements(Tail(s))
         /\ Elements(<<x>> \o Tail(s)) = {x} \cup Elements(Tail(s))
<1>1. Tail(s) \in Seq(S) /\ Len(s) \in Nat /\ Len(s) > 0 /\ Len(Tail(s)) = Len(s) - 1
  OBVIOUS
<1>2. ASSUME NEW i \in DOMAIN s, i # 1
      PROVE  i - 1 \in DOMAIN Tail(s) /\ Tail(s)[i - 1] = s[i]
  BY <1>1, <1>2
<1>3. ASSUME NEW y \in Elements(s) PROVE y \in {Head(s)} \cup Elements(Tail(s))
  <2>1. PICK i \in DOMAIN s : y = s[i]
    BY DEF Elements
  <2>2. CASE i = 1
    BY <2>1, <2>2
  <2>3. CASE i # 1
    <3>1. i - 1 \in DOMAIN Tail(s) /\ Tail(s)[i - 1] = y
      BY <1>2, <2>1, <2>3
    <3> QED BY <3>1 DEF Elements
  <2> QED BY <2>2, <2>3
<1> DEFINE q == Tail(s)
           c == <<x>> \o q
<1>4. /\ DOMAIN c = 1..(Len(q) + 1) /\ c[1] = x
      /\ \A i \in 1..Len(q) : c[i + 1] = q[i]
  <2> HIDE DEF q
  <2>1. q \in Seq(S)
    BY <1>1 DEF q
  <2> QED BY <2>1
<1>5. Elements(c) = {x} \cup Elements(q)
  <2>1. q \in Seq(S) /\ Len(q) \in Nat
    BY <1>1
  <2> HIDE DEF q, c
  <2>2. ASSUME NEW y \in Elements(c) PROVE y \in {x} \cup Elements(q)
    <3>1. PICK i \in DOMAIN c : y = c[i]
      BY DEF Elements
    <3>2. CASE i = 1
      BY <1>4, <3>1, <3>2
    <3>3. CASE i # 1
      <4>1. i - 1 \in 1..Len(q) /\ c[(i - 1) + 1] = q[i - 1]
        BY <1>4, <2>1, <3>3
      <4>2. y = q[i - 1] /\ i - 1 \in DOMAIN q
        BY <1>4, <2>1, <3>1, <4>1
      <4> QED BY <4>2 DEF Elements
    <3> QED BY <3>2, <3>3
  <2>3. x \in Elements(c)
    <3>1. 1 \in DOMAIN c /\ c[1] = x
      BY <1>4, <2>1
    <3> QED BY <3>1 DEF Elements
  <2>4. ASSUME NEW y \in Elements(q) PROVE y \in Elements(c)
    <3>1. PICK i \in DOMAIN q : y = q[i]
      BY DEF Elements
    <3>2. i + 1 \in DOMAIN c /\ c[i + 1] = y
      BY <1>4, <2>1, <3>1
    <3> QED BY <3>2 DEF Elements
  <2> QED BY <2>2, <2>3, <2>4
<1> QED BY <1>3, <1>5

LEMMA AppendArrives ==
  ASSUME TypeOK, NEW m \in Nodes, NEW tr, NEW d, ~Refuses(rt[m]),
         Accept(m, Propagated(tr, d))
  PROVE  Propagated(tr, d) \in Elements(rt'[m].pending)
<1> DEFINE it == Propagated(tr, d)
<1>1. rt[m] \in Runtime /\ rt'[m] = AppendPending(rt[m], it)
  BY RecordType, StoreWrites DEF TypeOK, Accept, Writes
<1>2. ~AlreadyKnown(rt[m], it)
  BY DEF AlreadyKnown, Propagated, Keyed
<1> HIDE DEF it
<1>3. rt'[m].pending = Append(rt[m].pending, it) /\ rt[m].pending \in Seq(Item)
  BY <1>1, <1>2 DEF AppendPending, Runtime
<1> QED BY <1>3 DEF Elements, it

\* A held output stays held, goes to the API thread that resumes its node, or
\* goes with its node.
LEMMA HeldArrives ==
  ASSUME TaskInv, WayInv, OwnInv, [Next]_vars, "restart" \notin Ops,
         NEW n \in Nodes, NEW copy \in HeldCopies(n)
  PROVE  copy \in OnTheWay' \/ LostToDeletion(copy)
<1>a. TypeOK /\ rt[n] \in Runtime
  BY RecordType DEF TaskInv, TypeOK
<1>b. PICK out \in Elements(rt[n].held) : copy \in Copies(out)
  BY DEF HeldCopies
<1>c. ASSUME out \in Elements(rt'[n].held) PROVE copy \in OnTheWay'
  <2>1. copy \in HeldCopies(n)'
    BY <1>b, <1>c DEF HeldCopies, Copies
  <2> QED BY <2>1, WayPlacesNext
<1>1. CASE UNCHANGED rt
  BY <1>1, <1>b, <1>c
<1>2. ~Restart
  BY DEF Restart
<1>3. ASSUME NEW k \in Nodes, NEW q, Store(k, q), Made(k, q)
      PROVE  copy \in OnTheWay' \/ LostToDeletion(copy)
  <2>1. rt'[k] = q /\ \A m \in Nodes \ {k} : rt'[m] = rt[m]
    BY <1>a, <1>3, StoreWrites DEF Writes
  <2>2. CASE k # n
    BY <1>b, <1>c, <2>1, <2>2
  <2>3. CASE k = n
    <3>1. CASE Handled(rt[n], q)
      BY <1>a, <1>b, <1>c, <2>1, <2>3, <3>1, HandledHeld
    <3>2. ASSUME NEW t \in Threads, CompletedBy(t, n, q) PROVE copy \in OnTheWay'
      BY <1>a, <1>b, <1>c, <2>1, <2>3, <3>2, CompletedHeld DEF CompletedBy
    <3>3. ASSUME NEW t \in Threads, WrittenBackBy(t, n, q) PROVE copy \in OnTheWay'
      <4>1. out \in Elements(th[t].snap.held) /\ th[t].snap \in Runtime
        BY <1>a, <1>b, <3>3
           DEF WrittenBackBy, WayInv, CopyHolds, Writing, TypeOK, ThreadsOK, Thread
      <4>2. q.held = th[t].snap.held
        BY <3>3, <4>1, OtherHeld DEF WrittenBackBy
      <4> QED BY <1>c, <2>1, <2>3, <4>1, <4>2
    <3>4. ASSUME NEW c \in Clients, ResumeNode(c, n), q = Resume(rt[n])
          PROVE  copy \in OnTheWay'
      <4>1. CASE rt[n].delReq
        BY <1>b, <1>c, <2>1, <2>3, <3>4, <4>1 DEF Resume
      <4>2. CASE ~rt[n].delReq
        <5>1. cl'[c].outs = rt[n].held
          BY <1>a, <3>4, <4>2 DEF ResumeNode, Released, IdleClient, TypeOK, ClientsOK
        <5>2. copy \in ReleasedCopies(c)'
          BY <1>b, <5>1 DEF ReleasedCopies, Copies
        <5> QED BY <5>2, WayPlacesNext
      <4> QED BY <4>1, <4>2
    <3>5. ASSUME NEW c \in Clients, cl[c].pc = "delete_clear", cl[c].node = n
          PROVE  LostToDeletion(copy)
      BY <3>5 DEF LostToDeletion
    <3>6. \A c \in Clients : cl[c].pc # "edit_write"
      BY DEF OwnInv
    <3> QED BY <1>3, <2>3, <3>1, <3>2, <3>3, <3>4, <3>5, <3>6 DEF Made
  <2> QED BY <2>2, <2>3
<1> QED BY <1>a, <1>1, <1>2, <1>3, RecordChange

\* An output being released arrives target by target, up to a target that is
\* being deleted.
LEMMA ReleasedArrives ==
  ASSUME TypeOK, WayInv, [Next]_vars, "restart" \notin Ops,
         NEW c \in Clients, NEW copy \in ReleasedCopies(c)
  PROVE  \/ copy \in OnTheWay' \/ LostToDeletion(copy)
         \/ copy[2] \in Elements(rt'[copy[1]].pending)
<1>a. cl \in [Clients -> Client]
  BY DEF TypeOK, ClientsOK
<1>b. PICK o \in Elements(cl[c].outs) : copy \in Copies(o)
  BY DEF ReleasedCopies
<1>d. cl[c].pc = "resume_release" /\ cl[c].outs # << >>
  BY <1>b DEF Elements, WayInv, OutsPlace
<1>e. cl[c].outs \in Seq(Output)
  BY <1>a DEF Client
<1>c. ASSUME copy \in ReleasedCopies(c)' PROVE copy \in OnTheWay'
  BY <1>c, WayPlacesNext
<1>1. CASE cl'[c].outs = cl[c].outs
  BY <1>1, <1>b, <1>c DEF ReleasedCopies, Copies
<1>2. ASSUME NEW m \in Nodes, ResumeRelease(c, m)
      PROVE  \/ copy \in OnTheWay' \/ LostToDeletion(copy)
             \/ copy[2] \in Elements(rt'[copy[1]].pending)
  <2> DEFINE out  == Head(cl[c].outs)
             cut  == [out EXCEPT !.targets = @ \ {m}]
             rest == IF out.targets = {m} THEN Tail(cl[c].outs)
                     ELSE <<cut>> \o Tail(cl[c].outs)
  <2>1. m \in out.targets
    BY <1>2 DEF ResumeRelease
  <2>2. CASE Refuses(rt[m])
    BY <1>d, <2>1, <2>2 DEF LostToDeletion
  <2>3. CASE ~Refuses(rt[m])
    <3>1. /\ Accept(m, Propagated(out.trace, out.depth))
          /\ \E p : cl' = [cl EXCEPT ![c].outs = rest, ![c].pc = p]
      BY <1>2, <2>3 DEF ResumeRelease
    <3>2. Propagated(out.trace, out.depth) \in Elements(rt'[m].pending)
      BY <2>3, <3>1, AppendArrives
    <3>3. cl'[c].outs = rest
      BY <1>a, <3>1 DEF Client
    <3>4. out \in Output
      BY <1>d, <1>e
    <3>5. Elements(Tail(cl[c].outs)) \subseteq Elements(rest)
      BY <1>d, <1>e, ElementsOfRest
    <3>6. CASE o \in Elements(Tail(cl[c].outs))
      <4>1. o \in Elements(cl'[c].outs)
        BY <3>3, <3>5, <3>6
      <4> QED BY <1>b, <1>c, <4>1 DEF ReleasedCopies, Copies
    <3>7. CASE o = out
      <4>1. PICK k \in out.targets : copy = <<k, Propagated(out.trace, out.depth)>>
        BY <1>b, <3>7 DEF Copies
      <4>2. CASE k = m
        BY <3>2, <4>1, <4>2
      <4>3. CASE k # m
        <5>1. out.targets # {m}
          BY <4>1, <4>3
        <5>2. cut \in Elements(cl'[c].outs)
          <6>1. cl'[c].outs = <<cut>> \o Tail(cl[c].outs)
            BY <3>3, <5>1
          <6> HIDE DEF cut
          <6>2. cut \in Elements(<<cut>> \o Tail(cl[c].outs))
            BY <1>d, <1>e, ElementsOfRest
          <6> QED BY <6>1, <6>2
        <5>3. /\ cut.trace = out.trace /\ cut.depth = out.depth
              /\ cut.targets = out.targets \ {m}
          BY <3>4 DEF Output
        <5>4. copy \in Copies(cut)
          BY <4>1, <4>3, <5>3 DEF Copies
        <5> HIDE DEF cut
        <5> QED BY <1>c, <5>2, <5>4 DEF ReleasedCopies, Copies
      <4> QED BY <4>2, <4>3
    <3> QED BY <1>b, <1>d, <1>e, <3>6, <3>7, ElementsOfRest
  <2> QED BY <2>2, <2>3
<1> QED BY <1>1, <1>2, <1>d, ClientsWay DEF ClientWay

\* An output that an executor sends arrives target by target.
LEMMA SentArrives ==
  ASSUME TypeOK, WayInv, [Next]_vars, "restart" \notin Ops,
         NEW t \in Threads, NEW copy \in SentCopies(t)
  PROVE  \/ copy \in OnTheWay' \/ LostToDeletion(copy)
         \/ copy[2] \in Elements(rt'[copy[1]].pending)
<1>a. th \in [Threads -> Thread]
  BY DEF TypeOK, ThreadsOK
<1> DEFINE it == Propagated(th[t].item.trace, th[t].item.depth)
<1>b. PICK k \in th[t].tasks : copy = <<k, it>>
  BY DEF SentCopies
<1>d. th[t].pc = "propagate"
  BY <1>b DEF WayInv, TasksPlace
<1>c. ASSUME th'[t].item = th[t].item, k \in th'[t].tasks PROVE copy \in OnTheWay'
  <2>1. copy \in SentCopies(t)'
    BY <1>b, <1>c DEF SentCopies
  <2> QED BY <2>1, WayPlacesNext
<1>1. CASE StaysThread(t)
  BY <1>1, <1>b, <1>c DEF StaysThread
<1>2. ASSUME NEW m \in Nodes, ExecPropagate(t, m)
      PROVE  \/ copy \in OnTheWay' \/ LostToDeletion(copy)
             \/ copy[2] \in Elements(rt'[copy[1]].pending)
  <2>1. \E p : th' = [th EXCEPT ![t].tasks = th[t].tasks \ {m}, ![t].pc = p]
    BY <1>2 DEF ExecPropagate
  <2>2. th'[t].item = th[t].item /\ th'[t].tasks = th[t].tasks \ {m}
    BY <1>a, <2>1 DEF Thread
  <2>3. CASE k # m
    BY <1>b, <1>c, <2>2, <2>3
  <2>4. CASE k = m /\ Refuses(rt[m])
    BY <1>b, <2>4 DEF LostToDeletion
  <2>5. CASE k = m /\ ~Refuses(rt[m])
    <3>1. Accept(m, it)
      BY <1>2, <2>5 DEF ExecPropagate
    <3>2. it \in Elements(rt'[m].pending)
      BY <2>5, <3>1, AppendArrives
    <3> QED BY <1>b, <2>5, <3>2
  <2> QED BY <2>3, <2>4, <2>5
<1> QED BY <1>1, <1>2, <1>d, ThreadsWay DEF ThreadWay, ReadsRecord, GoesOn

\* No output gets lost between the end of an iteration and the queues of its
\* targets, for any graph, number of executors and API threads: complete_work
\* holds it or the executor sends it, resume hands on all that is held, and the
\* executor's own config writes bring nothing back from before.  Only a
\* deletion costs copies.  Left out are the requests after which it is false: a
\* settings edit writes back a record from before the output was held, and so
\* does an executor that a refused graph deletion left behind; a restart
\* forgets everything.
THEOREM OutputsDelivered ==
  ASSUME Ops \cap {"edit", "stop_runner", "restart"} = {}
  PROVE  Spec => OutputsArrive
<1> DEFINE Inv == TaskInv /\ AllLiveAreTasks /\ OwnInv /\ WayInv
<1>0. /\ "edit" \notin Ops /\ "stop_runner" \notin Ops /\ "restart" \notin Ops
      /\ Ops \cap {"edit", "restart"} = {}
  OBVIOUS
<1>1. Init => Inv
  <2> SUFFICES ASSUME Init PROVE WayInv
    BY InitTasks, InitOwn
  <2> QED BY DEF Init, FreeThread, IdleClient, WayInv, TasksPlace, OutsPlace,
                 CopyHolds, Writing
<1>2. Inv /\ [Next]_vars => Inv'
  BY <1>0, TasksInductive, OwnInductive, WayInductive
<1>3. Inv /\ [Next]_vars =>
        [\A copy \in OnTheWay :
           \/ copy \in OnTheWay'
           \/ copy[2] \in Elements(rt'[copy[1]].pending)
           \/ LostToDeletion(copy)]_vars
  <2> SUFFICES ASSUME Inv, [Next]_vars, NEW copy \in OnTheWay
               PROVE  \/ copy \in OnTheWay'
                      \/ copy[2] \in Elements(rt'[copy[1]].pending)
                      \/ LostToDeletion(copy)
    OBVIOUS
  <2>1. TypeOK /\ TaskInv /\ OwnInv /\ WayInv
    BY DEF TaskInv
  <2>2. ASSUME NEW n \in Nodes, copy \in HeldCopies(n)
        PROVE  copy \in OnTheWay' \/ LostToDeletion(copy)
    BY <1>0, <2>1, <2>2, HeldArrives
  <2>3. ASSUME NEW c \in Clients, copy \in ReleasedCopies(c)
        PROVE  \/ copy \in OnTheWay' \/ LostToDeletion(copy)
               \/ copy[2] \in Elements(rt'[copy[1]].pending)
    BY <1>0, <2>1, <2>3, ReleasedArrives
  <2>4. ASSUME NEW t \in Threads, copy \in SentCopies(t)
        PROVE  \/ copy \in OnTheWay' \/ LostToDeletion(copy)
               \/ copy[2] \in Elements(rt'[copy[1]].pending)
    BY <1>0, <2>1, <2>4, SentArrives
  <2> QED BY <2>2, <2>3, <2>4, WayPlaces
<1> QED BY <1>1, <1>2, <1>3, PTL DEF Spec, OutputsArrive
=============================================================================
