----------------------------- MODULE GraphRunner -----------------------------
(***************************************************************************)
(* One graph runner: the scheduler thread, the executor threads it starts, *)
(* and the API threads that control the nodes.  They share the runtime     *)
(* store of NodeStore; every store operation is atomic, everything between *)
(* two of them is not, and that is where the behaviour is.                 *)
(***************************************************************************)
EXTENDS NodeStore

CONSTANTS Threads,     \* executor threads that can be alive at one time
          Clients,     \* API threads
          Links,       \* output routes: Links[n] is the set of targets of n
          GoalNodes,   \* agent nodes with an active goal
          UntypedNodes,\* nodes whose config has no type_id
          Keys,        \* the traces that are keys of keyed requests
          Ops,         \* the API operations and faults of this model
          MaxRequests, \* bound: API requests in one behaviour
          NoNode

ASSUME LinksAssumption == Links \in [Nodes -> SUBSET Nodes]
ASSUME NodeSetsAssumption == GoalNodes \subseteq Nodes /\ UntypedNodes \subseteq Nodes
ASSUME KeysAssumption == Keys \subseteq Traces
ASSUME MaxRequestsAssumption == MaxRequests \in Nat
ASSUME NoNodeAssumption == NoNode \notin Nodes

VARIABLES
  rt,         \* RuntimeStateMemoryStore: the record of every node
  alive,      \* the nodes whose directory exists
  spc,        \* where the scheduler thread is
  todo,       \* nodes this batch has still to visit
  cur,        \* the node being visited
  ready,      \* ready_pending_count of cur, read before the checks
  picked,     \* the item dequeued for cur
  wake,       \* generation > observed_wake_generation
  runnerStop, \* state.stop
  active,     \* active_tasks whose future is not done: their threads
  finished,   \* active_tasks whose future is done: <<node, trace>>
  th,         \* executor threads
  cl,         \* API threads
  requests,   \* API requests so far (bounded by MaxRequests)
  used,       \* traces already given to an emitted message
  queued,     \* history: items accepted and not yet taken out, by node
  started     \* history: <<node, item>> handed to an executor

store   == <<rt, alive>>
batch   == <<todo, cur, ready, picked>>
runner  == <<wake, runnerStop, active, finished>>
history == <<queued, started>>
vars == <<rt, alive, spc, todo, cur, ready, picked, wake, runnerStop, active,
          finished, th, cl, requests, used, queued, started>>

-----------------------------------------------------------------------------
(* Threads                                                                 *)

ThreadPc == {"free", "start", "entry", "logic", "cancelling", "end_ok",
             "end_return", "after", "record", "write", "clear", "to_idle",
             "memory", "goal", "goal_write", "goal_next", "complete",
             "complete_empty", "propagate", "return"}

\* The way an iteration ends decides which steps it still takes.
Hows == {"ok", "failed", "notice", "untyped"}

Thread == [pc : ThreadPc, node : Nodes \cup {NoNode},
           item : Item \cup {NoItem}, how : Hows,
           cancelled : BOOLEAN,      \* its cancel event is set
           snap : Runtime,           \* runtime part of a config transaction
           tasks : SUBSET Nodes]     \* propagation tasks still to enqueue

FreeThread == [pc |-> "free", node |-> NoNode, item |-> NoItem, how |-> "ok",
               cancelled |-> FALSE, snap |-> FreshRuntime, tasks |-> {}]

\* The future of t is not done.
Live(t) == th[t].pc # "free"

\* Between node_cancellations.begin and .end.
Registered(t) ==
  \/ th[t].pc \in {"entry", "logic", "cancelling", "end_ok", "end_return"}
  \/ th[t].how \in {"failed", "notice"}
       /\ th[t].pc \in {"record", "write", "clear", "to_idle"}

StopRequested(t) == th[t].cancelled \/ rt[th[t].node].stopReq

ClientPc == {"none", "emit_append", "wake", "stop_request", "resume_release",
             "delete_request", "delete_wait", "delete_clear", "edit_write"}

Client == [pc : ClientPc, node : Nodes \cup {NoNode},
           item : Item \cup {NoItem}, outs : Seq(Output), snap : Runtime]

IdleClient == [pc |-> "none", node |-> NoNode, item |-> NoItem,
               outs |-> << >>, snap |-> FreshRuntime]

SchedulerPc == {"dead", "wait", "cleanup", "scan", "check", "recover",
                "dequeue", "submit"}

-----------------------------------------------------------------------------
(* Store steps, with the history of the pending items they add or remove.  *)

Store(n, r) == rt' = [rt EXCEPT ![n] = r]

\* An operation that neither accepts nor removes a pending item.
Update(n, r) == Store(n, r) /\ UNCHANGED history

Accept(n, it) ==
  /\ Store(n, AppendPending(rt[n], it))
  /\ queued' = IF AppendPending(rt[n], it) = rt[n] THEN queued
               ELSE [queued EXCEPT ![n] = @ \cup {it}]
  /\ UNCHANGED started

\* An operation that takes pending items out on purpose.
Taken(n, r) == Elements(rt[n].pending) \ Elements(r.pending)

Remove(n, r) ==
  /\ Store(n, r)
  /\ queued' = [queued EXCEPT ![n] = @ \ Taken(n, r)]
  /\ UNCHANGED started

\* KeyedTransactionQueue: one config transaction per node at a time.  It
\* does not exclude the store operations above.
InTransaction(n) ==
  \/ \E t \in Threads : th[t].pc \in {"write", "goal_write"} /\ th[t].node = n
  \/ \E c \in Clients : cl[c].pc = "edit_write" /\ cl[c].node = n

\* NodeConfigService.write: the runtime record is replaced as a whole and the
\* config file is written, its directory created when it is missing.
WriteConfig(n, r) ==
  /\ Store(n, r)
  /\ alive' = alive \cup {n}
  /\ UNCHANGED history

-----------------------------------------------------------------------------
(* The runner                                                              *)

\* _ensure_graph_runner: a new runner knows none of the old one's tasks.
NewRunner ==
  /\ spc' = "wait" /\ wake' = TRUE /\ runnerStop' = FALSE
  /\ active' = {} /\ finished' = {}

\* _ensure_graph_runner, then _wake_graph_runner.
EnsureAndWake ==
  \/ spc = "dead" /\ NewRunner
  \/ /\ spc # "dead" /\ wake' = TRUE
     /\ UNCHANGED <<spc, runnerStop, active, finished>>

\* The same from executor t, which holds the wake signal of its own runner.
EnsureAndWakeOwn(t) ==
  \/ spc = "dead" /\ NewRunner
  \/ /\ spc # "dead" /\ wake' = (wake \/ t \in active)
     /\ UNCHANGED <<spc, runnerStop, active, finished>>

Init ==
  /\ rt = [n \in Nodes |-> FreshRuntime]
  /\ alive = Nodes
  /\ spc = "dead" /\ todo = {} /\ cur = NoNode /\ ready = FALSE
  /\ picked = NoItem
  /\ wake = FALSE /\ runnerStop = FALSE /\ active = {} /\ finished = {}
  /\ th = [t \in Threads |-> FreeThread]
  /\ cl = [c \in Clients |-> IdleClient]
  /\ requests = 0 /\ used = {}
  /\ queued = [n \in Nodes |-> {}] /\ started = {}

-----------------------------------------------------------------------------
(* Scheduler: _graph_scheduler_loop and _run_scheduler_batch               *)

SchedWait ==
  /\ spc = "wait" /\ wake /\ ~runnerStop
  /\ wake' = FALSE /\ spc' = "cleanup"
  /\ UNCHANGED <<rt, alive, batch, runnerStop, active, finished, th, cl,
                 requests, used, history>>

SchedExit ==
  /\ spc \in {"wait", "cleanup"} /\ runnerStop
  /\ spc' = "dead"
  /\ UNCHANGED <<rt, alive, batch, runner, th, cl, requests, used, history>>

SchedCleanup ==
  /\ spc = "cleanup" /\ ~runnerStop
  /\ finished' = {} /\ todo' = alive /\ spc' = "scan"
  /\ UNCHANGED <<rt, alive, cur, ready, picked, wake, runnerStop, active, th,
                 cl, requests, used, history>>

\* _runner_status cleans up too, from an API thread.
StatusCleanup ==
  /\ "status" \in Ops /\ finished # {}
  /\ finished' = {}
  /\ UNCHANGED <<rt, alive, spc, batch, wake, runnerStop, active, th, cl,
                 requests, used, history>>

\* _iter_node_config_entries yields the next node with its config as it is.
SchedVisit(n) ==
  /\ spc = "scan" /\ n \in todo /\ ~runnerStop
  /\ todo' = todo \ {n}
  /\ \/ n \notin alive /\ UNCHANGED <<spc, cur, ready>>
     \/ n \in alive /\ spc' = "check" /\ cur' = n
                    /\ ready' = ReadyPending(rt[n])
  /\ UNCHANGED <<rt, alive, picked, runner, th, cl, requests, used, history>>

SchedBatchEnd ==
  /\ spc = "scan" /\ (todo = {} \/ runnerStop)
  /\ spc' = "wait" /\ todo' = {}
  /\ UNCHANGED <<rt, alive, cur, ready, picked, runner, th, cl, requests,
                 used, history>>

\* Mutant: nobody asks whether an executor still runs.
SchedCheckNothing ==
  /\ spc = "check" /\ spc' = "recover"
  /\ UNCHANGED <<rt, alive, batch, runner, th, cl, requests, used, history>>

\* Mutant: a node without inflight counts as free.
SchedCheckInflight ==
  /\ spc = "check"
  /\ \/ /\ rt[cur].inflight # NoItem
        /\ spc' = "scan" /\ cur' = NoNode /\ ready' = FALSE
     \/ /\ rt[cur].inflight = NoItem
        /\ spc' = "recover" /\ UNCHANGED <<cur, ready>>
  /\ UNCHANGED <<rt, alive, todo, picked, runner, th, cl, requests, used,
                 history>>

\* The node turns back to "scan" when its executor is still running.
SchedCheckActive ==
  /\ spc = "check"
  /\ \/ /\ \E t \in active : th[t].node = cur
        /\ spc' = "scan" /\ cur' = NoNode /\ ready' = FALSE
     \/ /\ \A t \in active : th[t].node # cur
        /\ spc' = "recover" /\ UNCHANGED <<cur, ready>>
  /\ UNCHANGED <<rt, alive, todo, picked, runner, th, cl, requests, used,
                 history>>

\* recover_stale_working; the config is read again only when that changed it.
SchedRecover ==
  /\ spc = "recover"
  /\ LET r   == RecoverStaleWorking(rt[cur])
         rdy == IF r # rt[cur] THEN cur \in alive /\ ReadyPending(r) ELSE ready
     IN  /\ Update(cur, r)
         /\ ready' = FALSE
         /\ \/ rdy /\ spc' = "dequeue" /\ cur' = cur
            \/ ~rdy /\ spc' = "scan" /\ cur' = NoNode
  /\ UNCHANGED <<alive, todo, picked, runner, th, cl, requests, used>>

\* Mutant: what dequeue_pending_to_working answered is not looked at.
SchedDequeueUnchecked ==
  /\ spc = "dequeue"
  /\ LET r == DequeueToWorking(rt[cur])
     IN  /\ Store(cur, r)
         /\ queued' = [queued EXCEPT ![cur] = @ \ Taken(cur, r)]
         /\ started' = started \cup {<<cur, r.inflight>>}
         /\ picked' = r.inflight
  /\ spc' = "submit" /\ cur' = cur
  /\ UNCHANGED <<alive, todo, ready, runner, th, cl, requests, used>>

SchedDequeue ==
  /\ spc = "dequeue"
  /\ \/ /\ ~CanDequeue(rt[cur])
        /\ spc' = "scan" /\ cur' = NoNode
        /\ UNCHANGED <<rt, picked, history>>
     \/ /\ CanDequeue(rt[cur])
        /\ LET r == DequeueToWorking(rt[cur])
           IN  /\ Store(cur, r)
               /\ queued' = [queued EXCEPT ![cur] = @ \ Taken(cur, r)]
               /\ started' = started \cup {<<cur, r.inflight>>}
               /\ picked' = r.inflight
        /\ spc' = "submit" /\ cur' = cur
  /\ UNCHANGED <<alive, todo, ready, runner, th, cl, requests, used>>

\* _submit_executor_task; task_id is trace:node, and an entry whose future is
\* done still occupies its id until the next cleanup.
SchedSubmit ==
  /\ spc = "submit"
  /\ \/ /\ \/ <<cur, picked.trace>> \in finished
           \/ \E t \in active : th[t].node = cur
                                /\ th[t].item.trace = picked.trace
        /\ UNCHANGED <<th, active>>
     \/ /\ <<cur, picked.trace>> \notin finished
        /\ \A t \in active : th[t].node # cur
                             \/ th[t].item.trace # picked.trace
        /\ \E t \in Threads :
             /\ ~Live(t)
             /\ th' = [th EXCEPT ![t] = [FreeThread EXCEPT !.pc = "start",
                                           !.node = cur, !.item = picked]]
             /\ active' = active \cup {t}
  /\ spc' = "scan" /\ cur' = NoNode /\ picked' = NoItem
  /\ UNCHANGED <<rt, alive, todo, ready, wake, runnerStop, finished, cl,
                 requests, used, history>>

Scheduler ==
  \/ SchedWait \/ SchedExit \/ SchedCleanup \/ SchedBatchEnd
  \/ \E n \in Nodes : SchedVisit(n)
  \/ SchedCheckActive \/ SchedRecover \/ SchedDequeue \/ SchedSubmit

-----------------------------------------------------------------------------
(* Executor: _run_single_node_iteration                                    *)

Goto(t, p) == th' = [th EXCEPT ![t].pc = p]

NoSched == UNCHANGED <<spc, batch, runner>>
NoApi   == UNCHANGED <<cl, requests, used>>

\* A step of t that only touches the runtime record of its node.
ExecStore(t, r, p) ==
  /\ Update(th[t].node, r) /\ Goto(t, p)
  /\ UNCHANGED alive /\ NoSched /\ NoApi

\* An untyped node ends here; the others register their cancel event, which
\* starts out set when a stop is already requested.
ExecBegin(t) ==
  /\ th[t].pc = "start"
  /\ LET n == th[t].node
     IN  \/ /\ n \in UntypedNodes
            /\ Update(n, ClearInflight(rt[n]))
            /\ th' = [th EXCEPT ![t].pc = "to_idle", ![t].how = "untyped"]
         \/ /\ n \notin UntypedNodes
            /\ th' = [th EXCEPT ![t].pc = "entry",
                                ![t].cancelled = rt[n].stopReq]
            /\ UNCHANGED <<rt, history>>
  /\ UNCHANGED alive /\ NoSched /\ NoApi

\* A group notice whose events are all delivered has nothing to run.
ExecEntry(t) ==
  /\ th[t].pc = "entry" /\ ~StopRequested(t)
  /\ LET n == th[t].node
     IN  \/ Goto(t, "logic") /\ UNCHANGED <<rt, history>>
         \/ /\ th[t].item.src = "group_notice"
            /\ Update(n, ClearInflight(rt[n]))
            /\ th' = [th EXCEPT ![t].pc = "to_idle", ![t].how = "notice"]
  /\ UNCHANGED alive /\ NoSched /\ NoApi

\* NodeStopRequested is raised by a check that saw the event or the flag...
ExecCancel(t) ==
  /\ th[t].pc \in {"entry", "logic"} /\ StopRequested(t)
  /\ Goto(t, "cancelling")
  /\ UNCHANGED store /\ NoSched /\ NoApi /\ UNCHANGED history

\* ...and its handler finishes the stop if the flag is still there.
ExecCancelFinish(t) ==
  /\ th[t].pc = "cancelling"
  /\ ExecStore(t, FinishStopRequested(rt[th[t].node]), "end_return")

ExecConsume(t) ==
  /\ th[t].pc = "logic"
  /\ LET n == th[t].node
         r == ConsumeMidTurnInputs(rt[n])
     IN  /\ r # rt[n]
         /\ Remove(n, r)
  /\ UNCHANGED <<alive, th>> /\ NoSched /\ NoApi

\* The node logic returns.
ExecSucceed(t) ==
  /\ th[t].pc = "logic"
  /\ LET r == rt[th[t].node]
     IN  ExecStore(t, FinishStopRequested(r),
                   IF r.stopReq THEN "end_return" ELSE "end_ok")

\* The node logic raises.
ExecFail(t) ==
  /\ th[t].pc = "logic"
  /\ LET r == rt[th[t].node]
     IN  /\ Update(th[t].node, FinishStopRequested(r))
         /\ th' = [th EXCEPT
              ![t].pc = IF r.stopReq THEN "end_return" ELSE "record",
              ![t].how = IF r.stopReq THEN @ ELSE "failed"]
  /\ UNCHANGED alive /\ NoSched /\ NoApi

\* The finally block: node_cancellations.end.
ExecEnd(t) ==
  /\ \/ th[t].pc = "end_ok" /\ Goto(t, "after")
     \/ th[t].pc = "end_return" /\ Goto(t, "return")
  /\ UNCHANGED store /\ NoSched /\ NoApi /\ UNCHANGED history

ExecAfter(t) ==
  /\ th[t].pc = "after"
  /\ LET r == rt[th[t].node]
     IN  ExecStore(t, FinishStopRequested(r),
                   IF r.stopReq THEN "return" ELSE "record")

\* record_node_request_completion_or_log is a config transaction: it reads
\* the config with the whole runtime record...
ExecRecordRead(t) ==
  /\ th[t].pc = "record"
  /\ LET n == th[t].node
     IN  \/ /\ n \in alive /\ ~InTransaction(n)
            /\ th' = [th EXCEPT ![t].pc = "write", ![t].snap = rt[n]]
         \/ (n \notin alive \/ "fault" \in Ops) /\ Goto(t, "clear")
  /\ UNCHANGED store /\ NoSched /\ NoApi /\ UNCHANGED history

\* ...and writes both back.
ExecRecordWrite(t) ==
  /\ th[t].pc = "write"
  /\ WriteConfig(th[t].node,
                 RecordCompletion(th[t].snap, th[t].item.trace))
  /\ th' = [th EXCEPT ![t].pc = "clear", ![t].snap = FreshRuntime]
  /\ NoSched /\ NoApi

\* Mutant: the error path leaves inflight set.
ExecClearOnlyOnSuccess(t) ==
  /\ th[t].pc = "clear"
  /\ LET r == rt[th[t].node]
     IN  ExecStore(t, IF th[t].how = "failed" THEN r ELSE ClearInflight(r),
                   IF th[t].how = "failed" THEN "to_idle" ELSE "memory")

ExecClear(t) ==
  /\ th[t].pc = "clear"
  /\ ExecStore(t, ClearInflight(rt[th[t].node]),
               IF th[t].how = "failed" THEN "to_idle" ELSE "memory")

ExecToIdle(t) ==
  /\ th[t].pc = "to_idle"
  /\ ExecStore(t, TransitionToIdle(rt[th[t].node]),
               IF th[t].how = "untyped" THEN "return" ELSE "end_return")

\* NodeMemoryPersistenceError leaves the node working, without inflight.
ExecMemory(t) ==
  /\ th[t].pc = "memory"
  /\ Goto(t, "goal") \/ ("fault" \in Ops /\ Goto(t, "return"))
  /\ UNCHANGED store /\ NoSched /\ NoApi /\ UNCHANGED history

\* A paused node does not evaluate its goal, and a goal may be complete or
\* blocked already.  _persist_goal_state is a config transaction too; without
\* the config it raises.
ExecGoal(t) ==
  /\ th[t].pc = "goal"
  /\ LET n    == th[t].node
         eval == n \in GoalNodes /\ rt[n].state # "stop"
     IN  \/ Goto(t, "complete")
         \/ eval /\ n \notin alive /\ Goto(t, "return")
         \/ /\ eval /\ n \in alive /\ ~InTransaction(n)
            /\ th' = [th EXCEPT ![t].pc = "goal_write", ![t].snap = rt[n]]
  /\ UNCHANGED store /\ NoSched /\ NoApi /\ UNCHANGED history

ExecGoalWrite(t) ==
  /\ th[t].pc = "goal_write"
  /\ WriteConfig(th[t].node, th[t].snap)
  /\ th' = [th EXCEPT ![t].pc = "goal_next", ![t].snap = FreshRuntime]
  /\ NoSched /\ NoApi

\* complete or blocked: the turn ends like any other.
ExecGoalEnds(t) ==
  /\ th[t].pc = "goal_next" /\ Goto(t, "complete")
  /\ UNCHANGED store /\ NoSched /\ NoApi /\ UNCHANGED history

\* active: the node queues its own next turn under the same trace.
ExecGoalContinue(t) ==
  /\ th[t].pc = "goal_next" /\ th[t].item.depth < MaxDepth
  /\ LET n == th[t].node
     IN  \/ /\ Refuses(rt[n]) /\ Goto(t, "return")
            /\ UNCHANGED <<rt, history>> /\ NoSched
         \/ /\ ~Refuses(rt[n]) /\ Goto(t, "complete_empty")
            /\ Accept(n, [trace |-> th[t].item.trace,
                          depth |-> th[t].item.depth + 1,
                          src |-> "goal_continuation"])
            /\ EnsureAndWakeOwn(t) /\ UNCHANGED batch
  /\ UNCHANGED alive /\ NoApi

\* Mutant: an output that is held is sent as well.
ExecCompleteSendsHeld(t, out) ==
  /\ th[t].pc = "complete" /\ (out # {} => th[t].item.depth < MaxDepth)
  /\ LET n == th[t].node
     IN  /\ out \subseteq Links[n] \cap alive
         /\ Update(n, CompleteWork(rt[n], [trace |-> th[t].item.trace,
                                           depth |-> th[t].item.depth,
                                           targets |-> out]))
         /\ th' = IF out = {} THEN [th EXCEPT ![t].pc = "return"]
                  ELSE [th EXCEPT ![t].pc = "propagate", ![t].tasks = out]
  /\ UNCHANGED alive /\ NoSched /\ NoApi

\* The node logic routed its output to the nodes of out.
ExecComplete(t, out) ==
  /\ \/ th[t].pc = "complete" /\ (out # {} => th[t].item.depth < MaxDepth)
     \/ th[t].pc = "complete_empty" /\ out = {}
  /\ LET n == th[t].node
     IN  /\ out \subseteq Links[n] \cap alive
         /\ Update(n, CompleteWork(rt[n], [trace |-> th[t].item.trace,
                                           depth |-> th[t].item.depth,
                                           targets |-> out]))
         /\ th' = IF FinalState(rt[n]) = "stop" \/ out = {}
                  THEN [th EXCEPT ![t].pc = "return"]
                  ELSE [th EXCEPT ![t].pc = "propagate", ![t].tasks = out]
  /\ UNCHANGED alive /\ NoSched /\ NoApi

Propagated(trace, depth) ==
  [trace |-> trace, depth |-> depth + 1, src |-> "propagate"]

\* _enqueue_graph_task; a target being deleted loses its copy.
ExecPropagate(t, m) ==
  /\ th[t].pc = "propagate" /\ m \in th[t].tasks
  /\ th' = [th EXCEPT ![t].tasks = @ \ {m},
              ![t].pc = IF th[t].tasks = {m} THEN "return" ELSE @]
  /\ \/ Refuses(rt[m]) /\ UNCHANGED <<rt, history>> /\ NoSched
     \/ /\ ~Refuses(rt[m])
        /\ Accept(m, Propagated(th[t].item.trace, th[t].item.depth))
        /\ EnsureAndWakeOwn(t) /\ UNCHANGED batch
  /\ UNCHANGED alive /\ NoApi

\* Mutant: no done callback.
ExecReturnSilently(t) ==
  /\ th[t].pc = "return"
  /\ th' = [th EXCEPT ![t] = FreeThread]
  /\ active' = active \ {t}
  /\ finished' = IF t \in active
                 THEN finished \cup {<<th[t].node, th[t].item.trace>>}
                 ELSE finished
  /\ UNCHANGED <<rt, alive, spc, batch, wake, runnerStop, history>> /\ NoApi

\* The future is done; its callback wakes the runner that submitted it.
ExecReturn(t) ==
  /\ th[t].pc = "return"
  /\ th' = [th EXCEPT ![t] = FreeThread]
  /\ active' = active \ {t}
  /\ finished' = IF t \in active
                 THEN finished \cup {<<th[t].node, th[t].item.trace>>}
                 ELSE finished
  /\ wake' = (wake \/ t \in active)
  /\ UNCHANGED <<rt, alive, spc, batch, runnerStop, history>> /\ NoApi

Executor(t) ==
  \/ ExecBegin(t) \/ ExecEntry(t) \/ ExecCancel(t) \/ ExecCancelFinish(t)
  \/ ExecConsume(t) \/ ExecSucceed(t) \/ ExecFail(t) \/ ExecEnd(t)
  \/ ExecAfter(t) \/ ExecRecordRead(t) \/ ExecRecordWrite(t) \/ ExecClear(t)
  \/ ExecToIdle(t) \/ ExecMemory(t) \/ ExecGoal(t) \/ ExecGoalWrite(t)
  \/ ExecGoalEnds(t) \/ ExecGoalContinue(t)
  \/ \E out \in SUBSET Nodes : ExecComplete(t, out)
  \/ \E m \in Nodes : ExecPropagate(t, m)
  \/ ExecReturn(t)

-----------------------------------------------------------------------------
(* API threads                                                             *)

NoExec == UNCHANGED th

\* A request of client c for an existing node (404 otherwise).
Request(c, op, n) ==
  /\ op \in Ops /\ cl[c].pc = "none" /\ n \in alive
  /\ requests < MaxRequests /\ requests' = requests + 1

Continue(c, n, p) ==
  cl' = [cl EXCEPT ![c] = [IdleClient EXCEPT !.pc = p, !.node = n]]
Reply(c) == cl' = [cl EXCEPT ![c] = IdleClient]

\* emit_graph reads the state (409 when the node is stopped)...
Emit(c, n, tr) ==
  /\ Request(c, "emit", n) /\ tr \in Traces \ (Keys \cup used)
  /\ rt[n].state # "stop"
  /\ used' = used \cup {tr}
  /\ cl' = [cl EXCEPT ![c] = [IdleClient EXCEPT !.pc = "emit_append",
             !.node = n, !.item = [trace |-> tr, depth |-> 0, src |-> "emit"]]]
  /\ UNCHANGED store /\ NoSched /\ NoExec /\ UNCHANGED history

\* ...and queues the message later, whatever the state has become.
EmitAppend(c) ==
  /\ cl[c].pc = "emit_append"
  /\ LET n == cl[c].node
     IN  /\ Accept(n, cl[c].item)
         /\ IF Refuses(rt[n]) THEN Reply(c) ELSE Continue(c, n, "wake")
  /\ UNCHANGED <<alive, requests, used>> /\ NoSched /\ NoExec

ClientWake(c) ==
  /\ cl[c].pc = "wake" /\ Reply(c)
  /\ EnsureAndWake
  /\ UNCHANGED <<rt, alive, batch, requests, used, history>> /\ NoExec

\* enqueue_node_instance_pending with an idempotency key; a repeated delivery
\* of the same request is the same call.
Enqueue(c, n, key, src) ==
  /\ Request(c, "enqueue", n) /\ key \in Keys /\ src \in Keyed
  /\ LET it == [trace |-> key, depth |-> 0, src |-> src]
     IN  /\ Accept(n, it)
         /\ IF AppendPending(rt[n], it) = rt[n] THEN Reply(c)
            ELSE Continue(c, n, "wake")
  /\ UNCHANGED <<alive, used>> /\ NoSched /\ NoExec

Pop(c, n) ==
  /\ Request(c, "pop", n) /\ rt[n].pending # << >>
  /\ Remove(n, PopPending(rt[n]))
  /\ UNCHANGED <<alive, cl, used>> /\ NoSched /\ NoExec

\* set_node_instance_state: pause ("stop"), or "working".
SetState(c, n, s) ==
  /\ Request(c, "pause", n) /\ s \in {"stop", "working"}
  /\ s = "working" => "set_working" \in Ops
  /\ Update(n, UpdateState(rt[n], s))
  /\ UNCHANGED <<alive, cl, used>> /\ NoSched /\ NoExec

\* Mutant: the held outputs are read after the resume has emptied them.
ResumeNodeReadsLate(c, n) ==
  /\ Request(c, "resume", n)
  /\ Update(n, Resume(rt[n]))
  /\ cl' = [cl EXCEPT ![c] = [IdleClient EXCEPT !.pc = "wake", !.node = n]]
  /\ UNCHANGED <<alive, used>> /\ NoSched /\ NoExec

\* set_node_instance_state to idle: the held outputs leave the store at
\* once and are enqueued one by one afterwards.
ResumeNode(c, n) ==
  /\ Request(c, "resume", n)
  /\ Update(n, Resume(rt[n]))
  /\ cl' = [cl EXCEPT ![c] = [IdleClient EXCEPT
       !.pc = IF Released(rt[n]) = << >> THEN "wake" ELSE "resume_release",
       !.node = n, !.outs = Released(rt[n])]]
  /\ UNCHANGED <<alive, used>> /\ NoSched /\ NoExec

\* A target being deleted raises: the outputs not yet enqueued are dropped.
ResumeRelease(c, m) ==
  /\ cl[c].pc = "resume_release" /\ m \in Head(cl[c].outs).targets
  /\ LET out  == Head(cl[c].outs)
         rest == IF out.targets = {m} THEN Tail(cl[c].outs)
                 ELSE <<[out EXCEPT !.targets = @ \ {m}]>> \o Tail(cl[c].outs)
     IN  \/ /\ Refuses(rt[m]) /\ Reply(c)
            /\ UNCHANGED <<rt, history>> /\ NoSched
         \/ /\ ~Refuses(rt[m])
            /\ Accept(m, Propagated(out.trace, out.depth))
            /\ cl' = [cl EXCEPT ![c].outs = rest,
                        ![c].pc = IF rest = << >> THEN "wake" ELSE @]
            /\ EnsureAndWake /\ UNCHANGED batch
  /\ UNCHANGED <<alive, requests, used>> /\ NoExec

\* control_node_instance, action stop: cancel_work...
StopNode(c, n) ==
  /\ Request(c, "stop", n)
  /\ Remove(n, CancelWork(rt[n]))
  /\ Continue(c, n, "stop_request")
  /\ UNCHANGED <<alive, used>> /\ NoSched /\ NoExec

\* ...then the cancel events of the executors registered by now are set.
RequestCancellation(n) ==
  th' = [t \in Threads |->
           IF th[t].node = n /\ Registered(t)
           THEN [th[t] EXCEPT !.cancelled = TRUE] ELSE th[t]]

StopRequest(c) ==
  /\ cl[c].pc = "stop_request" /\ RequestCancellation(cl[c].node) /\ Reply(c)
  /\ UNCHANGED <<rt, alive, requests, used, history>> /\ NoSched

DeleteNode(c, n) ==
  /\ Request(c, "delete", n)
  /\ Remove(n, MarkDeleteRequested(rt[n]))
  /\ Continue(c, n, "delete_request")
  /\ UNCHANGED <<alive, used>> /\ NoSched /\ NoExec

DeleteRequest(c) ==
  /\ cl[c].pc = "delete_request" /\ RequestCancellation(cl[c].node)
  /\ Continue(c, cl[c].node, "delete_wait")
  /\ UNCHANGED <<rt, alive, requests, used, history>> /\ NoSched

RegisteredOn(n) == {t \in Threads : th[t].node = n /\ Registered(t)}

\* wait_until_idle returns and the directory is archived.
DeleteArchive(c) ==
  /\ cl[c].pc = "delete_wait"
  /\ LET n == cl[c].node
     IN  /\ RegisteredOn(n) = {}
         /\ alive' = alive \ {n}
         /\ IF n \in alive THEN Continue(c, n, "delete_clear") ELSE Reply(c)
  /\ UNCHANGED <<rt, requests, used, history>> /\ NoSched /\ NoExec

\* It times out (NodeDeletionBlocked), or the archive or what follows it fails;
\* the directory is put back, and only _delete_requested is undone.
DeleteRollback(c) ==
  /\ LET n == cl[c].node
     IN  \/ /\ cl[c].pc = "delete_wait"
            /\ RegisteredOn(n) # {} \/ "fault" \in Ops
            /\ Update(n, IF n \in alive THEN ClearDeleteRequested(rt[n])
                         ELSE rt[n])
            /\ UNCHANGED alive
         \/ /\ cl[c].pc = "delete_clear" /\ "fault" \in Ops
            /\ Update(n, ClearDeleteRequested(rt[n]))
            /\ alive' = alive \cup {n}
  /\ Reply(c)
  /\ UNCHANGED <<requests, used>> /\ NoSched /\ NoExec

DeleteClear(c) ==
  /\ cl[c].pc = "delete_clear"
  /\ Remove(cl[c].node, FreshRuntime)
  /\ Reply(c)
  /\ UNCHANGED <<alive, requests, used>> /\ NoSched /\ NoExec

\* Saving a node's settings is a config transaction of an API thread.
EditRead(c, n) ==
  /\ Request(c, "edit", n) /\ ~InTransaction(n)
  /\ cl' = [cl EXCEPT ![c] = [IdleClient EXCEPT !.pc = "edit_write",
                                !.node = n, !.snap = rt[n]]]
  /\ UNCHANGED <<rt, alive, used, history>> /\ NoSched /\ NoExec

EditWrite(c) ==
  /\ cl[c].pc = "edit_write"
  /\ WriteConfig(cl[c].node, cl[c].snap) /\ Reply(c)
  /\ UNCHANGED <<requests, used>> /\ NoSched /\ NoExec

\* A graph deletion stops the runner, waits for its threads and gives up
\* (409) when an executor outlives the timeout; the graph stays.
GraphDeleteBlocked ==
  /\ "stop_runner" \in Ops /\ requests < MaxRequests
  /\ spc # "dead" /\ \E t \in active : Live(t)
  /\ requests' = requests + 1
  /\ runnerStop' = TRUE /\ wake' = TRUE
  /\ UNCHANGED <<rt, alive, spc, batch, active, finished, cl, used, history>>
  /\ NoExec

\* The process ends and starts again: recover_startup_runtime_state.
Restart ==
  /\ "restart" \in Ops /\ requests < MaxRequests
  /\ requests' = requests + 1
  /\ rt' = [n \in Nodes |-> FreshRuntime]
  /\ spc' = "dead" /\ todo' = {} /\ cur' = NoNode /\ ready' = FALSE
  /\ picked' = NoItem
  /\ wake' = FALSE /\ runnerStop' = FALSE /\ active' = {} /\ finished' = {}
  /\ th' = [t \in Threads |-> FreeThread]
  /\ cl' = [c \in Clients |-> IdleClient]
  /\ queued' = [n \in Nodes |-> {}]
  /\ UNCHANGED <<alive, used, started>>

\* The steps that finish a request already accepted.
ClientStep(c) ==
  \/ EmitAppend(c) \/ ClientWake(c) \/ StopRequest(c) \/ DeleteRequest(c)
  \/ \E m \in Nodes : ResumeRelease(c, m)
  \/ DeleteArchive(c) \/ DeleteRollback(c) \/ DeleteClear(c) \/ EditWrite(c)

ClientRequest(c) ==
  \E n \in Nodes :
    \/ \E tr \in Traces : Emit(c, n, tr)
    \/ \E key \in Keys, src \in Keyed : Enqueue(c, n, key, src)
    \/ Pop(c, n) \/ ResumeNode(c, n) \/ StopNode(c, n) \/ DeleteNode(c, n)
    \/ \E s \in {"stop", "working"} : SetState(c, n, s)
    \/ EditRead(c, n)

Next ==
  \/ Scheduler
  \/ StatusCleanup
  \/ \E t \in Threads : Executor(t)
  \/ \E c \in Clients : ClientStep(c) \/ ClientRequest(c)
  \/ GraphDeleteBlocked
  \/ Restart

Spec == Init /\ [][Next]_vars

\* The scheduler and executor threads keep running, an API thread finishes
\* its request, and node logic returns, raises or notices its cancellation.
\* Nobody has to send a request.
Fairness ==
  /\ WF_vars(Scheduler)
  /\ \A t \in Threads : WF_vars(Executor(t))
  /\ \A c \in Clients : WF_vars(ClientStep(c))

FairSpec == Spec /\ Fairness
-----------------------------------------------------------------------------
(* Properties                                                              *)

StoreOK == rt \in [Nodes -> Runtime] /\ alive \subseteq Nodes

SchedulerOK ==
  /\ spc \in SchedulerPc /\ todo \subseteq Nodes
  /\ cur \in Nodes \cup {NoNode} /\ picked \in Item \cup {NoItem}
  /\ spc \in {"check", "recover", "dequeue", "submit"} => cur \in Nodes
  /\ spc = "submit" => picked # NoItem
  /\ ready \in BOOLEAN

RunnerOK ==
  /\ wake \in BOOLEAN /\ runnerStop \in BOOLEAN
  /\ active \subseteq Threads /\ finished \subseteq Nodes \X Traces

ThreadsOK ==
  /\ th \in [Threads -> Thread]
  /\ \A t \in Threads :
       /\ Live(t) => th[t].node \in Nodes /\ th[t].item # NoItem
       /\ th[t].pc = "propagate" => th[t].item.depth < MaxDepth

ClientsOK ==
  /\ cl \in [Clients -> Client]
  /\ \A c \in Clients :
       /\ cl[c].pc # "none" => cl[c].node \in Nodes
       /\ cl[c].pc = "emit_append" => cl[c].item # NoItem
       /\ cl[c].pc = "resume_release" => cl[c].outs # << >>

HistoryOK ==
  /\ requests \in 0..MaxRequests /\ used \subseteq Traces
  /\ queued \in [Nodes -> SUBSET Item] /\ started \subseteq Nodes \X Item

\* Every record stays in the shape the store normalises it to, every thread
\* and request is at a known step, and the runner's bookkeeping names only
\* threads and tasks that exist (RuntimeStateMemoryStore._normalize,
\* GraphRunnerState).
TypeOK == StoreOK /\ SchedulerOK /\ RunnerOK /\ ThreadsOK /\ ClientsOK /\ HistoryOK

\* No two executor threads ever work for the same node.  The executor owns
\* the node until its future ends, across the window in which it has already
\* cleared inflight (the comment in _run_scheduler_batch).
ExclusiveExecutor ==
  \A t, u \in Threads :
    Live(t) /\ Live(u) /\ th[t].node = th[u].node => t = u

\* A runner never has two live tasks of one node, whatever the requests, the
\* restarts and the runners before it did: the answer of _run_scheduler_batch's
\* check still holds when _submit_executor_task adds the task.
OneTaskPerNode ==
  \A t, u \in active : th[t].node = th[u].node => t = u

\* The steps of an executor up to set_inflight(None).
BeforeClear == {"start", "entry", "logic", "cancelling", "end_ok", "after",
                "record", "write", "clear"}

\* While an executor works on an item, that item is the inflight of its
\* node: neither the control API nor the executor's own stale config writes
\* replace it (dequeue_pending_to_working .. set_inflight(None)).
RunningItemIsInflight ==
  \A t \in Threads :
    th[t].pc \in BeforeClear => rt[th[t].node].inflight = th[t].item

\* An inflight item has an owner: the scheduler that is about to submit it
\* or the executor that runs it.  Otherwise the node stays working for ever,
\* because stale recovery leaves a node with inflight alone
\* (plan_stale_working_recovery, reason active_inflight).
InflightOwned ==
  \A n \in Nodes :
    rt[n].inflight # NoItem =>
      \/ spc = "submit" /\ cur = n /\ picked = rt[n].inflight
      \/ \E t \in Threads : Live(t) /\ th[t].node = n
                                    /\ th[t].item = rt[n].inflight

\* A work item without a key is handed to an executor at most once: no
\* interleaving of stale writes, pauses, resumed outputs, cancellations and
\* goal turns makes dequeue_pending_to_working return it again.
StartsOnce ==
  [][spc = "dequeue" /\ spc' = "submit" /\ picked'.trace \notin Keys
       => <<cur, picked'>> \notin started]_vars

\* Outputs are only held back while their node is paused; a running node has
\* sent everything it finished (complete_work, resume).
HeldOnlyWhilePaused ==
  \A n \in Nodes : rt[n].held # << >> => rt[n].state = "stop"

\* The copies of an output that wait for their targets: held by a paused node,
\* with the API thread that resumes it, or with the executor that sends them.
Copies(out) == {<<m, Propagated(out.trace, out.depth)>> : m \in out.targets}

HeldCopies(n)     == UNION {Copies(out) : out \in Elements(rt[n].held)}
ReleasedCopies(c) == UNION {Copies(out) : out \in Elements(cl[c].outs)}
SentCopies(t)     == {<<m, Propagated(th[t].item.trace, th[t].item.depth)>> :
                        m \in th[t].tasks}

OnTheWay ==
  (UNION {HeldCopies(n) : n \in Nodes})
    \cup (UNION {ReleasedCopies(c) : c \in Clients})
    \cup (UNION {SentCopies(t) : t \in Threads})

\* The deletions that cost a copy: of its target, of the node that holds it, or
\* of a target that the same release has to serve before.
LostToDeletion(copy) ==
  \/ Refuses(rt[copy[1]])
  \/ \E c \in Clients :
       \/ cl[c].pc = "delete_clear" /\ copy \in HeldCopies(cl[c].node)
       \/ /\ cl[c].pc = "resume_release" /\ copy \in ReleasedCopies(c)
          /\ \E m \in Head(cl[c].outs).targets : Refuses(rt[m])

\* An output that a node has finished reaches the queue of every target,
\* whatever pauses, resumes and deletions come between; only a deletion costs
\* copies, and it costs those of its own batch (complete_work_with_held_output,
\* resume, _enqueue_graph_tasks).
OutputsArrive ==
  [][\A copy \in OnTheWay :
       \/ copy \in OnTheWay'
       \/ copy[2] \in Elements(rt'[copy[1]].pending)
       \/ LostToDeletion(copy)]_vars

\* Nothing waits at a node that is being deleted.  Whoever appends has looked
\* at the node earlier, if at all (emit_graph, a propagation, the release of held
\* outputs), so it is the append itself that has to refuse (append_pending).
QueueClosedByDeletion ==
  \A n \in Nodes : rt[n].delReq => rt[n].pending = << >>

\* A work item accepted into the queue stays there until it is dequeued,
\* popped, consumed, cancelled or deleted with its node.
AcceptedKept == \A n \in Nodes : queued[n] \subseteq Elements(rt[n].pending)

\* A deleted node has no executor any more (delete_node_directory refuses
\* while the node has active tasks).
DeletedNodeIsQuiet ==
  \A t \in Threads : Live(t) => th[t].node \in alive

\* A node with queued work does not wait for ever: its queue empties, or the
\* user pauses the node.  No wake-up is lost between the executors, the API
\* threads and the scheduler (_GraphRunnerWakeSignal, the done callback).
QueueDrains ==
  \A n \in Nodes :
    rt[n].pending # << >> ~> rt[n].pending = << >> \/ rt[n].state = "stop"
=============================================================================
