# Verification of the AgentPark graph runtime

AgentPark runs graphs of agent nodes inside one Python backend process. Every
node has a queue; a scheduler thread per graph takes items out of the queues
and hands each to an executor thread; HTTP handlers pause, resume, stop, feed,
edit and delete nodes at any time. The queues are memory; what has to survive a
restart sits above them in durable stores: scheduled runs, notifications of
agent groups, and checkpoints of interrupted runs. This directory holds a TLA+
model of that core, the TLC runs that check it on small instances, and TLAPS
proofs of its main safety properties for every instance.

Paths below are relative to the repository; `wb/` is `src/web_backend/`.

## 1. Inventory

| Part | State | Operations | Hard behaviour |
|---|---|---|---|
| Runtime store (`wb/runtime_state_memory_store.py`, `wb/node_config_store.py`, `wb/node_output_hold_store.py`, `wb/node_request_tracking.py`) | one record per node: `state`, `pending`, `inflight`, `_stop_requested`, `_delete_requested`, `held_outputs`, `completed_requests` | append, pop, dequeue, cancel, finish stop, complete, resume, recover, mark deleted | each operation is atomic under the node's lock, a sequence of them is not |
| Graph scheduler (`wb/graph_runner_runtime.py`, `wb/graph_runner_state.py`) | `active_tasks`, wake generation, `stop`, the batch being visited | batch, submit, clean-up, ensure and wake, status | checks made before the step that uses them; lost wake-ups; task ids reused |
| Node execution (`wb/graph_node_execution.py`, `wb/node_cancellation.py`, `wb/graph_message_dispatch.py`) | the iteration's position, its cancel event, its output routes | one iteration with a dozen store operations, early returns and error paths | a pause, stop, deletion or message between any two of them |
| Goals (`wb/node_goal_runtime.py`) | goal state in the config | evaluate, persist, queue the next turn | the next turn has the trace of the finished one |
| Control API (`wb/core_graph_api.py`, `wb/node_instance_runtime.py`, `wb/node_instance_queue.py`) | per request | emit, enqueue, pop, set state, stop | a request is several store operations; redelivery of keyed requests |
| Settings (`wb/node_config_service.py`, `wb/node_instance_registry.py`) | config file plus the runtime record | read, change, write both | the record is written back as it was read |
| Deletion (`wb/node_deletion.py`, `wb/node_instance_deletion.py`, `wb/graph_api_storage.py`) | `_delete_requested`, the directory | mark, cancel, wait, archive, clear or roll back | executors the wait does not see |
| Transaction queue (`src/file_transaction.py`) | queue, `running` flag and leader per key, active keys per thread | `run`, `_drain` | the first caller runs the calls of the others; re-entrance; nesting of keys |
| Startup recovery (`wb/graph_node_store.py`, `wb/facade.py`) | the runtime records | reset | what a restart forgets |
| Restart recovery (`wb/restart_recovery.py`) | on disk: a tag per node, a state file per checkpoint | capture, recover, complete | a crash or an error between any two file operations; work that reaches a node before its recovery |
| Cron (`src/cron/`, `wb/cron_service.py`, `wb/cron_execution.py`) | on disk: jobs and their runs; in memory: the poller's list | create, update, delete, materialize, deliver, begin, finish, recover, depart | delivery is repeated until a run begins; the queue forgets, the database does not; edits meet executions |
| Group notifications (`src/agent_groups/delivery.py`, `wb/group_delivery.py`) | on disk: events and a delivery per recipient | publish, list, enqueue, resolve, follow-ups, complete, rename, cancel | at-least-once wake-ups over a queue that is lost; members leave or are renamed in between |
| Group board (`src/agent_groups/`, `wb/group_api.py`, `wb/deletion_undo_store.py`) | on disk: group documents, a membership index; undo entries | create, move, resize, lead, dissolve, edit tasks, depart, restore | an undo puts back what peers have changed since |

How they interact: the API threads and the executors change the records
directly and then wake the scheduler; the scheduler reads the records, marks an
item inflight and starts an executor; the executor changes the record of its
node, appends to the records of the linked nodes and, when its future ends,
wakes the scheduler through the done callback. Config transactions (settings,
completion records, goal state) are serialised among themselves by the
transaction queue, and are *not* serialised against the store operations.

The durable parts meet the queue at two places. Their polling threads append
keyed items and do so again at every poll until the execution has acknowledged
the item; and the execution is wrapped by code that begins and finishes the run,
resolves and completes the notification, or completes the checkpoint. The
startup (`wb/facade.py`) runs in this order: group delivery starts, the runtime
records are reset, checkpoints are restored and their runners woken, cron starts
and puts back the runs that were running. A deleted node leaves the database of
groups and of schedules in the same request.

What makes the parts correct: one executor per node at a time; the item that
runs is the inflight one and every inflight item has an owner; queued work is
taken up; a request is not executed twice; outputs are held exactly while their
node is paused and sent once; a stop ends; transactions of one key exclude each
other and every call returns. A scheduled run begins once per life of the
process, keeps its status once settled, and settles; its job never has two active
runs. A notification is handed over once, answered once, and settles. A
checkpoint that was captured is never lost before its run ended. The documents
of a group agree with the index and with each other.

The remaining parts of the repository (timers, runtime events, asynchronous runs, memory files, synchronisation,
providers, channels, harness, knowledge, long-term memory, peers, remote
workers, tools, desktop, command line, web UI, node types) are listed in
`PROJECT.json` with what is planned for them or why they are left out.

## 2. Modules

| Module | Models |
|---|---|
| `NodeStore` | the record of one node and every operation on it, as functions from record to record |
| `GraphRunner` | scheduler, executors, API threads, restart; extends `NodeStore` |
| `MCGraphRunner` | graphs and symmetry for TLC; compares `Remaining` with the loop it stands for |
| `Transactions` | abstract: transactions of one key happen one after the other, nested calls inside their caller |
| `TransactionQueue` | `KeyedTransactionQueue`; instantiates `Transactions` with a refinement mapping |
| `MCTransactionQueue` | the nesting the callers use |
| `Cron` | repository, poller and acknowledgement of scheduled runs; extends `NodeStore` for the queue between them |
| `MCCron` | schedules for TLC; compares `NextDeadline` with its specification, the first match after now |
| `RestartRecovery` | capture, recovery and completion of checkpoints, file by file |
| `GroupOutbox`, `MCGroupOutbox` | notifications of one group; extends `NodeStore` |
| `GroupBoard`, `MCGroupBoard` | groups, members, leaders, tasks, deletion and its undo |
| `NodeStoreProofs`, `GraphRunnerProofs`, `TraceProofs`, `TransactionQueueProofs`, `CronProofs`, `RestartRecoveryProofs`, `GroupOutboxProofs`, `GroupBoardProofs` | theorems; the first holds the lemmas about store operations that `GraphRunner`, `Cron` and `GroupOutbox` share |

### State and steps

`rt[n]` is the record of node *n*. A store operation (`AppendPending`,
`CancelWork`, `CompleteWork`, ...) is one atomic step because
`RuntimeStateMemoryStore.update` holds the node's lock around it. A config
transaction is two steps, a read into `snap` and `WriteConfig`; `InTransaction`
keeps transactions of one node apart, as the transaction queue does.

The scheduler thread is `spc` with its local variables: `wait` is
`_GraphRunnerWakeSignal.wait`, `cleanup` the removal of done futures, `scan` the
iteration over the node directories, `check`, `recover`, `dequeue` and `submit`
the four things a batch does for one node. `wake` stands for *generation
greater than the observed one*. `active_tasks` is two sets: `active`, the
threads whose future is not done, and `finished`, the ids of done futures that
the next clean-up removes.

An executor `th[t]` goes through the steps of `_run_single_node_iteration`:
`start` (until `node_cancellations.begin`), `entry` (before the node logic),
`logic`, `cancelling` (the `NodeStopRequested` handler), `end_ok`/`end_return`
(the `finally`), `after` (the stop check behind it), `record`/`write`
(completion record), `clear` (`set_inflight(None)`), `to_idle`, `memory`,
`goal`/`goal_write`/`goal_next`, `complete`, `propagate`, `return` (the future
ends and its callback runs). `how` remembers which error path it is on. Node
logic is free: it may consume mid-turn messages, return, raise, or notice its
cancellation.

An API thread `cl[c]` is `none` or between two steps of a request: emit
(check, append, wake), resume (take the held outputs, enqueue them one by one,
wake), stop (flag, then cancel events), deletion (mark, cancel, wait, archive,
clear or roll back), settings (read, write).

`queued` and `started` are history: what was accepted and not yet taken out on
purpose, and what was handed to an executor.

### What is abstracted

- An item is its trace, depth and source; an output its trace, depth and
  targets. Ports and port policies only decide the set of targets, which is any
  subset of `Links[n]`; the payload decides nothing.
- Nodes are not clock nodes; one process owns every item (`_runtime_owner_id`).
- The fresh ids that `emit` creates are traces not used before; keyed requests
  use their key as trace.
- `_ensure_graph_runner` and the wake that follows it are one step; both take
  the runner lock and nothing reads the runner between them but the scheduler.
- The verdict of a goal evaluation, a memory write error and a failing
  completion record (`"fault"`) are free choices.
- Of a graph deletion only the refused one is modelled: a successful one
  removes everything the model is about.
- `Ops` names the requests and faults a run contains.

### The durable parts

`Cron`, `GroupOutbox` and `GroupBoard`: every repository operation is one
`BEGIN IMMEDIATE` transaction, hence one step, and survives `Crash`. In the first
two `rec[n]` is the node's record with the operations of `NodeStore`, and of the
executor (`exec[n]`) only the steps remain that touch the record or the database:
dequeue, begin or resolve, logic, completion record, inflight reset, state reset,
finish or complete, and stale recovery. `GraphRunner` has the steps between
them.

- `Cron`: `jobs` and `runs` are the tables, `poll` is the list the polling thread
  works through, `up` that the service has started. A job id is used for one
  creation, a node has one job of a name, the instruction is a version number,
  and a calendar schedule matches at the multiples of its `t`; `Tick` is the
  clock. `Checkpoints` says whether a restart may restore a checkpoint before
  the service recovers. A stop is one step here; `GraphRunner` has its two steps.
  A failure of SQLite in `begin_run` or `finish_run` (`wb/cron_execution.py:19-42`)
  is not modelled: what is said of a run, `RunSettles` above all, is said of a
  database that answers.
- `GroupOutbox`: an event has a delivery state per node; `poll` holds the batches
  still to be enqueued. A request id is the anchor's number with the number of
  times the node was renamed. Of the board there remain the members, whether the
  group is dissolved, and whose notified task is still ready (`todo`).
- `GroupBoard`: `home` is the index, `group` the documents, `saved` the undo
  entries. That a node exists is checked before the transaction, and the request
  may wait in between, so no step asks for it. `node_rename`
  (`src/agent_groups/node_lifecycle.py:67-114`), which changes members, leader,
  owners and index to a new name and raises revisions, is left out: the properties
  are claimed for groups whose nodes keep their names.
- `RestartRecovery`: every file is written or removed in one step
  (`atomic_write_text`), and `Crash` may come between any two. `cap` and `rcv`
  are the capture and the recovery under way, `lock` the file lock (external)
  that keeps the coordinator's operations apart, `phase` the progress of the
  startup. The executor is the one that completes tags, with the errors of its
  file operations. There are no user operations that clear the queue of a recovered
  node, so `CapturedRuns` is about crashes and file errors only.

## 3. Runs

Bounds of the graph runs: `MaxRequests` API requests and faults, `MaxDepth` hops
and goal turns, `Threads` executors alive at once, `HistoryLimit` (20 in the
code) and `MidTurnLimit`. One or two nodes suffice because nodes interact only
through `append_pending` and the shared scheduler: a chain of two has both sides
of it. Two items per node are what it takes to see one item's iteration meet the
next. Two API threads are used where two requests have to overlap. `pause` pays
for them, and for the deletions, with a single executor thread and a single trace, so
that a release loop there has one output and one target; the theorems `HeldWithPause`,
`RunsOnce`, `QueueClosed` and `OutputsDelivered` cover any number of them.

`cron` has one node and one job: jobs and nodes share nothing but the poller's
list, whose order is free, and the node's queue, which ordinary messages contend
for. `MaxTime = 2` gives a deadline that is served, one that is missed and one
ahead; two commands are an edit with a deletion, or a stop with a message; a
request history of one entry lets one message push a run out of it. `recovery`
has two nodes, two messages, two captures and two starts, and its first start may
find a checkpoint that a process before it had claimed, so a tag sees three
lives. `outbox` has one recipient, two events and batches of one, so that one
event becomes the follow-up of the other; one command and one failure are enough
for each to meet every step. `board` has two groups, two nodes, two tasks and
seven operations: creating, joining, two tasks with a dependency, working,
leaving and undoing fit in.

No run checks for deadlock: a backend with no requests is idle, and the requests
of a run are bounded.

| Run | Shows |
|---|---|
| `everything` | all operations, faults, a restart and a stopped runner: `TypeOK`, `OneTaskPerNode` |
| `control` | two API threads against a goal node: `ExclusiveExecutor`, `RunningItemIsInflight`, `StartsOnce` |
| `pause` | two API threads pausing, resuming and deleting a node and its target (untyped, which keeps its iterations short): `HeldOnlyWhilePaused`, `QueueClosedByDeletion`, `StartsOnce`, `OutputsArrive` |
| `progress` | two items, pauses, resumes and failures on one node: `InflightOwned`, `QueueDrains` |
| `transactions` | `MutualExclusion`, the refinement `SerialTransactions`, `EveryCallReturns` |
| `cron` | one job with edits, pauses, a deletion, stops, a departing node and a crash: `OneActiveRun`, `DeadlineAhead`, `EditsReachPending`, `LiveRunIsRunning`, `BegunOncePerLife`, `RunQueuedOnce`, `SettledForEver`, `RunSettles`, `StopAnswered` |
| `recovery` | crashes and errors between any two file operations: `TagHasState`, `CapturedKept`, `CapturedRuns` |
| `outbox` | joins, leaves, a rename, stops, a crash, a failing transaction: `PendingForMembers`, `HandedOnce`, `AnsweredOnce`, `OneWakeup`, `SettledStays`, `Settles` |
| `board` | any seven operations: `IndexAgrees`, `OwnersBelong` (owners and leader), `DependenciesAcyclic`, `DoneRestsOnDone`, `RevisionGrows` |

Redelivery of a keyed request is checked where the code relies on it:
`RunQueuedOnce` and `OneWakeup` over the store operations that `GraphRunner`
uses too; that a stop ends is `StopAnswered`.

Fairness (`FairSpec`). `GraphRunner`: the scheduler thread, each executor thread
and each API thread with an unfinished request keep taking steps; they are
operating-system threads that block only in the waits the model has as guards.
This includes that node logic returns, raises or notices its cancellation; the
provider loops have timeouts and poll the cancel event. `Cron`: the polling
thread, or the start of the service after a crash, and the executors. `GroupOutbox`:
the polling thread, the executors, and a rename that has reserved its node.
`RestartRecovery`: a capture, the startup and the executors once begun; which of
their steps fail is not constrained. Requests, crashes and the clock are not
fair: nobody has to send one. In `TransactionQueue` every thread goes on with
what it has begun and every `func` ends.

The liveness properties name what they wait for: a run of a node that is held
(`Held`: stopped by the user or being deleted) need not settle; a notification
that its renamed node cannot resolve (`Stranded`), or whose execution met a
failing transaction (`faults`), is the subject of `outbox_wedged`; a captured run
whose recovery was refused (`blocked`) is described below.

### Disagreements with the documentation

Three runs check what a document or a comment says and find the code doing
something else. `PROJECT.json` quotes each line.

| Run | What happens |
|---|---|
| `goal_turn_skipped` | the continuation of a goal turn is dequeued while the finished turn's id is still in `active_tasks`, and `_submit_executor_task` drops it: inflight without an owner |
| `stale_write` | a message accepted during a config transaction is lost |
| `outbox_wedged` | after its node is renamed, a task notification can never be resolved and waits for ever, with all later ones of the node behind it |

More, which a changed configuration shows. `base` is `goal_turn_skipped.cfg`
without the goal node and with the invariant named:

- `base` with two threads, two traces, `Ops = {"emit", "stop_runner"}`, three
  requests, `ExclusiveExecutor`: after a refused graph deletion
  (`wb/graph_api_storage.py:444`) a second executor starts for a node that still
  has one; the comment at `wb/graph_runner_runtime.py:74` says that the executor
  owns the node until its future ends.
- `base` with `Ops = {"emit", "delete"}`, two requests, `DeletedNodeIsQuiet`: a
  node is deleted under an executor that is not, or no longer, in the
  cancellation registry (`wb/node_deletion.py:63`).
- `base` with two clients, two traces, `Ops = {"emit", "stop"}`, three requests,
  `InflightOwned`: the second half of a stop sets the cancel event of the item
  that started after the stopped one; its handler finds no flag and leaves
  inflight set. `docs/runtime-state-machine.md:44` says a successful
  cancellation clears inflight.
- The same with one client and `Ops = {"emit", "stop", "resume"}`: resuming a
  node that is being stopped clears the flag its executor needs. A rolled-back
  deletion followed by a resume has the same effect.
- `base` with `Ops = {"emit", "edit"}`, `RunningItemIsInflight`: a settings save
  that read the record before the dequeue puts it back under the running
  executor.
- `pause.cfg` with `"stop"` or `"set_working"` in place of `"resume"` and
  `"delete"`, `HeldOnlyWhilePaused`: both end a pause and leave the held outputs
  behind, which wait until the next pause and resume.
- `base` with the chain *a* to *b*, `MaxDepth = 1`, two traces,
  `Ops = {"emit", "pause", "resume", "stop"}`, six requests, `StartsOnce`: a pause
  holds an output, a stop makes the node idle and leaves it held, the next
  iteration's completion record reads it, a resume sends it, the write-back restores
  it, and a second resume sends it again (75 steps). `"set_working"` in place of
  `"stop"` does the same. On one node `"edit"` (two traces, four requests) and
  `"stop_runner"` with pause, resume and failures (three threads and traces, six
  requests) bring a queue back from which an item was taken.
- The hypotheses of `InflightHasOwner` (section 4), each dropped alone,
  `InflightOwned`: besides goals and stops above, `"delete"` and `"resume"`
  (rolled-back deletion), `"edit"`, `"stop_runner"` with failing iterations and three
  traces (the executor left behind writes an old inflight back), a cycle of two nodes,
  a key that is delivered again while its finished task is still in the table, and
  `"set_working"` with the chain (the output sent twice meets its own finished task).
- `pause.cfg` with `"edit"` in place of `"resume"`, `HeldOnlyWhilePaused`: a
  settings save puts the inflight item back behind `set_inflight(None)`; the
  paused node holds its output, and a deletion then makes it working, because it
  looks busy (`wb/node_config_store.py`, `mark_delete_requested`). A refused graph
  deletion reaches the same with two traces and five requests: the executor it
  left behind holds its output while the new runner's executor has an item.
- `pause.cfg` with `"edit"` in place of `"resume"` and `"delete"`, `OutputsArrive`: a
  settings save writes back a record from before an output was held, and the output
  is gone. `"stop_runner"`, with two threads and two traces, does the same through the
  completion record of a second executor.
- `Restart` makes every record a fresh one, where lines 13 and 28 of the document
  say that startup recovery preserves a user-held `stop`.
- `cron.cfg` with `Checkpoints = TRUE`, `LiveRunIsRunning`: a restored checkpoint
  of a scheduled run executes before the service recovers (`wb/facade.py:122`,
  `129`), and the recovery, which is meant never to meet a live execution (comment
  at `wb/cron_service.py:27`), puts the live run back.
- `recovery.cfg` with `FailedRetained`: a checkpoint whose recovery was refused
  (`wb/restart_recovery.py:205`) is replaced by the next capture of its node,
  where `wb/facade.py:145` logs a failed recovery as "checkpoint retained".
- `board.cfg` with one group, eight operations, `WorkUnlocked`: the member working
  on a task is deleted, the dependency is reopened, the deletion is undone: a task
  in progress over an unfinished one (`src/agent_groups/deletion_restore.py:38`),
  which `tasks.py:83` refuses to users.
- `board.cfg` with `MembersPresent`: a node that is deleted between the check
  (`wb/group_api.py:77`, `122`) and the transaction stays a member.

Seen while modelling, and allowed by the properties as they are stated: a message
appended between `wb/restart_recovery.py:204` and `252` is overwritten; a run put
back after a crash keeps the instruction it had, whatever was edited since; a run
or a notification that is stopped before its logic begins is executed again,
because its tag, or its delivery, is still open; an item that finishes between a
capture and the exit is executed again.

The passing runs leave out the operations that these counterexamples need, where
they check a property these refute: `control` has no settings save and no
stopped runner (`ExclusiveExecutor`, `RunningItemIsInflight`), `pause` has neither of
them and no stop (`HeldOnlyWhilePaused`, `OutputsArrive`), `progress` has no stop and no goals
(`InflightOwned`), `cron` has no checkpoints.

## 4. Proofs

All proofs hold for every value of the constants (sets of nodes, threads, keys,
jobs, groups or tasks, links, schedules, bounds, `Ops`) under the named
assumptions on them: the bounds are naturals, `Links` maps nodes to sets of nodes,
`NoItem`, `NoNode`, `NoOne`, `NoTask` and `NoGroup` are none of what they stand in
for. Where a theorem assumes more, it says so, and section 3 has the
counterexample without it. Almost no property is inductive by itself; what is
added, and why, is the content of the list.

### Graph runner (`GraphRunnerProofs`)

- `TypeCorrect`: `Spec => []TypeOK`. `TypeOK` is inductive as it stands because
  its parts say where the program counters promise more than a type: a live
  executor has a node and an item, a scheduler past `scan` has a node, a release
  loop has outputs, a propagating item has depth left. `NodeStoreProofs` shows
  for each store operation that it keeps a record a record.
- `OneTask`: `Spec => []OneTaskPerNode`. The check in `_run_scheduler_batch` is
  two store operations older than the submission that relies on it. The
  invariant `TaskInv` adds what carries it across: from `recover` to `submit`
  no task in the table belongs to the visited node (`CurUnclaimed`), because
  only the scheduler adds tasks, and the table names live threads only
  (`TasksAreLive`).
- `Exclusive`: without refused graph deletions, `Spec => []ExclusiveExecutor`.
  Then the runner is never replaced while an executor lives, so the table
  names every live executor (`AllLiveAreTasks`) and `OneTask` says the rest. The
  first counterexample of the list in section 3 shows that the assumption is
  needed.
- `RunsInflight`: without deletions, settings saves and refused graph deletions,
  `Spec => []RunningItemIsInflight`. `OwnInv` says for every step of an executor
  what is inflight at its node (its item up to `set_inflight(None)`, nothing until
  `complete_work`), what the copy of a config transaction holds, and that between
  dequeue and submission the inflight item is the one picked. Dequeuing does not
  disturb an executor because there is none (`Exclusive`).
- `HeldWithPause`: `Spec => []HeldOnlyWhilePaused`, without stops and the state
  `working`, and, where nodes are deleted, without settings saves and refused graph
  deletions. `HeldInv` says of every record, and of every copy that a
  transaction may still write back, that one with held outputs is paused and not
  being stopped; where nodes are deleted, also that nothing is inflight, which at
  `complete_work` is `OwnInv`. Each store operation keeps that (`HeldKept`), so
  stale copies do no harm here.
- `QueueClosed`: `Spec => []QueueClosedByDeletion`, with no restriction on the
  operations. Emit, propagation and release all look at the node before they append,
  if at all; the append refuses by itself. `ClosedInv` says it of every record and of
  every copy that a transaction may still write back: a copy is from before the
  deletion, with its queue, or from behind it, without. `RecordChange` lists what a
  step can make of a record; this proof and the next one go through that list.
- `OutputsDelivered`: without settings saves, refused graph deletions and restarts,
  `Spec => OutputsArrive`: every copy of an output that is held, released or
  propagated stays on its way or reaches its target's queue, and only a deletion
  costs one (`LostToDeletion`: of the target, of the node that holds it, or of a target
  served before it in one release, behind which `wb/node_instance_runtime.py:567`
  drops the rest). `WayInv` says that an executor has tasks only while it propagates
  and an API thread outputs only while it releases, and that the record an executor
  will write back holds all that its node holds by then; the last part needs
  `Exclusive`: a second executor of the node could have added to it.

### The way of a trace (`TraceProofs`)

A *place* is a node, a trace and a depth. It is *used* once it is in the queue of
its node, in a copy of that queue in a config transaction (`Queued`), or was handed
to an executor (`Begun`).

- `RunsOnce`: `Spec => StartsOnce`, for graphs in which no node gets a trace from two
  nodes (`OneSource`), without `"edit"` and `"stop_runner"`, and with `"stop"` and
  `"set_working"` only where there are no routes. `OneSource` is needed: where two
  paths of one length meet, the node gets the item twice by design. `TraceInv` says
  that a place never is queued and begun, nor twice in one queue (`QueuesDistinct`,
  `QueuedNotBegun`); that whoever can still send to a place (the scheduler before
  the submission, an executor, a held output, an API thread that resumes a node or
  has accepted a message) finds it unused and is the only one (`NodesSound`,
  `ClientsSound`, `EmitsSound`); and that a used place was emitted, or the place
  before it was begun (`Caused`). `ShapeInv` bounds what a copy holds, and
  `OwnInv` and `HeldInv` say that a node holds no output while it runs, so that a
  stale copy brings none back. Most steps only move a place along (`Quiet`,
  `QuietStep`); dequeue, propagation, goal turn, completion, resume and emit have a
  lemma each.
- `InflightHasOwner`: `Spec => []InflightOwned`, for graphs with `OneSource` whose
  routes lead from layer to layer (`Layered`; so there are no goals), without keys,
  `"stop"`, `"delete"`, `"edit"` and `"stop_runner"`, and with `"set_working"` only
  where there are no routes. Section 3 lists what happens without each of these. The
  item that a submission drops is the danger: `_submit_executor_task` drops
  it when its trace and node are in the task table. `LevelInv` says that a trace
  has one depth on each node, namely its layer up to a constant, because a used
  place goes back to an emitted one through used places; so the place that is
  dequeued is the only one of its trace on its node, `TraceInv` says that it was not
  begun before, and `FinishedInv` that everything in the table was. `NoStops` says
  that no iteration leaves before `set_inflight(None)`, and `Owned` follows
  from these and `OwnInv`.

### Transaction queue (`TransactionQueueProofs`)

- `Excludes`: `Spec => []MutualExclusion` for every nesting of calls. `QueueInv`:
  every running call sits above the drain frame of its key in the same stack, a
  drain frame means `running`, there is one drain frame per key, and a queue holds
  calls of its own key. A new leader starts only when `running` is false, hence
  when no drain frame exists. `QueueTypes` is its type part.
- `Serial`: `NestedBy(rank) /\ Spec => SerialTransactions`, the refinement of
  `Transactions`. `CallInv` ties the status of a call to its place: running is one
  frame in one stack, queued is one place in the queue of its key, and every call
  has its caller below it. `Nested(rank)` adds that the keys of a stack grow along
  `rank`, and that of two running calls of one key the upper one was made inside the
  lower one. The hypothesis says that calls nest along an order
  of the keys, as the callers of the repository do (`MCTransactionQueue` assumes it
  of its instance). Without it the refinement is false: with a call on key *a* that
  calls on *b* and a call on *b* that calls on *a*, the leader of *a* drains *b*, runs
  the other thread's call there, and that one re-enters *a* inside a transaction it
  does not belong to.

### Cron (`CronProofs`)

- `CronTypes`, `RunsDoNotPileUp`, `DeadlinesAdvance`, `EditsReach`, `RunsBeginOnce`,
  `RunsQueueOnce`: the invariants `CronTypeOK`, `OneActiveRun`, `DeadlineAhead`,
  `EditsReachPending`, `BegunOncePerLife`, `RunQueuedOnce` follow from
  `TableInv /\ QueueInv`. `TableInv` adds that runs were made for moments that have
  come (`RunsPast`), that an enabled job has a deadline, that runs are of their
  job's node (a departure cancels both), and how often a run may have been begun:
  a waiting run has one begin left in this life (`BeginsLeft`). `QueueInv` says of
  the poller's list, the queues and the executors that they name runs that exist,
  each at most once per node.
- `SettledRunsStay`: the action property `SettledForEver`.
- `LiveRunsRun`: with `Checkpoints = FALSE`, `Spec => []LiveRunIsRunning`. `LiveInv`
  adds that before the service has recovered no item of the poller is in a queue or
  in work. Section 3 shows what a restored checkpoint does.
- `NextDeadlineFirst`: for a schedule that repeats, `NextDeadline` is one of its
  moments, lies after now, and no moment lies in between. This is a fact about
  division (`DivisionFirst`), not about the state.

### Mid-turn inputs (`NodeStoreProofs`)

- `RemainingInOrder`: the queue that `consume_mid_turn_user_inputs` leaves consists
  of the places that are not consumed, all of them, in their order.
- `ConsumedFirst`: what it consumes are mid-turn inputs, at most the limit, and the
  earliest ones. Both rest on `CountUp`, which counts the places of a set.

### Restart recovery (`RestartRecoveryProofs`)

- `TagsHaveStates`: `Spec => []TagHasState`: wherever the
  process ends, a tag that asks for recovery names an existing state file.
  `RecoveryInv` adds `FileOrder`, which says for every program counter what is on
  disk: a capture that undoes itself has not removed what the previous tags name,
  a state file goes only after its tag stopped asking for it, and the tag a
  recovery works on is the one it read, because capture, recovery and completion
  hold the lock. `RecoveryTypeCorrect` is its type part.
- `CapturedRunsKept`: `Spec => []CapturedKept`, the promise of the component.
  `KeepInv` follows one captured run through its life: under the previous tag or
  the new one while a capture replaces or undoes tags (`DiskInv`), in the record its
  recovery restored or in the executor that runs it (`MemoryInv`), and a recovery
  removes a state file only behind a tag that no longer asks for it (`Removing`).

### Groups (`GroupOutboxProofs`, `GroupBoardProofs`)

- `OutboxTypes`, `WaitsForMembers`, `NotificationsOnce`, `RepliesOnce`, `WakesOnce`: the
  invariants `OutboxTypeOK`, `PendingForMembers`, `HandedOnce`, `AnsweredOnce`,
  `OneWakeup` follow from `OutboxInv`. Its parts: the batch of the poller is
  anchored at the oldest waiting event of its role, and so is every wake-up in a
  queue that is not stale (`AnchorInv`); an event that was handed over more often
  than things failed is settled or still with its executor (`HandedInv`); a reply
  exists only for a delivery that no longer waits (`AnswersInv`). A step is taken
  apart by what it changes (`EventsStep`, `RecordStep`, `ExecStep`), and the parts
  are proved from these. `OutboxTypeOK` includes that an executor that goes on after
  `resolve` has events: an empty resolution ends the iteration
  (`wb/graph_node_execution.py:188`).
- `SettledForGood`: the action property `SettledStays`.
- `BoardTypeCorrect`, `IndexCorrect`, `Owned`, `DoneSound`: the invariants of
  `GroupBoard`. `BoardInv` says of every live document
  that it is `DocumentOK` (leader, owners, finished work, known dependencies), that
  index and documents agree, and of every undo entry that the tasks it holds were
  lost by its node and belong to its group; each change of a document (detach,
  join, edit, release, restore) has a lemma that it keeps a document
  `DocumentOK`, and each operation is put together from them.
- `NoCycle`: `Spec => []DependenciesAcyclic`. Only an edit adds dependencies, and
  it looks for a cycle through the edited task first; an undo puts back a task
  only when nothing but the departure has changed it, and then with the dependencies
  it has now (`SnapshotsFresh`, by the revisions).
- `RevisionsGrow`: `Spec => RevisionGrows`, an action property: every change of a
  task, an undo included, raises its revision, so a client's stale revision is
  refused. The undo takes the current revision and not the saved one, and the
  lemmas `ReleasedNewer` and `PutBackNewer` say so.

### Only model-checked

- Liveness (`QueueDrains`, `EveryCallReturns`, `RunSettles`, `StopAnswered`,
  `CapturedRuns`, `Settles`): fairness is outside the prover.
- `InflightOwned` and `StartsOnce` beyond the hypotheses of their theorems: the runs
  `control` and `pause` check `StartsOnce` with the requests they list.
- That `Remaining` computes what the loop of `consume_mid_turn_user_inputs` does: the
  theorems above say what it returns, the comparison with the loop is an induction
  over sequences, which TLC does for queues of up to three items.

## 5. Not modelled, and the plan

In the order in which the next modules are worth writing:

1. `Timers`: the timer heap, its refreshes, and clock nodes
   (`wb/graph_timer_scheduler.py`, `wb/clock_runtime.py`).
2. `Lease`: the knowledge index lease and worker; the long-term memory job queue.
3. The synchronisation journal, user interactions and asynchronous runs.
4. Renaming a node under its schedules, and crashes inside a rename.

Theorems still worth having: `InflightOwned` with stops, once the code clears
inflight on every way out of an iteration.

Left out for good: vendor protocols, network transports, file formats, tools,
desktop integration, the command line and the web UI. They are I/O or data
conversion around the state modelled here, and they are most of the repository's
lines; the modelled parts are the ones whose state is shared by several threads or
has to survive a restart.

## 6. Running

    tlc -workers 2 -config pause.cfg MCGraphRunner
    tlc -workers 2 -config transactions.cfg MCTransactionQueue
    tlc -workers 2 -config cron.cfg MCCron
    tlc -workers 2 -config recovery.cfg RestartRecovery
    tlc -workers 2 -config outbox.cfg MCGroupOutbox
    tlc -workers 2 -config board.cfg MCGroupBoard
    tlapm NodeStoreProofs.tla
    tlapm GraphRunnerProofs.tla
    tlapm TraceProofs.tla
    tlapm TransactionQueueProofs.tla
    tlapm CronProofs.tla
    tlapm RestartRecoveryProofs.tla
    tlapm GroupOutboxProofs.tla
    tlapm GroupBoardProofs.tla
