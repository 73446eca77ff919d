----------------------------- MODULE GroupOutbox -----------------------------
(***************************************************************************)
(* Notifications of one agent group: the events and deliveries of          *)
(* GroupRepository, the polling thread of GroupDeliveryService, and the    *)
(* part of a node execution that resolves a notification, runs it and      *)
(* completes it with a reply or an error.                                  *)
(*                                                                         *)
(* Every operation of groups.sqlite3 is one BEGIN IMMEDIATE transaction,   *)
(* so it is one step here and survives a crash.  The queue between the     *)
(* poller and the executor is the node's runtime record (NodeStore), which *)
(* does not.  The board is reduced to what a notification depends on: who  *)
(* is a member, and whose notified task is still ready (GroupBoard has the *)
(* rest).  Pausing and deleting nodes are in Cron and GraphRunner.         *)
(***************************************************************************)
EXTENDS NodeStore

CONSTANTS Roles,       \* access roles of the senders
          User,        \* the actor that is no node (actor_id None)
          BatchLimit,  \* LIMIT 100 of resolve
          MaxEvents,   \* bound: events with recipients
          MaxCommands, \* bound: commands on members, nodes and tasks
          MaxFailures  \* bound: crashes and failing transactions together

Seqs == 1..MaxEvents

ASSUME OutboxBoundsAssumption ==
  /\ BatchLimit \in Nat \ {0} /\ MaxEvents \in Nat
  /\ MaxCommands \in Nat /\ MaxFailures \in Nat
ASSUME UserAssumption == User \notin Nodes
\* request_id is a hash of the node's name and of the anchor.
ASSUME OutboxTracesAssumption == Seqs \X (0..MaxCommands) \subseteq Traces

VARIABLES members,  \* table members
          closed,   \* the group is dissolved
          todo,     \* nodes whose notified task is theirs and ready
          events,   \* tables events and deliveries, oldest first
          poll,     \* batches the polling thread has still to enqueue
          rec,      \* the nodes' runtime records
          exec,     \* the nodes' executors
          name,     \* how often the node was renamed
          commands, crashes, faults,
          handed,   \* history: how often an event went to the node's logic
          answers   \* history: how many replies of the node name an event

board    == <<members, closed, todo>>
bounds   == <<commands, crashes, faults>>
history  == <<handed, answers>>
vars == <<members, closed, todo, events, poll, rec, exec, name, commands,
          crashes, faults, handed, answers>>

DeliveryStates == {"none", "pending", "delivered", "cancelled"}

\* keyed: the nodes that are keys of payload.action_tasks.
Event == [kind : {"message", "task"}, actor : Nodes \cup {User}, role : Roles,
          keyed : SUBSET Nodes, to : [Nodes -> DeliveryStates]]

Batch == [node : Nodes, seq : Seqs, name : 0..MaxCommands]

Parked == [pc |-> "none", item |-> NoItem, got |-> {}, how |-> "none"]

Init ==
  /\ members \in SUBSET Nodes /\ closed = FALSE /\ todo = {}
  /\ events = << >>
  /\ poll = {}
  /\ rec = [n \in Nodes |-> FreshRuntime]
  /\ exec = [n \in Nodes |-> Parked]
  /\ name = [n \in Nodes |-> 0]
  /\ commands = 0 /\ crashes = 0 /\ faults = 0
  /\ handed = [n \in Nodes |-> [e \in Seqs |-> 0]]
  /\ answers = [n \in Nodes |-> [e \in Seqs |-> 0]]

Pending(n) == {e \in DOMAIN events : events[e].to[n] = "pending"}

\* The deliveries of node n to the events of E get state s.
Mark(n, E, s) ==
  [e \in DOMAIN events |-> IF e \in E THEN [events[e] EXCEPT !.to[n] = s]
                                      ELSE events[e]]

-----------------------------------------------------------------------------
(* The group                                                               *)

Command == commands < MaxCommands /\ commands' = commands + 1

AddEvent(kind, actor, role, keyed, recipients) ==
  events' = Append(events,
    [kind |-> kind, actor |-> actor, role |-> role, keyed |-> keyed,
     to |-> [n \in Nodes |-> IF n \in recipients THEN "pending" ELSE "none"]])

\* publish: a message to one member (or to the leader, who is one) or to all
\* others.  A retry with the same request_id finds the event and adds none.
Publish(actor, recipients, role) ==
  /\ ~closed /\ Len(events) < MaxEvents
  /\ actor \in members \cup {User}
  /\ \/ recipients = members \ {actor}
     \/ \E n \in members \ {actor} : recipients = {n}
  /\ recipients # {}
  /\ AddEvent("message", actor, role, {}, recipients)
  /\ UNCHANGED <<board, poll, rec, exec, name, bounds, history>>

\* A change of a task makes one of the tasks of n ready for it (task_actions).
TaskReady(actor, n, role) ==
  /\ ~closed /\ Len(events) < MaxEvents
  /\ actor \in members \cup {User} /\ n \in members
  /\ AddEvent("task", actor, role, {n}, {n})
  /\ todo' = todo \cup {n}
  /\ UNCHANGED <<members, closed, poll, rec, exec, name, bounds, history>>

\* A change of a task ends that: it is done, or not ready, or not n's any more.
TaskOver(n) ==
  /\ Command /\ ~closed
  /\ n \in todo
  /\ todo' = todo \ {n}
  /\ UNCHANGED <<members, closed, events, poll, rec, exec, name, crashes,
                 faults, history>>

Join(n) ==
  /\ Command /\ ~closed
  /\ n \notin members
  /\ members' = members \cup {n}
  /\ UNCHANGED <<closed, todo, events, poll, rec, exec, name, crashes, faults,
                 history>>

\* Mutant: the deliveries of the member stay.
LeaveKeepsOutbox(n) ==
  /\ Command
  /\ n \in members
  /\ members' = members \ {n}
  /\ todo' = todo \ {n}
  /\ UNCHANGED <<closed, events, poll, rec, exec, name, crashes, faults, history>>

\* detach_member: what waits for the member is cancelled, its tasks released.
Leave(n) ==
  /\ Command
  /\ n \in members
  /\ members' = members \ {n}
  /\ todo' = todo \ {n}
  /\ events' = Mark(n, Pending(n), "cancelled")
  /\ UNCHANGED <<closed, poll, rec, exec, name, crashes, faults, history>>

Dissolve ==
  /\ Command /\ ~closed
  /\ closed' = TRUE
  /\ members' = {}
  /\ events' = [e \in DOMAIN events |-> [events[e] EXCEPT
       !.to = [n \in Nodes |-> IF @[n] = "pending" THEN "cancelled" ELSE @[n]]]]
  /\ UNCHANGED <<todo, poll, rec, exec, name, crashes, faults, history>>

-----------------------------------------------------------------------------
(* The polling thread                                                      *)

\* Mutant: the newest event is the anchor.
AnchorNewest(n, role) ==
  LET mine == {e \in Pending(n) : events[e].role = role}
  IN  {e \in mine : \A d \in mine : d <= e}

\* batches: the oldest pending event of a node and a role.
Anchor(n, role) ==
  LET mine == {e \in Pending(n) : events[e].role = role}
  IN  {e \in mine : \A d \in mine : e <= d}

\* The list is a copy, made of the names of that moment.
PollList ==
  /\ poll = {}
  /\ poll' = {b \in Batch : /\ b.name = name[b.node]
                            /\ \E role \in Roles : b.seq \in Anchor(b.node, role)}
  /\ UNCHANGED <<board, events, rec, exec, name, bounds, history>>

\* Mutant: the request id does not depend on the anchor.
RequestIdOfNode(b) == <<1, b.name>>

RequestId(b) == <<b.seq, b.name>>

Reachable(b) == name[b.node] = b.name /\ ~Refuses(rec[b.node])

PollEnqueue(b) ==
  /\ b \in poll /\ Reachable(b)
  /\ poll' = poll \ {b}
  /\ rec' = [rec EXCEPT ![b.node] =
       AppendPending(@, [trace |-> RequestId(b), depth |-> 0, src |-> "group_notice"])]
  /\ UNCHANGED <<board, events, exec, name, bounds, history>>

\* The node has another name by now, or is being renamed: the error is
\* recorded and a later poll tries again.
PollFails(b) ==
  /\ b \in poll /\ ~Reachable(b)
  /\ poll' = poll \ {b}
  /\ UNCHANGED <<board, events, rec, exec, name, bounds, history>>

-----------------------------------------------------------------------------
(* The executor of node n                                                  *)

At(n, pc) == exec[n].pc = pc
Go(n, pc) == exec' = [exec EXCEPT ![n].pc = pc]
End(n)    == exec' = [exec EXCEPT ![n] = Parked]

\* A transaction fails (SQLite is locked for longer than its timeout).
Fault == crashes + faults < MaxFailures /\ faults' = faults + 1

Dequeue(n) ==
  /\ At(n, "none") /\ CanDequeue(rec[n])
  /\ rec' = [rec EXCEPT ![n] = DequeueToWorking(@)]
  /\ exec' = [exec EXCEPT ![n] = [Parked EXCEPT !.pc = "resolve",
                                                !.item = Head(rec[n].pending)]]
  /\ UNCHANGED <<board, events, poll, name, bounds, history>>

\* Stopped before the notification is resolved: nothing is completed.
StopBefore(n) ==
  /\ At(n, "resolve") /\ rec[n].stopReq
  /\ rec' = [rec EXCEPT ![n] = FinishStopRequested(@)]
  /\ End(n)
  /\ UNCHANGED <<board, events, poll, name, bounds, history>>

\* Mutant: whether the events still wait does not matter.
RowsInAnyState(n, anchor) ==
  LET mine == {e \in DOMAIN events : /\ events[e].to[n] # "none"
                                     /\ events[e].role = events[anchor].role}
  IN  {e \in mine : Cardinality({d \in mine : d <= e}) <= BatchLimit}

\* What the anchor wakes the node for: nothing when it is settled, otherwise
\* the first events of its role that wait for the node.
Rows(n, anchor) ==
  LET mine == {e \in Pending(n) : events[e].role = events[anchor].role}
  IN  IF anchor \notin Pending(n) THEN {}
      ELSE {e \in mine : Cardinality({d \in mine : d <= e}) <= BatchLimit}

BatchOf(n) == Rows(n, exec[n].item.trace[1])

\* action_tasks[node_id] has no such key (the node was renamed).
KeyMissing(n) ==
  \E e \in BatchOf(n) : events[e].kind = "task" /\ n \notin events[e].keyed

\* Still wanted: the recipient is a member and, for a task, its owner.
Current(n, e) == n \in members /\ (events[e].kind = "task" => n \in todo)

\* Mutant: a notification with nothing left to say is run all the same.
ResolveRunsEmpty(n) ==
  LET got == {e \in BatchOf(n) : Current(n, e)} IN
  /\ At(n, "resolve") /\ ~rec[n].stopReq
  /\ ~(n \in members /\ KeyMissing(n))
  /\ events' = Mark(n, BatchOf(n) \ got, "cancelled")
  /\ exec' = [exec EXCEPT ![n].got = got, ![n].pc = "logic"]
  /\ handed' = [handed EXCEPT ![n] = [e \in Seqs |-> IF e \in got THEN @[e] + 1 ELSE @[e]]]
  /\ UNCHANGED <<board, poll, rec, name, bounds, answers>>

\* resolve and mark_started
Resolve(n) ==
  LET got == {e \in BatchOf(n) : Current(n, e)} IN
  /\ At(n, "resolve") /\ ~rec[n].stopReq
  /\ ~(n \in members /\ KeyMissing(n))
  /\ events' = Mark(n, BatchOf(n) \ got, "cancelled")
  /\ exec' = [exec EXCEPT ![n].got = got, ![n].how = "empty",
                          ![n].pc = IF got = {} THEN "clear" ELSE "logic"]
  /\ handed' = [handed EXCEPT ![n] = [e \in Seqs |-> IF e \in got THEN @[e] + 1 ELSE @[e]]]
  /\ UNCHANGED <<board, poll, rec, name, bounds, answers>>

\* resolve or mark_started raises: an ordinary error of the execution, with no
\* notification to complete.  What resolve cancelled before mark_started stays.
ResolveRaises(n) ==
  /\ At(n, "resolve") /\ ~rec[n].stopReq
  /\ \/ n \in members /\ KeyMissing(n) /\ UNCHANGED <<events, faults>>
     \/ Fault /\ UNCHANGED events
     \/ /\ Fault /\ ~(n \in members /\ KeyMissing(n))
        /\ events' = Mark(n, {e \in BatchOf(n) : ~Current(n, e)}, "cancelled")
  /\ exec' = [exec EXCEPT ![n].pc = "record", ![n].how = "failed"]
  /\ UNCHANGED <<board, poll, rec, name, commands, crashes, history>>

\* consume_followups: new messages of the user join the run (16 at a time,
\* more than a model has).
Followups(n) ==
  LET role == events[CHOOSE e \in exec[n].got : TRUE].role
      more == {e \in Pending(n) \ exec[n].got :
                 /\ events[e].kind = "message" /\ events[e].actor = User
                 /\ events[e].role = role}
  IN
  /\ At(n, "logic") /\ n \in members /\ more # {}
  /\ exec' = [exec EXCEPT ![n].got = @ \cup more]
  /\ handed' = [handed EXCEPT ![n] = [e \in Seqs |-> IF e \in more THEN @[e] + 1 ELSE @[e]]]
  /\ UNCHANGED <<board, events, poll, rec, name, bounds, answers>>

Logic(n, how) ==
  /\ At(n, "logic") /\ ~rec[n].stopReq
  /\ exec' = [exec EXCEPT ![n].pc = "record", ![n].how = how]
  /\ UNCHANGED <<board, events, poll, rec, name, bounds, history>>

\* Cancelled by a stop: the finally clause completes with an error.
Stopped(n) ==
  /\ At(n, "logic") /\ rec[n].stopReq
  /\ rec' = [rec EXCEPT ![n] = FinishStopRequested(@)]
  /\ Go(n, "notify")
  /\ UNCHANGED <<board, events, poll, name, bounds, history>>

\* A stop request is honoured until the completion record is written; a
\* record that cannot be written is logged only.
Record(n, written) ==
  /\ At(n, "record")
  /\ rec' = [rec EXCEPT ![n] =
       IF @.stopReq THEN FinishStopRequested(@)
       ELSE IF written THEN RecordCompletion(@, exec[n].item.trace) ELSE @]
  /\ IF rec[n].stopReq /\ exec[n].got = {} THEN End(n)
     ELSE Go(n, IF rec[n].stopReq THEN "notify" ELSE "clear")
  /\ UNCHANGED <<board, events, poll, name, bounds, history>>

\* Then the answer is written to the conversation memory, or that fails.
Clear(n, persisted) ==
  /\ At(n, "clear")
  /\ rec' = [rec EXCEPT ![n] = ClearInflight(@)]
  /\ exec' = [exec EXCEPT ![n] = [Parked EXCEPT
       !.got = exec[n].got,
       !.pc = IF exec[n].how # "ok" THEN "idle"
              ELSE IF persisted THEN "reply" ELSE "notify"]]
  /\ UNCHANGED <<board, events, poll, name, bounds, history>>

ToIdle(n) ==
  /\ At(n, "idle")
  /\ rec' = [rec EXCEPT ![n] = TransitionToIdle(@)]
  /\ IF exec[n].got = {} THEN End(n) ELSE Go(n, "notify")
  /\ UNCHANGED <<board, events, poll, name, bounds, history>>

\* Mutant: only an error completes the deliveries.
CompletedKeepsReplied(n, error) ==
  IF error THEN Mark(n, exec[n].got \cap Pending(n), "delivered") ELSE events

\* Mutant: the deliveries are completed whatever their state.
CompletedAnyState(n, error) == Mark(n, exec[n].got, "delivered")

\* complete: the deliveries that still wait are delivered, with the reply or
\* with the error.
Completed(n, error) == Mark(n, exec[n].got \cap Pending(n), "delivered")

\* The requests a reply of n answers.
Asked(n) ==
  {e \in exec[n].got \cap Pending(n) :
     events[e].actor = User /\ (events[e].kind = "task" => n \in events[e].keyed)}

\* complete(reply): a current member's reply and the deliveries in one step.
\* An empty answer makes no reply.
Reply(n, text) ==
  /\ At(n, "reply")
  /\ answers' = [answers EXCEPT ![n] = [e \in Seqs |->
       IF text /\ n \in members /\ e \in Asked(n) THEN @[e] + 1 ELSE @[e]]]
  /\ events' = Completed(n, FALSE)
  /\ Go(n, "settle")
  /\ UNCHANGED <<board, poll, rec, name, bounds, handed>>

Settle(n) ==
  /\ At(n, "settle")
  /\ rec' = [rec EXCEPT ![n] = CompleteWork(@, [targets |-> {}])]
  /\ End(n)
  /\ UNCHANGED <<board, events, poll, name, bounds, history>>

\* complete(error)
Notify(n) ==
  /\ At(n, "notify")
  /\ events' = Completed(n, TRUE)
  /\ End(n)
  /\ UNCHANGED <<board, poll, rec, name, bounds, history>>

\* complete raises, and so does the execution.
CompleteRaises(n) ==
  /\ exec[n].pc \in {"reply", "notify"} /\ exec[n].got # {}
  /\ Fault
  /\ End(n)
  /\ UNCHANGED <<board, events, poll, rec, name, commands, crashes, history>>

\* The scheduler's recovery of a node left working without inflight.
RecoverStale(n) ==
  /\ At(n, "none") /\ StaleWorking(rec[n])
  /\ rec' = [rec EXCEPT ![n] = RecoverStaleWorking(@)]
  /\ UNCHANGED <<board, events, poll, exec, name, bounds, history>>

-----------------------------------------------------------------------------
(* The user's commands on the node                                         *)

Stop(n) ==
  /\ Command
  /\ rec' = [rec EXCEPT ![n] = CancelWork(@)]
  /\ UNCHANGED <<board, events, poll, exec, name, crashes, faults, history>>

\* _reserve_rename
RenameReserve(n) ==
  /\ Command
  /\ ~rec[n].delReq /\ rec[n].state # "working" /\ rec[n].inflight = NoItem
  /\ rec' = [rec EXCEPT ![n].delReq = TRUE]
  /\ UNCHANGED <<board, events, poll, exec, name, crashes, faults, history>>

\* node_rename: deliveries and members follow the name, the keys of
\* action_tasks do not; the queue and the request history move with the node.
RenameCommit(n) ==
  /\ rec[n].delReq /\ At(n, "none")
  /\ name' = [name EXCEPT ![n] = @ + 1]
  /\ events' = [e \in DOMAIN events |-> [events[e] EXCEPT !.keyed = @ \ {n}]]
  /\ rec' = [rec EXCEPT ![n].delReq = FALSE]
  /\ UNCHANGED <<board, poll, exec, bounds, history>>

\* The node still executes, or a step failed and everything was taken back.
RenameFails(n) ==
  /\ rec[n].delReq
  /\ rec' = [rec EXCEPT ![n].delReq = FALSE]
  /\ UNCHANGED <<board, events, poll, exec, name, bounds, history>>

\* The process ends and starts again, not in the middle of a rename.
Crash ==
  /\ crashes + faults < MaxFailures
  /\ \A n \in Nodes : ~rec[n].delReq
  /\ crashes' = crashes + 1
  /\ rec' = [n \in Nodes |-> FreshRuntime]
  /\ exec' = [n \in Nodes |-> Parked]
  /\ poll' = {}
  /\ UNCHANGED <<board, events, name, commands, faults, history>>

-----------------------------------------------------------------------------
Poller == PollList \/ \E b \in poll : PollEnqueue(b) \/ PollFails(b)

Executor(n) ==
  \/ Dequeue(n) \/ StopBefore(n) \/ Resolve(n) \/ ResolveRaises(n)
  \/ Followups(n) \/ Stopped(n)
  \/ \E how \in {"ok", "failed"} : Logic(n, how)
  \/ \E ok \in BOOLEAN : Record(n, ok) \/ Clear(n, ok) \/ Reply(n, ok)
  \/ ToIdle(n) \/ Settle(n) \/ Notify(n) \/ CompleteRaises(n)
  \/ RecoverStale(n)

RenameEnds(n) == RenameCommit(n) \/ RenameFails(n)

Group ==
  \/ \E actor \in Nodes \cup {User}, role \in Roles :
       \/ \E recipients \in SUBSET Nodes : Publish(actor, recipients, role)
       \/ \E n \in Nodes : TaskReady(actor, n, role)
  \/ \E n \in Nodes : TaskOver(n) \/ Join(n) \/ Leave(n)
  \/ Dissolve

Next ==
  \/ Group \/ Poller \/ Crash
  \/ \E n \in Nodes : Executor(n) \/ Stop(n) \/ RenameReserve(n) \/ RenameEnds(n)

Spec == Init /\ [][Next]_vars

\* The poller and the executors are threads that always go on, a rename ends.
Fairness == /\ WF_vars(Poller)
            /\ \A n \in Nodes : WF_vars(Executor(n)) /\ WF_vars(RenameEnds(n))

FairSpec == Spec /\ Fairness

-----------------------------------------------------------------------------
(* Properties                                                              *)

\* The tables, the queue and the executors are well formed, and an executor
\* that runs, replies or reports an error has events to do it for: it leaves
\* early when nothing is left of its notification (graph_node_execution.py:188).
OutboxTypeOK ==
  /\ members \subseteq Nodes /\ todo \subseteq Nodes /\ closed \in BOOLEAN
  /\ events \in Seq(Event)
  /\ poll \subseteq Batch
  /\ rec \in [Nodes -> Runtime]
  /\ name \in [Nodes -> 0..MaxCommands]
  /\ \A n \in Nodes :
       /\ exec[n].got \subseteq DOMAIN events
       /\ exec[n].pc \in {"logic", "reply", "notify"} => exec[n].got # {}

\* Leaving and dissolving cancel what waits: a notification never waits for a
\* node that is not a member.
PendingForMembers ==
  \A n \in Nodes : Pending(n) # {} => n \in members

\* A notification reaches the logic of its node once, and again only after a
\* crash or a failed transaction, whatever stops, renames, stale queue items
\* and an overflowing request history do.
HandedOnce ==
  \A n \in Nodes : \A e \in Seqs : handed[n][e] <= 1 + crashes + faults

\* A request of the user is answered by at most one reply of each member, even
\* when the run is repeated: the reply and the delivery commit together.
AnsweredOnce == \A n \in Nodes : \A e \in Seqs : answers[n][e] <= 1

\* Item it of node n would still find something.
Wakes(n, it) ==
  it # NoItem /\ it.trace[1] \in Pending(n) /\ it.trace[2] = name[n]

SameRole(i, j) == events[i.trace[1]].role = events[j.trace[1]].role

\* However many events arrive while a node waits or works, it has one wake-up
\* per role, in its queue or in work.
OneWakeup ==
  \A n \in Nodes : LET queue == rec[n].pending IN
    \A i, j \in DOMAIN queue : Wakes(n, queue[i]) =>
      /\ Wakes(n, queue[j]) /\ SameRole(queue[i], queue[j]) => i = j
      /\ Wakes(n, rec[n].inflight) => ~SameRole(queue[i], rec[n].inflight)

\* A delivered or cancelled notification stays so.
SettledStays ==
  [][\A e \in DOMAIN events : \A n \in Nodes :
       events[e].to[n] \in {"delivered", "cancelled"}
         => events'[e].to[n] = events[e].to[n]]_vars

Waiting(n, e) == e \in Pending(n)

\* A task notification of a renamed node that its new name cannot resolve.
Stranded(n) ==
  \E e \in Pending(n) : events[e].kind = "task" /\ n \notin events[e].keyed

\* Every notification is delivered or cancelled in the end, whatever crashes,
\* stops and lost queues come between, unless a transaction of an execution
\* failed or the node was renamed over a task notification.
Settles ==
  \A n \in Nodes : \A e \in Seqs :
    Waiting(n, e) ~> ~Waiting(n, e) \/ faults > 0 \/ Stranded(n)

\* The same without the exceptions.
AlwaysSettles ==
  \A n \in Nodes : \A e \in Seqs : Waiting(n, e) ~> ~Waiting(n, e)
=============================================================================
