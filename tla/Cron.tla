-------------------------------- MODULE Cron --------------------------------
(***************************************************************************)
(* Scheduled wake-ups of the nodes of one graph: the durable schedules and *)
(* runs of CronRepository, the polling thread of CronService, and the      *)
(* acknowledgement that acknowledge_cron_run wraps around the execution of *)
(* a node.                                                                 *)
(*                                                                         *)
(* Every CronRepository operation is one BEGIN IMMEDIATE transaction of    *)
(* cron.sqlite3, so it is one step here and survives a crash.  The queue   *)
(* between the poller and the executor is the node's runtime record        *)
(* (NodeStore), which does not.  Of the executor only the steps that touch *)
(* either store are kept; GraphRunner has the others.  A stop is one step: *)
(* the flag and the cancel event together.  A transaction that SQLite      *)
(* refuses (begin_run and finish_run, cron_execution.py:19-42) is left     *)
(* out: what is said of a run is said of a database that answers.          *)
(***************************************************************************)
EXTENDS NodeStore, Integers

CONSTANTS Jobs,        \* job ids (uuids): one per creation
          Schedules,   \* the schedules users ask for
          UserTrace,   \* trace of the ordinary messages
          Checkpoints, \* whether a restart may restore a checkpoint
          MaxTime,     \* bound: the clock
          MaxCommands, \* bound: commands of users and agents
          MaxCrashes   \* bound: crashes of the backend

Periodic == {"every", "cron"}
ScheduleType == [kind : {"at"} \cup Periodic, t : Nat \ {0}]

ASSUME SchedulesAssumption == Schedules \subseteq ScheduleType
ASSUME CronBoundsAssumption == MaxTime \in Nat /\ MaxCommands \in Nat
                                               /\ MaxCrashes \in Nat

NoTime == -1
NoJob  == [node |-> "none"]

\* The k-th run of job j; run ids are never used again.
RunIds == Jobs \X (1..(MaxTime + 1))

ASSUME TracesAssumption == RunIds \cup {UserTrace} \subseteq Traces
ASSUME UserTraceAssumption == UserTrace \notin RunIds
ASSUME CheckpointsAssumption == Checkpoints \in BOOLEAN

VARIABLES jobs,     \* table jobs: job id -> row or NoJob
          runs,     \* table runs: job id -> its runs, oldest first
          now,      \* time.time()
          poll,     \* the polling thread: pc and the runs left of its list
          rec,      \* the nodes' runtime records
          exec,     \* the nodes' executors
          present,  \* nodes whose directory exists
          up,       \* the cron service has started
          commands, crashes

vars == <<jobs, runs, now, poll, rec, exec, present, up, commands,
          crashes>>

Active == {"pending", "running"}
Terminal == {"completed", "failed", "cancelled"}

\* begins and replayed are history: how often the run was begun, and whether
\* recover_interrupted put it back.
Run == [node : Nodes, at : Nat, content : Nat,
        status : Active \cup Terminal, begins : Nat, replayed : BOOLEAN]
Job == [node : Nodes, sched : ScheduleType, enabled : BOOLEAN,
        next : Nat \cup {NoTime}, content : Nat]

Idle == [pc |-> "none", item |-> NoItem, outcome |-> "none"]

-----------------------------------------------------------------------------
(* Schedules                                                               *)

\* next_deadline: a calendar schedule matches at the multiples of its t.
NextDeadline(s, t, previous) ==
  CASE s.kind = "at"    -> IF previous = NoTime THEN s.t ELSE NoTime
    [] s.kind = "every" -> IF previous = NoTime THEN t + s.t
                           ELSE previous + ((t - previous) \div s.t + 1) * s.t
    [] s.kind = "cron"  -> ((t \div s.t) + 1) * s.t

-----------------------------------------------------------------------------
(* The commands of cron/tools.py.  A command that raises changes nothing.  *)
(* The check of expected_revision makes an update an update of the row it  *)
(* read, so the row of this state is the row the caller saw.               *)

Command == commands < MaxCommands /\ commands' = commands + 1

IsPending(run) == run.status = "pending"
IsActive(run)  == run.status \in Active
Cancelled(run) == [run EXCEPT !.status = "cancelled"]

\* The runs of job j after its queued run was cancelled, or edited.
CancelPending(j) ==
  [k \in DOMAIN runs[j] |-> IF IsPending(runs[j][k]) THEN Cancelled(runs[j][k])
                                                    ELSE runs[j][k]]
EditPending(j, content) ==
  [k \in DOMAIN runs[j] |-> IF IsPending(runs[j][k])
                            THEN [runs[j][k] EXCEPT !.content = content]
                            ELSE runs[j][k]]

NewJob(n, s, t) ==
  [node |-> n, sched |-> s, enabled |-> TRUE,
   next |-> NextDeadline(s, t, NoTime), content |-> 1]

\* UNIQUE(node_id, name), where one name per node stands for all of them.
OneName == \A i, j \in Jobs :
  jobs[i] # NoJob /\ jobs[j] # NoJob /\ jobs[i].node = jobs[j].node => i = j

\* The backend starts on a database whose jobs were made at time 0.
Init ==
  /\ jobs \in [Jobs -> {NewJob(n, s, 0) : n \in Nodes, s \in Schedules}]
  /\ OneName
  /\ runs = [j \in Jobs |-> << >>]
  /\ now = 0
  /\ poll = [pc |-> "wait", todo |-> {}]
  /\ rec = [n \in Nodes |-> FreshRuntime]
  /\ exec = [n \in Nodes |-> Idle]
  /\ present = Nodes
  /\ up = TRUE
  /\ commands = 0
  /\ crashes = 0

\* A job id is created once.
Create(j, n, s) ==
  /\ Command
  /\ n \in present
  /\ jobs[j] = NoJob /\ runs[j] = << >>
  /\ \A i \in Jobs : jobs[i] # NoJob => jobs[i].node # n
  /\ NextDeadline(s, now, NoTime) > now
  /\ jobs' = [jobs EXCEPT ![j] = NewJob(n, s, now)]
  /\ UNCHANGED <<runs, now, poll, rec, exec, present, up, crashes>>

Keep == [kind |-> "keep"]

\* What update writes: s is a new schedule or Keep, en the new value of
\* enabled ("on", "off") or "keep".  content counts the versions of the name,
\* the prompt and the role, which any update may change.
Updated(row, s, en) ==
  LET sched   == IF s = Keep THEN row.sched ELSE s
      enabled == IF en = "keep" THEN row.enabled ELSE en = "on"
      redo    == s # Keep \/ (en = "on" /\ ~row.enabled)
  IN  [row EXCEPT !.sched = sched, !.enabled = enabled,
                  !.next = IF redo THEN NextDeadline(sched, now, NoTime) ELSE @,
                  !.content = @ + 1]

\* Mutant: a deadline of this very moment is accepted.
AcceptableNow(row, s, en, new) ==
  (s # Keep \/ (en = "on" /\ ~row.enabled)) /\ new.enabled => new.next >= now

\* A new deadline of an enabled job must lie in the future.
Acceptable(row, s, en, new) ==
  (s # Keep \/ (en = "on" /\ ~row.enabled)) /\ new.enabled => new.next > now

\* Mutant: only a new schedule cancels the queued run.
UpdatePauseKeepsRun(j, s, en) ==
  LET new == Updated(jobs[j], s, en) IN
  /\ Command
  /\ jobs[j] # NoJob
  /\ Acceptable(jobs[j], s, en, new)
  /\ jobs' = [jobs EXCEPT ![j] = new]
  /\ runs' = [runs EXCEPT ![j] = IF s # Keep
                                 THEN CancelPending(j)
                                 ELSE EditPending(j, new.content)]
  /\ UNCHANGED <<now, poll, rec, exec, present, up, crashes>>

\* A new schedule or a pause cancels the run that has not begun; any other
\* edit is written into it.
Update(j, s, en) ==
  LET new == Updated(jobs[j], s, en) IN
  /\ Command
  /\ jobs[j] # NoJob
  /\ Acceptable(jobs[j], s, en, new)
  /\ jobs' = [jobs EXCEPT ![j] = new]
  /\ runs' = [runs EXCEPT ![j] = IF s # Keep \/ en = "off"
                                 THEN CancelPending(j)
                                 ELSE EditPending(j, new.content)]
  /\ UNCHANGED <<now, poll, rec, exec, present, up, crashes>>

Delete(j) ==
  /\ Command
  /\ jobs[j] # NoJob
  /\ jobs' = [jobs EXCEPT ![j] = NoJob]
  /\ runs' = [runs EXCEPT ![j] = CancelPending(j)]
  /\ UNCHANGED <<now, poll, rec, exec, present, up, crashes>>

-----------------------------------------------------------------------------
(* The polling thread                                                      *)

HasActive(j) == \E k \in DOMAIN runs[j] : IsActive(runs[j][k])

Due(j) == jobs[j] # NoJob /\ jobs[j].enabled /\ jobs[j].next <= now

\* A one-shot waits for the run before it; the others skip this deadline.
Deferred(j) == jobs[j].sched.kind = "at" /\ HasActive(j)

NewRun(j) ==
  [node |-> jobs[j].node, at |-> jobs[j].next, content |-> jobs[j].content,
   status |-> "pending", begins |-> 0, replayed |-> FALSE]

\* Mutant: a run is added beside the one that is still running.
PollMaterializeBesideRunning ==
  LET due  == {j \in Jobs : Due(j)}
      next(j) == NextDeadline(jobs[j].sched, now, jobs[j].next)
  IN
  /\ up /\ poll.pc = "wait"
  /\ runs' = [j \in Jobs |->
       IF j \in due /\ ~\E k \in DOMAIN runs[j] : IsPending(runs[j][k])
       THEN Append(runs[j], NewRun(j)) ELSE runs[j]]
  /\ jobs' = [j \in Jobs |->
       IF j \in due
       THEN [jobs[j] EXCEPT !.next = next(j), !.enabled = next(j) # NoTime]
       ELSE jobs[j]]
  /\ poll' = [poll EXCEPT !.pc = "list"]
  /\ UNCHANGED <<now, rec, exec, present, up, commands, crashes>>

\* Mutant: interrupted runs are recovered at every poll.
PollMaterializeRecovers ==
  LET due == {j \in Jobs : Due(j) /\ ~Deferred(j)} IN
  /\ up /\ poll.pc = "wait"
  /\ runs' = [j \in Jobs |-> IF j \in due /\ ~HasActive(j)
                             THEN Append(runs[j], NewRun(j))
                             ELSE [k \in DOMAIN runs[j] |->
       IF runs[j][k].status = "running"
       THEN [runs[j][k] EXCEPT !.status = "pending"] ELSE runs[j][k]]]
  /\ jobs' = [j \in Jobs |->
       IF j \in due
       THEN [jobs[j] EXCEPT !.next = NextDeadline(jobs[j].sched, now, @)]
       ELSE jobs[j]]
  /\ poll' = [poll EXCEPT !.pc = "list"]
  /\ UNCHANGED <<now, rec, exec, present, up, commands, crashes>>

\* Mutant: a one-shot stays enabled when its run is made.
PollMaterializeStaysEnabled ==
  LET due == {j \in Jobs : Due(j) /\ ~Deferred(j)} IN
  /\ up /\ poll.pc = "wait"
  /\ runs' = [j \in Jobs |-> IF j \in due /\ ~HasActive(j)
                             THEN Append(runs[j], NewRun(j)) ELSE runs[j]]
  /\ jobs' = [j \in Jobs |->
       IF j \in due
       THEN [jobs[j] EXCEPT !.next = NextDeadline(jobs[j].sched, now, @)]
       ELSE jobs[j]]
  /\ poll' = [poll EXCEPT !.pc = "list"]
  /\ UNCHANGED <<now, rec, exec, present, up, commands, crashes>>

\* materialize_due
PollMaterialize ==
  LET due  == {j \in Jobs : Due(j) /\ ~Deferred(j)}
      next(j) == NextDeadline(jobs[j].sched, now, jobs[j].next)
  IN
  /\ up /\ poll.pc = "wait"
  /\ runs' = [j \in Jobs |-> IF j \in due /\ ~HasActive(j)
                             THEN Append(runs[j], NewRun(j)) ELSE runs[j]]
  /\ jobs' = [j \in Jobs |->
       IF j \in due
       THEN [jobs[j] EXCEPT !.next = next(j), !.enabled = next(j) # NoTime]
       ELSE jobs[j]]
  /\ poll' = [poll EXCEPT !.pc = "list"]
  /\ UNCHANGED <<now, rec, exec, present, up, commands, crashes>>

RowOf(id)   == runs[id[1]][id[2]]
Exists(id)  == id \in RunIds /\ id[2] \in DOMAIN runs[id[1]]

Deliver(ids) == [pc |-> IF ids = {} THEN "wait" ELSE "deliver", todo |-> ids]

\* pending_runs: the list is a copy that the later steps work through.
PollList ==
  /\ up /\ poll.pc = "list"
  /\ poll' = Deliver({id \in RunIds : Exists(id) /\ IsPending(RowOf(id))})
  /\ UNCHANGED <<jobs, runs, now, rec, exec, present, up, commands,
                 crashes>>

\* The source "cron" is keyed like "api", which stands for it.
CronItem(id) == [trace |-> id, depth |-> 0, src |-> "api"]
UserItem     == [trace |-> UserTrace, depth |-> 0, src |-> "emit"]

\* The next run of the list, by scheduled_at.
Turn(id) ==
  /\ up /\ poll.pc = "deliver" /\ id \in poll.todo
  /\ \A i \in poll.todo : RowOf(id).at <= RowOf(i).at
  /\ poll' = Deliver(poll.todo \ {id})

PollEnqueue(id) ==
  LET n == RowOf(id).node IN
  /\ Turn(id)
  /\ n \in present /\ ~Refuses(rec[n])
  /\ rec' = [rec EXCEPT ![n] = AppendPending(@, CronItem(id))]
  /\ UNCHANGED <<jobs, runs, now, exec, present, up, commands,
                 crashes>>

\* The node is gone or being deleted.  The poller retries ten seconds later;
\* here any later poll may be that one.
PollFails(id) ==
  LET n == RowOf(id).node IN
  /\ Turn(id)
  /\ n \notin present \/ Refuses(rec[n])
  /\ UNCHANGED <<jobs, runs, now, rec, exec, present, up, commands, crashes>>

Tick ==
  /\ now < MaxTime
  /\ now' = now + 1
  /\ UNCHANGED <<jobs, runs, poll, rec, exec, present, up, commands,
                 crashes>>

-----------------------------------------------------------------------------
(* The executor of node n.  An item of the poller is acknowledged before   *)
(* and after the iteration; a user's message is not.                       *)

At(n, pc) == exec[n].pc = pc
Go(n, pc) == exec' = [exec EXCEPT ![n].pc = pc]
Id(n)     == exec[n].item.trace
IsCron(n) == exec[n].item.src = "api"

\* The iteration is over: the acknowledgement goes on with finish_run.
Leave(n, outcome) ==
  exec' = [exec EXCEPT ![n] = IF IsCron(n)
                              THEN [@ EXCEPT !.pc = "finish", !.outcome = outcome]
                              ELSE Idle]

Dequeue(n) ==
  /\ At(n, "none") /\ CanDequeue(rec[n])
  /\ rec' = [rec EXCEPT ![n] = DequeueToWorking(@)]
  /\ exec' = [exec EXCEPT ![n] =
       [pc |-> IF Head(rec[n].pending).src = "api" THEN "begin" ELSE "logic",
        item |-> Head(rec[n].pending), outcome |-> "none"]]
  /\ UNCHANGED <<jobs, runs, now, poll, present, up, commands, crashes>>

\* Mutant: begin_run does not look at the status.
BeginnableAnyStatus(id, n) == Exists(id) /\ RowOf(id).node = n

\* begin_run takes a pending run of this node only.
Beginnable(id, n) == Exists(id) /\ IsPending(RowOf(id)) /\ RowOf(id).node = n

Begin(n) ==
  /\ At(n, "begin")
  /\ Beginnable(Id(n), n)
  /\ runs' = [runs EXCEPT ![Id(n)[1]][Id(n)[2]].status = "running",
                          ![Id(n)[1]][Id(n)[2]].begins = @ + 1]
  /\ Go(n, "logic")
  /\ UNCHANGED <<jobs, now, poll, rec, present, up, commands, crashes>>

\* The queued copy is out of date: nothing runs and nothing is recorded.
BeginRefused(n) ==
  /\ At(n, "begin")
  /\ ~Beginnable(Id(n), n)
  /\ rec' = [rec EXCEPT ![n] = ClearInflight(@)]
  /\ Go(n, "refused")
  /\ UNCHANGED <<jobs, runs, now, poll, present, up, commands, crashes>>

Refused(n) ==
  /\ At(n, "refused")
  /\ rec' = [rec EXCEPT ![n] = TransitionToIdle(@)]
  /\ exec' = [exec EXCEPT ![n] = Idle]
  /\ UNCHANGED <<jobs, runs, now, poll, present, up, commands, crashes>>

\* The node logic returns or raises; a stop request makes it raise.
Logic(n, outcome) ==
  /\ At(n, "logic")
  /\ outcome \in {"assistant", "system"}
  /\ ~rec[n].stopReq
  /\ exec' = [exec EXCEPT ![n].pc = "record", ![n].outcome = outcome]
  /\ UNCHANGED <<jobs, runs, now, poll, rec, present, up, commands,
                 crashes>>

\* Cancelled: finish_stop_requested, and no completion record.
Stopped(n) ==
  /\ At(n, "logic")
  /\ rec[n].stopReq
  /\ rec' = [rec EXCEPT ![n] = FinishStopRequested(@)]
  /\ Leave(n, "none")
  /\ UNCHANGED <<jobs, runs, now, poll, present, up, commands, crashes>>

\* A stop request is honoured until the completion record is written; a
\* record that cannot be written is logged only.
Record(n, written) ==
  /\ At(n, "record")
  /\ rec' = [rec EXCEPT ![n] =
       IF @.stopReq THEN FinishStopRequested(@)
       ELSE IF written THEN RecordCompletion(@, Id(n)) ELSE @]
  /\ IF rec[n].stopReq
     THEN Leave(n, "none")
     ELSE Go(n, "clear")
  /\ UNCHANGED <<jobs, runs, now, poll, present, up, commands, crashes>>

Clear(n) ==
  /\ At(n, "clear")
  /\ rec' = [rec EXCEPT ![n] = ClearInflight(@)]
  /\ Go(n, "settle")
  /\ UNCHANGED <<jobs, runs, now, poll, present, up, commands, crashes>>

\* The iteration ends idle or paused.  When the answer cannot be written to
\* the conversation memory it raises instead and the node stays working; an
\* error that cannot be written there is logged only.
Settle(n, persisted) ==
  LET raises == exec[n].outcome = "assistant" /\ ~persisted IN
  /\ At(n, "settle")
  /\ rec' = [rec EXCEPT ![n] =
       IF raises THEN @
       ELSE IF exec[n].outcome = "assistant"
       THEN CompleteWork(@, [targets |-> {}]) ELSE TransitionToIdle(@)]
  /\ Leave(n, IF raises THEN "raised" ELSE exec[n].outcome)
  /\ UNCHANGED <<jobs, runs, now, poll, present, up, commands, crashes>>

\* The status finish_run writes; the completion record is looked up again.
Verdict(n) ==
  IF exec[n].outcome = "assistant" /\ Id(n) \in Elements(rec[n].completed)
  THEN "completed" ELSE "failed"

\* Mutant: finish_run does not look at the status.
FinishAnyStatus(n) ==
  /\ At(n, "finish")
  /\ runs' = [runs EXCEPT ![Id(n)[1]][Id(n)[2]].status = Verdict(n)]
  /\ exec' = [exec EXCEPT ![n] = Idle]
  /\ UNCHANGED <<jobs, now, poll, rec, present, up, commands, crashes>>

\* finish_run settles a running run only.
Finish(n) ==
  /\ At(n, "finish")
  /\ runs' = [runs EXCEPT ![Id(n)[1]][Id(n)[2]].status =
                IF @ = "running" THEN Verdict(n) ELSE @]
  /\ exec' = [exec EXCEPT ![n] = Idle]
  /\ UNCHANGED <<jobs, now, poll, rec, present, up, commands, crashes>>

\* The scheduler's recovery of a node left working without inflight.
RecoverStale(n) ==
  /\ At(n, "none") /\ StaleWorking(rec[n])
  /\ rec' = [rec EXCEPT ![n] = RecoverStaleWorking(@)]
  /\ UNCHANGED <<jobs, runs, now, poll, exec, present, up, commands,
                 crashes>>

-----------------------------------------------------------------------------
(* Users and the node's life                                               *)

OnRecord(n, new) ==
  /\ Command
  /\ n \in present
  /\ rec' = [rec EXCEPT ![n] = new]
  /\ UNCHANGED <<jobs, runs, now, poll, exec, present, up, crashes>>

Emit(n)  == OnRecord(n, AppendPending(rec[n], UserItem))
Stop(n)  == OnRecord(n, CancelWork(rec[n]))
Pause(n) == OnRecord(n, UpdateState(rec[n], "stop"))
ResumeNode(n) == OnRecord(n, Resume(rec[n]))
MarkDelete(n) == ~rec[n].delReq /\ OnRecord(n, MarkDeleteRequested(rec[n]))

\* cron_node_departure, inside the deletion or the move of the node.  The
\* deletion waits for executors inside the cancellation registry only, which
\* the acknowledgement is not.
Depart(n) ==
  /\ n \in present /\ rec[n].delReq
  /\ ~At(n, "logic")
  /\ present' = present \ {n}
  /\ rec' = [rec EXCEPT ![n] = FreshRuntime]
  /\ jobs' = [j \in Jobs |->
       IF jobs[j] # NoJob /\ jobs[j].node = n THEN NoJob ELSE jobs[j]]
  /\ runs' = [j \in Jobs |-> [k \in DOMAIN runs[j] |->
       IF runs[j][k].node = n /\ IsActive(runs[j][k])
       THEN Cancelled(runs[j][k]) ELSE runs[j][k]]]
  /\ UNCHANGED <<now, poll, exec, up, commands, crashes>>

\* A failed deletion takes back the delete request only.
DepartFails(n) ==
  /\ n \in present /\ rec[n].delReq
  /\ rec' = [rec EXCEPT ![n] = ClearDeleteRequested(@)]
  /\ UNCHANGED <<jobs, runs, now, poll, exec, present, up, commands,
                 crashes>>

-----------------------------------------------------------------------------
(* Crash and start                                                         *)

\* What restart recovery puts back of a checkpointed node.
Restored(r) ==
  [FreshRuntime EXCEPT
     !.pending = IF r.inflight # NoItem THEN <<r.inflight>> \o r.pending
                                        ELSE r.pending,
     !.completed = r.completed]

\* The process ends; the records are lost, or restored from checkpoints of
\* the working nodes before the cron service starts.
Crash ==
  /\ crashes < MaxCrashes
  /\ crashes' = crashes + 1
  /\ \E saved \in SUBSET {n \in present : Checkpoints
                            /\ rec[n].state = "working" /\ rec[n].inflight # NoItem} :
       rec' = [n \in Nodes |-> IF n \in saved THEN Restored(rec[n])
                                              ELSE FreshRuntime]
  /\ exec' = [n \in Nodes |-> Idle]
  /\ poll' = [pc |-> "wait", todo |-> {}]
  /\ up' = FALSE
  /\ UNCHANGED <<jobs, runs, now, present, commands>>

\* Mutant: runs interrupted by the crash are not put back.
StartForgets ==
  /\ ~up
  /\ up' = TRUE
  /\ UNCHANGED <<jobs, runs, now, poll, rec, exec, present, commands,
                 crashes>>

\* CronService.start: recover_interrupted.
Start ==
  /\ ~up
  /\ up' = TRUE
  /\ runs' = [j \in Jobs |-> [k \in DOMAIN runs[j] |->
       IF runs[j][k].status = "running"
       THEN [runs[j][k] EXCEPT !.status = "pending", !.replayed = TRUE]
       ELSE runs[j][k]]]
  /\ UNCHANGED <<jobs, now, poll, rec, exec, present, commands, crashes>>

-----------------------------------------------------------------------------
Poller == \/ PollMaterialize \/ PollList
          \/ \E id \in RunIds : PollEnqueue(id) \/ PollFails(id)

Executor(n) ==
  \/ Dequeue(n) \/ Begin(n) \/ BeginRefused(n) \/ Refused(n)
  \/ \E outcome \in {"assistant", "system"} : Logic(n, outcome)
  \/ Stopped(n)
  \/ \E ok \in BOOLEAN : Record(n, ok) \/ Settle(n, ok)
  \/ Clear(n) \/ Finish(n) \/ RecoverStale(n)

JobCommand(j) ==
  \/ \E n \in Nodes, s \in Schedules : Create(j, n, s)
  \/ \E s \in Schedules \cup {Keep}, en \in {"keep", "on", "off"} :
       Update(j, s, en)
  \/ Delete(j)

NodeCommand(n) == Emit(n) \/ Stop(n) \/ Pause(n) \/ ResumeNode(n)
                  \/ MarkDelete(n) \/ Depart(n) \/ DepartFails(n)

Next ==
  \/ Poller
  \/ \E n \in Nodes : Executor(n) \/ NodeCommand(n)
  \/ \E j \in Jobs : JobCommand(j)
  \/ Tick \/ Crash \/ Start

Spec == Init /\ [][Next]_vars

\* The poller and the executors are threads that always go on; a backend that
\* crashed is started again.
Fairness == /\ WF_vars(Poller \/ Start)
            /\ \A n \in Nodes : WF_vars(Executor(n))

FairSpec == Spec /\ Fairness

-----------------------------------------------------------------------------
(* Properties                                                              *)

\* The tables and the executors are well formed.
CronTypeOK ==
  /\ jobs \in [Jobs -> Job \cup {NoJob}]
  /\ runs \in [Jobs -> Seq(Run)]
  /\ now \in 0..MaxTime
  /\ poll.pc \in {"wait", "list", "deliver"} /\ poll.todo \subseteq RunIds
  /\ rec \in [Nodes -> Runtime]
  /\ present \subseteq Nodes
  /\ up \in BOOLEAN

\* materialize_due, recover_interrupted and the edits between them never
\* leave a job with two runs that wait or run: runs do not pile up.
OneActiveRun ==
  \A j \in Jobs : \A k, l \in DOMAIN runs[j] :
    IsActive(runs[j][k]) /\ IsActive(runs[j][l]) => k = l

\* The deadline of an enabled job lies after every deadline it was run for,
\* so materialize_due never inserts a second row for (job_id, scheduled_at),
\* which would fail the transaction of every job of the graph.
DeadlineAhead ==
  \A j \in Jobs : jobs[j] # NoJob /\ jobs[j].enabled =>
    \A k \in DOMAIN runs[j] : runs[j][k].at < jobs[j].next

\* Edits reach the run that has not begun: it has the content of
\* its job, and it is gone once the job is paused or deleted (a spent
\* one-shot is disabled by its own run).  A run replayed after a crash is
\* exempt: recover_interrupted puts it back as it was.
EditsReachPending ==
  \A j \in Jobs : \A k \in DOMAIN runs[j] :
    IsPending(runs[j][k]) /\ ~runs[j][k].replayed =>
      /\ jobs[j] # NoJob
      /\ runs[j][k].content = jobs[j].content
      /\ jobs[j].enabled \/ jobs[j].next = NoTime

\* From begin_run to finish_run the row of the executed run says running, or
\* cancelled when the node departed: finish_run then settles it.
LiveRunIsRunning ==
  \A n \in Nodes :
    exec[n].pc \in {"logic", "record", "clear", "settle", "finish"} /\ IsCron(n)
      => RowOf(Id(n)).status \in {"running", "cancelled"}

\* A run is begun once, and once more for each crash that interrupted it,
\* however stale the poller's list and the queued copies are.
BegunOncePerLife ==
  \A j \in Jobs : \A k \in DOMAIN runs[j] : runs[j][k].begins <= 1 + crashes

\* A run is never queued beside itself.
RunQueuedOnce ==
  \A n \in Nodes : \A i, k \in DOMAIN rec[n].pending :
    LET p == rec[n].pending IN
    p[i].src = "api" =>
      /\ p[i] = p[k] => i = k
      /\ p[i] # rec[n].inflight

\* A terminal run stays as it is.
SettledForEver ==
  [][\A j \in Jobs : \A k \in DOMAIN runs[j] :
       runs[j][k].status \in Terminal => runs'[j][k] = runs[j][k]]_vars

Held(n) == rec[n].state = "stop" \/ rec[n].delReq

\* Every run that was made is executed or cancelled in the end, unless its
\* node is paused or being deleted: no loss of the queue, no stale list and no
\* entry of the request history hides it for ever.  (A job has one active run
\* at a time, so that run has settled when the job has none.)
RunSettles ==
  \A j \in Jobs :
    HasActive(j) ~> (\A k \in DOMAIN runs[j] :
                       IsActive(runs[j][k]) => Held(runs[j][k].node))

\* A stop request is answered wherever it meets the acknowledged iteration.
StopAnswered == \A n \in Nodes : rec[n].stopReq ~> ~rec[n].stopReq
=============================================================================
