----------------------------- MODULE CronProofs ------------------------------
(***************************************************************************)
(* The invariants of Cron for every set of nodes, jobs and schedules and   *)
(* any number of commands and crashes.                                     *)
(*                                                                         *)
(* The tables change in ten actions only; the others move items between    *)
(* the poller, the queues and the executors.  TableInv is about the        *)
(* tables, QueueInv about the rest, LiveInv relates the two.               *)
(***************************************************************************)
EXTENDS Cron, NodeStoreProofs

\* The jobs, the runs and the clock (jobs and runs of CronRepository).
TableType ==
  /\ jobs \in [Jobs -> Job \cup {NoJob}]
  /\ runs \in [Jobs -> Seq(Run)]
  /\ now \in 0..MaxTime /\ crashes \in Nat /\ up \in BOOLEAN

\* Why a deadline lies ahead: runs were made for moments that have come, and
\* an enabled job has a deadline.
RunsPast ==
  \A j \in Jobs : \A k \in DOMAIN runs[j] : runs[j][k].at <= now

EnabledHasDeadline ==
  \A j \in Jobs : jobs[j] # NoJob /\ jobs[j].enabled => jobs[j].next \in Nat

\* Why a departure leaves no edited run behind: it is a run of that node.
RunsOfJob ==
  \A j \in Jobs : jobs[j] # NoJob =>
    \A k \in DOMAIN runs[j] : runs[j][k].node = jobs[j].node

\* Why a run is begun once per life: how often it may have been begun, which
\* leaves a waiting run one more time.
Budget == IF up THEN crashes + 1 ELSE crashes

BeginsLeft ==
  \A j \in Jobs : \A k \in DOMAIN runs[j] :
    /\ runs[j][k].begins <= Budget
    /\ IsPending(runs[j][k]) => runs[j][k].begins < Budget

TableInv ==
  /\ TableType /\ OneActiveRun /\ DeadlineAhead /\ RunsPast
  /\ EnabledHasDeadline /\ EditsReachPending /\ RunsOfJob /\ BeginsLeft

\* The runs that were made; none is ever deleted.
Made == {id \in RunIds : Exists(id)}

\* A queued or executed item of the poller names one of them.
KnownItem(it, made) == it.src = "api" => it.trace \in made

QueuedOnce(r) ==
  \A i, k \in DOMAIN r.pending : r.pending[i].src = "api" =>
    /\ r.pending[i] = r.pending[k] => i = k
    /\ r.pending[i] # r.inflight

RecordOK(r, made) ==
  /\ r \in Runtime
  /\ \A i \in DOMAIN r.pending : KnownItem(r.pending[i], made)
  /\ r.inflight # NoItem => KnownItem(r.inflight, made)
  /\ QueuedOnce(r)

Pcs == {"none", "begin", "refused", "logic", "record", "clear", "settle",
        "finish"}
ExecType == [pc : Pcs, item : Item \cup {NoItem},
             outcome : {"none", "assistant", "system", "raised"}]

ExecOK(e, made) ==
  /\ e \in ExecType
  /\ e.pc # "none" => e.item \in Item /\ KnownItem(e.item, made)
  /\ e.pc \in {"begin", "refused", "finish"} => e.item.src = "api"

PollType == [pc : {"wait", "list", "deliver"}, todo : SUBSET RunIds]

QueueInv ==
  /\ poll \in PollType /\ poll.todo \subseteq Made
  /\ rec \in [Nodes -> Runtime] /\ \A n \in Nodes : RecordOK(rec[n], Made)
  /\ exec \in [Nodes -> ExecType] /\ \A n \in Nodes : ExecOK(exec[n], Made)
  /\ present \subseteq Nodes

\* Between begin_run and finish_run the executor owns the row.
Busy(e) ==
  e.pc \in {"logic", "record", "clear", "settle", "finish"} /\ e.item.src = "api"

Owns(n) == RowOf(Id(n)).status \in {"running", "cancelled"} /\ RowOf(Id(n)).node = n

\* Nothing of the poller is left in the records and the executors.
NoCron(r, e) == /\ \A i \in DOMAIN r.pending : r.pending[i].src # "api"
                /\ e.pc # "none" => e.item.src # "api"

LiveInv ==
  /\ \A n \in Nodes : Busy(exec[n]) => Owns(n)
  /\ ~up => \A n \in Nodes : NoCron(rec[n], exec[n])

-----------------------------------------------------------------------------
(* Deadlines                                                               *)

LEMMA DivisionAhead ==
  ASSUME NEW a \in Nat, NEW s \in Nat \ {0}
  PROVE  /\ (a \div s) \in Nat
         /\ (a \div s + 1) * s \in Nat
         /\ (a \div s + 1) * s > a
OBVIOUS

\* The next deadline of a periodic schedule lies in the future, however many
\* deadlines were missed; a one-shot has none after its first (next_deadline).
LEMMA NextDeadlineAhead ==
  ASSUME NEW s \in ScheduleType, NEW t \in Nat, NEW p \in Nat \cup {NoTime},
         p = NoTime \/ p <= t
  PROVE  /\ NextDeadline(s, t, p) \in Nat \cup {NoTime}
         /\ p # NoTime => NextDeadline(s, t, p) = NoTime \/ NextDeadline(s, t, p) > t
         /\ p = NoTime => NextDeadline(s, t, p) \in Nat
<1>1. s.t \in Nat \ {0} /\ s.kind \in {"at", "every", "cron"}
  BY DEF ScheduleType, Periodic
<1>2. CASE s.kind = "at"
  BY <1>1, <1>2 DEF NextDeadline, NoTime
<1>3. CASE s.kind = "every"
  <2>1. CASE p = NoTime
    BY <1>1, <1>3, <2>1 DEF NextDeadline, NoTime
  <2>2. CASE p # NoTime
    <3> DEFINE a == t - p
               m == (a \div s.t + 1) * s.t
    <3>1. p \in Nat /\ a \in Nat
      BY <2>2
    <3>2. m \in Nat /\ m > a
      BY <1>1, <3>1, DivisionAhead
    <3>3. NextDeadline(s, t, p) = p + m
      BY <1>3, <2>2 DEF NextDeadline
    <3> HIDE DEF m
    <3> QED BY <2>2, <3>1, <3>2, <3>3 DEF NoTime
  <2> QED BY <2>1, <2>2
<1>4. CASE s.kind = "cron"
  <2> DEFINE m == (t \div s.t + 1) * s.t
  <2>1. m \in Nat /\ m > t
    BY <1>1, DivisionAhead
  <2>2. NextDeadline(s, t, p) = m
    BY <1>4 DEF NextDeadline
  <2> HIDE DEF m
  <2> QED BY <2>1, <2>2 DEF NoTime
<1> QED BY <1>1, <1>2, <1>3, <1>4

\* The moments of a periodic schedule: every s.t from the deadline before, or
\* from midnight for a calendar schedule.
Moment(s, previous, k) ==
  (IF s.kind = "cron" THEN 0 ELSE previous) + k * s.t

LEMMA DivisionFirst ==
  ASSUME NEW a \in Nat, NEW s \in Nat \ {0}, NEW k \in Nat, k * s > a
  PROVE  (a \div s + 1) * s <= k * s
<1> DEFINE q == a \div s
<1>1. q \in Nat /\ q * s <= a
  OBVIOUS
<1> HIDE DEF q
<1>2. q < k
  <2>1. SUFFICES ASSUME k <= q PROVE FALSE
    BY <1>1
  <2>2. PICK d \in Nat : q = k + d
    <3>1. q - k \in Nat /\ q = k + (q - k)
      BY <1>1, <2>1
    <3> QED BY <3>1
  <2>3. q * s = k * s + d * s /\ d * s \in Nat /\ k * s \in Nat /\ q * s \in Nat
    BY <2>2
  <2> QED BY <1>1, <2>3
<1>3. PICK e \in Nat : k = q + 1 + e
  <2>1. k - (q + 1) \in Nat /\ k = q + 1 + (k - (q + 1))
    BY <1>1, <1>2
  <2> QED BY <2>1
<1>4. k * s = (q + 1) * s + e * s /\ e * s \in Nat /\ (q + 1) * s \in Nat
  BY <1>1, <1>3
<1>5. (q + 1) * s <= k * s
  BY <1>4
<1> QED BY <1>5 DEF q

\* The next deadline of a periodic schedule is one of its moments, it lies
\* after now, and none of its moments lies between the two: however many
\* deadlines passed while the backend was down, the next one is neither late
\* nor a repetition of a missed one (next_deadline).
THEOREM NextDeadlineFirst ==
  ASSUME NEW s \in ScheduleType, NEW t \in Nat, NEW p \in Nat, p <= t,
         s.kind # "at"
  PROVE  /\ \E k \in Nat : NextDeadline(s, t, p) = Moment(s, p, k)
         /\ NextDeadline(s, t, p) > t
         /\ \A k \in Nat : Moment(s, p, k) > t
                            => NextDeadline(s, t, p) <= Moment(s, p, k)
<1> DEFINE from == IF s.kind = "cron" THEN 0 ELSE p
           a == t - from
           q == a \div s.t + 1
<1>1. s.t \in Nat \ {0} /\ s.kind \in {"every", "cron"} /\ p # NoTime
  BY DEF ScheduleType, Periodic, NoTime
<1>2. from \in Nat /\ a \in Nat
  BY <1>1
<1>3. NextDeadline(s, t, p) = from + q * s.t
  BY <1>1 DEF NextDeadline
<1>4. \A k \in Nat : Moment(s, p, k) = from + k * s.t
  BY DEF Moment
<1>10. \A x \in Int : from + x > t <=> x > a
  BY <1>2
<1> HIDE DEF a
<1>5. q \in Nat /\ q * s.t \in Nat /\ q * s.t > a
  <2>1. ASSUME NEW step \in Nat \ {0}
        PROVE  (a \div step) + 1 \in Nat /\ (a \div step + 1) * step \in Nat
               /\ (a \div step + 1) * step > a
    BY <1>2, DivisionAhead
  <2> QED BY <1>1, <2>1
<1>6. ASSUME NEW k \in Nat, from + k * s.t > t
      PROVE  q * s.t <= k * s.t /\ k * s.t \in Nat
  <2>1. k * s.t \in Nat
    BY <1>1
  <2>2. k * s.t > a
    BY <1>10, <1>6, <2>1
  <2> QED BY <1>1, <1>2, <2>1, <2>2, DivisionFirst
<1> HIDE DEF q, from
<1>7. from + q * s.t > t
  BY <1>10, <1>5
<1>8. ASSUME NEW k \in Nat, Moment(s, p, k) > t
      PROVE  NextDeadline(s, t, p) <= Moment(s, p, k)
  <2>1. q * s.t <= k * s.t /\ k * s.t \in Nat
    BY <1>4, <1>6, <1>8
  <2>2. from + q * s.t <= from + k * s.t
    BY <1>2, <1>5, <2>1
  <2> QED BY <1>3, <1>4, <2>2
<1>9. NextDeadline(s, t, p) = Moment(s, p, q)
  BY <1>3, <1>4, <1>5
<1> QED BY <1>3, <1>5, <1>7, <1>8, <1>9

LEMMA NoJobIsNone == NoJob \notin Job
BY DEF NoJob, Job

-----------------------------------------------------------------------------
(* Changes of rows in place                                                *)

\* A row after an update of it: the same run, and not revived.
SameRun(r, q) ==
  q \in Run /\ q.node = r.node /\ q.at = r.at /\ (IsActive(q) => IsActive(r))

InPlace ==
  /\ runs' \in [Jobs -> Seq(Run)]
  /\ \A j \in Jobs : /\ DOMAIN runs'[j] = DOMAIN runs[j]
                      /\ \A k \in DOMAIN runs[j] : SameRun(runs[j][k], runs'[j][k])

LEMMA Rows ==
  ASSUME TableType, NEW j \in Jobs
  PROVE  /\ runs[j] \in Seq(Run)
         /\ Len(runs[j]) \in Nat /\ DOMAIN runs[j] = 1..Len(runs[j])
         /\ \A k \in DOMAIN runs[j] : runs[j][k] \in Run
<1>1. runs[j] \in Seq(Run)
  BY DEF TableType
<1> QED BY <1>1, LenProperties, ElementOfSeq

\* A sequence rewritten place by place is a sequence.
LEMMA MappedRuns ==
  ASSUME TableType, NEW j \in Jobs, NEW f,
         f = [k \in DOMAIN runs[j] |-> f[k]],
         \A k \in DOMAIN runs[j] : f[k] \in Run
  PROVE  f \in Seq(Run)
<1>1. Len(runs[j]) \in Nat /\ DOMAIN runs[j] = 1..Len(runs[j])
  BY Rows
<1>2. f \in [1..Len(runs[j]) -> Run]
  BY <1>1
<1> QED BY <1>1, <1>2, SeqDef

\* Rows rewritten place by place, each the same run, are rows in place.
LEMMA Rewritten ==
  ASSUME TableType, runs' = [j \in Jobs |-> runs'[j]],
         \A j \in Jobs : runs'[j] = [k \in DOMAIN runs[j] |-> runs'[j][k]],
         \A j \in Jobs : \A k \in DOMAIN runs[j] : SameRun(runs[j][k], runs'[j][k])
  PROVE  InPlace
<1>1. ASSUME NEW j \in Jobs PROVE runs'[j] \in Seq(Run)
  <2>1. \A k \in DOMAIN runs[j] : runs'[j][k] \in Run
    BY DEF SameRun
  <2> QED BY <2>1, MappedRuns
<1>2. \A j \in Jobs : DOMAIN runs'[j] = DOMAIN runs[j]
  OBVIOUS
<1> QED BY <1>1, <1>2 DEF InPlace

\* One row is rewritten (begin_run, finish_run).
Rewrites(id, q) ==
  runs' = [runs EXCEPT ![id[1]] = [runs[id[1]] EXCEPT ![id[2]] = q]]

LEMMA OneRow ==
  ASSUME TableType, NEW id, Exists(id), NEW q, SameRun(RowOf(id), q),
         Rewrites(id, q)
  PROVE  /\ InPlace
         /\ \A j \in Jobs : \A k \in DOMAIN runs[j] :
              runs'[j][k] = IF j = id[1] /\ k = id[2] THEN q ELSE runs[j][k]
<1>1. id[1] \in Jobs /\ id[2] \in DOMAIN runs[id[1]]
  BY DEF Exists, RunIds
<1>2. runs = [j \in Jobs |-> runs[j]]
  BY DEF TableType
<1>3. \A j \in Jobs : runs[j] = [k \in DOMAIN runs[j] |-> runs[j][k]]
  <2> SUFFICES ASSUME NEW j \in Jobs
               PROVE  runs[j] = [k \in DOMAIN runs[j] |-> runs[j][k]]
    OBVIOUS
  <2>1. runs[j] \in Seq(Run)
    BY Rows
  <2> QED BY <2>1, LenProperties
<1>4. \A j \in Jobs : \A k \in DOMAIN runs[j] :
        runs'[j][k] = IF j = id[1] /\ k = id[2] THEN q ELSE runs[j][k]
  BY <1>1, <1>2, <1>3 DEF Rewrites
<1>5. \A j \in Jobs : runs'[j] = [k \in DOMAIN runs[j] |-> runs'[j][k]]
  BY <1>1, <1>2, <1>3 DEF Rewrites
<1>6. \A j \in Jobs : \A k \in DOMAIN runs[j] : SameRun(runs[j][k], runs'[j][k])
  BY <1>4, Rows DEF SameRun, RowOf
<1>7. runs' = [j \in Jobs |-> runs'[j]]
  BY <1>1, <1>2 DEF Rewrites
<1>8. InPlace
  BY <1>5, <1>6, <1>7, Rewritten
<1> QED BY <1>4, <1>8

\* Rewriting rows in place keeps what does not depend on the jobs.
LEMMA InPlaceKeeps ==
  ASSUME TableInv, InPlace, now' = now
  PROVE  OneActiveRun' /\ RunsPast'
<1>1. OneActiveRun'
  BY DEF TableInv, OneActiveRun, InPlace, SameRun, IsActive, Active
<1>2. RunsPast'
  BY DEF TableInv, RunsPast, InPlace, SameRun
<1> QED BY <1>1, <1>2

\* So does it keep what is said of the jobs, when none is changed or made.
LEMMA FewerJobsKeep ==
  ASSUME TableInv, InPlace,
         jobs' \in [Jobs -> Job \cup {NoJob}],
         \A j \in Jobs : jobs'[j] \in {jobs[j], NoJob}
  PROVE  DeadlineAhead' /\ EnabledHasDeadline' /\ RunsOfJob'
<1>1. DeadlineAhead'
  BY DEF TableInv, DeadlineAhead, InPlace, SameRun
<1>2. EnabledHasDeadline'
  BY DEF TableInv, EnabledHasDeadline
<1>3. RunsOfJob'
  BY DEF TableInv, RunsOfJob, InPlace, SameRun
<1> QED BY <1>1, <1>2, <1>3

\* A row that was not begun and not put back in the queue keeps its budget.
LEMMA BeginsKept ==
  ASSUME TableInv, InPlace, up' = up, crashes' = crashes,
         \A j \in Jobs : \A k \in DOMAIN runs[j] :
           /\ runs'[j][k].begins = runs[j][k].begins
           /\ IsPending(runs'[j][k]) => IsPending(runs[j][k])
  PROVE  BeginsLeft'
BY DEF TableInv, BeginsLeft, Budget, InPlace, IsPending

-----------------------------------------------------------------------------
(* Each action keeps the tables in order                                   *)

LEMMA QuietTable ==
  ASSUME TableInv, UNCHANGED <<jobs, runs, now, up, crashes>>
  PROVE  TableInv'
BY DEF TableInv, TableType, OneActiveRun, DeadlineAhead, RunsPast, IsPending,
       IsActive, EnabledHasDeadline, EditsReachPending, RunsOfJob, BeginsLeft,
       Budget

LEMMA TimeIsNat ==
  ASSUME TableInv
  PROVE  /\ now \in Nat /\ crashes \in Nat
         /\ \A j \in Jobs : \A k \in DOMAIN runs[j] :
              /\ runs[j][k] \in Run /\ runs[j][k].at \in Nat
              /\ runs[j][k].at <= now
<1>1. now \in Nat /\ crashes \in Nat
  BY CronBoundsAssumption DEF TableInv, TableType
<1>2. \A j \in Jobs : \A k \in DOMAIN runs[j] : runs[j][k] \in Run
  BY Rows DEF TableInv
<1>3. \A j \in Jobs : \A k \in DOMAIN runs[j] : runs[j][k].at \in Nat
  BY <1>2 DEF Run
<1> QED BY <1>1, <1>2, <1>3 DEF TableInv, RunsPast

LEMMA TickTable ==
  ASSUME TableInv, Tick PROVE TableInv'
<1>1. now' \in 0..MaxTime /\ now' = now + 1 /\ now \in Nat
  BY TimeIsNat, CronBoundsAssumption DEF Tick, TableInv, TableType
<1>2. UNCHANGED <<jobs, runs, up, crashes>>
  BY DEF Tick
<1>3. TableType'
  BY <1>1, <1>2 DEF TableInv, TableType
<1>4. RunsPast'
  BY <1>1, <1>2, TimeIsNat DEF RunsPast
<1>5. OneActiveRun' /\ DeadlineAhead' /\ EnabledHasDeadline' /\ RunsOfJob'
  BY <1>2 DEF TableInv, OneActiveRun, DeadlineAhead, EnabledHasDeadline,
              RunsOfJob, IsActive
<1>6. EditsReachPending' /\ BeginsLeft'
  BY <1>2 DEF TableInv, EditsReachPending, BeginsLeft, Budget, IsPending
<1> QED BY <1>3, <1>4, <1>5, <1>6 DEF TableInv

LEMMA CrashTable ==
  ASSUME TableInv, Crash PROVE TableInv'
<1>1. /\ UNCHANGED <<jobs, runs, now>>
      /\ crashes' = crashes + 1 /\ up' = FALSE
  BY DEF Crash
<1>2. TableType'
  <2>1. crashes' \in Nat
    BY <1>1, TimeIsNat
  <2>2. up' \in BOOLEAN
    BY <1>1
  <2> QED BY <1>1, <2>1, <2>2 DEF TableInv, TableType
<1>3. OneActiveRun' /\ DeadlineAhead' /\ EnabledHasDeadline' /\ RunsOfJob'
      /\ RunsPast' /\ EditsReachPending'
  BY <1>1 DEF TableInv, OneActiveRun, DeadlineAhead, EnabledHasDeadline,
              RunsOfJob, RunsPast, IsActive, EditsReachPending, IsPending
<1>4. BeginsLeft'
  <2> SUFFICES ASSUME NEW j \in Jobs, NEW k \in DOMAIN runs[j]
               PROVE  /\ runs[j][k].begins <= crashes + 1
                      /\ IsPending(runs[j][k]) => runs[j][k].begins < crashes + 1
    BY <1>1 DEF BeginsLeft, Budget, IsPending
  <2>1. runs[j][k].begins \in Nat
    BY TimeIsNat DEF Run
  <2>2. /\ runs[j][k].begins <= Budget
        /\ IsPending(runs[j][k]) => runs[j][k].begins < Budget
    BY DEF TableInv, BeginsLeft
  <2> QED BY <2>1, <2>2, TimeIsNat DEF Budget
<1> QED BY <1>2, <1>3, <1>4 DEF TableInv

\* What recover_interrupted, begin_run and finish_run write into a row.
LEMMA PutBackRow ==
  ASSUME NEW r \in Run, r.status = "running",
         NEW q, q = [r EXCEPT !.status = "pending", !.replayed = TRUE]
  PROVE  SameRun(r, q) /\ q.begins = r.begins /\ q.replayed
<1>1. q \in Run /\ q.node = r.node /\ q.at = r.at /\ q.begins = r.begins
  BY DEF Run, Active
<1>2. q.replayed
  BY DEF Run
<1> QED BY <1>1, <1>2 DEF SameRun, IsActive, Active

Begins(r) == [r EXCEPT !.status = "running", !.begins = @ + 1]

LEMMA BegunRow ==
  ASSUME NEW r \in Run, IsPending(r)
  PROVE  /\ SameRun(r, Begins(r)) /\ Begins(r).begins = r.begins + 1
         /\ Begins(r).status = "running" /\ Begins(r).node = r.node
<1>1. r.begins + 1 \in Nat
  BY DEF Run
<1>2. /\ Begins(r) \in Run /\ Begins(r).node = r.node /\ Begins(r).at = r.at
      /\ Begins(r).begins = r.begins + 1
  BY <1>1 DEF Run, Active, Begins
<1>3. Begins(r).status = "running"
  BY DEF Run, Begins
<1> QED BY <1>2, <1>3 DEF SameRun, IsActive, Active, IsPending

LEMMA StartTable ==
  ASSUME TableInv, Start PROVE TableInv'
<1>1. UNCHANGED <<jobs, now, crashes>> /\ ~up /\ up' = TRUE
  BY DEF Start
<1>2. \A j \in Jobs : \A k \in DOMAIN runs[j] :
        runs'[j][k] = IF runs[j][k].status = "running"
                      THEN [runs[j][k] EXCEPT !.status = "pending", !.replayed = TRUE]
                      ELSE runs[j][k]
  BY DEF Start
<1>3. /\ runs' = [j \in Jobs |-> runs'[j]]
      /\ \A j \in Jobs : runs'[j] = [k \in DOMAIN runs[j] |-> runs'[j][k]]
  BY DEF Start
<1>4. \A j \in Jobs : \A k \in DOMAIN runs[j] :
        /\ SameRun(runs[j][k], runs'[j][k])
        /\ runs'[j][k].begins = runs[j][k].begins
        /\ runs'[j][k] = runs[j][k] \/ runs'[j][k].replayed
  <2> SUFFICES ASSUME NEW j \in Jobs, NEW k \in DOMAIN runs[j]
               PROVE  /\ SameRun(runs[j][k], runs'[j][k])
                      /\ runs'[j][k].begins = runs[j][k].begins
                      /\ runs'[j][k] = runs[j][k] \/ runs'[j][k].replayed
    OBVIOUS
  <2>1. runs[j][k] \in Run
    BY TimeIsNat
  <2>2. CASE runs[j][k].status = "running"
    BY <1>2, <2>1, <2>2, PutBackRow
  <2>3. CASE runs[j][k].status # "running"
    BY <1>2, <2>1, <2>3 DEF SameRun
  <2> QED BY <2>2, <2>3
<1>5. InPlace
  BY <1>3, <1>4, Rewritten DEF TableInv
<1>6. TableType'
  BY <1>1, <1>5 DEF TableInv, TableType, InPlace
<1>7. OneActiveRun' /\ RunsPast' /\ DeadlineAhead' /\ EnabledHasDeadline' /\ RunsOfJob'
  BY <1>1, <1>5, InPlaceKeeps, FewerJobsKeep DEF TableInv, TableType
<1>8. EditsReachPending'
  <2> SUFFICES ASSUME NEW j \in Jobs, NEW k \in DOMAIN runs[j],
                      IsPending(runs'[j][k]), ~runs'[j][k].replayed
               PROVE  IsPending(runs[j][k]) /\ runs'[j][k] = runs[j][k]
    BY <1>1, <1>5 DEF TableInv, EditsReachPending, InPlace, IsPending
  <2> QED BY <1>4
<1>9. BeginsLeft'
  <2> SUFFICES ASSUME NEW j \in Jobs, NEW k \in DOMAIN runs[j]
               PROVE  runs'[j][k].begins < crashes + 1
    <3>1. \A j \in Jobs : \A k \in DOMAIN runs[j] : runs'[j][k].begins \in Nat
      BY <1>4 DEF SameRun, Run
    <3>2. Budget' = crashes + 1
      BY <1>1 DEF Budget
    <3> QED BY <1>5, <3>1, <3>2, TimeIsNat DEF BeginsLeft, InPlace
  <2>1. runs[j][k] \in Run /\ runs[j][k].begins \in Nat
    BY TimeIsNat DEF Run
  <2>2. runs'[j][k].begins = runs[j][k].begins
    BY <1>4
  <2>3. runs[j][k].begins <= crashes
    BY <1>1 DEF TableInv, BeginsLeft, Budget
  <2> QED BY <2>1, <2>2, <2>3, TimeIsNat
<1> QED BY <1>6, <1>7, <1>8, <1>9 DEF TableInv

\* begin_run rewrites the row of its run, which was waiting at this node.
LEMMA BeginRows ==
  ASSUME TableInv, NEW n \in Nodes, Begin(n)
  PROVE  LET id == Id(n) IN
         /\ Exists(id) /\ id[1] \in Jobs /\ id[2] \in DOMAIN runs[id[1]]
         /\ IsPending(RowOf(id)) /\ RowOf(id).node = n
         /\ InPlace
         /\ \A j \in Jobs : \A k \in DOMAIN runs[j] :
              runs'[j][k] = IF j = id[1] /\ k = id[2] THEN Begins(RowOf(id))
                                                      ELSE runs[j][k]
<1> DEFINE id == Id(n)
           r  == RowOf(id)
<1>1. Exists(id) /\ IsPending(r) /\ r.node = n
  BY DEF Begin, Beginnable
<1>2. id[1] \in Jobs /\ id[2] \in DOMAIN runs[id[1]]
  BY <1>1 DEF Exists, RunIds
<1>3. r \in Run
  BY <1>2, TimeIsNat DEF RowOf
<1>4. SameRun(r, Begins(r))
  BY <1>1, <1>3, BegunRow
<1>5. Rewrites(id, Begins(r))
  <2>1. runs' = [runs EXCEPT ![id[1]][id[2]].status = "running",
                             ![id[1]][id[2]].begins = @ + 1]
    BY DEF Begin
  <2>2. runs = [j \in Jobs |-> runs[j]]
    BY DEF TableInv, TableType
  <2>3. runs[id[1]] = [k \in DOMAIN runs[id[1]] |-> runs[id[1]][k]]
    <3>1. runs[id[1]] \in Seq(Run)
      BY <1>2, Rows DEF TableInv
    <3> QED BY <3>1, LenProperties
  <2> QED BY <1>2, <1>3, <2>1, <2>2, <2>3 DEF Rewrites, RowOf, Run, Begins
<1> HIDE DEF id
<1>6. /\ InPlace
      /\ \A j \in Jobs : \A k \in DOMAIN runs[j] :
           runs'[j][k] = IF j = id[1] /\ k = id[2] THEN Begins(r) ELSE runs[j][k]
  BY <1>1, <1>4, <1>5, OneRow DEF TableInv
<1> QED BY <1>1, <1>2, <1>6 DEF id

LEMMA BeginTable ==
  ASSUME TableInv, NEW n \in Nodes, Begin(n) PROVE TableInv'
<1> DEFINE id == Id(n)
           r  == RowOf(id)
           q  == Begins(r)
<1>1. UNCHANGED <<jobs, now, up, crashes>>
  BY DEF Begin
<1>2. /\ id[1] \in Jobs /\ id[2] \in DOMAIN runs[id[1]] /\ IsPending(r)
      /\ InPlace
      /\ \A j \in Jobs : \A k \in DOMAIN runs[j] :
           runs'[j][k] = IF j = id[1] /\ k = id[2] THEN q ELSE runs[j][k]
  BY BeginRows
<1>3. r \in Run
  BY <1>2, TimeIsNat DEF RowOf
<1>4. q.begins = r.begins + 1 /\ ~IsPending(q)
  BY <1>2, <1>3, BegunRow DEF IsPending
<1>5. r.begins < Budget
  BY <1>2 DEF TableInv, BeginsLeft, RowOf
<1> HIDE DEF id, r, q
<1>6. TableType'
  BY <1>1, <1>2 DEF TableInv, TableType, InPlace
<1>7. OneActiveRun' /\ RunsPast' /\ DeadlineAhead' /\ EnabledHasDeadline' /\ RunsOfJob'
  BY <1>1, <1>2, InPlaceKeeps, FewerJobsKeep DEF TableInv, TableType
<1>8. EditsReachPending'
  BY <1>1, <1>2, <1>4 DEF TableInv, EditsReachPending, InPlace, IsPending
<1>9. BeginsLeft'
  <2> SUFFICES ASSUME NEW j \in Jobs, NEW k \in DOMAIN runs[j]
               PROVE  /\ runs'[j][k].begins <= Budget
                      /\ IsPending(runs'[j][k]) => runs'[j][k].begins < Budget
    BY <1>1, <1>2 DEF BeginsLeft, Budget, InPlace, IsPending
  <2>1. CASE j = id[1] /\ k = id[2]
    <3>1. r.begins \in Nat /\ Budget \in Nat
      BY <1>3, TimeIsNat DEF Run, Budget
    <3> QED BY <1>2, <1>4, <1>5, <2>1, <3>1
  <2>2. CASE ~(j = id[1] /\ k = id[2])
    BY <1>2, <2>2 DEF TableInv, BeginsLeft
  <2> QED BY <2>1, <2>2
<1> QED BY <1>6, <1>7, <1>8, <1>9 DEF TableInv

LEMMA FinishTable ==
  ASSUME TableInv, NEW n \in Nodes, Finish(n), Exists(Id(n)) PROVE TableInv'
<1> DEFINE id == Id(n)
           r  == RowOf(id)
           q  == [r EXCEPT !.status = IF @ = "running" THEN Verdict(n) ELSE @]
<1>1. UNCHANGED <<jobs, now, up, crashes>> /\ Exists(id)
  BY DEF Finish
<1>2. id[1] \in Jobs /\ id[2] \in DOMAIN runs[id[1]]
  BY <1>1 DEF Exists, RunIds
<1>3. r \in Run
  BY <1>2, TimeIsNat DEF RowOf
<1>4. SameRun(r, q) /\ q.begins = r.begins /\ (IsPending(q) => q = r)
  BY <1>3 DEF SameRun, Run, IsActive, IsPending, Active, Terminal, Verdict
<1>5. Rewrites(id, q)
  <2>1. runs' = [runs EXCEPT ![id[1]][id[2]].status =
                   IF @ = "running" THEN Verdict(n) ELSE @]
    BY DEF Finish
  <2> QED BY <1>2, <2>1 DEF Rewrites, RowOf
<1> HIDE DEF id, r, q
<1>6. /\ InPlace
      /\ \A j \in Jobs : \A k \in DOMAIN runs[j] :
           runs'[j][k] = IF j = id[1] /\ k = id[2] THEN q ELSE runs[j][k]
  <2>1. SameRun(RowOf(id), q) /\ TableType
    BY <1>4 DEF r, TableInv
  <2> QED BY <1>1, <1>5, <2>1, OneRow
<1>7. TableType'
  BY <1>1, <1>6 DEF TableInv, TableType, InPlace
<1>8. OneActiveRun' /\ RunsPast' /\ DeadlineAhead' /\ EnabledHasDeadline' /\ RunsOfJob'
  BY <1>1, <1>6, InPlaceKeeps, FewerJobsKeep DEF TableInv, TableType
<1>9. \A j \in Jobs : \A k \in DOMAIN runs[j] :
         /\ runs'[j][k].begins = runs[j][k].begins
         /\ IsPending(runs'[j][k]) => runs'[j][k] = runs[j][k]
  BY <1>4, <1>6 DEF r, RowOf
<1>10. EditsReachPending'
  BY <1>1, <1>6, <1>9 DEF TableInv, EditsReachPending, InPlace
<1>11. BeginsLeft'
  BY <1>1, <1>6, <1>9, BeginsKept
<1> QED BY <1>7, <1>8, <1>10, <1>11 DEF TableInv

\* What CancelPending, EditPending and the departure write into a row.
LEMMA CancelledRow ==
  ASSUME NEW r \in Run
  PROVE  /\ SameRun(r, Cancelled(r)) /\ Cancelled(r).begins = r.begins
         /\ Cancelled(r).status = "cancelled"
<1>1. Cancelled(r) \in Run /\ Cancelled(r).status = "cancelled"
  BY DEF Cancelled, Run, Terminal
<1>2. /\ Cancelled(r).node = r.node /\ Cancelled(r).at = r.at
      /\ Cancelled(r).begins = r.begins
  BY DEF Cancelled, Run
<1> QED BY <1>1, <1>2 DEF SameRun, IsActive, Active

LEMMA EditedRow ==
  ASSUME NEW r \in Run, NEW c \in Nat,
         NEW q, q = [r EXCEPT !.content = c]
  PROVE  /\ SameRun(r, q) /\ q.begins = r.begins /\ q.status = r.status
         /\ q.content = c /\ q.replayed = r.replayed
<1>1. q \in Run /\ q.node = r.node /\ q.at = r.at /\ q.status = r.status
  BY DEF Run
<1>2. q.content = c /\ q.begins = r.begins
  BY DEF Run
<1>3. q.replayed = r.replayed
  BY DEF Run
<1> QED BY <1>1, <1>2, <1>3 DEF SameRun, IsActive

\* The rows of one job, of which the pending ones are cancelled or edited.
RewritesJob(j, f) ==
  f = [k \in DOMAIN runs[j] |-> f[k]] /\ runs' = [runs EXCEPT ![j] = f]

LEMMA OneJobsRows ==
  ASSUME TableInv, NEW j \in Jobs, NEW f, RewritesJob(j, f),
         \A k \in DOMAIN runs[j] : SameRun(runs[j][k], f[k])
  PROVE  /\ InPlace /\ runs'[j] = f
         /\ \A i \in Jobs : i # j => runs'[i] = runs[i]
<1>1. runs = [i \in Jobs |-> runs[i]]
  BY DEF TableInv, TableType
<1>2. \A i \in Jobs : runs'[i] = IF i = j THEN f ELSE runs[i]
  BY <1>1 DEF RewritesJob
<1>3. \A i \in Jobs : runs'[i] = [k \in DOMAIN runs[i] |-> runs'[i][k]]
  <2> SUFFICES ASSUME NEW i \in Jobs
               PROVE  runs'[i] = [k \in DOMAIN runs[i] |-> runs'[i][k]]
    OBVIOUS
  <2>1. CASE i = j
    BY <1>2, <2>1 DEF RewritesJob
  <2>2. CASE i # j
    <3>1. runs[i] \in Seq(Run)
      BY Rows DEF TableInv
    <3> QED BY <1>2, <2>2, <3>1, LenProperties
  <2> QED BY <2>1, <2>2
<1>4. \A i \in Jobs : \A k \in DOMAIN runs[i] : SameRun(runs[i][k], runs'[i][k])
  BY <1>2, TimeIsNat DEF SameRun
<1>5. runs' = [i \in Jobs |-> runs'[i]]
  BY <1>1 DEF RewritesJob
<1>6. InPlace
  BY <1>3, <1>4, <1>5, Rewritten DEF TableInv
<1> QED BY <1>2, <1>6

LEMMA CancelPendingRows ==
  ASSUME TableInv, NEW j \in Jobs, runs' = [runs EXCEPT ![j] = CancelPending(j)]
  PROVE  /\ InPlace
         /\ \A i \in Jobs : i # j => runs'[i] = runs[i]
         /\ \A k \in DOMAIN runs[j] : ~IsPending(runs'[j][k])
         /\ \A i \in Jobs : \A k \in DOMAIN runs[i] :
              runs'[i][k].begins = runs[i][k].begins
<1> DEFINE f == CancelPending(j)
<1>1. f = [k \in DOMAIN runs[j] |-> f[k]]
  BY DEF CancelPending
<1>2. ASSUME NEW k \in DOMAIN runs[j]
      PROVE  /\ SameRun(runs[j][k], f[k]) /\ f[k].begins = runs[j][k].begins
             /\ ~IsPending(f[k])
  <2>1. runs[j][k] \in Run
    BY TimeIsNat
  <2>2. f[k] = IF IsPending(runs[j][k]) THEN Cancelled(runs[j][k]) ELSE runs[j][k]
    BY DEF CancelPending
  <2> HIDE DEF f
  <2>3. CASE IsPending(runs[j][k])
    BY <2>1, <2>2, <2>3, CancelledRow DEF IsPending
  <2>4. CASE ~IsPending(runs[j][k])
    BY <2>1, <2>2, <2>4 DEF SameRun
  <2> QED BY <2>3, <2>4
<1>3. RewritesJob(j, f)
  BY <1>1 DEF RewritesJob
<1> HIDE DEF f
<1>4. /\ InPlace /\ runs'[j] = f
      /\ \A i \in Jobs : i # j => runs'[i] = runs[i]
  BY <1>2, <1>3, OneJobsRows
<1> QED BY <1>2, <1>4

LEMMA EditPendingRows ==
  ASSUME TableInv, NEW j \in Jobs, NEW c \in Nat,
         runs' = [runs EXCEPT ![j] = EditPending(j, c)]
  PROVE  /\ InPlace
         /\ \A i \in Jobs : i # j => runs'[i] = runs[i]
         /\ \A k \in DOMAIN runs[j] : IsPending(runs'[j][k]) =>
              /\ IsPending(runs[j][k]) /\ runs'[j][k].content = c
              /\ runs'[j][k].replayed = runs[j][k].replayed
         /\ \A i \in Jobs : \A k \in DOMAIN runs[i] :
              runs'[i][k].begins = runs[i][k].begins
<1> DEFINE f == EditPending(j, c)
<1>1. f = [k \in DOMAIN runs[j] |-> f[k]]
  BY DEF EditPending
<1>2. ASSUME NEW k \in DOMAIN runs[j]
      PROVE  /\ SameRun(runs[j][k], f[k]) /\ f[k].begins = runs[j][k].begins
             /\ IsPending(f[k]) =>
                  /\ IsPending(runs[j][k]) /\ f[k].content = c
                  /\ f[k].replayed = runs[j][k].replayed
  <2>1. runs[j][k] \in Run
    BY TimeIsNat
  <2>2. f[k] = IF IsPending(runs[j][k]) THEN [runs[j][k] EXCEPT !.content = c]
                                        ELSE runs[j][k]
    BY DEF EditPending
  <2> HIDE DEF f
  <2>3. CASE IsPending(runs[j][k])
    BY <2>1, <2>2, <2>3, EditedRow
  <2>4. CASE ~IsPending(runs[j][k])
    BY <2>1, <2>2, <2>4 DEF SameRun
  <2> QED BY <2>3, <2>4
<1>3. RewritesJob(j, f)
  BY <1>1 DEF RewritesJob
<1> HIDE DEF f
<1>4. /\ InPlace /\ runs'[j] = f
      /\ \A i \in Jobs : i # j => runs'[i] = runs[i]
  BY <1>2, <1>3, OneJobsRows
<1> QED BY <1>2, <1>4

LEMMA DeleteTable ==
  ASSUME TableInv, NEW j \in Jobs, Delete(j) PROVE TableInv'
<1>1. /\ UNCHANGED <<now, up, crashes>>
      /\ runs' = [runs EXCEPT ![j] = CancelPending(j)]
      /\ jobs' = [jobs EXCEPT ![j] = NoJob]
  BY DEF Delete
<1>2. /\ InPlace
      /\ \A i \in Jobs : i # j => runs'[i] = runs[i]
      /\ \A k \in DOMAIN runs[j] : ~IsPending(runs'[j][k])
      /\ \A i \in Jobs : \A k \in DOMAIN runs[i] :
           runs'[i][k].begins = runs[i][k].begins
  BY <1>1, CancelPendingRows
<1>3. /\ jobs' \in [Jobs -> Job \cup {NoJob}]
      /\ \A i \in Jobs : jobs'[i] = IF i = j THEN NoJob ELSE jobs[i]
  BY <1>1 DEF TableInv, TableType
<1>4. TableType'
  BY <1>1, <1>2, <1>3 DEF TableInv, TableType, InPlace
<1>5. OneActiveRun' /\ RunsPast' /\ DeadlineAhead' /\ EnabledHasDeadline' /\ RunsOfJob'
  BY <1>1, <1>2, <1>3, InPlaceKeeps, FewerJobsKeep
<1>6. EditsReachPending'
  BY <1>2, <1>3 DEF TableInv, EditsReachPending, InPlace
<1>7. BeginsLeft'
  BY <1>1, <1>2, BeginsKept
<1> QED BY <1>4, <1>5, <1>6, <1>7 DEF TableInv

LEMMA DepartTable ==
  ASSUME TableInv, NEW n \in Nodes, Depart(n) PROVE TableInv'
<1>1. /\ UNCHANGED <<now, up, crashes>>
      /\ \A j \in Jobs : jobs'[j] = IF jobs[j] # NoJob /\ jobs[j].node = n
                                    THEN NoJob ELSE jobs[j]
      /\ runs' = [j \in Jobs |-> runs'[j]]
      /\ \A j \in Jobs : runs'[j] = [k \in DOMAIN runs[j] |-> runs'[j][k]]
  BY DEF Depart
<1>2. \A j \in Jobs : \A k \in DOMAIN runs[j] :
        runs'[j][k] = IF runs[j][k].node = n /\ IsActive(runs[j][k])
                      THEN Cancelled(runs[j][k]) ELSE runs[j][k]
  BY DEF Depart
<1>3. jobs' \in [Jobs -> Job \cup {NoJob}]
  BY DEF Depart, TableInv, TableType
<1>4. ASSUME NEW j \in Jobs, NEW k \in DOMAIN runs[j]
      PROVE  /\ SameRun(runs[j][k], runs'[j][k])
             /\ runs'[j][k].begins = runs[j][k].begins
             /\ IsPending(runs'[j][k]) => /\ runs'[j][k] = runs[j][k]
                                          /\ runs[j][k].node # n
  <2>1. runs[j][k] \in Run
    BY TimeIsNat
  <2>2. CASE runs[j][k].node = n /\ IsActive(runs[j][k])
    BY <1>2, <2>1, <2>2, CancelledRow DEF IsPending
  <2>3. CASE ~(runs[j][k].node = n /\ IsActive(runs[j][k]))
    BY <1>2, <2>1, <2>3 DEF SameRun, IsPending, IsActive, Active
  <2> QED BY <2>2, <2>3
<1>5. InPlace
  BY <1>1, <1>4, Rewritten DEF TableInv
<1>6. TableType'
  BY <1>1, <1>3, <1>5 DEF TableInv, TableType, InPlace
<1>7. OneActiveRun' /\ RunsPast' /\ DeadlineAhead' /\ EnabledHasDeadline' /\ RunsOfJob'
  BY <1>1, <1>3, <1>5, InPlaceKeeps, FewerJobsKeep
<1>8. EditsReachPending'
  <2> SUFFICES ASSUME NEW j \in Jobs, NEW k \in DOMAIN runs[j],
                      IsPending(runs'[j][k]), ~runs'[j][k].replayed
               PROVE  /\ jobs'[j] # NoJob
                      /\ runs'[j][k].content = jobs'[j].content
                      /\ jobs'[j].enabled \/ jobs'[j].next = NoTime
    BY <1>5 DEF EditsReachPending, InPlace
  <2>1. runs'[j][k] = runs[j][k] /\ runs[j][k].node # n
    BY <1>4
  <2>2. /\ jobs[j] # NoJob
        /\ runs[j][k].content = jobs[j].content
        /\ jobs[j].enabled \/ jobs[j].next = NoTime
    BY <2>1 DEF TableInv, EditsReachPending
  <2>3. jobs[j].node # n
    BY <2>1, <2>2 DEF TableInv, RunsOfJob
  <2> QED BY <1>1, <2>1, <2>2, <2>3
<1>9. BeginsLeft'
  BY <1>1, <1>4, <1>5, BeginsKept
<1> QED BY <1>6, <1>7, <1>8, <1>9 DEF TableInv

LEMMA CreateTable ==
  ASSUME TableInv, NEW j \in Jobs, NEW n \in Nodes, NEW s \in Schedules,
         Create(j, n, s)
  PROVE  TableInv'
<1> DEFINE new == NewJob(n, s, now)
<1>1. /\ UNCHANGED <<runs, now, up, crashes>>
      /\ runs[j] = << >>
      /\ NextDeadline(s, now, NoTime) > now
      /\ jobs' = [jobs EXCEPT ![j] = new]
  BY DEF Create
<1>2. s \in ScheduleType /\ NextDeadline(s, now, NoTime) \in Nat
  BY SchedulesAssumption, TimeIsNat, NextDeadlineAhead
<1>3. new \in Job /\ new.next \in Nat
  BY <1>2 DEF NewJob, Job
<1> HIDE DEF new
<1>4. /\ jobs' \in [Jobs -> Job \cup {NoJob}]
      /\ \A i \in Jobs : jobs'[i] = IF i = j THEN new ELSE jobs[i]
  BY <1>1, <1>3 DEF TableInv, TableType
<1>5. DOMAIN runs[j] = {}
  BY <1>1
<1>6. TableType'
  BY <1>1, <1>4 DEF TableInv, TableType
<1>7. OneActiveRun' /\ RunsPast' /\ BeginsLeft'
  BY <1>1 DEF TableInv, OneActiveRun, RunsPast, BeginsLeft, Budget, IsActive, IsPending
<1>8. DeadlineAhead' /\ RunsOfJob' /\ EditsReachPending'
  BY <1>1, <1>4, <1>5 DEF TableInv, DeadlineAhead, RunsOfJob, EditsReachPending, IsPending
<1>9. EnabledHasDeadline'
  BY <1>3, <1>4 DEF TableInv, EnabledHasDeadline
<1> QED BY <1>6, <1>7, <1>8, <1>9 DEF TableInv

\* What update writes into the row of the job.
LEMMA UpdatedJob ==
  ASSUME TableInv, NEW row \in Job, NEW s \in Schedules \cup {Keep},
         NEW en \in {"keep", "on", "off"}, NEW new, new = Updated(row, s, en),
         row.enabled => row.next \in Nat,
         Acceptable(row, s, en, new)
  PROVE  /\ new \in Job /\ new.node = row.node /\ new.content \in Nat
         /\ new.enabled => new.next \in Nat
         /\ new.enabled => new.next > now \/ (row.enabled /\ new.next = row.next)
         /\ s = Keep /\ en # "off" =>
              new.enabled \/ (~row.enabled /\ new.next = row.next)
<1> DEFINE sched   == IF s = Keep THEN row.sched ELSE s
           enabled == IF en = "keep" THEN row.enabled ELSE en = "on"
           redo    == s # Keep \/ (en = "on" /\ ~row.enabled)
           next    == IF redo THEN NextDeadline(sched, now, NoTime) ELSE row.next
<1>1. sched \in ScheduleType
  BY SchedulesAssumption DEF Job
<1>2. NextDeadline(sched, now, NoTime) \in Nat
  BY <1>1, TimeIsNat, NextDeadlineAhead
<1>3. next \in Nat \cup {NoTime}
  BY <1>2 DEF Job
<1>4. enabled \in BOOLEAN
  BY DEF Job
<1>5. row.content + 1 \in Nat
  BY DEF Job
<1>6. new = [row EXCEPT !.sched = sched, !.enabled = enabled, !.next = next,
                        !.content = row.content + 1]
  BY DEF Updated, Job
<1>7. redo /\ new.enabled => new.next > now
  BY DEF Acceptable
<1>8. ~redo => next = row.next
  OBVIOUS
<1>9. ~redo /\ enabled => row.enabled
  OBVIOUS
<1>10. redo => next \in Nat
  BY <1>2
<1>11. s = Keep /\ en # "off" => enabled \/ (~row.enabled /\ next = row.next)
  OBVIOUS
<1> HIDE DEF sched, enabled, redo, next
<1>12. new \in Job /\ new.node = row.node /\ new.content \in Nat /\ new.next = next
  BY <1>1, <1>3, <1>4, <1>5, <1>6 DEF Job
<1>13. new.enabled = enabled
  BY <1>6 DEF Job
<1> QED BY <1>7, <1>8, <1>9, <1>10, <1>11, <1>12, <1>13

LEMMA UpdateTable ==
  ASSUME TableInv, NEW j \in Jobs, NEW s \in Schedules \cup {Keep},
         NEW en \in {"keep", "on", "off"}, Update(j, s, en)
  PROVE  TableInv'
<1> DEFINE new == Updated(jobs[j], s, en)
<1>1. /\ UNCHANGED <<now, up, crashes>> /\ jobs[j] # NoJob
      /\ Acceptable(jobs[j], s, en, new)
      /\ jobs' = [jobs EXCEPT ![j] = new]
      /\ runs' = [runs EXCEPT ![j] = IF s # Keep \/ en = "off"
                                     THEN CancelPending(j)
                                     ELSE EditPending(j, new.content)]
  BY DEF Update
<1>2. jobs[j] \in Job /\ (jobs[j].enabled => jobs[j].next \in Nat)
  BY <1>1 DEF TableInv, TableType, EnabledHasDeadline
<1> HIDE DEF new
<1>3. /\ new \in Job /\ new.node = jobs[j].node /\ new.content \in Nat
      /\ new.enabled => new.next \in Nat
      /\ new.enabled => new.next > now \/ (jobs[j].enabled /\ new.next = jobs[j].next)
      /\ s = Keep /\ en # "off" =>
           new.enabled \/ (~jobs[j].enabled /\ new.next = jobs[j].next)
  BY <1>1, <1>2, UpdatedJob DEF new
<1>4. /\ jobs' \in [Jobs -> Job \cup {NoJob}]
      /\ \A i \in Jobs : jobs'[i] = IF i = j THEN new ELSE jobs[i]
  BY <1>1, <1>3 DEF TableInv, TableType
<1>5. /\ InPlace
      /\ \A i \in Jobs : i # j => runs'[i] = runs[i]
      /\ \A k \in DOMAIN runs[j] : IsPending(runs'[j][k]) =>
           /\ s = Keep /\ en # "off"
           /\ IsPending(runs[j][k]) /\ runs'[j][k].content = new.content
           /\ runs'[j][k].replayed = runs[j][k].replayed
      /\ \A i \in Jobs : \A k \in DOMAIN runs[i] :
           runs'[i][k].begins = runs[i][k].begins
  <2>1. CASE s # Keep \/ en = "off"
    BY <1>1, <2>1, CancelPendingRows
  <2>2. CASE ~(s # Keep \/ en = "off")
    BY <1>1, <1>3, <2>2, EditPendingRows
  <2> QED BY <2>1, <2>2
<1>6. TableType'
  BY <1>1, <1>4, <1>5 DEF TableInv, TableType, InPlace
<1>7. OneActiveRun' /\ RunsPast'
  BY <1>1, <1>5, InPlaceKeeps
<1>8. BeginsLeft'
  BY <1>1, <1>5, BeginsKept
<1>9. EnabledHasDeadline' /\ RunsOfJob'
  BY <1>1, <1>3, <1>4, <1>5 DEF TableInv, EnabledHasDeadline, RunsOfJob, InPlace, SameRun
<1>10. DeadlineAhead'
  <2> SUFFICES ASSUME NEW i \in Jobs, jobs'[i] # NoJob, jobs'[i].enabled,
                      NEW k \in DOMAIN runs[i]
               PROVE  runs[i][k].at < jobs'[i].next
    BY <1>5 DEF DeadlineAhead, InPlace, SameRun
  <2>1. jobs[i] # NoJob /\ jobs[i].enabled => runs[i][k].at < jobs[i].next
    BY DEF TableInv, DeadlineAhead
  <2>2. now \in Nat /\ runs[i][k].at \in Nat /\ runs[i][k].at <= now
    BY TimeIsNat
  <2> QED BY <1>1, <1>3, <1>4, <2>1, <2>2
<1>11. EditsReachPending'
  <2> SUFFICES ASSUME NEW i \in Jobs, NEW k \in DOMAIN runs[i],
                      IsPending(runs'[i][k]), ~runs'[i][k].replayed
               PROVE  /\ jobs'[i] # NoJob
                      /\ runs'[i][k].content = jobs'[i].content
                      /\ jobs'[i].enabled \/ jobs'[i].next = NoTime
    BY <1>5 DEF EditsReachPending, InPlace
  <2>1. CASE i = j
    <3>1. /\ s = Keep /\ en # "off"
          /\ IsPending(runs[j][k]) /\ runs'[j][k].content = new.content
          /\ ~runs[j][k].replayed
      BY <1>5, <2>1
    <3>2. jobs[j].enabled \/ jobs[j].next = NoTime
      BY <3>1, <2>1 DEF TableInv, EditsReachPending
    <3>3. new # NoJob
      BY <1>3, NoJobIsNone
    <3> QED BY <1>3, <1>4, <2>1, <3>1, <3>2, <3>3
  <2>2. CASE i # j
    BY <1>4, <1>5, <2>2 DEF TableInv, EditsReachPending
  <2> QED BY <2>1, <2>2
<1> QED BY <1>6, <1>7, <1>8, <1>9, <1>10, <1>11 DEF TableInv

\* The row that materialize_due writes back for a due job.
Advance(j) ==
  LET nx == NextDeadline(jobs[j].sched, now, jobs[j].next)
  IN  [jobs[j] EXCEPT !.next = nx, !.enabled = nx # NoTime]

LEMMA Advanced ==
  ASSUME TableInv, NEW j \in Jobs, Due(j), NEW new, new = Advance(j)
  PROVE  /\ jobs[j] \in Job /\ jobs[j].next \in Nat /\ jobs[j].next <= now
         /\ new \in Job /\ new.node = jobs[j].node /\ new.content = jobs[j].content
         /\ new.enabled => new.next \in Nat /\ new.next > now
         /\ new.enabled \/ new.next = NoTime
<1> DEFINE nx == NextDeadline(jobs[j].sched, now, jobs[j].next)
<1>1. /\ jobs[j] \in Job /\ jobs[j].next \in Nat /\ jobs[j].next <= now
      /\ jobs[j].sched \in ScheduleType
  BY DEF Due, TableInv, TableType, EnabledHasDeadline, Job
<1>2. nx \in Nat \cup {NoTime} /\ (nx = NoTime \/ nx > now)
  BY <1>1, TimeIsNat, NextDeadlineAhead DEF NoTime
<1>3. (nx # NoTime) \in BOOLEAN /\ new = [jobs[j] EXCEPT !.next = nx, !.enabled = nx # NoTime]
  BY DEF Advance
<1> HIDE DEF nx
<1>4. /\ new \in Job /\ new.node = jobs[j].node /\ new.content = jobs[j].content
      /\ new.next = nx
  BY <1>1, <1>2, <1>3 DEF Job
<1>5. new.enabled = (nx # NoTime)
  BY <1>1, <1>3 DEF Job
<1> QED BY <1>1, <1>2, <1>4, <1>5

LEMMA MaterializeTable ==
  ASSUME TableInv, PollMaterialize PROVE TableInv'
<1> DEFINE due(j) == Due(j) /\ ~Deferred(j)
           made(j) == due(j) /\ ~HasActive(j)
<1>1. UNCHANGED <<now, up, crashes>> /\ up
  BY DEF PollMaterialize
<1>2. /\ runs' = [j \in Jobs |-> runs'[j]]
      /\ \A j \in Jobs : runs'[j] = IF made(j) THEN Append(runs[j], NewRun(j))
                                               ELSE runs[j]
  BY DEF PollMaterialize
<1>3. /\ jobs' = [j \in Jobs |-> jobs'[j]]
      /\ \A j \in Jobs : ~due(j) => jobs'[j] = jobs[j]
  BY DEF PollMaterialize
<1>4. ASSUME NEW j \in Jobs, due(j)
      PROVE  /\ jobs[j] \in Job /\ jobs[j].next \in Nat /\ jobs[j].next <= now
             /\ jobs'[j] \in Job /\ jobs'[j].node = jobs[j].node
             /\ jobs'[j].content = jobs[j].content
             /\ jobs'[j].enabled => jobs'[j].next \in Nat /\ jobs'[j].next > now
             /\ jobs'[j].enabled \/ jobs'[j].next = NoTime
  <2>1. jobs'[j] = Advance(j)
    BY <1>4 DEF PollMaterialize, Advance
  <2>2. Due(j)
    BY <1>4
  <2> QED BY <2>1, <2>2, Advanced
<1>5. ASSUME NEW j \in Jobs, made(j)
      PROVE  /\ NewRun(j) \in Run /\ NewRun(j).node = jobs[j].node
             /\ NewRun(j).at <= now /\ NewRun(j).content = jobs[j].content
             /\ NewRun(j).begins = 0
             /\ Len(runs[j]) \in Nat /\ DOMAIN runs[j] = 1..Len(runs[j])
             /\ runs'[j] \in Seq(Run) /\ DOMAIN runs'[j] = 1..(Len(runs[j]) + 1)
             /\ \A k \in DOMAIN runs[j] : runs'[j][k] = runs[j][k]
             /\ runs'[j][Len(runs[j]) + 1] = NewRun(j)
             /\ \A k \in DOMAIN runs[j] : ~IsActive(runs[j][k])
  <2>1. /\ NewRun(j) \in Run /\ NewRun(j).node = jobs[j].node
        /\ NewRun(j).at <= now /\ NewRun(j).content = jobs[j].content
        /\ NewRun(j).begins = 0
    BY <1>4, <1>5 DEF NewRun, Run, Job, Active
  <2>2. runs[j] \in Seq(Run) /\ Len(runs[j]) \in Nat /\ DOMAIN runs[j] = 1..Len(runs[j])
    BY Rows DEF TableInv
  <2>3. runs'[j] = Append(runs[j], NewRun(j))
    BY <1>2, <1>5
  <2>4. \A k \in DOMAIN runs[j] : ~IsActive(runs[j][k])
    BY <1>5 DEF HasActive
  <2> QED BY <2>1, <2>2, <2>3, <2>4, AppendProperties
<1>6. \A j \in Jobs : ~made(j) => runs'[j] = runs[j]
  BY <1>2
<1> HIDE DEF due, made
<1>7. \A j \in Jobs : made(j) => due(j)
  BY DEF made
<1>8. \A j \in Jobs : due(j) => Due(j)
  BY DEF due
<1>9. TableType'
  <2>1. \A j \in Jobs : jobs'[j] \in Job \cup {NoJob}
    BY <1>3, <1>4 DEF TableInv, TableType
  <2>2. \A j \in Jobs : runs'[j] \in Seq(Run)
    BY <1>5, <1>6 DEF TableInv, TableType
  <2>3. jobs' \in [Jobs -> Job \cup {NoJob}]
    BY <1>3, <2>1
  <2>4. runs' \in [Jobs -> Seq(Run)]
    BY <1>2, <2>2
  <2> QED BY <1>1, <2>3, <2>4 DEF TableInv, TableType
<1>10. ASSUME NEW j \in Jobs, NEW k \in DOMAIN runs'[j]
       PROVE  \/ k \in DOMAIN runs[j] /\ runs'[j][k] = runs[j][k]
              \/ made(j) /\ k = Len(runs[j]) + 1 /\ runs'[j][k] = NewRun(j)
  <2>1. CASE made(j)
    BY <1>5, <2>1
  <2>2. CASE ~made(j)
    BY <1>6, <2>2
  <2> QED BY <2>1, <2>2
<1>11. OneActiveRun'
  <2> SUFFICES ASSUME NEW j \in Jobs, NEW k \in DOMAIN runs'[j],
                      NEW l \in DOMAIN runs'[j], IsActive(runs'[j][k]),
                      IsActive(runs'[j][l])
               PROVE  k = l
    BY DEF OneActiveRun, IsActive
  <2>1. CASE made(j)
    BY <1>5, <1>10, <2>1
  <2>2. CASE ~made(j)
    BY <1>6, <2>2 DEF TableInv, OneActiveRun
  <2> QED BY <2>1, <2>2
<1>12. RunsPast'
  BY <1>1, <1>5, <1>10 DEF TableInv, RunsPast
<1>13. DeadlineAhead'
  <2> SUFFICES ASSUME NEW j \in Jobs, jobs'[j] # NoJob, jobs'[j].enabled,
                      NEW k \in DOMAIN runs'[j]
               PROVE  runs'[j][k].at < jobs'[j].next
    BY DEF DeadlineAhead
  <2>1. CASE due(j)
    <3>1. runs'[j][k].at <= now /\ runs'[j][k] \in Run
      BY <1>1, <1>5, <1>10, <1>12, TimeIsNat DEF RunsPast
    <3>2. runs'[j][k].at \in Nat
      BY <3>1 DEF Run
    <3> QED BY <1>4, <2>1, <3>1, <3>2, TimeIsNat
  <2>2. CASE ~due(j)
    BY <1>3, <1>6, <1>7, <2>2 DEF TableInv, DeadlineAhead
  <2> QED BY <2>1, <2>2
<1>14. EnabledHasDeadline'
  BY <1>3, <1>4 DEF TableInv, EnabledHasDeadline
<1>15. RunsOfJob'
  <2> SUFFICES ASSUME NEW j \in Jobs, jobs'[j] # NoJob, NEW k \in DOMAIN runs'[j]
               PROVE  runs'[j][k].node = jobs'[j].node
    BY DEF RunsOfJob
  <2>1. jobs'[j].node = jobs[j].node /\ jobs[j] # NoJob
    BY <1>3, <1>4, NoJobIsNone
  <2> QED BY <1>5, <1>10, <2>1 DEF TableInv, RunsOfJob
<1>16. EditsReachPending'
  <2> SUFFICES ASSUME NEW j \in Jobs, NEW k \in DOMAIN runs'[j],
                      IsPending(runs'[j][k]), ~runs'[j][k].replayed
               PROVE  /\ jobs'[j] # NoJob
                      /\ runs'[j][k].content = jobs'[j].content
                      /\ jobs'[j].enabled \/ jobs'[j].next = NoTime
    BY DEF EditsReachPending, IsPending
  <2>1. CASE k \in DOMAIN runs[j] /\ runs'[j][k] = runs[j][k]
    <3>1. /\ jobs[j] # NoJob /\ runs[j][k].content = jobs[j].content
          /\ jobs[j].enabled \/ jobs[j].next = NoTime
      BY <2>1 DEF TableInv, EditsReachPending
    <3> QED BY <1>3, <1>4, <2>1, <3>1, NoJobIsNone
  <2>2. CASE made(j) /\ runs'[j][k] = NewRun(j)
    BY <1>4, <1>5, <1>7, <2>2, NoJobIsNone
  <2> QED BY <1>10, <2>1, <2>2
<1>17. BeginsLeft'
  <2> SUFFICES ASSUME NEW j \in Jobs, NEW k \in DOMAIN runs'[j]
               PROVE  /\ runs'[j][k].begins <= Budget
                      /\ IsPending(runs'[j][k]) => runs'[j][k].begins < Budget
    BY <1>1 DEF BeginsLeft, Budget, IsPending
  <2>1. Budget \in Nat \ {0}
    BY <1>1, TimeIsNat DEF Budget
  <2> QED BY <1>5, <1>10, <2>1 DEF TableInv, BeginsLeft
<1> QED BY <1>9, <1>11, <1>12, <1>13, <1>14, <1>15, <1>16, <1>17 DEF TableInv

-----------------------------------------------------------------------------
(* Records                                                                 *)

LEMMA RecordShrinks ==
  ASSUME NEW made, NEW r, RecordOK(r, made), NEW q, Shrinks(r, q)
  PROVE  /\ RecordOK(q, made)
         /\ \A e : NoCron(r, e) => NoCron(q, e)
<1>1. q \in Runtime
  BY DEF Shrinks
<1>2. \A i \in DOMAIN r.pending : r.pending[i] \in Item
  <2>1. r.pending \in Seq(Item)
    BY DEF RecordOK, Runtime
  <2> QED BY <2>1, ElementOfSeq
<1>3. CASE q.pending = r.pending
  <2>1. QueuedOnce(q)
    BY <1>2, <1>3, NoItemAssumption DEF QueuedOnce, RecordOK, Shrinks
  <2> QED BY <1>1, <1>3, <2>1 DEF RecordOK, Shrinks, NoCron
<1>4. CASE q.pending = << >>
  <2>1. DOMAIN q.pending = {}
    BY <1>4
  <2>2. QueuedOnce(q)
    BY <2>1 DEF QueuedOnce
  <2> QED BY <1>1, <2>1, <2>2 DEF RecordOK, Shrinks, NoCron
<1> QED BY <1>3, <1>4 DEF Shrinks

LEMMA FreshOK ==
  ASSUME NEW made
  PROVE  /\ RecordOK(FreshRuntime, made) /\ ExecOK(Idle, made)
         /\ NoCron(FreshRuntime, Idle)
<1>1. FreshRuntime \in Runtime /\ FreshRuntime.pending = << >>
      /\ FreshRuntime.inflight = NoItem
  BY FreshRuntimeType DEF FreshRuntime
<1>2. DOMAIN FreshRuntime.pending = {}
  BY <1>1
<1>3. RecordOK(FreshRuntime, made)
  BY <1>1, <1>2 DEF RecordOK, QueuedOnce
<1>4. ExecOK(Idle, made)
  BY DEF ExecOK, Idle, ExecType, Pcs
<1>5. NoCron(FreshRuntime, Idle)
  BY <1>2 DEF NoCron, Idle
<1> QED BY <1>3, <1>4, <1>5

\* append_pending of the poller or of a user.
LEMMA AppendedOK ==
  ASSUME NEW made, NEW r, RecordOK(r, made), NEW it \in Item,
         KnownItem(it, made)
  PROVE  /\ RecordOK(AppendPending(r, it), made)
         /\ it.src # "api" => \A e : NoCron(r, e) => NoCron(AppendPending(r, it), e)
<1> DEFINE q == AppendPending(r, it)
<1>1. r \in Runtime /\ q \in Runtime
  BY AppendPendingType DEF RecordOK
<1>2. r.pending \in Seq(Item)
  BY <1>1 DEF Runtime
<1>3. DOMAIN r.pending = 1..Len(r.pending) /\ Len(r.pending) \in Nat
  BY <1>2, LenProperties
<1>4. CASE q = r
  BY <1>4
<1>5. CASE /\ ~AlreadyKnown(r, it)
           /\ q = [r EXCEPT !.pending = Append(r.pending, it)]
  <2>1. q.inflight = r.inflight /\ q.pending = Append(r.pending, it)
    BY <1>1, <1>5 DEF Runtime
  <2>2. /\ DOMAIN q.pending = 1..(Len(r.pending) + 1)
        /\ \A i \in DOMAIN r.pending : q.pending[i] = r.pending[i]
        /\ q.pending[Len(r.pending) + 1] = it
    BY <1>2, <1>3, <2>1, AppendProperties
  <2>3. it.src = "api" => /\ \A i \in DOMAIN r.pending : r.pending[i] # it
                          /\ r.inflight # it
    BY <1>5, NoItemAssumption DEF AlreadyKnown, Elements, Keyed
  <2> HIDE DEF q
  <2>4. \A i \in DOMAIN q.pending : i \in DOMAIN r.pending \/ i = Len(r.pending) + 1
    BY <1>3, <2>2
  <2>5. QueuedOnce(q)
    BY <2>1, <2>2, <2>3, <2>4 DEF QueuedOnce, RecordOK
  <2>6. \A i \in DOMAIN q.pending : KnownItem(q.pending[i], made)
    BY <2>2, <2>4 DEF RecordOK
  <2>7. it.src # "api" => \A e : NoCron(r, e) => NoCron(q, e)
    BY <2>2, <2>4 DEF NoCron
  <2> QED BY <1>1, <2>1, <2>5, <2>6, <2>7 DEF RecordOK, q
<1> QED BY <1>4, <1>5 DEF AppendPending

LEMMA DequeuedOK ==
  ASSUME NEW made, NEW r, RecordOK(r, made), CanDequeue(r)
  PROVE  /\ RecordOK(DequeueToWorking(r), made)
         /\ Head(r.pending) \in Item /\ KnownItem(Head(r.pending), made)
         /\ \A e, d : NoCron(r, e) /\ d.item = Head(r.pending) =>
              NoCron(DequeueToWorking(r), d)
<1> DEFINE q == DequeueToWorking(r)
           p == r.pending
<1>1. r \in Runtime /\ q \in Runtime /\ p \in Seq(Item) /\ p # << >>
  BY DequeueType DEF RecordOK, CanDequeue, Runtime
<1>2. Head(p) = p[1] /\ Head(p) \in Item /\ 1 \in DOMAIN p
      /\ DOMAIN p = 1..Len(p) /\ Len(p) \in Nat
  BY <1>1, HeadTailProperties, LenProperties, EmptySeq
<1>3. /\ Len(Tail(p)) = Len(p) - 1 /\ DOMAIN Tail(p) = 1..(Len(p) - 1)
      /\ \A i \in 1..(Len(p) - 1) : Tail(p)[i] = p[i + 1] /\ i + 1 \in DOMAIN p
  BY <1>1, <1>2, HeadTailProperties
<1>4. q.pending = Tail(p) /\ q.inflight = p[1]
  BY <1>1, <1>2 DEF DequeueToWorking, Runtime
<1>5. KnownItem(p[1], made) /\ \A i \in DOMAIN p : KnownItem(p[i], made)
  BY <1>2 DEF RecordOK
<1>6. \A i, k \in DOMAIN p : p[i].src = "api" => (p[i] = p[k] => i = k)
  BY DEF RecordOK, QueuedOnce
<1> HIDE DEF q, p
<1>7. QueuedOnce(q)
  <2> SUFFICES ASSUME NEW i \in DOMAIN q.pending, NEW k \in DOMAIN q.pending,
                      q.pending[i].src = "api"
               PROVE  /\ q.pending[i] = q.pending[k] => i = k
                      /\ q.pending[i] # q.inflight
    BY DEF QueuedOnce
  <2>1. /\ q.pending[i] = p[i + 1] /\ q.pending[k] = p[k + 1]
        /\ i + 1 \in DOMAIN p /\ k + 1 \in DOMAIN p
        /\ i \in Nat /\ k \in Nat /\ i + 1 # 1
    BY <1>2, <1>3, <1>4
  <2> QED BY <1>2, <1>4, <1>6, <2>1
<1>8. RecordOK(q, made)
  BY <1>1, <1>3, <1>4, <1>5, <1>7 DEF RecordOK
<1>9. ASSUME NEW e, NEW d, NoCron(r, e), d.item = Head(p)
      PROVE  NoCron(q, d)
  BY <1>2, <1>3, <1>4, <1>9 DEF NoCron, p
<1> QED BY <1>2, <1>5, <1>8, <1>9 DEF q, p

LEMMA RestoredOK ==
  ASSUME NEW made, NEW r, RecordOK(r, made)
  PROVE  RecordOK(Restored(r), made)
<1> DEFINE p == r.pending
           q == IF r.inflight # NoItem THEN <<r.inflight>> \o p ELSE p
<1>1. r \in Runtime /\ p \in Seq(Item) /\ r.completed \in Seq(Traces)
      /\ r.inflight \in Item \cup {NoItem}
  BY DEF RecordOK, Runtime
<1>2. DOMAIN p = 1..Len(p) /\ Len(p) \in Nat /\ \A i \in DOMAIN p : p[i] \in Item
  BY <1>1, LenProperties, ElementOfSeq
<1>3. q \in Seq(Item)
  BY <1>1
<1>4. Restored(r) \in Runtime /\ Restored(r).pending = q /\ Restored(r).inflight = NoItem
  BY <1>1, <1>3, FreshRuntimeType DEF Restored, Runtime, FreshRuntime
<1>5. CASE r.inflight = NoItem
  <2>1. q = p
    BY <1>5
  <2> QED BY <1>2, <1>4, <2>1, NoItemAssumption DEF RecordOK, QueuedOnce
<1>6. CASE r.inflight # NoItem
  <2>1. /\ DOMAIN q = 1..(Len(p) + 1) /\ q[1] = r.inflight
        /\ \A i \in 2..(Len(p) + 1) : q[i] = p[i - 1] /\ i - 1 \in DOMAIN p
    BY <1>1, <1>2, <1>6
  <2> HIDE DEF q, p
  <2>2. \A i \in DOMAIN q : i = 1 \/ i \in 2..(Len(p) + 1)
    BY <1>2, <2>1
  <2>3. \A i, k \in DOMAIN p : p[i].src = "api" => (p[i] = p[k] => i = k) /\ p[i] # r.inflight
    BY DEF RecordOK, QueuedOnce, p
  <2>4. ASSUME NEW i \in DOMAIN q, NEW k \in DOMAIN q, q[i].src = "api", q[i] = q[k]
        PROVE  i = k
    <3>1. q[k].src = "api"
      BY <2>4
    <3>2. CASE i = 1 /\ k = 1
      BY <3>2
    <3>3. CASE i = 1 /\ k \in 2..(Len(p) + 1)
      BY <2>1, <2>3, <2>4, <3>1, <3>3
    <3>4. CASE k = 1 /\ i \in 2..(Len(p) + 1)
      BY <2>1, <2>3, <2>4, <3>4
    <3>5. CASE i \in 2..(Len(p) + 1) /\ k \in 2..(Len(p) + 1)
      <4>1. i - 1 = k - 1
        BY <2>1, <2>3, <2>4, <3>5
      <4> QED BY <3>5, <4>1, <1>2
    <3> QED BY <2>2, <3>2, <3>3, <3>4, <3>5
  <2>5. \A i \in DOMAIN q : q[i] \in Item /\ KnownItem(q[i], made)
    BY <1>1, <1>2, <1>6, <2>1, <2>2 DEF RecordOK, p
  <2> QED BY <1>4, <2>4, <2>5, NoItemAssumption DEF RecordOK, QueuedOnce
<1> QED BY <1>5, <1>6

-----------------------------------------------------------------------------
(* What a step does to a row                                               *)

\* Only a row that was not begun changes.
Kept ==
  \A j \in Jobs : \A k \in DOMAIN runs[j] :
    /\ k \in DOMAIN runs'[j]
    /\ ~IsPending(runs[j][k]) => runs'[j][k] = runs[j][k]

\* A settled row does not.
Settles ==
  \A j \in Jobs : \A k \in DOMAIN runs[j] :
    /\ k \in DOMAIN runs'[j]
    /\ runs[j][k].status \in Terminal => runs'[j][k] = runs[j][k]

LEMMA KeptSettles == Kept => Settles
BY DEF Kept, Settles, IsPending, Terminal

LEMMA UnchangedKept == UNCHANGED runs => Kept
BY DEF Kept

LEMMA CommandKept ==
  ASSUME TableInv, NEW j \in Jobs,
         \/ Delete(j)
         \/ \E s \in Schedules \cup {Keep}, en \in {"keep", "on", "off"} :
              Update(j, s, en)
  PROVE  Kept
<1>1. runs = [i \in Jobs |-> runs[i]]
  BY DEF TableInv, TableType
<1>2. ASSUME NEW f, runs' = [runs EXCEPT ![j] = f], DOMAIN f = DOMAIN runs[j],
             \A k \in DOMAIN runs[j] : ~IsPending(runs[j][k]) => f[k] = runs[j][k]
      PROVE  Kept
  BY <1>1, <1>2 DEF Kept
<1>3. CASE Delete(j)
  <2>1. runs' = [runs EXCEPT ![j] = CancelPending(j)]
    BY <1>3 DEF Delete
  <2>2. /\ DOMAIN CancelPending(j) = DOMAIN runs[j]
        /\ \A k \in DOMAIN runs[j] :
             ~IsPending(runs[j][k]) => CancelPending(j)[k] = runs[j][k]
    BY DEF CancelPending
  <2> QED BY <1>2, <2>1, <2>2
<1>4. ASSUME NEW s \in Schedules \cup {Keep}, NEW en \in {"keep", "on", "off"},
             Update(j, s, en)
      PROVE  Kept
  <2> DEFINE c == Updated(jobs[j], s, en).content
             f == IF s # Keep \/ en = "off" THEN CancelPending(j) ELSE EditPending(j, c)
  <2>1. runs' = [runs EXCEPT ![j] = f]
    BY <1>4 DEF Update
  <2> HIDE DEF c
  <2>2. /\ DOMAIN f = DOMAIN runs[j]
        /\ \A k \in DOMAIN runs[j] : ~IsPending(runs[j][k]) => f[k] = runs[j][k]
    BY DEF CancelPending, EditPending
  <2> QED BY <1>2, <2>1, <2>2
<1> QED BY <1>3, <1>4

LEMMA MaterializeKept ==
  ASSUME TableInv, PollMaterialize PROVE Kept
<1> SUFFICES ASSUME NEW j \in Jobs, NEW k \in DOMAIN runs[j]
             PROVE  k \in DOMAIN runs'[j] /\ runs'[j][k] = runs[j][k]
  BY DEF Kept
<1>1. runs'[j] = runs[j] \/ runs'[j] = Append(runs[j], NewRun(j))
  BY DEF PollMaterialize
<1>2. /\ runs[j] \in Seq(Run) /\ Len(runs[j]) \in Nat
      /\ DOMAIN runs[j] = 1..Len(runs[j])
  BY Rows DEF TableInv
<1> QED BY <1>1, <1>2

LEMMA BeginKept ==
  ASSUME TableInv, NEW n \in Nodes, Begin(n) PROVE Kept
BY BeginRows DEF Kept, InPlace, RowOf

LEMMA DepartRows ==
  ASSUME NEW n \in Nodes, Depart(n)
  PROVE  /\ Settles
         /\ \A j \in Jobs : \A k \in DOMAIN runs[j] :
              runs'[j][k] = runs[j][k] \/ runs'[j][k] = Cancelled(runs[j][k])
BY DEF Depart, Settles, IsActive, Active, Terminal

LEMMA StartSettles ==
  ASSUME Start PROVE Settles
<1>1. \A j \in Jobs : \A k \in DOMAIN runs[j] :
        /\ k \in DOMAIN runs'[j]
        /\ runs[j][k].status # "running" => runs'[j][k] = runs[j][k]
  BY DEF Start
<1> QED BY <1>1 DEF Settles, Terminal

LEMMA FinishSettles ==
  ASSUME TableInv, NEW n \in Nodes, Finish(n), Exists(Id(n))
  PROVE  /\ Settles
         /\ \A j \in Jobs : \A k \in DOMAIN runs[j] :
              <<j, k>> # Id(n) => runs'[j][k] = runs[j][k]
<1>1. runs = [j \in Jobs |-> runs[j]]
  BY DEF TableInv, TableType
<1>2. runs' = [runs EXCEPT ![Id(n)[1]][Id(n)[2]].status =
                 IF @ = "running" THEN Verdict(n) ELSE @]
  BY DEF Finish
<1> SUFFICES ASSUME NEW j \in Jobs, NEW k \in DOMAIN runs[j]
             PROVE  /\ k \in DOMAIN runs'[j]
                    /\ runs[j][k].status # "running" => runs'[j][k] = runs[j][k]
                    /\ <<j, k>> # Id(n) => runs'[j][k] = runs[j][k]
  BY DEF Settles, Terminal
<1>3. CASE j # Id(n)[1]
  BY <1>1, <1>2, <1>3
<1>4. CASE j = Id(n)[1] /\ k # Id(n)[2]
  BY <1>1, <1>2, <1>4
<1>5. CASE j = Id(n)[1] /\ k = Id(n)[2]
  <2>1. Id(n) = <<j, k>>
    BY <1>5 DEF Exists, RunIds
  <2>2. runs[j][k] \in Run
    BY TimeIsNat
  <2>3. /\ k \in DOMAIN runs'[j]
        /\ runs'[j][k] = [runs[j][k] EXCEPT !.status =
                            IF @ = "running" THEN Verdict(n) ELSE @]
    BY <1>1, <1>2, <1>5
  <2>4. runs[j][k].status # "running" => runs'[j][k] = runs[j][k]
    BY <2>2, <2>3 DEF Run
  <2> QED BY <2>1, <2>3, <2>4
<1> QED BY <1>3, <1>4, <1>5

-----------------------------------------------------------------------------
(* A step of one node                                                      *)

SetsRec(n, r)  == rec' = [m \in Nodes |-> IF m = n THEN r ELSE rec[m]]
SetsExec(n, e) == exec' = [m \in Nodes |-> IF m = n THEN e ELSE exec[m]]

\* It replaces the record and the executor of n by sound ones, brings in no
\* item of the poller, and begins a run in Begin only.
Moves(n) ==
  \E r, e :
    /\ SetsRec(n, r) /\ SetsExec(n, e)
    /\ RecordOK(r, Made) /\ ExecOK(e, Made)
    /\ NoCron(rec[n], exec[n]) => NoCron(r, e)
    /\ Busy(e) => e.item = exec[n].item /\ (Busy(exec[n]) \/ Begin(n))

LEMMA Setting ==
  ASSUME QueueInv, NEW n \in Nodes
  PROVE  /\ \A r : rec' = [rec EXCEPT ![n] = r] => SetsRec(n, r)
         /\ \A e : exec' = [exec EXCEPT ![n] = e] => SetsExec(n, e)
         /\ rec' = rec => SetsRec(n, rec[n])
         /\ exec' = exec => SetsExec(n, exec[n])
<1>1. rec = [m \in Nodes |-> rec[m]] /\ exec = [m \in Nodes |-> exec[m]]
  BY DEF QueueInv
<1> QED BY <1>1 DEF SetsRec, SetsExec

LEMMA OfNode ==
  ASSUME QueueInv, NEW n \in Nodes
  PROVE  /\ RecordOK(rec[n], Made) /\ rec[n] \in Runtime
         /\ ExecOK(exec[n], Made) /\ exec[n] \in ExecType
         /\ exec[n].pc # "none" => exec[n].item \in Item /\ Id(n) \in Traces
         /\ At(n, "begin") \/ At(n, "refused") \/ At(n, "finish") =>
              IsCron(n) /\ Exists(Id(n))
<1>1. RecordOK(rec[n], Made) /\ rec[n] \in Runtime /\ ExecOK(exec[n], Made)
      /\ exec[n] \in ExecType
  BY DEF QueueInv
<1>2. exec[n].pc # "none" => exec[n].item \in Item /\ Id(n) \in Traces
  BY <1>1 DEF ExecOK, Id, Item
<1>3. At(n, "begin") \/ At(n, "refused") \/ At(n, "finish") => IsCron(n) /\ Exists(Id(n))
  BY <1>1 DEF ExecOK, KnownItem, Made, Id, IsCron, At
<1> QED BY <1>1, <1>2, <1>3

\* The executor goes on with the same item.
LEMMA OnWithItem ==
  ASSUME NEW made, NEW e, ExecOK(e, made), e.pc # "none",
         NEW pc \in Pcs \ {"none"}, pc = "finish" \/ pc = "refused" => e.item.src = "api",
         pc # "begin", NEW o \in {"none", "assistant", "system", "raised"},
         NEW d, d = [pc |-> pc, item |-> e.item, outcome |-> o]
  PROVE  /\ ExecOK(d, made) /\ d.item = e.item
         /\ \A r, q : NoCron(r, e) /\ (\A x : NoCron(r, x) => NoCron(q, x)) => NoCron(q, d)
<1>1. ExecOK(d, made) /\ d.item = e.item
  BY DEF ExecOK, ExecType, Pcs
<1>2. ASSUME NEW r, NEW q, NoCron(r, e), \A x : NoCron(r, x) => NoCron(q, x)
      PROVE  NoCron(q, d)
  <2>1. NoCron(q, e)
    BY <1>2
  <2> QED BY <1>1, <2>1 DEF NoCron
<1> QED BY <1>1, <1>2

\* Commands and the recovery of a stale node leave the executor alone.
LEMMA RecordMoves ==
  ASSUME QueueInv, NEW n \in Nodes, NEW r, RecordOK(r, Made),
         \A e : NoCron(rec[n], e) => NoCron(r, e),
         SetsRec(n, r), exec' = exec
  PROVE  Moves(n)
<1>1. SetsExec(n, exec[n])
  BY Setting
<1>2. ExecOK(exec[n], Made) /\ (NoCron(rec[n], exec[n]) => NoCron(r, exec[n]))
  BY OfNode
<1> QED BY <1>1, <1>2 DEF Moves

LEMMA ShrunkMoves ==
  ASSUME QueueInv, NEW n \in Nodes, NEW r, Shrinks(rec[n], r),
         SetsRec(n, r), exec' = exec
  PROVE  Moves(n)
BY OfNode, RecordShrinks, RecordMoves

\* The executor lets its item go, or goes on with it.
LEMMA IdleMoves ==
  ASSUME QueueInv, NEW n \in Nodes, NEW r, Shrinks(rec[n], r),
         SetsRec(n, r), SetsExec(n, Idle)
  PROVE  Moves(n)
<1>1. RecordOK(r, Made) /\ \A e : NoCron(rec[n], e) => NoCron(r, e)
  BY OfNode, RecordShrinks
<1>2. ExecOK(Idle, Made)
  BY FreshOK
<1>3. NoCron(rec[n], exec[n]) => NoCron(r, Idle)
  BY <1>1 DEF NoCron, Idle
<1>4. ~Busy(Idle)
  BY DEF Busy, Idle
<1> QED BY <1>1, <1>2, <1>3, <1>4 DEF Moves

With(n, pc, o) == [pc |-> pc, item |-> exec[n].item, outcome |-> o]

LEMMA ItemMoves ==
  ASSUME QueueInv, NEW n \in Nodes, NEW r, Shrinks(rec[n], r), SetsRec(n, r),
         exec[n].pc # "none",
         NEW pc \in Pcs \ {"none", "begin"},
         pc = "finish" \/ pc = "refused" => IsCron(n),
         NEW o \in {"none", "assistant", "system", "raised"},
         SetsExec(n, With(n, pc, o)),
         pc = "refused" \/ exec[n].pc \notin {"begin", "refused"} \/ Begin(n)
  PROVE  Moves(n)
<1> DEFINE e == exec[n]
           d == With(n, pc, o)
<1>1. RecordOK(r, Made) /\ \A x : NoCron(rec[n], x) => NoCron(r, x)
  BY OfNode, RecordShrinks
<1>2. ExecOK(e, Made) /\ e \in ExecType
  BY OfNode
<1>3. /\ ExecOK(d, Made) /\ d.item = e.item
      /\ \A x, q : NoCron(x, e) /\ (\A y : NoCron(x, y) => NoCron(q, y)) => NoCron(q, d)
  BY <1>2, OnWithItem DEF With, IsCron
<1>4. NoCron(rec[n], e) => NoCron(r, d)
  BY <1>1, <1>3
<1>5. Busy(d) => Busy(e) \/ Begin(n)
  BY <1>2 DEF Busy, With, ExecType, Pcs
<1> HIDE DEF e, d
<1>6. SetsExec(n, d)
  BY DEF d
<1> QED BY <1>1, <1>3, <1>4, <1>5, <1>6 DEF Moves, e

LEMMA GoIsWith ==
  ASSUME QueueInv, NEW n \in Nodes, NEW pc, Go(n, pc)
  PROVE  SetsExec(n, With(n, pc, exec[n].outcome))
<1>1. exec[n] \in ExecType
  BY OfNode
<1>2. [exec[n] EXCEPT !.pc = pc] = With(n, pc, exec[n].outcome)
  BY <1>1 DEF ExecType, With
<1>3. exec' = [exec EXCEPT ![n] = [exec[n] EXCEPT !.pc = pc]]
  BY DEF Go
<1> QED BY <1>2, <1>3, Setting

LEMMA LeaveIs ==
  ASSUME QueueInv, NEW n \in Nodes, NEW o, Leave(n, o)
  PROVE  IF IsCron(n) THEN SetsExec(n, With(n, "finish", o)) ELSE SetsExec(n, Idle)
<1>1. exec[n] \in ExecType
  BY OfNode
<1>2. [exec[n] EXCEPT !.pc = "finish", !.outcome = o] = With(n, "finish", o)
  <2>1. [exec[n] EXCEPT !.pc = "finish"] = With(n, "finish", exec[n].outcome)
    BY <1>1 DEF ExecType, With
  <2>2. [With(n, "finish", exec[n].outcome) EXCEPT !.outcome = o] = With(n, "finish", o)
    BY DEF With
  <2> QED BY <2>1, <2>2
<1>3. exec' = [exec EXCEPT ![n] = IF IsCron(n)
                 THEN [exec[n] EXCEPT !.pc = "finish", !.outcome = o] ELSE Idle]
  BY DEF Leave
<1> QED BY <1>2, <1>3, Setting

\* After the logic the executor leaves: with finish_run, or at once.
LEMMA LeaveMoves ==
  ASSUME QueueInv, NEW n \in Nodes, NEW r, Shrinks(rec[n], r), SetsRec(n, r),
         exec[n].pc \in {"logic", "record", "settle"},
         NEW o \in {"none", "assistant", "system", "raised"}, Leave(n, o)
  PROVE  Moves(n)
<1>1. CASE IsCron(n)
  <2>1. SetsExec(n, With(n, "finish", o))
    BY <1>1, LeaveIs
  <2>2. "finish" \in Pcs \ {"none", "begin"}
    BY DEF Pcs
  <2> QED BY <1>1, <2>1, <2>2, ItemMoves
<1>2. CASE ~IsCron(n)
  BY <1>2, LeaveIs, IdleMoves
<1> QED BY <1>1, <1>2

LEMMA GoMoves ==
  ASSUME QueueInv, NEW n \in Nodes, NEW r, Shrinks(rec[n], r), SetsRec(n, r),
         exec[n].pc # "none", NEW pc \in {"logic", "clear", "settle", "refused"},
         Go(n, pc), pc = "refused" => IsCron(n),
         pc = "refused" \/ exec[n].pc \notin {"begin", "refused"} \/ Begin(n)
  PROVE  Moves(n)
<1>1. SetsExec(n, With(n, pc, exec[n].outcome))
  BY GoIsWith
<1>2. exec[n].outcome \in {"none", "assistant", "system", "raised"}
  <2>1. exec[n] \in ExecType
    BY OfNode
  <2> QED BY <2>1 DEF ExecType
<1>3. pc \in Pcs \ {"none", "begin"} /\ (pc = "finish" \/ pc = "refused" => IsCron(n))
  BY DEF Pcs
<1> QED BY <1>1, <1>2, <1>3, ItemMoves

LEMMA DequeueMoves ==
  ASSUME QueueInv, NEW n \in Nodes, Dequeue(n) PROVE Moves(n)
<1> DEFINE h == Head(rec[n].pending)
           e == [pc |-> IF h.src = "api" THEN "begin" ELSE "logic",
                 item |-> h, outcome |-> "none"]
           r == DequeueToWorking(rec[n])
<1>1. CanDequeue(rec[n]) /\ RecordOK(rec[n], Made)
  BY OfNode DEF Dequeue
<1>2. /\ RecordOK(r, Made) /\ h \in Item /\ KnownItem(h, Made)
      /\ \A x, d : NoCron(rec[n], x) /\ d.item = h => NoCron(r, d)
  BY <1>1, DequeuedOK
<1>3. SetsRec(n, r) /\ SetsExec(n, e)
  BY Setting DEF Dequeue
<1> HIDE DEF h, r
<1>4. ExecOK(e, Made) /\ e.item = h /\ ~Busy(e)
  BY <1>2 DEF ExecOK, ExecType, Pcs, Busy
<1> HIDE DEF e
<1> QED BY <1>2, <1>3, <1>4 DEF Moves

LEMMA ExecutorMoves ==
  ASSUME QueueInv, NEW n \in Nodes, Executor(n) PROVE Moves(n)
<1> USE OfNode
<1>1. CASE Dequeue(n)
  BY <1>1, DequeueMoves
<1>2. CASE Begin(n)
  <2>1. rec' = rec /\ Go(n, "logic") /\ exec[n].pc # "none"
    BY <1>2 DEF Begin, At
  <2>2. Shrinks(rec[n], rec[n]) /\ SetsRec(n, rec[n])
    BY <2>1, OperationsShrink, Setting
  <2> QED BY <1>2, <2>1, <2>2, GoMoves
<1>3. CASE BeginRefused(n)
  <2>1. /\ rec' = [rec EXCEPT ![n] = ClearInflight(rec[n])] /\ Go(n, "refused")
        /\ exec[n].pc # "none" /\ IsCron(n)
    BY <1>3 DEF BeginRefused, At
  <2>2. Shrinks(rec[n], ClearInflight(rec[n])) /\ SetsRec(n, ClearInflight(rec[n]))
    BY <2>1, OperationsShrink, Setting
  <2> QED BY <2>1, <2>2, GoMoves
<1>4. CASE Refused(n)
  <2>1. SetsRec(n, TransitionToIdle(rec[n])) /\ SetsExec(n, Idle)
    BY <1>4, Setting DEF Refused
  <2> QED BY <2>1, OperationsShrink, IdleMoves
<1>5. ASSUME NEW outcome \in {"assistant", "system"}, Logic(n, outcome)
      PROVE  Moves(n)
  <2>1. rec' = rec /\ exec[n].pc = "logic"
    BY <1>5 DEF Logic, At
  <2>2. exec' = [exec EXCEPT ![n] = With(n, "record", outcome)]
    <3>1. exec' = [exec EXCEPT ![n] = [exec[n] EXCEPT !.pc = "record", !.outcome = outcome]]
      <4>1. exec = [m \in Nodes |-> exec[m]]
        BY DEF QueueInv
      <4> QED BY <1>5, <4>1 DEF Logic, ExecType
    <3>2. [exec[n] EXCEPT !.pc = "record"] = With(n, "record", exec[n].outcome)
      BY DEF ExecType, With
    <3>3. [With(n, "record", exec[n].outcome) EXCEPT !.outcome = outcome]
            = With(n, "record", outcome)
      BY DEF With
    <3> QED BY <3>1, <3>2, <3>3
  <2>3. SetsRec(n, rec[n]) /\ SetsExec(n, With(n, "record", outcome))
        /\ Shrinks(rec[n], rec[n])
    BY <2>1, <2>2, Setting, OperationsShrink
  <2>4. "record" \in Pcs \ {"none", "begin"} /\ outcome \in {"none", "assistant", "system", "raised"}
    BY DEF Pcs
  <2> QED BY <2>1, <2>3, <2>4, ItemMoves
<1>6. CASE Stopped(n)
  <2>1. SetsRec(n, FinishStopRequested(rec[n])) /\ Leave(n, "none") /\ exec[n].pc = "logic"
    BY <1>6, Setting DEF Stopped, At
  <2> QED BY <2>1, OperationsShrink, LeaveMoves
<1>7. ASSUME NEW ok \in BOOLEAN, Record(n, ok) PROVE Moves(n)
  <2> DEFINE r == IF rec[n].stopReq THEN FinishStopRequested(rec[n])
                  ELSE IF ok THEN RecordCompletion(rec[n], Id(n)) ELSE rec[n]
  <2>1. /\ rec' = [rec EXCEPT ![n] = r] /\ exec[n].pc = "record"
        /\ IF rec[n].stopReq THEN Leave(n, "none") ELSE Go(n, "clear")
    BY <1>7 DEF Record, At
  <2>2. Shrinks(rec[n], r)
    BY <2>1, OperationsShrink
  <2> HIDE DEF r
  <2>3. SetsRec(n, r)
    BY <2>1, Setting
  <2>4. CASE Leave(n, "none")
    BY <2>1, <2>2, <2>3, <2>4, LeaveMoves
  <2>5. CASE Go(n, "clear")
    BY <2>1, <2>2, <2>3, <2>5, GoMoves
  <2> QED BY <2>1, <2>4, <2>5
<1>8. ASSUME NEW ok \in BOOLEAN, Settle(n, ok) PROVE Moves(n)
  <2> DEFINE raises == exec[n].outcome = "assistant" /\ ~ok
             r == IF raises THEN rec[n]
                  ELSE IF exec[n].outcome = "assistant"
                  THEN CompleteWork(rec[n], [targets |-> {}]) ELSE TransitionToIdle(rec[n])
             o == IF raises THEN "raised" ELSE exec[n].outcome
  <2>1. rec' = [rec EXCEPT ![n] = r] /\ exec[n].pc = "settle" /\ Leave(n, o)
    BY <1>8 DEF Settle, At
  <2>2. Shrinks(rec[n], r)
    BY OperationsShrink
  <2>3. o \in {"none", "assistant", "system", "raised"}
    BY DEF ExecType
  <2> HIDE DEF r, o
  <2>4. SetsRec(n, r)
    BY <2>1, Setting
  <2> QED BY <2>1, <2>2, <2>3, <2>4, LeaveMoves
<1>9. CASE Clear(n)
  <2>1. /\ SetsRec(n, ClearInflight(rec[n])) /\ Go(n, "settle")
        /\ exec[n].pc = "clear"
    BY <1>9, Setting DEF Clear, At
  <2> QED BY <2>1, OperationsShrink, GoMoves
<1>10. CASE Finish(n)
  <2>1. SetsRec(n, rec[n]) /\ SetsExec(n, Idle)
    BY <1>10, Setting DEF Finish
  <2> QED BY <2>1, OperationsShrink, IdleMoves
<1>11. CASE RecoverStale(n)
  <2>1. SetsRec(n, RecoverStaleWorking(rec[n])) /\ exec' = exec
    BY <1>11, Setting DEF RecoverStale
  <2> QED BY <2>1, OperationsShrink, ShrunkMoves
<1> QED BY <1>1, <1>2, <1>3, <1>4, <1>5, <1>6, <1>7, <1>8, <1>9, <1>10, <1>11
        DEF Executor

LEMMA NodeCommandMoves ==
  ASSUME QueueInv, NEW n \in Nodes, NodeCommand(n) PROVE Moves(n)
<1> USE OfNode
<1>1. ASSUME NEW r, OnRecord(n, r) PROVE SetsRec(n, r) /\ exec' = exec
  BY <1>1, Setting DEF OnRecord
<1>2. CASE Emit(n)
  <2>1. UserItem \in Item /\ KnownItem(UserItem, Made) /\ UserItem.src # "api"
    BY TracesAssumption, MaxDepthAssumption DEF UserItem, Item, Sources, KnownItem
  <2>2. /\ RecordOK(AppendPending(rec[n], UserItem), Made)
        /\ \A e : NoCron(rec[n], e) => NoCron(AppendPending(rec[n], UserItem), e)
    BY <2>1, AppendedOK
  <2>3. OnRecord(n, AppendPending(rec[n], UserItem))
    BY <1>2 DEF Emit
  <2> QED BY <1>1, <2>2, <2>3, RecordMoves
<1>3. CASE Stop(n)
  BY <1>1, <1>3, OperationsShrink, ShrunkMoves DEF Stop
<1>4. CASE Pause(n)
  BY <1>1, <1>4, OperationsShrink, ShrunkMoves DEF Pause
<1>5. CASE ResumeNode(n)
  BY <1>1, <1>5, OperationsShrink, ShrunkMoves DEF ResumeNode
<1>6. CASE MarkDelete(n)
  BY <1>1, <1>6, OperationsShrink, ShrunkMoves DEF MarkDelete
<1>7. CASE Depart(n)
  <2>1. SetsRec(n, FreshRuntime) /\ exec' = exec
    BY <1>7, Setting DEF Depart
  <2>2. RecordOK(FreshRuntime, Made) /\ NoCron(FreshRuntime, Idle)
    BY FreshOK
  <2>3. \A e : NoCron(rec[n], e) => NoCron(FreshRuntime, e)
    BY <2>2 DEF NoCron
  <2> QED BY <2>1, <2>2, <2>3, RecordMoves
<1>8. CASE DepartFails(n)
  <2>1. SetsRec(n, ClearDeleteRequested(rec[n])) /\ exec' = exec
    BY <1>8, Setting DEF DepartFails
  <2> QED BY <2>1, OperationsShrink, ShrunkMoves
<1> QED BY <1>2, <1>3, <1>4, <1>5, <1>6, <1>7, <1>8 DEF NodeCommand

-----------------------------------------------------------------------------
(* Every step keeps the tables and the queues in order                     *)

LEMMA MadeGrows == Settles => Made \subseteq Made'
BY DEF Settles, Made, Exists, RunIds

LEMMA OKGrows ==
  ASSUME NEW M, NEW N, M \subseteq N
  PROVE  /\ \A r : RecordOK(r, M) => RecordOK(r, N)
         /\ \A e : ExecOK(e, M) => ExecOK(e, N)
BY DEF RecordOK, ExecOK, KnownItem

LEMMA MovesQueue ==
  ASSUME QueueInv, Settles, NEW n \in Nodes, Moves(n), poll' = poll,
         present' \subseteq present
  PROVE  QueueInv'
<1>1. PICK r, e : /\ SetsRec(n, r) /\ SetsExec(n, e)
                  /\ RecordOK(r, Made) /\ ExecOK(e, Made)
  BY DEF Moves
<1>2. Made \subseteq Made'
  BY MadeGrows
<1>3. \A m \in Nodes : RecordOK(rec[m], Made) /\ ExecOK(exec[m], Made)
  BY DEF QueueInv
<1>4. \A m \in Nodes : RecordOK(rec'[m], Made') /\ ExecOK(exec'[m], Made')
  BY <1>1, <1>2, <1>3, OKGrows DEF SetsRec, SetsExec
<1>5. r \in Runtime /\ e \in ExecType
  BY <1>1 DEF RecordOK, ExecOK
<1>6. rec' \in [Nodes -> Runtime] /\ exec' \in [Nodes -> ExecType]
  BY <1>1, <1>5 DEF SetsRec, SetsExec, QueueInv
<1>7. poll' \in PollType /\ poll'.todo \subseteq Made' /\ present' \subseteq Nodes
  BY <1>2 DEF QueueInv
<1> QED BY <1>4, <1>6, <1>7 DEF QueueInv

LEMMA QuietQueue ==
  ASSUME QueueInv, Settles, UNCHANGED <<rec, exec, present>>,
         poll' \in PollType, poll'.todo \subseteq Made'
  PROVE  QueueInv'
<1>1. Made \subseteq Made'
  BY MadeGrows
<1>2. \A m \in Nodes : RecordOK(rec'[m], Made') /\ ExecOK(exec'[m], Made')
  BY <1>1, OKGrows DEF QueueInv
<1> QED BY <1>2 DEF QueueInv

LEMMA DeliverType ==
  ASSUME NEW ids \in SUBSET RunIds
  PROVE  Deliver(ids) \in PollType /\ Deliver(ids).todo = ids
BY DEF Deliver, PollType

LEMMA PollStep ==
  ASSUME TableInv, QueueInv, Poller
  PROVE  TableInv' /\ Kept /\ QueueInv' /\ up /\ up' = up /\ exec' = exec
<1>1. CASE PollMaterialize
  <2>1. TableInv' /\ Kept /\ Settles
    BY <1>1, MaterializeTable, MaterializeKept, KeptSettles
  <2>2. UNCHANGED <<rec, exec, present, up>> /\ up /\ poll' = [poll EXCEPT !.pc = "list"]
    BY <1>1 DEF PollMaterialize
  <2>3. poll' \in PollType /\ poll'.todo = poll.todo
    BY <2>2 DEF QueueInv, PollType
  <2>4. poll'.todo \subseteq Made'
    BY <2>1, <2>3, MadeGrows DEF QueueInv
  <2> QED BY <2>1, <2>2, <2>3, <2>4, QuietQueue
<1>2. CASE PollList
  <2>1. /\ UNCHANGED <<jobs, runs, now, up, crashes, rec, exec, present>> /\ up
        /\ poll' = Deliver({id \in RunIds : Exists(id) /\ IsPending(RowOf(id))})
    BY <1>2 DEF PollList
  <2>2. TableInv' /\ Kept /\ Settles
    BY <2>1, QuietTable, UnchangedKept, KeptSettles
  <2>3. poll' \in PollType /\ poll'.todo \subseteq Made
    BY <2>1, DeliverType DEF Made
  <2>4. poll'.todo \subseteq Made'
    BY <2>2, <2>3, MadeGrows
  <2> QED BY <2>1, <2>2, <2>3, <2>4, QuietQueue
<1>3. ASSUME NEW id \in RunIds, Turn(id)
      PROVE  /\ up /\ id \in Made
             /\ poll' \in PollType /\ poll'.todo \subseteq Made
             /\ RowOf(id).node \in Nodes
  <2>1. up /\ id \in poll.todo /\ poll' = Deliver(poll.todo \ {id})
    BY <1>3 DEF Turn
  <2>2. poll.todo \subseteq RunIds /\ poll.todo \subseteq Made
    BY DEF QueueInv, PollType
  <2>3. RowOf(id) \in Run
    BY <2>1, <2>2, TimeIsNat DEF Made, Exists, RowOf, RunIds
  <2>4. RowOf(id).node \in Nodes
    BY <2>3 DEF Run
  <2> QED BY <2>1, <2>2, <2>4, DeliverType
<1>4. ASSUME NEW id \in RunIds, PollFails(id)
      PROVE  TableInv' /\ Kept /\ QueueInv' /\ up /\ up' = up /\ exec' = exec
  <2>1. UNCHANGED <<jobs, runs, now, up, crashes, rec, exec, present>> /\ Turn(id)
    BY <1>4 DEF PollFails
  <2>2. TableInv' /\ Kept /\ Settles
    BY <2>1, QuietTable, UnchangedKept, KeptSettles
  <2>3. up /\ poll' \in PollType /\ poll'.todo \subseteq Made'
    BY <1>3, <2>1, <2>2, MadeGrows
  <2> QED BY <2>1, <2>2, <2>3, QuietQueue
<1>5. ASSUME NEW id \in RunIds, PollEnqueue(id)
      PROVE  TableInv' /\ Kept /\ QueueInv' /\ up /\ up' = up /\ exec' = exec
  <2> DEFINE n == RowOf(id).node
             r == AppendPending(rec[n], CronItem(id))
  <2>1. /\ UNCHANGED <<jobs, runs, now, up, crashes, exec, present>> /\ Turn(id)
        /\ rec' = [rec EXCEPT ![n] = r]
    BY <1>5 DEF PollEnqueue
  <2>2. TableInv' /\ Kept /\ Settles
    BY <2>1, QuietTable, UnchangedKept, KeptSettles
  <2>3. /\ up /\ poll' \in PollType /\ poll'.todo \subseteq Made' /\ id \in Made
        /\ n \in Nodes
    BY <1>3, <2>1, <2>2, MadeGrows
  <2>4. CronItem(id) \in Item /\ KnownItem(CronItem(id), Made)
    BY <2>3, TracesAssumption, MaxDepthAssumption
       DEF CronItem, Item, Sources, KnownItem
  <2>5. RecordOK(r, Made)
    BY <2>3, <2>4, OfNode, AppendedOK
  <2> HIDE DEF n, r
  <2>6. \A m \in Nodes : RecordOK(rec'[m], Made') /\ ExecOK(exec'[m], Made')
    <3>1. \A m \in Nodes : rec'[m] = IF m = n THEN r ELSE rec[m]
      BY <2>1 DEF QueueInv
    <3>2. Made \subseteq Made'
      BY <2>2, MadeGrows
    <3> QED BY <2>1, <2>5, <3>1, <3>2, OKGrows DEF QueueInv
  <2>7. rec' \in [Nodes -> Runtime]
    BY <2>1, <2>5 DEF QueueInv, RecordOK
  <2> QED BY <2>1, <2>2, <2>3, <2>6, <2>7 DEF QueueInv
<1> QED BY <1>1, <1>2, <1>4, <1>5 DEF Poller

\* The steps of a node other than Depart leave the jobs alone.
LEMMA NodeStep ==
  ASSUME TableInv, QueueInv, NEW n \in Nodes, Executor(n) \/ NodeCommand(n)
  PROVE  /\ TableInv' /\ Settles /\ QueueInv' /\ up' = up /\ Moves(n)
         /\ Kept \/ Finish(n) \/ Depart(n)
<1>1. Moves(n)
  BY ExecutorMoves, NodeCommandMoves
<1>2. poll' = poll /\ present' \subseteq present /\ up' = up
  BY DEF Executor, NodeCommand, Dequeue, Begin, BeginRefused, Refused, Logic,
         Stopped, Record, Settle, Clear, Finish, RecoverStale, Emit, Stop, Pause,
         ResumeNode, MarkDelete, OnRecord, Depart, DepartFails
<1>3. CASE Begin(n)
  <2>1. TableInv' /\ Kept /\ Settles
    BY <1>3, BeginTable, BeginKept, KeptSettles
  <2> QED BY <1>1, <1>2, <2>1, MovesQueue
<1>4. CASE Finish(n)
  <2>1. Exists(Id(n))
    BY <1>4, OfNode DEF Finish
  <2>2. TableInv' /\ Settles
    BY <1>4, <2>1, FinishTable, FinishSettles
  <2> QED BY <1>1, <1>2, <1>4, <2>2, MovesQueue
<1>5. CASE Depart(n)
  <2>1. TableInv' /\ Settles
    BY <1>5, DepartTable, DepartRows
  <2> QED BY <1>1, <1>2, <1>5, <2>1, MovesQueue
<1>6. CASE ~(Begin(n) \/ Finish(n) \/ Depart(n))
  <2>1. UNCHANGED <<jobs, runs, now, up, crashes>>
    BY <1>6 DEF Executor, NodeCommand, Dequeue, BeginRefused, Refused, Logic,
         Stopped, Record, Settle, Clear, RecoverStale, Emit, Stop, Pause,
         ResumeNode, MarkDelete, OnRecord, DepartFails
  <2>2. TableInv' /\ Kept /\ Settles
    BY <2>1, QuietTable, UnchangedKept, KeptSettles
  <2> QED BY <1>1, <1>2, <2>2, MovesQueue
<1> QED BY <1>3, <1>4, <1>5, <1>6

LEMMA JobStep ==
  ASSUME TableInv, QueueInv, NEW j \in Jobs, JobCommand(j)
  PROVE  TableInv' /\ Kept /\ QueueInv' /\ UNCHANGED <<up, rec, exec>>
<1>1. UNCHANGED <<poll, rec, exec, present, up>>
  BY DEF JobCommand, Create, Update, Delete
<1>2. TableInv' /\ Kept
  <2>1. ASSUME NEW n \in Nodes, NEW s \in Schedules, Create(j, n, s)
        PROVE  TableInv' /\ Kept
    <3>1. UNCHANGED runs
      BY <2>1 DEF Create
    <3> QED BY <2>1, <3>1, CreateTable, UnchangedKept
  <2>2. ASSUME NEW s \in Schedules \cup {Keep}, NEW en \in {"keep", "on", "off"},
               Update(j, s, en)
        PROVE  TableInv' /\ Kept
    BY <2>2, UpdateTable, CommandKept
  <2>3. CASE Delete(j)
    BY <2>3, DeleteTable, CommandKept
  <2> QED BY <2>1, <2>2, <2>3 DEF JobCommand
<1>3. Settles /\ Made \subseteq Made'
  BY <1>2, KeptSettles, MadeGrows
<1>4. poll' \in PollType /\ poll'.todo \subseteq Made'
  BY <1>1, <1>3 DEF QueueInv
<1> QED BY <1>1, <1>2, <1>3, <1>4, QuietQueue

LEMMA CrashRecords ==
  ASSUME QueueInv, Crash
  PROVE  /\ rec' \in [Nodes -> Runtime] /\ \A n \in Nodes : RecordOK(rec'[n], Made)
         /\ exec' = [n \in Nodes |-> Idle]
         /\ Checkpoints = FALSE => rec' = [n \in Nodes |-> FreshRuntime]
<1>1. PICK saved \in SUBSET {n \in present : Checkpoints
                 /\ rec[n].state = "working" /\ rec[n].inflight # NoItem} :
        rec' = [n \in Nodes |-> IF n \in saved THEN Restored(rec[n]) ELSE FreshRuntime]
  BY DEF Crash
<1>2. \A n \in Nodes : RecordOK(Restored(rec[n]), Made) /\ RecordOK(FreshRuntime, Made)
  BY OfNode, RestoredOK, FreshOK
<1>3. \A n \in Nodes : RecordOK(rec'[n], Made)
  BY <1>1, <1>2
<1>4. rec' \in [Nodes -> Runtime]
  BY <1>1, <1>2 DEF RecordOK
<1>5. Checkpoints = FALSE => rec' = [n \in Nodes |-> FreshRuntime]
  <2>1. Checkpoints = FALSE => saved = {}
    BY <1>1
  <2> QED BY <1>1, <2>1
<1> QED BY <1>3, <1>4, <1>5 DEF Crash

LEMMA ServerStep ==
  ASSUME TableInv, QueueInv, Tick \/ Crash \/ Start \/ UNCHANGED vars
  PROVE  TableInv' /\ Settles /\ QueueInv'
<1>1. CASE Tick \/ UNCHANGED vars
  <2>1. UNCHANGED <<runs, poll, rec, exec, present>>
    BY <1>1 DEF Tick, vars
  <2>2. TableInv'
    BY <1>1, TickTable, QuietTable DEF vars
  <2>3. Settles /\ Made \subseteq Made'
    BY <2>1, UnchangedKept, KeptSettles, MadeGrows
  <2>4. poll' \in PollType /\ poll'.todo \subseteq Made'
    BY <2>1, <2>3 DEF QueueInv
  <2> QED BY <2>1, <2>2, <2>3, <2>4, QuietQueue
<1>2. CASE Start
  <2>1. TableInv' /\ Settles
    BY <1>2, StartTable, StartSettles
  <2>2. UNCHANGED <<poll, rec, exec, present>>
    BY <1>2 DEF Start
  <2>3. poll' \in PollType /\ poll'.todo \subseteq Made'
    BY <2>1, <2>2, MadeGrows DEF QueueInv
  <2> QED BY <2>1, <2>2, <2>3, QuietQueue
<1>3. CASE Crash
  <2>1. /\ UNCHANGED <<runs, present>> /\ poll' = [pc |-> "wait", todo |-> {}]
        /\ exec' = [n \in Nodes |-> Idle]
    BY <1>3 DEF Crash
  <2>2. TableInv' /\ Settles /\ Made \subseteq Made'
    BY <1>3, <2>1, CrashTable, UnchangedKept, KeptSettles, MadeGrows
  <2>3. \A n \in Nodes : RecordOK(rec'[n], Made') /\ ExecOK(exec'[n], Made')
    BY <1>3, <2>1, <2>2, CrashRecords, OKGrows, FreshOK
  <2>4. rec' \in [Nodes -> Runtime]
    BY <1>3, CrashRecords
  <2>5. exec' \in [Nodes -> ExecType]
    BY <2>1, FreshOK DEF ExecOK
  <2>6. poll' \in PollType /\ poll'.todo \subseteq Made'
    BY <2>1 DEF PollType
  <2> QED BY <2>1, <2>2, <2>3, <2>4, <2>5, <2>6 DEF QueueInv
<1> QED BY <1>1, <1>2, <1>3

LEMMA InitHolds == Init => TableInv /\ QueueInv
<1> SUFFICES ASSUME Init PROVE TableInv /\ QueueInv
  OBVIOUS
<1> USE DEF Init
<1>1. ASSUME NEW n \in Nodes, NEW s \in Schedules
      PROVE  NewJob(n, s, 0) \in Job /\ NewJob(n, s, 0).next \in Nat
  <2>1. s \in ScheduleType /\ NextDeadline(s, 0, NoTime) \in Nat
    BY SchedulesAssumption, NextDeadlineAhead
  <2> QED BY <2>1 DEF NewJob, Job
<1>2. TableType
  <2>1. jobs \in [Jobs -> Job \cup {NoJob}]
    BY <1>1
  <2>2. runs \in [Jobs -> Seq(Run)]
    BY EmptySeq
  <2>3. up \in BOOLEAN
    OBVIOUS
  <2> QED BY <2>1, <2>2, <2>3, CronBoundsAssumption DEF TableType
<1>3. \A j \in Jobs : DOMAIN runs[j] = {}
  OBVIOUS
<1>4. EnabledHasDeadline
  BY <1>1 DEF EnabledHasDeadline
<1>5. OneActiveRun /\ DeadlineAhead /\ RunsPast /\ EditsReachPending
      /\ RunsOfJob /\ BeginsLeft
  BY <1>3 DEF OneActiveRun, DeadlineAhead, RunsPast, EditsReachPending,
              RunsOfJob, BeginsLeft
<1>6. poll \in PollType /\ poll.todo \subseteq Made
  BY DEF PollType
<1>7. \A n \in Nodes : RecordOK(rec[n], Made) /\ ExecOK(exec[n], Made)
  BY FreshOK
<1>8. rec \in [Nodes -> Runtime] /\ exec \in [Nodes -> ExecType] /\ present \subseteq Nodes
  BY FreshOK DEF RecordOK, ExecOK
<1> QED BY <1>2, <1>4, <1>5, <1>6, <1>7, <1>8 DEF TableInv, QueueInv

LEMMA StepHolds ==
  ASSUME TableInv, QueueInv, [Next]_vars
  PROVE  TableInv' /\ QueueInv' /\ Settles
<1>1. CASE Poller
  BY <1>1, PollStep, KeptSettles
<1>2. ASSUME NEW n \in Nodes, Executor(n) \/ NodeCommand(n)
      PROVE  TableInv' /\ QueueInv' /\ Settles
  BY <1>2, NodeStep
<1>3. ASSUME NEW j \in Jobs, JobCommand(j)
      PROVE  TableInv' /\ QueueInv' /\ Settles
  BY <1>3, JobStep, KeptSettles
<1>4. CASE Tick \/ Crash \/ Start \/ UNCHANGED vars
  BY <1>4, ServerStep
<1> QED BY <1>1, <1>2, <1>3, <1>4 DEF Next

-----------------------------------------------------------------------------
(* The executor and its row                                                *)

\* A begun run is known, and its row is its executor's.
LEMMA BusyRow ==
  ASSUME TableInv, QueueInv, LiveInv, NEW m \in Nodes, Busy(exec[m])
  PROVE  /\ Id(m)[1] \in Jobs /\ Id(m)[2] \in DOMAIN runs[Id(m)[1]]
         /\ Id(m) = <<Id(m)[1], Id(m)[2]>>
         /\ runs[Id(m)[1]][Id(m)[2]].status \in {"running", "cancelled"}
         /\ runs[Id(m)[1]][Id(m)[2]].node = m
<1>1. Id(m) \in Made
  BY OfNode DEF Busy, ExecOK, KnownItem, Id
<1>2. Owns(m)
  BY DEF LiveInv
<1> QED BY <1>1, <1>2 DEF Made, Exists, RunIds, Owns, RowOf

\* What an executor owns after a step, from its item and the row of it.
LEMMA OwnsNext ==
  ASSUME NEW m, NEW id, exec'[m].item.trace = id,
         runs'[id[1]][id[2]].status \in {"running", "cancelled"},
         runs'[id[1]][id[2]].node = m
  PROVE  Owns(m)'
BY DEF Owns, RowOf, Id

\* The row of a run that another executor has begun.
LEMMA OtherOwns ==
  ASSUME TableInv, QueueInv, LiveInv, NEW m \in Nodes, Busy(exec[m]),
         exec'[m].item = exec[m].item,
         LET r == runs[Id(m)[1]][Id(m)[2]]
             q == runs'[Id(m)[1]][Id(m)[2]]
         IN  q = r \/ q = Cancelled(r)
  PROVE  Owns(m)'
<1> DEFINE r == runs[Id(m)[1]][Id(m)[2]]
           q == runs'[Id(m)[1]][Id(m)[2]]
<1>1. /\ r.status \in {"running", "cancelled"} /\ r.node = m
      /\ Id(m)[1] \in Jobs /\ Id(m)[2] \in DOMAIN runs[Id(m)[1]]
  BY BusyRow
<1>2. r \in Run
  BY <1>1, TimeIsNat
<1>3. q.status \in {"running", "cancelled"} /\ q.node = m
  BY <1>1, <1>2, CancelledRow DEF SameRun
<1>4. exec'[m].item.trace = Id(m)
  BY DEF Id
<1> QED BY <1>3, <1>4, OwnsNext

LEMMA NodeStepLive ==
  ASSUME TableInv, QueueInv, LiveInv, NEW n \in Nodes,
         Executor(n) \/ NodeCommand(n)
  PROVE  LiveInv'
<1>1. Settles /\ up' = up /\ Moves(n) /\ (Kept \/ Finish(n) \/ Depart(n))
  BY NodeStep
<1>2. PICK r, e : /\ SetsRec(n, r) /\ SetsExec(n, e)
                  /\ NoCron(rec[n], exec[n]) => NoCron(r, e)
                  /\ Busy(e) => e.item = exec[n].item /\ (Busy(exec[n]) \/ Begin(n))
  BY <1>1 DEF Moves
<1>3. \A m \in Nodes : /\ rec'[m] = IF m = n THEN r ELSE rec[m]
                       /\ exec'[m] = IF m = n THEN e ELSE exec[m]
  BY <1>2 DEF SetsRec, SetsExec
<1>4. ~up' => \A m \in Nodes : NoCron(rec'[m], exec'[m])
  BY <1>1, <1>2, <1>3 DEF LiveInv
<1>5. ASSUME NEW m \in Nodes, Busy(exec'[m]) PROVE Owns(m)'
  <2>1. exec'[m].item = exec[m].item /\ (Busy(exec[m]) \/ (m = n /\ Begin(n)))
    BY <1>2, <1>3, <1>5
  <2>2. CASE m = n /\ Begin(n)
    <3> DEFINE id == Id(n)
    <3>1. /\ id[1] \in Jobs /\ id[2] \in DOMAIN runs[id[1]]
          /\ IsPending(RowOf(id)) /\ RowOf(id).node = n
          /\ runs'[id[1]][id[2]] = Begins(RowOf(id))
      BY <2>2, BeginRows
    <3>2. RowOf(id) \in Run
      BY <3>1, TimeIsNat DEF RowOf
    <3>3. runs'[id[1]][id[2]].status = "running" /\ runs'[id[1]][id[2]].node = n
      BY <3>1, <3>2, BegunRow
    <3>4. exec'[n].item.trace = id
      BY <2>1, <2>2 DEF Id
    <3> QED BY <2>2, <3>3, <3>4, OwnsNext
  <2>3. CASE Busy(exec[m])
    <3> DEFINE id == Id(m)
    <3>1. /\ id[1] \in Jobs /\ id[2] \in DOMAIN runs[id[1]]
          /\ id = <<id[1], id[2]>>
          /\ runs[id[1]][id[2]].status \in {"running", "cancelled"}
          /\ runs[id[1]][id[2]].node = m
      BY <2>3, BusyRow
    <3>2. CASE Kept
      <4>1. runs'[id[1]][id[2]] = runs[id[1]][id[2]]
        BY <3>1, <3>2 DEF Kept, IsPending
      <4> QED BY <2>1, <2>3, <4>1, OtherOwns
    <3>3. CASE Depart(n)
      <4>1. \/ runs'[id[1]][id[2]] = runs[id[1]][id[2]]
            \/ runs'[id[1]][id[2]] = Cancelled(runs[id[1]][id[2]])
        BY <3>1, <3>3, DepartRows
      <4> QED BY <2>1, <2>3, <4>1, OtherOwns
    <3>4. CASE Finish(n)
      <4>1. exec'[n] = Idle /\ exec[n].pc = "finish" /\ Exists(Id(n)) /\ IsCron(n)
        BY <3>4, OfNode DEF Finish, At, QueueInv
      <4>2. m # n
        BY <1>5, <4>1 DEF Busy, Idle
      <4>3. runs[Id(n)[1]][Id(n)[2]].node = n
        BY <4>1, BusyRow DEF Busy, IsCron
      <4>4. id # Id(n)
        BY <3>1, <4>2, <4>3
      <4>5. runs'[id[1]][id[2]] = runs[id[1]][id[2]]
        BY <3>1, <3>4, <4>1, <4>4, FinishSettles
      <4> QED BY <2>1, <2>3, <4>5, OtherOwns
    <3> QED BY <1>1, <3>2, <3>3, <3>4
  <2> QED BY <2>1, <2>2, <2>3
<1>6. \A m \in Nodes : Busy(exec[m])' => Owns(m)'
  BY <1>5
<1> QED BY <1>4, <1>6 DEF LiveInv

LEMMA KeptLive ==
  ASSUME TableInv, QueueInv, LiveInv, Kept, exec' = exec,
         ~up' => \A m \in Nodes : NoCron(rec'[m], exec'[m])
  PROVE  LiveInv'
<1>1. ASSUME NEW m \in Nodes, Busy(exec[m]) PROVE Owns(m)'
  <2>1. runs'[Id(m)[1]][Id(m)[2]] = runs[Id(m)[1]][Id(m)[2]]
    BY <1>1, BusyRow DEF Kept, IsPending
  <2> QED BY <1>1, <2>1, OtherOwns
<1>2. \A m \in Nodes : Busy(exec[m])' => Owns(m)'
  BY <1>1
<1> QED BY <1>2 DEF LiveInv

LEMMA StepLive ==
  ASSUME Checkpoints = FALSE, TableInv, QueueInv, LiveInv, [Next]_vars
  PROVE  LiveInv'
<1>1. CASE Poller
  BY <1>1, PollStep, KeptLive
<1>2. ASSUME NEW n \in Nodes, Executor(n) \/ NodeCommand(n) PROVE LiveInv'
  BY <1>2, NodeStepLive
<1>3. ASSUME NEW j \in Jobs, JobCommand(j) PROVE LiveInv'
  <2>1. Kept /\ UNCHANGED <<up, rec, exec>>
    BY <1>3, JobStep
  <2>2. ~up' => \A m \in Nodes : NoCron(rec'[m], exec'[m])
    BY <2>1 DEF LiveInv
  <2> QED BY <2>1, <2>2, KeptLive
<1>4. CASE Tick \/ UNCHANGED vars
  <2>1. UNCHANGED <<runs, up, rec, exec>>
    BY <1>4 DEF Tick, vars
  <2>2. ~up' => \A m \in Nodes : NoCron(rec'[m], exec'[m])
    BY <2>1 DEF LiveInv
  <2> QED BY <2>1, <2>2, UnchangedKept, KeptLive
<1>5. CASE Crash
  <2>1. \A m \in Nodes : rec'[m] = FreshRuntime /\ exec'[m] = Idle
    BY <1>5, CrashRecords
  <2>2. \A m \in Nodes : NoCron(rec'[m], exec'[m]) /\ ~Busy(exec'[m])
    BY <2>1, FreshOK DEF Busy, Idle
  <2> QED BY <2>2 DEF LiveInv
<1>6. CASE Start
  <2>1. ~up /\ up' = TRUE /\ exec' = exec
    BY <1>6 DEF Start
  <2>2. \A m \in Nodes : ~Busy(exec'[m])
    BY <2>1 DEF LiveInv, NoCron, Busy
  <2> QED BY <2>1, <2>2 DEF LiveInv
<1> QED BY <1>1, <1>2, <1>3, <1>4, <1>5, <1>6 DEF Next

-----------------------------------------------------------------------------
(* Theorems                                                                *)

\* The tables and the queues stay in order in every execution.
THEOREM CronInvariants == Spec => [](TableInv /\ QueueInv)
<1>1. Init => TableInv /\ QueueInv
  BY InitHolds
<1>2. (TableInv /\ QueueInv) /\ [Next]_vars => (TableInv /\ QueueInv)'
  BY StepHolds
<1> QED BY <1>1, <1>2, PTL DEF Spec

\* The tables, the records and the poller's list are well formed.
THEOREM CronTypes == Spec => []CronTypeOK
<1>1. TableInv /\ QueueInv => CronTypeOK
  BY DEF TableInv, TableType, QueueInv, PollType, CronTypeOK
<1> QED BY <1>1, CronInvariants, PTL

\* Whatever is edited, paused, deleted or replayed, a job never has two runs
\* that wait or run.
THEOREM RunsDoNotPileUp == Spec => []OneActiveRun
<1>1. TableInv /\ QueueInv => OneActiveRun
  BY DEF TableInv
<1> QED BY <1>1, CronInvariants, PTL

\* Whatever schedule a job has and however many deadlines were missed, its
\* next deadline lies after every one it was run for.
THEOREM DeadlinesAdvance == Spec => []DeadlineAhead
<1>1. TableInv /\ QueueInv => DeadlineAhead
  BY DEF TableInv
<1> QED BY <1>1, CronInvariants, PTL

\* A run that waits has the content of its job, and none waits for a job that
\* was paused or deleted, unless a restart put it back.
THEOREM EditsReach == Spec => []EditsReachPending
<1>1. TableInv /\ QueueInv => EditsReachPending
  BY DEF TableInv
<1> QED BY <1>1, CronInvariants, PTL

\* A run is begun at most once per life of the backend, restored checkpoints
\* and stale queues included.
THEOREM RunsBeginOnce == Spec => []BegunOncePerLife
<1>1. ASSUME TableInv PROVE BegunOncePerLife
  <2> SUFFICES ASSUME NEW j \in Jobs, NEW k \in DOMAIN runs[j]
               PROVE  runs[j][k].begins <= 1 + crashes
    BY DEF BegunOncePerLife
  <2>1. runs[j][k].begins <= Budget
    BY <1>1 DEF TableInv, BeginsLeft
  <2>2. runs[j][k].begins \in Nat /\ crashes \in Nat
    BY <1>1, TimeIsNat DEF Run
  <2> QED BY <2>1, <2>2 DEF Budget
<1> QED BY <1>1, CronInvariants, PTL

\* The poller's deliveries never put a run beside itself in a queue, nor
\* beside the executor that has it.
THEOREM RunsQueueOnce == Spec => []RunQueuedOnce
<1>1. QueueInv => RunQueuedOnce
  BY DEF QueueInv, RecordOK, QueuedOnce, RunQueuedOnce
<1> QED BY <1>1, CronInvariants, PTL

\* Nothing changes a run that completed, failed or was cancelled.
THEOREM SettledRunsStay == Spec => SettledForEver
<1>1. TableInv /\ QueueInv /\ [Next]_vars =>
        [\A j \in Jobs : \A k \in DOMAIN runs[j] :
           runs[j][k].status \in Terminal => runs'[j][k] = runs[j][k]]_vars
  BY StepHolds DEF Settles
<1> QED BY <1>1, CronInvariants, PTL DEF Spec, SettledForEver

\* Without restored checkpoints the executor of a begun run owns its row until
\* finish_run: it says running, or cancelled once the node departed.  (With
\* them a restored copy may be begun before recover_interrupted, which then
\* takes the row from under it.)
THEOREM LiveRunsRun ==
  ASSUME Checkpoints = FALSE PROVE Spec => []LiveRunIsRunning
<1>1. Init => LiveInv
  <2> SUFFICES ASSUME Init PROVE LiveInv
    OBVIOUS
  <2>1. up /\ \A n \in Nodes : exec[n] = Idle
    BY DEF Init
  <2> QED BY <2>1 DEF LiveInv, Busy, Idle
<1>2. TableInv /\ QueueInv /\ LiveInv /\ [Next]_vars => LiveInv'
  BY StepLive
<1>3. LiveInv => LiveRunIsRunning
  BY DEF LiveInv, LiveRunIsRunning, Busy, Owns, IsCron
<1> QED BY <1>1, <1>2, <1>3, CronInvariants, PTL DEF Spec
=============================================================================
