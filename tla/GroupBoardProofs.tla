-------------------------- MODULE GroupBoardProofs ---------------------------
(***************************************************************************)
(* For any nodes, groups and tasks and any number of operations: the       *)
(* tables of the group store stay well formed, the index of members and    *)
(* the documents agree, and every live document is led by a member, gives  *)
(* its unfinished tasks to members only and has no finished task that      *)
(* rests on an unfinished one; no task depends on itself; every change of  *)
(* a task raises its revision.                                             *)
(*                                                                         *)
(* What a document promises is proved of each change of one document       *)
(* (sections 1 and 2), then carried over to the steps of the store.        *)
(***************************************************************************)
EXTENDS GroupBoard, TLAPS

TaskTable == [Tasks -> Task \cup {NoTask}]

LeaderOK(d) ==
  IF d.members = {} THEN d.leader = NoOne ELSE d.leader \in d.members

OwnersOK(d) ==
  \A t \in Tasks : d.tasks[t] # NoTask =>
    /\ d.tasks[t].status # "done" => d.tasks[t].owner \in d.members \cup {NoOne}
    /\ d.tasks[t].status \in {"in_progress", "done"} => d.tasks[t].owner # NoOne

DoneOK(d) ==
  \A t \in Tasks : d.tasks[t] # NoTask /\ d.tasks[t].status = "done" =>
    \A u \in d.tasks[t].deps : d.tasks[u].status = "done"

DepsKnown(d) ==
  \A t \in Tasks : d.tasks[t] # NoTask =>
    \A u \in d.tasks[t].deps : d.tasks[u] # NoTask

\* Tasks of T are still in U, as they were or with a larger revision.
Newer(T, U) ==
  \A t \in Tasks : T[t] # NoTask =>
    U[t] # NoTask /\ (U[t] = T[t] \/ U[t].rev > T[t].rev)

DocumentOK(d) == LeaderOK(d) /\ OwnersOK(d) /\ DoneOK(d) /\ DepsKnown(d)

\* An undo entry holds unfinished tasks of its node.
SnapshotsLost ==
  \A s \in saved : \A t \in Tasks : s.tasks[t] # NoTask =>
    s.tasks[t].owner = s.node /\ s.tasks[t].status # "done"

\* ... whose dependencies its group still has.
SnapshotsKnown ==
  \A s \in saved : s.group # NoOne => \A t \in Tasks : s.tasks[t] # NoTask =>
    /\ group[s.group] # NoGroup
    /\ \A u \in s.tasks[t].deps : group[s.group].tasks[u] # NoTask

BoardInv ==
  /\ BoardTypeOK /\ IndexAgrees /\ SnapshotsLost /\ SnapshotsKnown
  /\ \A g \in Groups : Live(g) => DocumentOK(group[g])

-----------------------------------------------------------------------------
(* 1. Types                                                                *)

LEMMA ReleasedType ==
  ASSUME NEW d \in Group, NEW L
  PROVE  Released(d, L) \in TaskTable
<1>1. ASSUME NEW t \in Tasks, t \in Unfinished(d, L)
      PROVE  [owner |-> NoOne, status |-> "blocked", deps |-> d.tasks[t].deps,
              rev |-> d.tasks[t].rev + 1] \in Task
  <2>1. d.tasks[t] \in Task
    BY <1>1 DEF Unfinished, Group
  <2> QED BY <2>1 DEF Task, Status
<1>2. ASSUME NEW t \in Tasks PROVE d.tasks[t] \in Task \cup {NoTask}
  BY DEF Group
<1> QED BY <1>1, <1>2 DEF Released, TaskTable

LEMMA DetachedType ==
  ASSUME NEW d \in Group, NEW L, NEW leader \in Nodes \cup {NoOne}
  PROVE  Detached(d, L, leader) \in Group
<1>1. Released(d, L) \in TaskTable
  BY ReleasedType
<1> QED BY <1>1 DEF Detached, Group, TaskTable

LEMMA DetachedFields ==
  ASSUME NEW d \in Group, NEW L, NEW leader
  PROVE  /\ Detached(d, L, leader).members = d.members \ L
         /\ Detached(d, L, leader).dissolved = d.dissolved
BY DEF Detached, Group

LEMMA JoinedFields ==
  ASSUME NEW d \in Group, NEW n
  PROVE  /\ Joined(d, n).members = d.members \cup {n}
         /\ Joined(d, n).dissolved = d.dissolved
BY DEF Joined, Group

LEMMA JoinedType ==
  ASSUME NEW d \in Group, NEW n \in Nodes
  PROVE  Joined(d, n) \in Group /\ Joined(d, n).tasks = d.tasks
<1>1. Joined(d, n) \in Group
  BY DEF Joined, Group
<1>2. Joined(d, n).tasks = d.tasks
  BY DEF Joined, Group
<1> QED BY <1>1, <1>2

LEMMA RestoredType ==
  ASSUME NEW d \in Group, NEW s \in Snapshot, PutBack(d, s) \in TaskTable
  PROVE  Restored(d, s) \in Group /\ Restored(d, s).tasks = PutBack(d, s)
<1>1. Joined(d, s.node) \in Group
  BY JoinedType DEF Snapshot
<1>2. Restored(d, s) \in Group
  BY <1>1 DEF Restored, Group, TaskTable
<1>3. Restored(d, s).tasks = PutBack(d, s)
  BY <1>1 DEF Restored, Group
<1> QED BY <1>2, <1>3

LEMMA PutBackType ==
  ASSUME NEW d \in Group, NEW s \in Snapshot, Untouched(d, s)
  PROVE  PutBack(d, s) \in TaskTable
<1>1. ASSUME NEW t \in Tasks, s.tasks[t] # NoTask
      PROVE  [s.tasks[t] EXCEPT !.rev = d.tasks[t].rev + 1] \in Task
  <2>1. s.tasks[t] \in Task /\ d.tasks[t].rev = s.tasks[t].rev + 1
    BY <1>1 DEF Snapshot, Untouched
  <2> QED BY <2>1 DEF Task
<1>2. ASSUME NEW t \in Tasks PROVE d.tasks[t] \in Task \cup {NoTask}
  BY DEF Group
<1> QED BY <1>1, <1>2 DEF PutBack, TaskTable

LEMMA InitType == Init => BoardTypeOK
BY DEF Init, BoardTypeOK, Group

LEMMA NextType == BoardTypeOK /\ [Next]_vars => BoardTypeOK'
<1> SUFFICES ASSUME BoardTypeOK, [Next]_vars PROVE BoardTypeOK'
  OBVIOUS
<1> USE DEF BoardTypeOK
<1>1. ASSUME NEW g \in Groups, NEW M \in SUBSET Nodes, NEW n \in M, Create(g, M, n)
      PROVE  BoardTypeOK'
  BY <1>1 DEF Create, Command, Group
<1>2. ASSUME NEW g \in Groups, NEW M \in SUBSET Nodes, Resize(g, M)
      PROVE  BoardTypeOK'
  <2> DEFINE leavers == group[g].members \ M
  <2>1. group[g] \in Group
    BY <1>2 DEF Resize, Live
  <2>2. PICK leader \in Nodes \cup {NoOne} :
          group' = [group EXCEPT ![g] = [Detached(@, leavers, leader) EXCEPT !.members = M]]
    BY <1>2 DEF Resize
  <2>3. Detached(group[g], leavers, leader) \in Group
    BY <2>1, DetachedType
  <2>4. [Detached(group[g], leavers, leader) EXCEPT !.members = M] \in Group
    BY <2>3 DEF Group
  <2>5. group' \in [Groups -> Group \cup {NoGroup}]
    BY <2>2, <2>4
  <2>6. home' \in [Nodes -> Groups \cup {NoOne}] /\ UNCHANGED <<present, saved>>
        /\ commands' \in Nat
    BY <1>2 DEF Resize, Command
  <2> QED BY <2>5, <2>6
<1>3. ASSUME NEW g \in Groups, NEW n \in Nodes, SetLeader(g, n)
      PROVE  BoardTypeOK'
  BY <1>3 DEF SetLeader, Command, Group, Live
<1>4. ASSUME NEW n \in Nodes, NEW target \in Groups \cup {NoOne}, Move(n, target)
      PROVE  BoardTypeOK'
  <2>1. PICK leader \in Nodes \cup {NoOne} :
          group' = [g \in Groups |->
            IF g = home[n] THEN Detached(group[g], {n}, leader)
            ELSE IF g = target THEN Joined(group[g], n) ELSE group[g]]
    BY <1>4 DEF Move
  <2>2. ASSUME NEW g \in Groups, g = home[n] PROVE Detached(group[g], {n}, leader) \in Group
    <3>1. group[g] \in Group
      BY <1>4, <2>2, BoardAssumption DEF Move, Live
    <3> QED BY <3>1, DetachedType
  <2>3. ASSUME NEW g \in Groups, g = target PROVE Joined(group[g], n) \in Group
    <3>1. group[g] \in Group
      BY <1>4, <2>3, BoardAssumption DEF Move, Live
    <3> QED BY <3>1 DEF Group, Joined
  <2>4. group' \in [Groups -> Group \cup {NoGroup}]
    BY <2>1, <2>2, <2>3
  <2>5. home' = [home EXCEPT ![n] = target] /\ UNCHANGED <<present, saved>>
        /\ commands' = commands + 1
    BY <1>4 DEF Move, Command
  <2> QED BY <2>4, <2>5
<1>5. ASSUME NEW g \in Groups, Dissolve(g) PROVE BoardTypeOK'
  <2>1. group[g] \in Group
    BY <1>5 DEF Dissolve, Live
  <2>2. group' \in [Groups -> Group \cup {NoGroup}]
    <3>1. [group[g] EXCEPT !.dissolved = TRUE] \in Group
      BY <2>1 DEF Group
    <3> QED BY <1>5, <3>1 DEF Dissolve
  <2>3. home' \in [Nodes -> Groups \cup {NoOne}] /\ UNCHANGED <<present, saved>>
        /\ commands' \in Nat
    BY <1>5 DEF Dissolve, Command
  <2> QED BY <2>2, <2>3
<1>6. ASSUME NEW g \in Groups, NEW t \in Tasks, NEW actor \in Nodes \cup {NoOne},
             NEW owner \in Nodes \cup {NoOne}, NEW deps \in SUBSET Tasks,
             CreateTask(g, t, actor, owner, deps)
      PROVE  BoardTypeOK'
  <2>1. NewTask(owner, deps) \in Task
    BY DEF NewTask, Task, Status
  <2>2. group[g] \in Group
    BY <1>6 DEF CreateTask, Live
  <2> QED BY <1>6, <2>1, <2>2 DEF CreateTask, Command, Group
<1>7. ASSUME NEW g \in Groups, NEW t \in Tasks, NEW actor \in Nodes \cup {NoOne},
             NEW owner \in Nodes \cup {NoOne}, NEW deps \in SUBSET Tasks,
             NEW status \in Status, UpdateTask(g, t, actor, owner, status, deps)
      PROVE  BoardTypeOK'
  <2>1. group[g] \in Group
    BY <1>7 DEF UpdateTask, Live
  <2>2. group[g].tasks[t] \in Task
    BY <1>7, <2>1 DEF UpdateTask, Group
  <2>3. [owner |-> owner, status |-> status, deps |-> deps,
         rev |-> group[g].tasks[t].rev + 1] \in Task
    BY <2>2 DEF Task
  <2> QED BY <1>7, <2>1, <2>3 DEF UpdateTask, Command, Group
<1>8. ASSUME NEW n \in Nodes, Appear(n) PROVE BoardTypeOK'
  BY <1>8 DEF Appear, Command
<1>9. ASSUME NEW n \in Nodes, NEW deleted \in BOOLEAN, Depart(n, deleted)
      PROVE  BoardTypeOK'
  <2> DEFINE g == home[n]
             lost == [t \in Tasks |-> IF g # NoOne /\ t \in Unfinished(group[g], {n})
                                      THEN group[g].tasks[t] ELSE NoTask]
  <2>1. g # NoOne => g \in Groups /\ group[g] \in Group
    BY <1>9 DEF Depart, Live
  <2>2. ASSUME NEW t \in Tasks PROVE lost[t] \in Task \cup {NoTask}
    BY <2>1 DEF Group
  <2>3. lost \in TaskTable
    BY <2>2 DEF TaskTable
  <2>4. saved' \subseteq Snapshot
    <3>1. [node |-> n, group |-> g, tasks |-> lost] \in Snapshot
      BY <2>3 DEF Snapshot, TaskTable
    <3> QED BY <1>9, <3>1 DEF Depart
  <2>5. group' \in [Groups -> Group \cup {NoGroup}]
    <3>1. CASE g = NoOne
      BY <1>9, <3>1 DEF Depart
    <3>2. CASE g # NoOne
      <4>1. PICK leader \in Nodes \cup {NoOne} :
              group' = [group EXCEPT ![g] = Detached(@, {n}, leader)]
        BY <1>9, <3>2 DEF Depart
      <4>2. Detached(group[g], {n}, leader) \in Group
        BY <2>1, <3>2, DetachedType
      <4> QED BY <4>1, <4>2, <2>1, <3>2
    <3> QED BY <3>1, <3>2
  <2>6. home' \in [Nodes -> Groups \cup {NoOne}] /\ present' \subseteq Nodes
        /\ commands' \in Nat
    BY <1>9 DEF Depart, Command
  <2> QED BY <2>4, <2>5, <2>6
<1>10. ASSUME NEW s \in saved, Restore(s) PROVE BoardTypeOK'
  <2>1. s \in Snapshot
    OBVIOUS
  <2>2. group' \in [Groups -> Group \cup {NoGroup}]
    <3>1. CASE s.group = NoOne
      BY <1>10, <3>1 DEF Restore
    <3>2. CASE s.group # NoOne
      <4>1. s.group \in Groups /\ group[s.group] \in Group
        BY <1>10, <2>1, <3>2 DEF Restore, Live, Snapshot
      <4>2. PutBack(group[s.group], s) \in TaskTable
        BY <1>10, <2>1, <3>2, <4>1, PutBackType DEF Restore
      <4>3. Restored(group[s.group], s) \in Group
        BY <2>1, <4>1, <4>2 DEF Restored, Joined, Group, TaskTable, Snapshot
      <4> QED BY <1>10, <3>2, <4>1, <4>3 DEF Restore
    <3> QED BY <3>1, <3>2
  <2>3. home' \in [Nodes -> Groups \cup {NoOne}]
    BY <1>10, <2>1 DEF Restore, Snapshot
  <2> QED BY <1>10, <2>1, <2>2, <2>3 DEF Restore, Command, Snapshot
<1>11. CASE UNCHANGED vars
  BY <1>11 DEF vars
<1> QED
  BY <1>1, <1>2, <1>3, <1>4, <1>5, <1>6, <1>7, <1>8, <1>9, <1>10, <1>11
     DEF Next, Membership, TaskEdits, NodeChanges

-----------------------------------------------------------------------------
(* 2. What a change does to a document                                     *)

LEMMA LeadsOK ==
  ASSUME NEW d, NEW M, NEW leader, Leads(d, M, leader)
  PROVE  IF M = {} THEN leader = NoOne ELSE leader \in M
BY DEF Leads

LEMMA DetachedOK ==
  ASSUME NEW d \in Group, DocumentOK(d), NEW L, NEW leader,
         NEW M, d.members \ L \subseteq M,
         IF M = {} THEN leader = NoOne ELSE leader \in M,
         NEW e, e.members = M, e.leader = leader, e.tasks = Released(d, L)
  PROVE  DocumentOK(e)
<1>1. ASSUME NEW t \in Tasks, t \in Unfinished(d, L)
      PROVE  /\ d.tasks[t] # NoTask /\ d.tasks[t].status # "done"
             /\ e.tasks[t] # NoTask /\ e.tasks[t].deps = d.tasks[t].deps
             /\ e.tasks[t].owner = NoOne /\ e.tasks[t].status = "blocked"
  <2>1. d.tasks[t] \in Task /\ d.tasks[t].status # "done"
    BY <1>1 DEF Unfinished, Group
  <2>2. e.tasks[t] = [owner |-> NoOne, status |-> "blocked", deps |-> d.tasks[t].deps,
                      rev |-> d.tasks[t].rev + 1]
    BY <1>1 DEF Released
  <2>3. e.tasks[t] \in Task
    BY <2>1, <2>2 DEF Task, Status
  <2> QED BY <2>1, <2>2, <2>3, NoTaskAssumption
<1>2. ASSUME NEW t \in Tasks, t \notin Unfinished(d, L)
      PROVE  e.tasks[t] = d.tasks[t]
  BY <1>2 DEF Released
<1>3. ASSUME NEW t \in Tasks, e.tasks[t] # NoTask
      PROVE  d.tasks[t] \in Task /\ e.tasks[t].deps = d.tasks[t].deps
  BY <1>1, <1>2, <1>3 DEF Group
<1>4. LeaderOK(e)
  BY DEF LeaderOK
<1>5. OwnersOK(e)
  <2> SUFFICES ASSUME NEW t \in Tasks, e.tasks[t] # NoTask
               PROVE  /\ e.tasks[t].status # "done" => e.tasks[t].owner \in M \cup {NoOne}
                      /\ e.tasks[t].status \in {"in_progress", "done"} => e.tasks[t].owner # NoOne
    BY DEF OwnersOK
  <2>1. CASE t \in Unfinished(d, L)
    BY <1>1, <2>1
  <2>2. CASE t \notin Unfinished(d, L)
    BY <1>2, <2>2 DEF DocumentOK, OwnersOK, Unfinished
  <2> QED BY <2>1, <2>2
<1>6. DoneOK(e)
  <2> SUFFICES ASSUME NEW t \in Tasks, e.tasks[t] # NoTask, e.tasks[t].status = "done",
                      NEW u \in e.tasks[t].deps
               PROVE  e.tasks[u].status = "done"
    BY DEF DoneOK
  <2>1. t \notin Unfinished(d, L)
    BY <1>1
  <2>2. d.tasks[t] \in Task /\ e.tasks[t] = d.tasks[t]
    BY <1>2, <1>3, <2>1
  <2>3. u \in Tasks /\ d.tasks[u].status = "done"
    BY <2>2, NoTaskAssumption DEF DocumentOK, DoneOK, Task
  <2> QED BY <1>1, <1>2, <2>3
<1>7. DepsKnown(e)
  <2> SUFFICES ASSUME NEW t \in Tasks, e.tasks[t] # NoTask, NEW u \in e.tasks[t].deps
               PROVE  e.tasks[u] # NoTask
    BY DEF DepsKnown
  <2>1. u \in Tasks /\ d.tasks[u] # NoTask
    BY <1>3, NoTaskAssumption DEF DocumentOK, DepsKnown, Task
  <2> QED BY <1>1, <1>2, <2>1
<1> QED BY <1>4, <1>5, <1>6, <1>7 DEF DocumentOK

\* A member joins, and tasks T replace the old ones.
LEMMA JoinedOK ==
  ASSUME NEW d \in Group, DocumentOK(d), NEW n \in Nodes
  PROVE  DocumentOK(Joined(d, n))
<1>1. /\ Joined(d, n).members = d.members \cup {n}
      /\ Joined(d, n).leader = IF d.leader = NoOne THEN n ELSE d.leader
      /\ Joined(d, n).tasks = d.tasks
  BY DEF Joined, Group
<1>2. LeaderOK(Joined(d, n))
  BY <1>1, BoardAssumption DEF DocumentOK, LeaderOK
<1>3. OwnersOK(Joined(d, n)) /\ DoneOK(Joined(d, n)) /\ DepsKnown(Joined(d, n))
  BY <1>1 DEF DocumentOK, OwnersOK, DoneOK, DepsKnown
<1> QED BY <1>2, <1>3 DEF DocumentOK

\* One task is made or replaced.
LEMMA EditedOK ==
  ASSUME NEW d \in Group, DocumentOK(d), NEW t \in Tasks, NEW new \in Task, NEW T,
         T = [d.tasks EXCEPT ![t] = new], Valid(d, T, t),
         d.tasks[t] = NoTask \/ MayReopen(d.tasks, t, new.status)
  PROVE  DocumentOK([d EXCEPT !.tasks = T])
<1> DEFINE e == [d EXCEPT !.tasks = T]
<1>1. e.members = d.members /\ e.leader = d.leader /\ e.tasks = T
  BY DEF Group
<1>2. T[t] = new /\ new # NoTask /\ \A u \in Tasks \ {t} : T[u] = d.tasks[u]
  BY NoTaskAssumption DEF Group
<1>3. /\ new.owner \in d.members \cup {NoOne}
      /\ \A u \in new.deps : T[u] # NoTask
      /\ new.status \in {"in_progress", "done"} =>
           new.owner # NoOne /\ \A u \in new.deps : T[u].status = "done"
  BY <1>2 DEF Valid, Finished
<1> HIDE DEF e
<1>4. LeaderOK(e)
  BY <1>1 DEF DocumentOK, LeaderOK
<1>5. OwnersOK(e)
  BY <1>1, <1>2, <1>3 DEF DocumentOK, OwnersOK
<1>6. DoneOK(e)
  <2> SUFFICES ASSUME NEW u \in Tasks, T[u] # NoTask, T[u].status = "done",
                      NEW v \in T[u].deps
               PROVE  T[v].status = "done"
    BY <1>1 DEF DoneOK
  <2>1. CASE u = t
    BY <1>2, <1>3, <2>1
  <2>2. CASE u # t
    <3>1. d.tasks[u] \in Task /\ T[u] = d.tasks[u]
      BY <1>2, <2>2 DEF Group
    <3>2. v \in Tasks /\ d.tasks[v] # NoTask /\ d.tasks[v].status = "done"
      BY <3>1, NoTaskAssumption DEF DocumentOK, DoneOK, DepsKnown, Task
    <3>3. CASE v # t
      BY <1>2, <3>2, <3>3
    <3>4. CASE v = t
      BY <1>2, <3>1, <3>2, <3>4 DEF MayReopen
    <3> QED BY <3>3, <3>4
  <2> QED BY <2>1, <2>2
<1>7. DepsKnown(e)
  <2> SUFFICES ASSUME NEW u \in Tasks, T[u] # NoTask, NEW v \in T[u].deps
               PROVE  T[v] # NoTask
    BY <1>1 DEF DepsKnown
  <2>1. CASE u = t
    BY <1>2, <1>3, <2>1
  <2>2. CASE u # t
    <3>1. d.tasks[u] \in Task /\ T[u] = d.tasks[u]
      BY <1>2, <2>2 DEF Group
    <3>2. v \in Tasks /\ d.tasks[v] # NoTask
      BY <3>1, NoTaskAssumption DEF DocumentOK, DepsKnown, Task
    <3> QED BY <1>2, <3>2
  <2> QED BY <2>1, <2>2
<1> QED BY <1>4, <1>5, <1>6, <1>7 DEF DocumentOK, e

\* A deleted member comes back with its tasks.
LEMMA RestoredOK ==
  ASSUME NEW d \in Group, DocumentOK(d), NEW s \in Snapshot, Untouched(d, s),
         \A t \in Tasks : s.tasks[t] # NoTask =>
           /\ s.tasks[t].owner = s.node /\ s.tasks[t].status # "done"
           /\ \A u \in s.tasks[t].deps : d.tasks[u] # NoTask
  PROVE  DocumentOK(Restored(d, s))
<1> DEFINE e == Restored(d, s)
           T == PutBack(d, s)
<1>1. /\ Joined(d, s.node).members = d.members \cup {s.node}
      /\ e.members = Joined(d, s.node).members
      /\ e.leader = Joined(d, s.node).leader /\ e.tasks = T
  BY DEF Joined, Group, Restored
<1>2. DocumentOK(Joined(d, s.node))
  BY JoinedOK DEF Snapshot
<1>3. ASSUME NEW t \in Tasks, s.tasks[t] # NoTask
      PROVE  /\ T[t] # NoTask /\ T[t].owner = s.node /\ T[t].status # "done"
             /\ T[t].deps = s.tasks[t].deps /\ d.tasks[t].status = "blocked"
  <2>1. s.tasks[t] \in Task /\ d.tasks[t].rev = s.tasks[t].rev + 1
        /\ d.tasks[t].status = "blocked"
    BY <1>3 DEF Snapshot, Untouched
  <2>2. T[t] = [s.tasks[t] EXCEPT !.rev = d.tasks[t].rev + 1]
    BY <1>3 DEF PutBack
  <2>3. T[t] \in Task /\ T[t].owner = s.tasks[t].owner
        /\ T[t].status = s.tasks[t].status /\ T[t].deps = s.tasks[t].deps
    BY <2>1, <2>2 DEF Task
  <2> QED BY <1>3, <2>1, <2>3, NoTaskAssumption
<1>4. ASSUME NEW t \in Tasks, s.tasks[t] = NoTask PROVE T[t] = d.tasks[t]
  BY <1>4 DEF PutBack
<1> HIDE DEF e, T
<1>5. LeaderOK(e)
  BY <1>1, <1>2 DEF DocumentOK, LeaderOK
<1>6. OwnersOK(e)
  <2> SUFFICES ASSUME NEW t \in Tasks, T[t] # NoTask
               PROVE  /\ T[t].status # "done" => T[t].owner \in e.members \cup {NoOne}
                      /\ T[t].status \in {"in_progress", "done"} => T[t].owner # NoOne
    BY <1>1 DEF OwnersOK
  <2>1. CASE s.tasks[t] = NoTask
    BY <1>1, <1>4, <2>1 DEF DocumentOK, OwnersOK
  <2>2. CASE s.tasks[t] # NoTask
    BY <1>1, <1>3, <2>2, BoardAssumption DEF Snapshot
  <2> QED BY <2>1, <2>2
<1>7. DoneOK(e)
  <2> SUFFICES ASSUME NEW t \in Tasks, T[t] # NoTask, T[t].status = "done",
                      NEW u \in T[t].deps
               PROVE  T[u].status = "done"
    BY <1>1 DEF DoneOK
  <2>1. T[t] = d.tasks[t] /\ d.tasks[t] \in Task
    BY <1>3, <1>4 DEF Group
  <2>2. u \in Tasks /\ d.tasks[u].status = "done"
    BY <2>1 DEF DocumentOK, DoneOK, Task
  <2> QED BY <1>3, <1>4, <2>2
<1>8. DepsKnown(e)
  <2> SUFFICES ASSUME NEW t \in Tasks, T[t] # NoTask, NEW u \in T[t].deps
               PROVE  T[u] # NoTask
    BY <1>1 DEF DepsKnown
  <2>1. u \in Tasks /\ d.tasks[u] # NoTask
    <3>1. CASE s.tasks[t] = NoTask
      BY <1>4, <3>1 DEF DocumentOK, DepsKnown, Task, Group
    <3>2. CASE s.tasks[t] # NoTask
      BY <1>3, <3>2 DEF Snapshot, Task
    <3> QED BY <3>1, <3>2
  <2> QED BY <1>3, <1>4, <2>1
<1> QED BY <1>5, <1>6, <1>7, <1>8 DEF DocumentOK, e

LEMMA ReleasedNewer ==
  ASSUME NEW d \in Group, NEW L
  PROVE  Newer(d.tasks, Released(d, L))
<1> SUFFICES ASSUME NEW t \in Tasks, d.tasks[t] # NoTask
             PROVE  LET U == Released(d, L) IN
                    U[t] # NoTask /\ (U[t] = d.tasks[t] \/ U[t].rev > d.tasks[t].rev)
  BY DEF Newer
<1>1. d.tasks[t] \in Task
  BY DEF Group
<1>2. CASE t \notin Unfinished(d, L)
  BY <1>2 DEF Released
<1>3. CASE t \in Unfinished(d, L)
  <2>1. Released(d, L)[t] = [owner |-> NoOne, status |-> "blocked", deps |-> d.tasks[t].deps,
                             rev |-> d.tasks[t].rev + 1]
    BY <1>3 DEF Released
  <2>2. Released(d, L)[t] \in Task /\ Released(d, L)[t].rev > d.tasks[t].rev
    BY <1>1, <2>1 DEF Task, Status
  <2> QED BY <2>2, NoTaskAssumption
<1> QED BY <1>2, <1>3

LEMMA PutBackNewer ==
  ASSUME NEW d \in Group, NEW s \in Snapshot
  PROVE  Newer(d.tasks, PutBack(d, s))
<1> SUFFICES ASSUME NEW t \in Tasks, d.tasks[t] # NoTask
             PROVE  LET U == PutBack(d, s) IN
                    U[t] # NoTask /\ (U[t] = d.tasks[t] \/ U[t].rev > d.tasks[t].rev)
  BY DEF Newer
<1>1. d.tasks[t] \in Task
  BY DEF Group
<1>2. CASE s.tasks[t] = NoTask
  BY <1>2 DEF PutBack
<1>3. CASE s.tasks[t] # NoTask
  <2>1. PutBack(d, s)[t] = [s.tasks[t] EXCEPT !.rev = d.tasks[t].rev + 1]
        /\ s.tasks[t] \in Task
    BY <1>3 DEF PutBack, Snapshot
  <2>2. PutBack(d, s)[t] \in Task /\ PutBack(d, s)[t].rev > d.tasks[t].rev
    BY <1>1, <2>1 DEF Task
  <2> QED BY <2>2, NoTaskAssumption
<1> QED BY <1>2, <1>3

-----------------------------------------------------------------------------
(* 3. The steps of the store                                               *)

\* What a step owes to the document of group g.
Good(g) ==
  /\ group[g] # NoGroup =>
       group'[g] # NoGroup /\ Newer(group[g].tasks, group'[g].tasks)
  /\ Live(g)' => DocumentOK(group'[g])

LEMMA SameGood ==
  ASSUME BoardInv, NEW g \in Groups, group'[g] = group[g]
  PROVE  Good(g)
BY DEF Good, BoardInv, Newer, Live

LEMMA DetachedGood ==
  ASSUME NEW g \in Groups, group[g] \in Group, DocumentOK(group[g]),
         NEW n \in Nodes, NEW leader \in Nodes \cup {NoOne},
         Leads(group[g], group[g].members \ {n}, leader),
         group'[g] = Detached(group[g], {n}, leader)
  PROVE  Good(g)
<1>1. /\ group'[g].members = group[g].members \ {n} /\ group'[g].leader = leader
      /\ group'[g].tasks = Released(group[g], {n})
  BY DEF Detached, Group
<1>2. group'[g] \in Group
  BY DetachedType
<1>3. IF group[g].members \ {n} = {} THEN leader = NoOne ELSE leader \in group[g].members \ {n}
  BY LeadsOK
<1>4. DocumentOK(group'[g])
  BY <1>1, <1>3, DetachedOK
<1>5. Newer(group[g].tasks, group'[g].tasks)
  BY <1>1, ReleasedNewer
<1> QED BY <1>2, <1>4, <1>5, NoGroupAssumption DEF Good

LEMMA EditedGood ==
  ASSUME group \in [Groups -> Group \cup {NoGroup}],
         NEW g \in Groups, group[g] \in Group, DocumentOK(group[g]),
         NEW t \in Tasks, NEW new \in Task,
         Valid(group[g], [group[g].tasks EXCEPT ![t] = new], t),
         \/ group[g].tasks[t] = NoTask
         \/ /\ MayReopen(group[g].tasks, t, new.status)
            /\ new.rev > group[g].tasks[t].rev,
         group' = [group EXCEPT ![g].tasks = [group[g].tasks EXCEPT ![t] = new]]
  PROVE  Good(g)
<1> DEFINE T == [group[g].tasks EXCEPT ![t] = new]
<1>1. T \in TaskTable
  BY DEF Group, TaskTable
<1>2. group'[g] = [group[g] EXCEPT !.tasks = T]
  OBVIOUS
<1>3. group'[g] \in Group /\ group'[g].tasks = T
  BY <1>1, <1>2 DEF Group, TaskTable
<1>4. DocumentOK(group'[g])
  BY <1>2, EditedOK
<1>5. Newer(group[g].tasks, T)
  BY NoTaskAssumption DEF Newer, Group
<1> QED BY <1>3, <1>4, <1>5, NoGroupAssumption DEF Good

LEMMA NextDocs == BoardInv /\ [Next]_vars => \A g \in Groups : Good(g)
<1> SUFFICES ASSUME BoardInv, [Next]_vars, NEW g \in Groups PROVE Good(g)
  OBVIOUS
<1>0. /\ group \in [Groups -> Group \cup {NoGroup}] /\ saved \subseteq Snapshot
      /\ home \in [Nodes -> Groups \cup {NoOne}]
      /\ \A h \in Groups : Live(h) => group[h] \in Group /\ DocumentOK(group[h])
  BY DEF BoardInv, BoardTypeOK, Live
<1>1. ASSUME NEW h \in Groups, NEW M \in SUBSET Nodes, NEW n \in M, Create(h, M, n)
      PROVE  Good(g)
  <2>1. CASE g # h
    BY <1>0, <1>1, <2>1, SameGood DEF Create
  <2>2. CASE g = h
    <3> DEFINE e == [members |-> M, leader |-> n, dissolved |-> FALSE,
                     tasks |-> [t \in Tasks |-> NoTask]]
    <3>1. group[g] = NoGroup /\ group'[g] = e
      BY <1>0, <1>1, <2>2 DEF Create
    <3>2. DocumentOK(e)
      BY DEF DocumentOK, LeaderOK, OwnersOK, DoneOK, DepsKnown
    <3> QED BY <3>1, <3>2 DEF Good
  <2> QED BY <2>1, <2>2
<1>2. ASSUME NEW h \in Groups, NEW M \in SUBSET Nodes, Resize(h, M)
      PROVE  Good(g)
  <2>1. CASE g # h
    BY <1>0, <1>2, <2>1, SameGood DEF Resize
  <2>2. CASE g = h
    <3> DEFINE d == group[g]
               L == d.members \ M
    <3>1. d \in Group /\ DocumentOK(d)
      BY <1>0, <1>2, <2>2 DEF Resize
    <3>2. PICK leader \in Nodes \cup {NoOne} :
            /\ IF d.members \cap M = {} THEN Leads(d, M, leader)
               ELSE Leads(d, d.members \cap M, leader)
            /\ group' = [group EXCEPT ![g] = [Detached(@, L, leader) EXCEPT !.members = M]]
      BY <1>2, <2>2 DEF Resize
    <3>3. IF M = {} THEN leader = NoOne ELSE leader \in M
      BY <3>2, LeadsOK
    <3>4. /\ group'[g].members = M /\ group'[g].leader = leader
          /\ group'[g].tasks = Released(d, L) /\ group'[g] # NoGroup
      <4>1. Detached(d, L, leader) \in Group
        BY <3>1, DetachedType
      <4>2. [Detached(d, L, leader) EXCEPT !.members = M] \in Group
        BY <4>1 DEF Group
      <4>3. group'[g] = [Detached(d, L, leader) EXCEPT !.members = M]
        BY <1>0, <3>2
      <4>4. /\ Detached(d, L, leader).leader = leader
            /\ Detached(d, L, leader).tasks = Released(d, L)
        BY <3>1 DEF Detached, Group
      <4>5. /\ group'[g].members = M
            /\ group'[g].leader = Detached(d, L, leader).leader
            /\ group'[g].tasks = Detached(d, L, leader).tasks
        BY <4>1, <4>3 DEF Group
      <4> QED BY <4>2, <4>3, <4>4, <4>5, NoGroupAssumption
    <3>5. DocumentOK(group'[g])
      BY <3>1, <3>3, <3>4, DetachedOK
    <3>6. Newer(d.tasks, group'[g].tasks)
      BY <3>1, <3>4, ReleasedNewer
    <3> QED BY <3>4, <3>5, <3>6 DEF Good
  <2> QED BY <2>1, <2>2
<1>3. ASSUME NEW h \in Groups, NEW n \in Nodes, SetLeader(h, n)
      PROVE  Good(g)
  <2>1. CASE g # h
    BY <1>0, <1>3, <2>1, SameGood DEF SetLeader
  <2>2. CASE g = h
    <3>1. group[g] \in Group /\ DocumentOK(group[g]) /\ n \in group[g].members
          /\ group'[g] = [group[g] EXCEPT !.leader = n]
      BY <1>0, <1>3, <2>2 DEF SetLeader
    <3>2. /\ group'[g].members = group[g].members /\ group'[g].leader = n
          /\ group'[g].tasks = group[g].tasks /\ group'[g] \in Group
      BY <3>1 DEF Group
    <3>3. DocumentOK(group'[g])
      BY <3>1, <3>2 DEF DocumentOK, LeaderOK, OwnersOK, DoneOK, DepsKnown
    <3> QED BY <3>2, <3>3, NoGroupAssumption DEF Good, Newer
  <2> QED BY <2>1, <2>2
<1>4. ASSUME NEW n \in Nodes, NEW target \in Groups \cup {NoOne}, Move(n, target)
      PROVE  Good(g)
  <2>1. PICK leader \in Nodes \cup {NoOne} :
          /\ home[n] # NoOne => Leads(group[home[n]], group[home[n]].members \ {n}, leader)
          /\ group' = [h \in Groups |->
               IF h = home[n] THEN Detached(group[h], {n}, leader)
               ELSE IF h = target THEN Joined(group[h], n) ELSE group[h]]
    BY <1>4 DEF Move
  <2>2. CASE g = home[n]
    <3>1. group[g] \in Group /\ DocumentOK(group[g])
      BY <1>0, <1>4, <2>2, BoardAssumption DEF Move
    <3>2. group'[g] = Detached(group[g], {n}, leader)
      BY <2>1, <2>2
    <3>3. Leads(group[g], group[g].members \ {n}, leader)
      BY <2>1, <2>2, BoardAssumption
    <3> QED BY <3>1, <3>2, <3>3, DetachedGood
  <2>3. CASE g # home[n] /\ g = target
    <3>1. group[g] \in Group /\ DocumentOK(group[g])
      BY <1>0, <1>4, <2>3, BoardAssumption DEF Move
    <3>2. group'[g] = Joined(group[g], n)
      BY <2>1, <2>3
    <3>3. DocumentOK(group'[g])
      BY <3>1, <3>2, JoinedOK
    <3>4. group'[g] \in Group /\ group'[g].tasks = group[g].tasks
      BY <3>1, <3>2, JoinedType
    <3> QED BY <3>3, <3>4, NoGroupAssumption DEF Good, Newer
  <2>4. CASE g # home[n] /\ g # target
    <3>1. group'[g] = group[g]
      BY <2>1, <2>4
    <3> QED BY <3>1, SameGood
  <2> QED BY <2>2, <2>3, <2>4
<1>5. ASSUME NEW h \in Groups, Dissolve(h) PROVE Good(g)
  <2>1. CASE g # h
    BY <1>0, <1>5, <2>1, SameGood DEF Dissolve
  <2>2. CASE g = h
    <3>1. group[g] \in Group /\ group'[g] = [group[g] EXCEPT !.dissolved = TRUE]
      BY <1>0, <1>5, <2>2 DEF Dissolve
    <3>2. group'[g] \in Group /\ group'[g].dissolved /\ group'[g].tasks = group[g].tasks
      BY <3>1 DEF Group
    <3> QED BY <3>2, NoGroupAssumption DEF Good, Newer, Live
  <2> QED BY <2>1, <2>2
<1>6. ASSUME NEW h \in Groups, NEW t \in Tasks, NEW actor \in Nodes \cup {NoOne},
             NEW owner \in Nodes \cup {NoOne}, NEW deps \in SUBSET Tasks,
             CreateTask(h, t, actor, owner, deps)
      PROVE  Good(g)
  <2>1. CASE g # h
    BY <1>0, <1>6, <2>1, SameGood DEF CreateTask
  <2>2. CASE g = h
    <3> DEFINE new == NewTask(owner, deps)
               T == [group[g].tasks EXCEPT ![t] = new]
    <3>1. new \in Task
      BY DEF NewTask, Task, Status
    <3>2. group[g] \in Group /\ DocumentOK(group[g])
      BY <1>0, <1>6, <2>2 DEF CreateTask
    <3>3. Valid(group[g], T, t) /\ group[g].tasks[t] = NoTask
          /\ group' = [group EXCEPT ![g].tasks = T]
      BY <1>6, <2>2, <3>2, NoGroupAssumption DEF CreateTask
    <3> QED BY <1>0, <3>1, <3>2, <3>3, EditedGood
  <2> QED BY <2>1, <2>2
<1>7. ASSUME NEW h \in Groups, NEW t \in Tasks, NEW actor \in Nodes \cup {NoOne},
             NEW owner \in Nodes \cup {NoOne}, NEW deps \in SUBSET Tasks,
             NEW status \in Status, UpdateTask(h, t, actor, owner, status, deps)
      PROVE  Good(g)
  <2>1. CASE g # h
    BY <1>0, <1>7, <2>1, SameGood DEF UpdateTask
  <2>2. CASE g = h
    <3> DEFINE new == [owner |-> owner, status |-> status, deps |-> deps,
                       rev |-> group[g].tasks[t].rev + 1]
               T == [group[g].tasks EXCEPT ![t] = new]
    <3>1. group[g] \in Group /\ DocumentOK(group[g])
      BY <1>0, <1>7, <2>2 DEF UpdateTask
    <3>2. group[g].tasks[t] \in Task
      BY <1>7, <2>2, <3>1 DEF UpdateTask, Group
    <3>3. new \in Task /\ new.rev > group[g].tasks[t].rev
      BY <3>2 DEF Task
    <3>4. Valid(group[g], T, t) /\ MayReopen(group[g].tasks, t, new.status)
          /\ group' = [group EXCEPT ![g].tasks = T]
      BY <1>7, <2>2 DEF UpdateTask
    <3> HIDE DEF new
    <3> QED BY <1>0, <3>1, <3>3, <3>4, EditedGood
  <2> QED BY <2>1, <2>2
<1>8. ASSUME NEW n \in Nodes, Appear(n) PROVE Good(g)
  BY <1>8, SameGood DEF Appear
<1>9. ASSUME NEW n \in Nodes, NEW deleted \in BOOLEAN, Depart(n, deleted)
      PROVE  Good(g)
  <2>1. CASE home[n] = NoOne
    BY <1>9, <2>1, SameGood DEF Depart
  <2>2. CASE home[n] # NoOne
    <3>1. PICK leader \in Nodes \cup {NoOne} :
            /\ Leads(group[home[n]], group[home[n]].members \ {n}, leader)
            /\ group' = [group EXCEPT ![home[n]] = Detached(@, {n}, leader)]
      BY <1>9, <2>2 DEF Depart
    <3>2. CASE g # home[n]
      BY <1>0, <3>1, <3>2, SameGood
    <3>3. CASE g = home[n]
      <4>1. group[g] \in Group /\ DocumentOK(group[g])
        BY <1>0, <1>9, <2>2, <3>3 DEF Depart
      <4>2. group'[g] = Detached(group[g], {n}, leader)
        BY <1>0, <3>1, <3>3
      <4> QED BY <3>1, <3>3, <4>1, <4>2, DetachedGood
    <3> QED BY <3>2, <3>3
  <2> QED BY <2>1, <2>2
<1>10. ASSUME NEW s \in saved, Restore(s) PROVE Good(g)
  <2>0. s \in Snapshot
    BY <1>0
  <2>1. CASE s.group = NoOne
    BY <1>10, <2>1, SameGood DEF Restore
  <2>2. CASE s.group # NoOne
    <3>1. /\ group' = [group EXCEPT ![s.group] = Restored(@, s)]
          /\ Live(s.group) /\ Untouched(group[s.group], s)
      BY <1>10, <2>2 DEF Restore
    <3>2. CASE g # s.group
      BY <1>0, <3>1, <3>2, SameGood
    <3>3. CASE g = s.group
      <4>1. group[g] \in Group /\ DocumentOK(group[g])
        BY <1>0, <3>1, <3>3
      <4>2. group'[g] = Restored(group[g], s)
        BY <1>0, <3>1, <3>3
      <4>3. \A t \in Tasks : s.tasks[t] # NoTask =>
              /\ s.tasks[t].owner = s.node /\ s.tasks[t].status # "done"
              /\ \A u \in s.tasks[t].deps : group[g].tasks[u] # NoTask
        BY <2>2, <3>3 DEF BoardInv, SnapshotsLost, SnapshotsKnown
      <4>4. DocumentOK(group'[g])
        BY <2>0, <3>1, <3>3, <4>1, <4>2, <4>3, RestoredOK
      <4>5. PutBack(group[g], s) \in TaskTable
        BY <2>0, <3>1, <3>3, <4>1, PutBackType
      <4>6. group'[g] \in Group /\ group'[g].tasks = PutBack(group[g], s)
        BY <2>0, <4>1, <4>2, <4>5, RestoredType
      <4>7. Newer(group[g].tasks, group'[g].tasks)
        BY <2>0, <4>1, <4>6, PutBackNewer
      <4> QED BY <4>4, <4>6, <4>7, NoGroupAssumption DEF Good
    <3> QED BY <3>2, <3>3
  <2> QED BY <2>1, <2>2
<1>11. CASE UNCHANGED vars
  BY <1>11, SameGood DEF vars
<1> QED
  BY <1>1, <1>2, <1>3, <1>4, <1>5, <1>6, <1>7, <1>8, <1>9, <1>10, <1>11
     DEF Next, Membership, TaskEdits, NodeChanges

LEMMA NextIndex == BoardInv /\ BoardTypeOK' /\ [Next]_vars => IndexAgrees'
<1> SUFFICES ASSUME BoardInv, BoardTypeOK', [Next]_vars PROVE IndexAgrees'
  OBVIOUS
<1>0. /\ group \in [Groups -> Group \cup {NoGroup}] /\ saved \subseteq Snapshot
      /\ home \in [Nodes -> Groups \cup {NoOne}]
      /\ \A n \in Nodes : home[n] # NoOne => Live(home[n])
      /\ \A g \in Groups : Live(g) =>
           group[g] \in Group /\ group[g].members = {n \in Nodes : home[n] = g}
  BY DEF BoardInv, BoardTypeOK, Live, IndexAgrees
<1>1. ASSUME NEW h \in Groups, NEW M \in SUBSET Nodes, NEW n \in M, Create(h, M, n)
      PROVE  IndexAgrees'
  <2>1. /\ home' = [m \in Nodes |-> IF m \in M THEN h ELSE home[m]]
        /\ \A g \in Groups \ {h} : group'[g] = group[g]
        /\ group'[h].members = M /\ ~group'[h].dissolved /\ group'[h] # NoGroup
        /\ \A m \in M : home[m] = NoOne
        /\ ~Live(h)
    <3>1. group'[h] = [members |-> M, leader |-> n, dissolved |-> FALSE,
                       tasks |-> [t \in Tasks |-> NoTask]]
      BY <1>0, <1>1 DEF Create
    <3>2. group'[h] \in Group
      BY <3>1 DEF Group
    <3> QED BY <1>0, <1>1, <3>1, <3>2, NoGroupAssumption DEF Create, Live
  <2>2. \A g \in Groups \ {h} : Live(g)' = Live(g)
    BY <2>1 DEF Live
  <2>3. Live(h)'
    BY <2>1 DEF Live
  <2> QED BY <1>0, <2>1, <2>2, <2>3, BoardAssumption DEF IndexAgrees
<1>2. ASSUME NEW h \in Groups, NEW M \in SUBSET Nodes, Resize(h, M)
      PROVE  IndexAgrees'
  <2> DEFINE L == group[h].members \ M
  <2>0. group[h] \in Group /\ Live(h)
    BY <1>0, <1>2 DEF Resize
  <2>1. PICK leader \in Nodes \cup {NoOne} :
          group' = [group EXCEPT ![h] = [Detached(@, L, leader) EXCEPT !.members = M]]
    BY <1>2 DEF Resize
  <2>2. Detached(group[h], L, leader) \in Group
        /\ Detached(group[h], L, leader).dissolved = group[h].dissolved
    <3>1. Detached(group[h], L, leader) \in Group
      BY <2>0, DetachedType
    <3>2. Detached(group[h], L, leader).dissolved = group[h].dissolved
      BY <2>0 DEF Detached, Group
    <3> QED BY <3>1, <3>2
  <2>3. group'[h] \in Group /\ group'[h].members = M /\ group'[h].dissolved = group[h].dissolved
    <3>1. group'[h] = [Detached(group[h], L, leader) EXCEPT !.members = M]
      BY <1>0, <2>1
    <3> QED BY <2>2, <3>1 DEF Group
  <2>4. Live(h)'
    BY <2>0, <2>3, NoGroupAssumption DEF Live
  <2>5. \A g \in Groups \ {h} : group'[g] = group[g] /\ Live(g)' = Live(g)
    BY <1>0, <2>1 DEF Live
  <2>6. /\ home' = [n \in Nodes |-> IF n \in M THEN h ELSE IF n \in L THEN NoOne ELSE home[n]]
        /\ \A n \in M : home[n] \in {NoOne, h}
    BY <1>2 DEF Resize
  <2> HIDE DEF L
  <2>7. L = {n \in Nodes : home[n] = h} \ M
    BY <1>0, <2>0 DEF L
  <2> QED BY <1>0, <2>3, <2>4, <2>5, <2>6, <2>7, BoardAssumption DEF IndexAgrees
<1>3. ASSUME NEW h \in Groups, NEW n \in Nodes, SetLeader(h, n)
      PROVE  IndexAgrees'
  <2>1. group[h] \in Group /\ group'[h] = [group[h] EXCEPT !.leader = n] /\ home' = home
        /\ \A g \in Groups \ {h} : group'[g] = group[g]
    BY <1>0, <1>3 DEF SetLeader
  <2>2. group'[h] \in Group /\ group'[h].members = group[h].members
        /\ group'[h].dissolved = group[h].dissolved
    BY <2>1 DEF Group
  <2>3. \A g \in Groups : Live(g)' = Live(g)
    BY <2>1, <2>2, NoGroupAssumption DEF Live
  <2>4. \A g \in Groups : group'[g].members = group[g].members
    BY <2>1, <2>2
  <2> QED BY <1>0, <2>1, <2>3, <2>4, Zenon DEF IndexAgrees
<1>4. ASSUME NEW n \in Nodes, NEW target \in Groups \cup {NoOne}, Move(n, target)
      PROVE  IndexAgrees'
  <2>1. PICK leader \in Nodes \cup {NoOne} :
          group' = [h \in Groups |->
               IF h = home[n] THEN Detached(group[h], {n}, leader)
               ELSE IF h = target THEN Joined(group[h], n) ELSE group[h]]
    BY <1>4 DEF Move
  <2>2. ASSUME NEW g \in Groups, Live(g)
        PROVE  /\ Detached(group[g], {n}, leader) \in Group
               /\ Detached(group[g], {n}, leader).members = group[g].members \ {n}
               /\ Detached(group[g], {n}, leader).dissolved = group[g].dissolved
               /\ Joined(group[g], n) \in Group
               /\ Joined(group[g], n).members = group[g].members \cup {n}
               /\ Joined(group[g], n).dissolved = group[g].dissolved
    BY <1>0, <2>2, DetachedType, JoinedType, DetachedFields, JoinedFields
  <2>3. home' = [home EXCEPT ![n] = target] /\ home[n] # target
        /\ (target # NoOne => Live(target)) /\ (home[n] # NoOne => Live(home[n]))
    BY <1>4 DEF Move
  <2>4. ASSUME NEW g \in Groups
        PROVE  /\ Live(g)' = Live(g)
               /\ Live(g) => group'[g].members = IF g = home[n] THEN group[g].members \ {n}
                                                ELSE IF g = target THEN group[g].members \cup {n}
                                                ELSE group[g].members
    <3>1. CASE g = home[n]
      <4>1. group'[g] = Detached(group[g], {n}, leader) /\ Live(g)
        BY <2>1, <2>3, <3>1, BoardAssumption
      <4> QED BY <2>2, <3>1, <4>1, NoGroupAssumption DEF Live
    <3>2. CASE g # home[n] /\ g = target
      <4>1. group'[g] = Joined(group[g], n) /\ Live(g)
        BY <2>1, <2>3, <3>2, BoardAssumption
      <4> QED BY <2>2, <3>2, <4>1, NoGroupAssumption DEF Live
    <3>3. CASE g # home[n] /\ g # target
      <4>1. group'[g] = group[g]
        BY <2>1, <3>3
      <4> QED BY <3>3, <4>1 DEF Live
    <3> QED BY <3>1, <3>2, <3>3
  <2>5. ASSUME NEW m \in Nodes, home'[m] # NoOne PROVE Live(home[m])'
    <3>1. PICK g \in Groups : g = home'[m] /\ Live(g)
      BY <1>0, <2>3, <2>5
    <3> QED BY <2>4, <3>1 DEF Live
  <2>6. ASSUME NEW g \in Groups, Live(g)'
        PROVE  group'[g].members = {m \in Nodes : home'[m] = g}
    <3>1. Live(g) /\ group[g].members = {m \in Nodes : home[m] = g}
      BY <1>0, <2>4, <2>6
    <3>2. CASE g = home[n]
      BY <1>0, <2>3, <2>4, <3>1, <3>2
    <3>3. CASE g # home[n] /\ g = target
      <4>1. group'[g].members = group[g].members \cup {n}
        BY <2>4, <3>1, <3>3
      <4>2. \A m \in Nodes : home'[m] = g <=> home[m] = g \/ m = n
        BY <1>0, <2>3, <3>3
      <4> QED BY <3>1, <4>1, <4>2
    <3>4. CASE g # home[n] /\ g # target
      BY <1>0, <2>3, <2>4, <3>1, <3>4
    <3> QED BY <3>2, <3>3, <3>4
  <2> QED BY <2>5, <2>6 DEF IndexAgrees
<1>5. ASSUME NEW h \in Groups, Dissolve(h) PROVE IndexAgrees'
  <2>1. group[h] \in Group /\ group'[h] = [group[h] EXCEPT !.dissolved = TRUE]
        /\ \A g \in Groups \ {h} : group'[g] = group[g]
    BY <1>0, <1>5 DEF Dissolve
  <2>0. home' = [n \in Nodes |-> IF home[n] = h THEN NoOne ELSE home[n]]
    BY <1>5 DEF Dissolve
  <2>2. group'[h].dissolved
    BY <2>1 DEF Group
  <2>3. ~Live(h)' /\ \A g \in Groups \ {h} : Live(g)' = Live(g)
    BY <2>1, <2>2 DEF Live
  <2>4. ASSUME NEW m \in Nodes, home'[m] # NoOne PROVE Live(home[m])'
    <3>1. home'[m] = home[m] /\ home[m] # h /\ home[m] # NoOne
      BY <2>0, <2>4
    <3>2. PICK g \in Groups \ {h} : g = home'[m] /\ Live(g)
      BY <1>0, <3>1
    <3> QED BY <2>3, <3>2 DEF Live
  <2>5. ASSUME NEW g \in Groups, Live(g)'
        PROVE  group'[g].members = {m \in Nodes : home'[m] = g}
    <3>1. g # h /\ Live(g) /\ group[g].members = {m \in Nodes : home[m] = g}
      BY <1>0, <2>3, <2>5
    <3> QED BY <2>0, <2>1, <3>1, BoardAssumption
  <2> QED BY <2>4, <2>5 DEF IndexAgrees
<1>6. ASSUME NEW h \in Groups, NEW T \in TaskTable,
             group[h] \in Group, group' = [group EXCEPT ![h].tasks = T], home' = home
      PROVE  IndexAgrees'
  <2>1. group'[h] = [group[h] EXCEPT !.tasks = T]
        /\ \A g \in Groups \ {h} : group'[g] = group[g]
    BY <1>0, <1>6
  <2>2. group'[h].members = group[h].members /\ group'[h].dissolved = group[h].dissolved
    BY <1>6, <2>1 DEF Group
  <2>3. group'[h] # NoGroup
    <3>1. group'[h] \in Group
      BY <1>6, <2>1 DEF Group, TaskTable
    <3> QED BY <3>1, NoGroupAssumption
  <2>4. \A g \in Groups : Live(g)' = Live(g)
    BY <1>6, <2>1, <2>2, <2>3, NoGroupAssumption DEF Live
  <2> QED BY <1>0, <1>6, <2>1, <2>2, <2>4 DEF IndexAgrees
<1>7. ASSUME NEW h \in Groups, NEW t \in Tasks, NEW actor \in Nodes \cup {NoOne},
             NEW owner \in Nodes \cup {NoOne}, NEW deps \in SUBSET Tasks,
             CreateTask(h, t, actor, owner, deps)
      PROVE  IndexAgrees'
  <2> DEFINE T == [group[h].tasks EXCEPT ![t] = NewTask(owner, deps)]
  <2>1. group[h] \in Group /\ group' = [group EXCEPT ![h].tasks = T] /\ home' = home
    BY <1>0, <1>7 DEF CreateTask
  <2>2. NewTask(owner, deps) \in Task
    BY DEF NewTask, Task, Status
  <2>3. T \in TaskTable
    BY <2>1, <2>2 DEF Group, TaskTable
  <2> HIDE DEF T
  <2> QED BY <1>6, <2>1, <2>3
<1>8. ASSUME NEW h \in Groups, NEW t \in Tasks, NEW actor \in Nodes \cup {NoOne},
             NEW owner \in Nodes \cup {NoOne}, NEW deps \in SUBSET Tasks,
             NEW status \in Status, UpdateTask(h, t, actor, owner, status, deps)
      PROVE  IndexAgrees'
  <2> DEFINE new == [owner |-> owner, status |-> status, deps |-> deps,
                     rev |-> group[h].tasks[t].rev + 1]
             T == [group[h].tasks EXCEPT ![t] = new]
  <2>1. group[h] \in Group /\ group' = [group EXCEPT ![h].tasks = T] /\ home' = home
    BY <1>0, <1>8 DEF UpdateTask
  <2>2. group[h].tasks[t] \in Task
    BY <1>8, <2>1 DEF UpdateTask, Group
  <2>3. new \in Task
    BY <2>2 DEF Task
  <2>4. T \in TaskTable
    BY <2>1, <2>3 DEF Group, TaskTable
  <2> HIDE DEF T
  <2> QED BY <1>6, <2>1, <2>4
<1>9. ASSUME NEW n \in Nodes, NEW deleted \in BOOLEAN, Depart(n, deleted)
      PROVE  IndexAgrees'
  <2>1. home' = [home EXCEPT ![n] = NoOne]
    BY <1>9 DEF Depart
  <2>2. CASE home[n] = NoOne
    <3>1. group' = group /\ home' = home
      BY <1>0, <1>9, <2>1, <2>2 DEF Depart
    <3> QED BY <3>1 DEF BoardInv, IndexAgrees, Live
  <2>3. CASE home[n] # NoOne
    <3> DEFINE h == home[n]
    <3>1. PICK leader \in Nodes \cup {NoOne} :
            group' = [group EXCEPT ![h] = Detached(@, {n}, leader)]
      BY <1>9, <2>3 DEF Depart
    <3>2. h \in Groups /\ Live(h) /\ group[h] \in Group
      BY <1>0, <2>3
    <3>3. group'[h] = Detached(group[h], {n}, leader)
          /\ \A g \in Groups \ {h} : group'[g] = group[g]
      BY <1>0, <3>1, <3>2
    <3>4. group'[h] \in Group /\ group'[h].members = group[h].members \ {n}
          /\ group'[h].dissolved = group[h].dissolved
      BY <3>2, <3>3, DetachedType, DetachedFields
    <3>5. \A g \in Groups : Live(g)' = Live(g)
      BY <3>2, <3>3, <3>4, NoGroupAssumption DEF Live
    <3>6. ASSUME NEW m \in Nodes, home'[m] # NoOne PROVE Live(home[m])'
      <4>1. PICK g \in Groups : g = home'[m] /\ Live(g)
        BY <1>0, <2>1, <3>6
      <4> QED BY <3>5, <4>1 DEF Live
    <3>7. ASSUME NEW g \in Groups, Live(g)'
          PROVE  group'[g].members = {m \in Nodes : home'[m] = g}
      <4>1. Live(g) /\ group[g].members = {m \in Nodes : home[m] = g}
        BY <1>0, <3>5, <3>7
      <4> QED BY <1>0, <2>1, <3>3, <3>4, <4>1, BoardAssumption
    <3> QED BY <3>6, <3>7 DEF IndexAgrees
  <2> QED BY <2>2, <2>3
<1>10. ASSUME NEW s \in saved, Restore(s) PROVE IndexAgrees'
  <2>0. s \in Snapshot
    BY <1>0
  <2>1. CASE s.group = NoOne
    <3>1. group' = group /\ home' = home
      BY <1>10, <2>1 DEF Restore
    <3> QED BY <3>1 DEF BoardInv, IndexAgrees, Live
  <2>2. CASE s.group # NoOne
    <3> DEFINE h == s.group
               n == s.node
    <3>1. /\ group' = [group EXCEPT ![h] = Restored(@, s)]
          /\ home' = [home EXCEPT ![n] = h] /\ home[n] = NoOne
          /\ Live(h) /\ Untouched(group[h], s)
      BY <1>10, <2>2 DEF Restore
    <3>2. h \in Groups /\ n \in Nodes /\ group[h] \in Group
      BY <1>0, <2>0, <2>2, <3>1 DEF Snapshot
    <3>3. group'[h] = Restored(group[h], s)
          /\ \A g \in Groups \ {h} : group'[g] = group[g]
      BY <1>0, <3>1, <3>2
    <3>4. group'[h] \in Group
      BY <2>0, <3>1, <3>2, <3>3, PutBackType, RestoredType
    <3>5. group'[h].members = group[h].members \cup {n}
          /\ group'[h].dissolved = group[h].dissolved
      <4>1. Joined(group[h], n) \in Group
            /\ Joined(group[h], n).members = group[h].members \cup {n}
            /\ Joined(group[h], n).dissolved = group[h].dissolved
        BY <3>2, JoinedType, JoinedFields
      <4>2. group'[h].members = Joined(group[h], n).members
            /\ group'[h].dissolved = Joined(group[h], n).dissolved
        BY <3>3, <4>1 DEF Restored, Group
      <4> QED BY <4>1, <4>2
    <3>6. \A g \in Groups : Live(g)' = Live(g)
      BY <3>2, <3>3, <3>4, <3>5, NoGroupAssumption DEF Live
    <3>7. ASSUME NEW m \in Nodes, home'[m] # NoOne PROVE Live(home[m])'
      <4>1. PICK g \in Groups : g = home'[m] /\ Live(g)
        BY <1>0, <3>1, <3>2, <3>7
      <4> QED BY <3>6, <4>1 DEF Live
    <3>8. ASSUME NEW g \in Groups, Live(g)'
          PROVE  group'[g].members = {m \in Nodes : home'[m] = g}
      <4>1. Live(g) /\ group[g].members = {m \in Nodes : home[m] = g}
        BY <1>0, <3>6, <3>8
      <4> QED BY <1>0, <3>1, <3>2, <3>3, <3>5, <4>1, BoardAssumption
    <3> QED BY <3>7, <3>8 DEF IndexAgrees
  <2> QED BY <2>1, <2>2
<1>11. ASSUME group' = group, home' = home PROVE IndexAgrees'
  BY <1>11 DEF BoardInv, IndexAgrees, Live
<1>12. ASSUME NEW n \in Nodes, Appear(n) PROVE IndexAgrees'
  BY <1>11, <1>12 DEF Appear
<1>13. CASE UNCHANGED vars
  BY <1>11, <1>13 DEF vars
<1> QED
  BY <1>1, <1>2, <1>3, <1>4, <1>5, <1>7, <1>8, <1>9, <1>10, <1>12, <1>13
     DEF Next, Membership, TaskEdits, NodeChanges

LEMMA NextSaved ==
  BoardInv /\ BoardTypeOK' /\ [Next]_vars => SnapshotsLost' /\ SnapshotsKnown'
<1> SUFFICES ASSUME BoardInv, BoardTypeOK', [Next]_vars
             PROVE  SnapshotsLost' /\ SnapshotsKnown'
  OBVIOUS
<1>1. \A g \in Groups : group[g] # NoGroup =>
        group'[g] # NoGroup /\ Newer(group[g].tasks, group'[g].tasks)
  BY NextDocs DEF Good
<1>2. saved \subseteq Snapshot /\ home \in [Nodes -> Groups \cup {NoOne}]
      /\ \A g \in Groups : Live(g) => group[g] \in Group /\ DepsKnown(group[g])
  BY DEF BoardInv, BoardTypeOK, Live, DocumentOK
<1>3. ASSUME NEW s \in Snapshot, s.group # NoOne, NEW t \in Tasks, s.tasks[t] # NoTask,
             group[s.group] # NoGroup,
             \A u \in s.tasks[t].deps : group[s.group].tasks[u] # NoTask
      PROVE  /\ group'[s.group] # NoGroup
             /\ \A u \in s.tasks[t].deps : group'[s.group].tasks[u] # NoTask
  <2>1. s.group \in Groups /\ s.tasks[t].deps \subseteq Tasks
    BY <1>3 DEF Snapshot, Task
  <2> QED BY <1>1, <1>3, <2>1 DEF Newer
<1>4. CASE saved' \subseteq saved
  <2>1. SnapshotsLost'
    BY <1>4 DEF BoardInv, SnapshotsLost
  <2>2. SnapshotsKnown'
    BY <1>2, <1>3, <1>4 DEF BoardInv, SnapshotsKnown
  <2> QED BY <2>1, <2>2
<1>5. ASSUME NEW n \in Nodes, NEW deleted \in BOOLEAN, Depart(n, deleted), deleted
      PROVE  SnapshotsLost' /\ SnapshotsKnown'
  <2> DEFINE g == home[n]
             lost == [t \in Tasks |-> IF g # NoOne /\ t \in Unfinished(group[g], {n})
                                      THEN group[g].tasks[t] ELSE NoTask]
             new == [node |-> n, group |-> g, tasks |-> lost]
  <2>1. saved' = saved \cup {new} /\ (g # NoOne => Live(g))
    BY <1>5 DEF Depart
  <2>2. new.node = n /\ new.group = g /\ new.tasks = lost /\ new \in Snapshot
    BY <2>1 DEF BoardTypeOK
  <2>3. ASSUME NEW t \in Tasks, lost[t] # NoTask
        PROVE  /\ lost[t].owner = n /\ lost[t].status # "done" /\ g # NoOne
               /\ group[g] # NoGroup
               /\ \A u \in lost[t].deps : group[g].tasks[u] # NoTask
    <3>1. g # NoOne /\ t \in Unfinished(group[g], {n}) /\ lost[t] = group[g].tasks[t]
      BY <2>3
    <3>2. g \in Groups /\ Live(g)
      BY <1>2, <2>1, <3>1
    <3> QED BY <1>2, <3>1, <3>2 DEF Unfinished, DepsKnown, Live
  <2> HIDE DEF new, lost
  <2>4. SnapshotsLost'
    BY <2>1, <2>2, <2>3 DEF BoardInv, SnapshotsLost
  <2>5. SnapshotsKnown'
    <3> SUFFICES ASSUME NEW s \in saved', s.group # NoOne, NEW t \in Tasks,
                        s.tasks[t] # NoTask
                 PROVE  /\ group'[s.group] # NoGroup
                        /\ \A u \in s.tasks[t].deps : group'[s.group].tasks[u] # NoTask
      BY DEF SnapshotsKnown
    <3>1. s \in Snapshot /\ group[s.group] # NoGroup
          /\ \A u \in s.tasks[t].deps : group[s.group].tasks[u] # NoTask
      BY <1>2, <2>1, <2>2, <2>3 DEF BoardInv, SnapshotsKnown
    <3> QED BY <1>3, <3>1
  <2> QED BY <2>4, <2>5
<1>6. ASSUME NEW n \in Nodes, NEW deleted \in BOOLEAN, Depart(n, deleted), ~deleted
      PROVE  saved' \subseteq saved
  BY <1>6 DEF Depart
<1>7. ASSUME NEW s \in saved, Restore(s) PROVE saved' \subseteq saved
  BY <1>7 DEF Restore
<1>8. ASSUME Membership PROVE saved' \subseteq saved
  BY <1>8 DEF Membership, Resize, Create, SetLeader, Move, Dissolve
<1>9. ASSUME TaskEdits PROVE saved' \subseteq saved
  <2>1. ASSUME NEW g, NEW t, NEW actor, NEW owner, NEW deps,
               CreateTask(g, t, actor, owner, deps)
        PROVE  saved' = saved
    BY <2>1, Zenon DEF CreateTask
  <2>2. ASSUME NEW g, NEW t, NEW actor, NEW owner, NEW deps, NEW status,
               UpdateTask(g, t, actor, owner, status, deps)
        PROVE  saved' = saved
    BY <2>2, Zenon DEF UpdateTask
  <2>3. saved' = saved
    BY <1>9, <2>1, <2>2, Zenon DEF TaskEdits
  <2> QED BY <2>3
<1>10. ASSUME (\E n \in Nodes : Appear(n)) \/ UNCHANGED vars PROVE saved' \subseteq saved
  BY <1>10 DEF Appear, vars
<1> QED
  BY <1>4, <1>5, <1>6, <1>7, <1>8, <1>9, <1>10 DEF Next, NodeChanges

-----------------------------------------------------------------------------
(* 4. Dependencies                                                         *)

DepsOK(T) ==
  /\ \A t \in Tasks : T[t] # NoTask =>
       \A u \in T[t].deps : u \in Tasks /\ T[u] # NoTask
  /\ Acyclic(T)

\* The tables T and U have the same tasks with the same dependencies.
SameDeps(T, U) ==
  \A t \in Tasks : /\ (T[t] = NoTask) <=> (U[t] = NoTask)
                   /\ T[t] # NoTask => U[t].deps = T[t].deps

\* A task that a departure released is newer than the undo entry that holds
\* it, and still has its dependencies when nobody touched it since.
SnapshotsFresh ==
  \A s \in saved : s.group # NoOne => \A t \in Tasks : s.tasks[t] # NoTask =>
    LET now == group[s.group].tasks[t] IN
    /\ now # NoTask /\ now.rev > s.tasks[t].rev
    /\ now.rev = s.tasks[t].rev + 1 => now.deps = s.tasks[t].deps

DepsInv ==
  /\ \A g \in Groups : group[g] # NoGroup => DepsOK(group[g].tasks)
  /\ SnapshotsFresh

LEMMA SameDepsOK ==
  ASSUME NEW T, NEW U, DepsOK(T), SameDeps(T, U) PROVE DepsOK(U)
<1>1. \A t \in Tasks : U[t] # NoTask =>
        \A u \in U[t].deps : u \in Tasks /\ U[u] # NoTask
  BY DEF DepsOK, SameDeps
<1>2. Acyclic(U)
  <2> SUFFICES ASSUME NEW S \in (SUBSET {t \in Tasks : U[t] # NoTask}) \ {{}}
               PROVE  \E t \in S : U[t].deps \cap S = {}
    BY DEF Acyclic
  <2>1. S \in (SUBSET {t \in Tasks : T[t] # NoTask}) \ {{}}
    BY DEF SameDeps
  <2>2. PICK t \in S : T[t].deps \cap S = {}
    BY <2>1 DEF DepsOK, Acyclic
  <2>3. U[t].deps = T[t].deps
    BY <2>1 DEF SameDeps
  <2> QED BY <2>2, <2>3
<1> QED BY <1>1, <1>2 DEF DepsOK

LEMMA ReleasedSameDeps ==
  ASSUME NEW d \in Group, NEW L
  PROVE  SameDeps(d.tasks, Released(d, L))
<1> SUFFICES ASSUME NEW t \in Tasks
             PROVE  LET U == Released(d, L) IN
                    /\ (d.tasks[t] = NoTask) <=> (U[t] = NoTask)
                    /\ d.tasks[t] # NoTask => U[t].deps = d.tasks[t].deps
  BY DEF SameDeps
<1>1. CASE t \notin Unfinished(d, L)
  BY <1>1 DEF Released
<1>2. CASE t \in Unfinished(d, L)
  <2>1. d.tasks[t] \in Task /\ d.tasks[t] # NoTask
    BY <1>2 DEF Unfinished, Group
  <2>2. Released(d, L)[t] = [owner |-> NoOne, status |-> "blocked", deps |-> d.tasks[t].deps,
                             rev |-> d.tasks[t].rev + 1]
    BY <1>2 DEF Released
  <2>3. Released(d, L)[t] \in Task /\ Released(d, L)[t].deps = d.tasks[t].deps
    BY <2>1, <2>2 DEF Task, Status
  <2> QED BY <2>1, <2>3, NoTaskAssumption
<1> QED BY <1>1, <1>2

LEMMA PutBackSameDeps ==
  ASSUME NEW d \in Group, NEW s \in Snapshot, Untouched(d, s),
         \A t \in Tasks : s.tasks[t] # NoTask =>
           /\ d.tasks[t] # NoTask
           /\ d.tasks[t].rev = s.tasks[t].rev + 1 => d.tasks[t].deps = s.tasks[t].deps
  PROVE  SameDeps(d.tasks, PutBack(d, s))
<1> SUFFICES ASSUME NEW t \in Tasks
             PROVE  LET U == PutBack(d, s) IN
                    /\ (d.tasks[t] = NoTask) <=> (U[t] = NoTask)
                    /\ d.tasks[t] # NoTask => U[t].deps = d.tasks[t].deps
  BY DEF SameDeps
<1>1. CASE s.tasks[t] = NoTask
  BY <1>1 DEF PutBack
<1>2. CASE s.tasks[t] # NoTask
  <2>1. PutBack(d, s)[t] = [s.tasks[t] EXCEPT !.rev = d.tasks[t].rev + 1]
        /\ s.tasks[t] \in Task
    BY <1>2 DEF PutBack, Snapshot
  <2>2. d.tasks[t] # NoTask /\ d.tasks[t].deps = s.tasks[t].deps /\ d.tasks[t] \in Task
    BY <1>2 DEF Untouched, Group
  <2>3. PutBack(d, s)[t] \in Task /\ PutBack(d, s)[t].deps = s.tasks[t].deps
    BY <2>1, <2>2 DEF Task
  <2> QED BY <2>2, <2>3, NoTaskAssumption
<1> QED BY <1>1, <1>2

\* The document of group g, if it has one after the step, is sound.
Sound(g) == group'[g] # NoGroup => DepsOK(group'[g].tasks)

LEMMA SameSound ==
  ASSUME DepsInv, NEW g \in Groups, group[g] # NoGroup,
         SameDeps(group[g].tasks, group'[g].tasks)
  PROVE  Sound(g)
BY SameDepsOK DEF Sound, DepsInv

LEMMA UnchangedSound ==
  ASSUME DepsInv, NEW g \in Groups, group'[g] = group[g]
  PROVE  Sound(g)
BY DEF Sound, DepsInv

LEMMA DetachedSound ==
  ASSUME DepsInv, NEW g \in Groups, group[g] \in Group, NEW L, NEW leader,
         group'[g].tasks = Detached(group[g], L, leader).tasks
  PROVE  Sound(g)
<1>1. Detached(group[g], L, leader).tasks = Released(group[g], L)
  BY DEF Detached, Group
<1> QED BY <1>1, ReleasedSameDeps, SameSound, NoGroupAssumption

LEMMA EditedSound ==
  ASSUME DepsInv, group \in [Groups -> Group \cup {NoGroup}],
         NEW g \in Groups, group[g] \in Group, NEW t \in Tasks, NEW new \in Task,
         Valid(group[g], [group[g].tasks EXCEPT ![t] = new], t),
         group' = [group EXCEPT ![g].tasks = [group[g].tasks EXCEPT ![t] = new]]
  PROVE  Sound(g)
<1> DEFINE T == [group[g].tasks EXCEPT ![t] = new]
<1>1. group[g].tasks \in [Tasks -> Task \cup {NoTask}]
  BY DEF Group
<1>2. group'[g].tasks = T
  BY DEF Group
<1>3. T[t] = new /\ new # NoTask /\ \A u \in Tasks \ {t} : T[u] = group[g].tasks[u]
  BY <1>1, NoTaskAssumption
<1>4. Acyclic(T) /\ \A u \in T[t].deps : T[u] # NoTask
  BY DEF Valid
<1>5. new.deps \subseteq Tasks
  BY DEF Task
<1>6. DepsOK(group[g].tasks)
  BY NoGroupAssumption DEF DepsInv
<1> HIDE DEF T
<1>7. DepsOK(T)
  <2> SUFFICES ASSUME NEW u \in Tasks, T[u] # NoTask, NEW v \in T[u].deps
               PROVE  v \in Tasks /\ T[v] # NoTask
    BY <1>4 DEF DepsOK
  <2>1. CASE u = t
    BY <1>3, <1>4, <1>5, <2>1
  <2>2. CASE u # t
    BY <1>3, <1>6, <2>2 DEF DepsOK
  <2> QED BY <2>1, <2>2
<1> QED BY <1>2, <1>7 DEF Sound

LEMMA NextSound == BoardInv /\ DepsInv /\ [Next]_vars => \A g \in Groups : Sound(g)
<1> SUFFICES ASSUME BoardInv, DepsInv, [Next]_vars, NEW g \in Groups PROVE Sound(g)
  OBVIOUS
<1>0. /\ group \in [Groups -> Group \cup {NoGroup}] /\ saved \subseteq Snapshot
      /\ home \in [Nodes -> Groups \cup {NoOne}]
      /\ \A h \in Groups : Live(h) => group[h] \in Group
  BY DEF BoardInv, BoardTypeOK, Live
<1>1. ASSUME NEW h \in Groups, NEW M \in SUBSET Nodes, NEW n \in M, Create(h, M, n)
      PROVE  Sound(g)
  <2>1. CASE g # h
    BY <1>0, <1>1, <2>1, UnchangedSound DEF Create
  <2>2. CASE g = h
    <3>1. group'[g].tasks = [t \in Tasks |-> NoTask]
      BY <1>0, <1>1, <2>2 DEF Create
    <3>2. \A t \in Tasks : group'[g].tasks[t] = NoTask
      BY <3>1
    <3>3. DepsOK(group'[g].tasks)
      BY <3>2 DEF DepsOK, Acyclic
    <3> QED BY <3>3 DEF Sound
  <2> QED BY <2>1, <2>2
<1>2. ASSUME NEW h \in Groups, NEW M \in SUBSET Nodes, Resize(h, M)
      PROVE  Sound(g)
  <2>1. CASE g # h
    BY <1>0, <1>2, <2>1, UnchangedSound DEF Resize
  <2>2. CASE g = h
    <3> DEFINE L == group[g].members \ M
    <3>1. group[g] \in Group
      BY <1>0, <1>2, <2>2 DEF Resize
    <3>2. PICK leader \in Nodes \cup {NoOne} :
            group' = [group EXCEPT ![g] = [Detached(@, L, leader) EXCEPT !.members = M]]
      BY <1>2, <2>2 DEF Resize
    <3>3. Detached(group[g], L, leader) \in Group
      BY <3>1, DetachedType
    <3>4. group'[g] = [Detached(group[g], L, leader) EXCEPT !.members = M]
      BY <1>0, <3>2
    <3>5. group'[g].tasks = Detached(group[g], L, leader).tasks
      BY <3>3, <3>4 DEF Group
    <3> QED BY <3>1, <3>5, DetachedSound
  <2> QED BY <2>1, <2>2
<1>3. ASSUME NEW h \in Groups, (\E n \in Nodes : SetLeader(h, n)) \/ Dissolve(h)
      PROVE  Sound(g)
  <2>1. CASE g # h
    BY <1>0, <1>3, <2>1, UnchangedSound DEF SetLeader, Dissolve
  <2>2. CASE g = h
    <3>1. /\ group[g] \in Group
          /\ \/ \E n \in Nodes : group'[g] = [group[g] EXCEPT !.leader = n]
             \/ group'[g] = [group[g] EXCEPT !.dissolved = TRUE]
      BY <1>0, <1>3, <2>2 DEF SetLeader, Dissolve
    <3>2. group'[g].tasks = group[g].tasks
      BY <3>1 DEF Group
    <3> QED BY <3>1, <3>2, SameSound, NoGroupAssumption DEF SameDeps
  <2> QED BY <2>1, <2>2
<1>4. ASSUME NEW n \in Nodes, NEW target \in Groups \cup {NoOne}, Move(n, target)
      PROVE  Sound(g)
  <2>1. PICK leader \in Nodes \cup {NoOne} :
          group' = [h \in Groups |->
            IF h = home[n] THEN Detached(group[h], {n}, leader)
            ELSE IF h = target THEN Joined(group[h], n) ELSE group[h]]
    BY <1>4 DEF Move
  <2>2. CASE g = home[n]
    <3>1. group[g] \in Group
      BY <1>0, <1>4, <2>2, BoardAssumption DEF Move
    <3>2. group'[g] = Detached(group[g], {n}, leader)
      BY <2>1, <2>2
    <3> QED BY <3>1, <3>2, DetachedSound
  <2>3. CASE g # home[n] /\ g = target
    <3>1. group[g] \in Group
      BY <1>0, <1>4, <2>3, BoardAssumption DEF Move
    <3>2. group'[g] = Joined(group[g], n)
      BY <2>1, <2>3
    <3>3. group'[g].tasks = group[g].tasks
      BY <3>1, <3>2, JoinedType
    <3> QED BY <3>1, <3>3, SameSound, NoGroupAssumption DEF SameDeps
  <2>4. CASE g # home[n] /\ g # target
    <3>1. group'[g] = group[g]
      BY <2>1, <2>4
    <3> QED BY <3>1, UnchangedSound
  <2> QED BY <2>2, <2>3, <2>4
<1>6. ASSUME NEW h \in Groups, NEW t \in Tasks, NEW actor \in Nodes \cup {NoOne},
             NEW owner \in Nodes \cup {NoOne}, NEW deps \in SUBSET Tasks,
             CreateTask(h, t, actor, owner, deps)
      PROVE  Sound(g)
  <2>1. CASE g # h
    BY <1>0, <1>6, <2>1, UnchangedSound DEF CreateTask
  <2>2. CASE g = h
    <3> DEFINE new == NewTask(owner, deps)
               T == [group[g].tasks EXCEPT ![t] = new]
    <3>1. new \in Task
      BY DEF NewTask, Task, Status
    <3>2. group[g] \in Group
      BY <1>0, <1>6, <2>2 DEF CreateTask
    <3>3. Valid(group[g], T, t) /\ group' = [group EXCEPT ![g].tasks = T]
      BY <1>6, <2>2 DEF CreateTask
    <3> QED BY <1>0, <3>1, <3>2, <3>3, EditedSound
  <2> QED BY <2>1, <2>2
<1>7. ASSUME NEW h \in Groups, NEW t \in Tasks, NEW actor \in Nodes \cup {NoOne},
             NEW owner \in Nodes \cup {NoOne}, NEW deps \in SUBSET Tasks,
             NEW status \in Status, UpdateTask(h, t, actor, owner, status, deps)
      PROVE  Sound(g)
  <2>1. CASE g # h
    BY <1>0, <1>7, <2>1, UnchangedSound DEF UpdateTask
  <2>2. CASE g = h
    <3> DEFINE new == [owner |-> owner, status |-> status, deps |-> deps,
                       rev |-> group[g].tasks[t].rev + 1]
               T == [group[g].tasks EXCEPT ![t] = new]
    <3>1. group[g] \in Group
      BY <1>0, <1>7, <2>2 DEF UpdateTask
    <3>2. group[g].tasks[t] \in Task
      BY <1>7, <2>2, <3>1 DEF UpdateTask, Group
    <3>3. new \in Task
      BY <3>2 DEF Task
    <3>4. Valid(group[g], T, t) /\ group' = [group EXCEPT ![g].tasks = T]
      BY <1>7, <2>2 DEF UpdateTask
    <3> HIDE DEF new
    <3> QED BY <1>0, <3>1, <3>3, <3>4, EditedSound
  <2> QED BY <2>1, <2>2
<1>8. ASSUME NEW n \in Nodes, Appear(n) PROVE Sound(g)
  BY <1>8, UnchangedSound DEF Appear
<1>9. ASSUME NEW n \in Nodes, NEW deleted \in BOOLEAN, Depart(n, deleted)
      PROVE  Sound(g)
  <2>1. CASE home[n] = NoOne
    BY <1>9, <2>1, UnchangedSound DEF Depart
  <2>2. CASE home[n] # NoOne
    <3>1. PICK leader \in Nodes \cup {NoOne} :
            group' = [group EXCEPT ![home[n]] = Detached(@, {n}, leader)]
      BY <1>9, <2>2 DEF Depart
    <3>2. CASE g # home[n]
      BY <1>0, <3>1, <3>2, UnchangedSound
    <3>3. CASE g = home[n]
      <4>1. group[g] \in Group
        BY <1>0, <1>9, <2>2, <3>3 DEF Depart
      <4>2. group'[g] = Detached(group[g], {n}, leader)
        BY <1>0, <3>1, <3>3
      <4> QED BY <4>1, <4>2, DetachedSound
    <3> QED BY <3>2, <3>3
  <2> QED BY <2>1, <2>2
<1>10. ASSUME NEW s \in saved, Restore(s) PROVE Sound(g)
  <2>0. s \in Snapshot
    BY <1>0
  <2>1. CASE s.group = NoOne
    BY <1>10, <2>1, UnchangedSound DEF Restore
  <2>2. CASE s.group # NoOne
    <3>1. /\ group' = [group EXCEPT ![s.group] = Restored(@, s)]
          /\ Live(s.group) /\ Untouched(group[s.group], s)
      BY <1>10, <2>2 DEF Restore
    <3>2. CASE g # s.group
      BY <1>0, <3>1, <3>2, UnchangedSound
    <3>3. CASE g = s.group
      <4>1. group[g] \in Group /\ group'[g] = Restored(group[g], s)
        BY <1>0, <3>1, <3>3
      <4>2. PutBack(group[g], s) \in TaskTable
        BY <2>0, <3>1, <3>3, <4>1, PutBackType
      <4>3. group'[g].tasks = PutBack(group[g], s)
        BY <2>0, <4>1, <4>2, RestoredType
      <4>4. \A t \in Tasks : s.tasks[t] # NoTask =>
              /\ group[g].tasks[t] # NoTask
              /\ group[g].tasks[t].rev = s.tasks[t].rev + 1 =>
                   group[g].tasks[t].deps = s.tasks[t].deps
        BY <2>2, <3>3 DEF DepsInv, SnapshotsFresh
      <4>5. SameDeps(group[g].tasks, PutBack(group[g], s))
        BY <2>0, <3>1, <3>3, <4>1, <4>4, PutBackSameDeps
      <4> QED BY <4>1, <4>3, <4>5, SameSound, NoGroupAssumption
    <3> QED BY <3>2, <3>3
  <2> QED BY <2>1, <2>2
<1>11. CASE UNCHANGED vars
  BY <1>11, UnchangedSound DEF vars
<1> QED
  BY <1>1, <1>2, <1>3, <1>4, <1>6, <1>7, <1>8, <1>9, <1>10, <1>11
     DEF Next, Membership, TaskEdits, NodeChanges

\* What an undo entry holds, against the document it was taken from.
Fresh(s, T) ==
  \A t \in Tasks : s.tasks[t] # NoTask =>
    /\ T[t] # NoTask /\ T[t].rev > s.tasks[t].rev
    /\ T[t].rev = s.tasks[t].rev + 1 => T[t].deps = s.tasks[t].deps

LEMMA StaysFresh ==
  ASSUME NEW s \in Snapshot, NEW T \in TaskTable, NEW U \in TaskTable,
         Fresh(s, T), Newer(T, U)
  PROVE  Fresh(s, U)
<1> SUFFICES ASSUME NEW t \in Tasks, s.tasks[t] # NoTask
             PROVE  /\ U[t] # NoTask /\ U[t].rev > s.tasks[t].rev
                    /\ U[t].rev = s.tasks[t].rev + 1 => U[t].deps = s.tasks[t].deps
  BY DEF Fresh
<1>1. /\ T[t] # NoTask /\ T[t].rev > s.tasks[t].rev
      /\ T[t].rev = s.tasks[t].rev + 1 => T[t].deps = s.tasks[t].deps
  BY DEF Fresh
<1>2. U[t] # NoTask /\ (U[t] = T[t] \/ U[t].rev > T[t].rev)
  BY <1>1 DEF Newer
<1>3. s.tasks[t].rev \in Nat /\ T[t].rev \in Nat /\ U[t].rev \in Nat
  BY <1>1, <1>2 DEF Snapshot, TaskTable, Task
<1>4. CASE U[t] = T[t]
  BY <1>1, <1>2, <1>4
<1>5. CASE U[t].rev > T[t].rev
  BY <1>1, <1>2, <1>3, <1>5
<1> QED BY <1>2, <1>4, <1>5

LEMMA ReleasedFresh ==
  ASSUME NEW d \in Group, NEW L, NEW s \in Snapshot,
         \A t \in Tasks : s.tasks[t] # NoTask =>
           t \in Unfinished(d, L) /\ s.tasks[t] = d.tasks[t]
  PROVE  Fresh(s, Released(d, L))
<1> SUFFICES ASSUME NEW t \in Tasks, s.tasks[t] # NoTask
             PROVE  LET U == Released(d, L) IN
                    /\ U[t] # NoTask /\ U[t].rev > s.tasks[t].rev
                    /\ U[t].deps = s.tasks[t].deps
  BY DEF Fresh
<1>1. t \in Unfinished(d, L) /\ s.tasks[t] = d.tasks[t] /\ s.tasks[t] \in Task
  BY DEF Snapshot
<1>2. Released(d, L)[t] = [owner |-> NoOne, status |-> "blocked", deps |-> d.tasks[t].deps,
                           rev |-> d.tasks[t].rev + 1]
  BY <1>1 DEF Released
<1>3. /\ Released(d, L)[t] \in Task /\ Released(d, L)[t].deps = s.tasks[t].deps
      /\ Released(d, L)[t].rev > s.tasks[t].rev
  BY <1>1, <1>2 DEF Task, Status
<1> QED BY <1>3, NoTaskAssumption

LEMMA NextFresh ==
  BoardInv /\ BoardTypeOK' /\ DepsInv /\ [Next]_vars => SnapshotsFresh'
<1> SUFFICES ASSUME BoardInv, BoardTypeOK', DepsInv, [Next]_vars,
                    NEW s \in saved', s.group # NoOne,
                    \E t \in Tasks : s.tasks[t] # NoTask
             PROVE  Fresh(s, group'[s.group].tasks)
  BY DEF SnapshotsFresh, Fresh
<1>0. /\ group \in [Groups -> Group \cup {NoGroup}]
      /\ group' \in [Groups -> Group \cup {NoGroup}]
      /\ saved \subseteq Snapshot /\ s \in Snapshot /\ s.group \in Groups
  BY DEF BoardInv, BoardTypeOK, Snapshot
<1>1. CASE s \in saved
  <2>1. group[s.group] # NoGroup /\ Fresh(s, group[s.group].tasks)
    BY <1>1 DEF BoardInv, SnapshotsKnown, DepsInv, SnapshotsFresh, Fresh
  <2>2. group'[s.group] # NoGroup /\ Newer(group[s.group].tasks, group'[s.group].tasks)
    BY <1>0, <2>1, NextDocs DEF Good
  <2>3. group[s.group].tasks \in TaskTable /\ group'[s.group].tasks \in TaskTable
    BY <1>0, <2>1, <2>2 DEF Group, TaskTable
  <2> QED BY <1>0, <2>1, <2>2, <2>3, StaysFresh
<1>2. CASE s \notin saved
  <2>1. PICK n \in Nodes : \E deleted \in BOOLEAN : Depart(n, deleted)
    <3>1. ASSUME Membership PROVE saved' = saved
      BY <3>1 DEF Membership, Resize, Create, SetLeader, Move, Dissolve
    <3>2. ASSUME TaskEdits PROVE saved' = saved
      <4>1. ASSUME NEW g, NEW t, NEW actor, NEW owner, NEW deps,
                   CreateTask(g, t, actor, owner, deps)
            PROVE  saved' = saved
        BY <4>1, Zenon DEF CreateTask
      <4>2. ASSUME NEW g, NEW t, NEW actor, NEW owner, NEW deps, NEW status,
                   UpdateTask(g, t, actor, owner, status, deps)
            PROVE  saved' = saved
        BY <4>2, Zenon DEF UpdateTask
      <4> QED BY <3>2, <4>1, <4>2, Zenon DEF TaskEdits
    <3>3. ASSUME (\E n \in Nodes : Appear(n)) \/ UNCHANGED vars PROVE saved' = saved
      BY <3>3 DEF Appear, vars
    <3>4. ASSUME NEW r \in saved, Restore(r) PROVE saved' \subseteq saved
      BY <3>4 DEF Restore
    <3>5. NodeChanges
      BY <1>2, <3>1, <3>2, <3>3 DEF Next
    <3>6. ~ \E n \in Nodes : Appear(n)
      BY <1>2, <3>3
    <3>7. ~ \E r \in saved : Restore(r)
      BY <1>2, <3>4
    <3> QED BY <3>5, <3>6, <3>7 DEF NodeChanges
  <2> DEFINE g == home[n]
             lost == [t \in Tasks |-> IF g # NoOne /\ t \in Unfinished(group[g], {n})
                                      THEN group[g].tasks[t] ELSE NoTask]
  <2>2. s = [node |-> n, group |-> g, tasks |-> lost]
    BY <1>2, <2>1 DEF Depart
  <2>3. g = s.group /\ s.tasks = lost
    BY <2>2
  <2>4. group[g] \in Group
    BY <1>0, <2>1, <2>3 DEF Depart, Live
  <2>5. PICK leader \in Nodes \cup {NoOne} :
          group' = [group EXCEPT ![g] = Detached(@, {n}, leader)]
    BY <2>1, <2>3 DEF Depart
  <2>6. group'[g] = Detached(group[g], {n}, leader)
    BY <1>0, <2>3, <2>5
  <2>7. group'[g].tasks = Released(group[g], {n})
    BY <2>4, <2>6 DEF Detached, Group
  <2>8. \A t \in Tasks : s.tasks[t] # NoTask =>
          t \in Unfinished(group[g], {n}) /\ s.tasks[t] = group[g].tasks[t]
    BY <2>3
  <2> HIDE DEF g, lost
  <2>9. Fresh(s, Released(group[g], {n}))
    BY <1>0, <2>4, <2>8, ReleasedFresh
  <2> QED BY <2>3, <2>7, <2>9
<1> QED BY <1>1, <1>2

-----------------------------------------------------------------------------
(* 5. Theorems                                                             *)

LEMMA InitBoard == Init => BoardInv
<1> SUFFICES ASSUME Init PROVE BoardInv
  OBVIOUS
<1>1. BoardTypeOK
  BY InitType
<1>2. IndexAgrees /\ SnapshotsLost /\ SnapshotsKnown
  BY DEF Init, IndexAgrees, SnapshotsLost, SnapshotsKnown, Live
<1>3. \A g \in Groups : ~Live(g)
  BY DEF Init, Live
<1> QED BY <1>1, <1>2, <1>3 DEF BoardInv

LEMMA NextBoard == BoardInv /\ [Next]_vars => BoardInv'
<1> SUFFICES ASSUME BoardInv, [Next]_vars PROVE BoardInv'
  OBVIOUS
<1>1. BoardTypeOK'
  BY NextType DEF BoardInv
<1>2. IndexAgrees' /\ SnapshotsLost' /\ SnapshotsKnown'
  BY <1>1, NextIndex, NextSaved
<1>3. \A g \in Groups : Live(g)' => DocumentOK(group'[g])
  BY NextDocs DEF Good
<1>4. (\A g \in Groups : Live(g) => DocumentOK(group[g]))'
  BY <1>3
<1> QED BY <1>1, <1>2, <1>4 DEF BoardInv

LEMMA BoardInvariant == Spec => []BoardInv
<1>1. Init => BoardInv
  BY InitBoard
<1>2. BoardInv /\ [Next]_vars => BoardInv'
  BY NextBoard
<1> QED BY <1>1, <1>2, PTL DEF Spec

\* The tables of the group store stay well formed.
THEOREM BoardTypeCorrect == Spec => []BoardTypeOK
<1>1. BoardInv => BoardTypeOK
  BY DEF BoardInv
<1> QED BY <1>1, BoardInvariant, PTL

\* The index of members and the documents of live groups agree.
THEOREM IndexCorrect == Spec => []IndexAgrees
<1>1. BoardInv => IndexAgrees
  BY DEF BoardInv
<1> QED BY <1>1, BoardInvariant, PTL

\* A live group with members is led by one of them, and its unfinished tasks
\* belong to members or to nobody.
THEOREM Owned == Spec => []OwnersBelong
<1>1. BoardInv => LeaderIsMember
  BY DEF BoardInv, DocumentOK, LeaderOK, LeaderIsMember
<1>2. BoardInv => OwnersBelong
  BY <1>1 DEF BoardInv, DocumentOK, OwnersOK, OwnersBelong, TasksOf
<1> QED BY <1>2, BoardInvariant, PTL

\* Finished tasks rest on finished ones.
THEOREM DoneSound == Spec => []DoneRestsOnDone
<1>1. BoardInv => DoneRestsOnDone
  BY DEF BoardInv, DocumentOK, DoneOK, DoneRestsOnDone, TasksOf, Finished
<1> QED BY <1>1, BoardInvariant, PTL

\* Every change of a task, an undo included, has a larger revision.
THEOREM RevisionsGrow == Spec => RevisionGrows
<1>1. BoardInv /\ [Next]_vars =>
        [\A g \in Groups : group[g] # NoGroup => \A t \in Tasks :
           /\ group[g].tasks[t] # group'[g].tasks[t]
           /\ group[g].tasks[t] # NoTask
           => group'[g].tasks[t].rev > group[g].tasks[t].rev]_vars
  BY NextDocs DEF Good, Newer
<1> QED BY <1>1, BoardInvariant, PTL DEF Spec, RevisionGrows

\* No change of the board, an undo included, closes a cycle of dependencies:
\* no task of any group, dissolved ones included, waits for itself.
THEOREM NoCycle == Spec => []DependenciesAcyclic
<1>1. Init => DepsInv
  BY DEF Init, DepsInv, SnapshotsFresh
<1>2. BoardInv /\ BoardInv' /\ DepsInv /\ [Next]_vars => DepsInv'
  <2> SUFFICES ASSUME BoardInv, BoardInv', DepsInv, [Next]_vars PROVE DepsInv'
    OBVIOUS
  <2>1. SnapshotsFresh'
    BY NextFresh DEF BoardInv
  <2>2. \A g \in Groups : group'[g] # NoGroup => DepsOK(group'[g].tasks)
    BY NextSound DEF Sound
  <2>3. (\A g \in Groups : group[g] # NoGroup => DepsOK(group[g].tasks))'
    BY <2>2
  <2> QED BY <2>1, <2>3 DEF DepsInv
<1>3. DepsInv => DependenciesAcyclic
  BY DEF DepsInv, DepsOK, DependenciesAcyclic, TasksOf
<1> QED BY <1>1, <1>2, <1>3, BoardInvariant, PTL DEF Spec
=============================================================================
