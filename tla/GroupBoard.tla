----------------------------- MODULE GroupBoard ------------------------------
(***************************************************************************)
(* The board of an agent group: who is a member, who leads, the tasks with *)
(* their owners and dependencies, and what deleting a node and undoing the *)
(* deletion does to them.                                                  *)
(*                                                                         *)
(* Every operation is one BEGIN IMMEDIATE transaction of groups.sqlite3    *)
(* that reads what it changes, so it is one step here.  The expected       *)
(* source, leader and revision a client sends are compared inside the      *)
(* transaction: a stale request is refused and changes nothing.  That a    *)
(* node exists is checked before the transaction (require_node_visible);   *)
(* the request may then wait, so the steps below do not ask for it.        *)
(*                                                                         *)
(* Texts, roles, geometry and visibility are left out, and the order of    *)
(* the list of members: "the first" is any of them.  So is node_rename     *)
(* (agent_groups/node_lifecycle.py:67-114), which puts a new name for the  *)
(* old one into members, leader, owners and index and raises revisions:    *)
(* the properties are claimed for groups whose nodes keep their names.     *)
(***************************************************************************)
EXTENDS Integers, FiniteSets

CONSTANTS Nodes,       \* names of nodes of the graph
          Groups,      \* group ids
          Tasks,       \* task ids
          NoOne,       \* None as an owner, a leader, an actor or a group
          NoTask, NoGroup,
          MaxCommands  \* bound: operations

ASSUME BoardAssumption ==
  /\ NoOne \notin Nodes /\ NoOne \notin Groups
  /\ MaxCommands \in Nat

Status == {"todo", "in_progress", "blocked", "done"}

Task == [owner : Nodes \cup {NoOne}, status : Status, deps : SUBSET Tasks,
         rev : Nat \ {0}]

ASSUME NoTaskAssumption == NoTask \notin Task

\* A document of table groups.
Group == [members : SUBSET Nodes, leader : Nodes \cup {NoOne},
          dissolved : BOOLEAN, tasks : [Tasks -> Task \cup {NoTask}]]

ASSUME NoGroupAssumption == NoGroup \notin Group

\* group-membership.json of an undo entry: the tasks the member lost.
Snapshot == [node : Nodes, group : Groups \cup {NoOne},
             tasks : [Tasks -> Task \cup {NoTask}]]

VARIABLES present,   \* nodes that have a directory
          home,      \* table members: the group of a node
          group,     \* table groups
          saved,     \* undo entries of deleted nodes
          commands

vars == <<present, home, group, saved, commands>>

Init ==
  /\ present = Nodes
  /\ home = [n \in Nodes |-> NoOne]
  /\ group = [g \in Groups |-> NoGroup]
  /\ saved = {}
  /\ commands = 0

Command == commands < MaxCommands /\ commands' = commands + 1

\* read finds the group.
Live(g) == group[g] # NoGroup /\ ~group[g].dissolved

TasksOf(g) == {t \in Tasks : group[g].tasks[t] # NoTask}

-----------------------------------------------------------------------------
(* Membership                                                              *)

\* create: the first of the list leads.
Create(g, M, leader) ==
  /\ Command
  /\ group[g] = NoGroup
  /\ leader \in M /\ \A n \in M : home[n] = NoOne
  /\ group' = [group EXCEPT ![g] =
       [members |-> M, leader |-> leader, dissolved |-> FALSE,
        tasks |-> [t \in Tasks |-> NoTask]]]
  /\ home' = [n \in Nodes |-> IF n \in M THEN g ELSE home[n]]
  /\ UNCHANGED <<present, saved>>

\* Tasks of d that its owner, one of the nodes of L, has not finished.
Unfinished(d, L) ==
  {t \in Tasks : /\ d.tasks[t] # NoTask
                 /\ d.tasks[t].owner \in L /\ d.tasks[t].status # "done"}

\* Mutant: a released task keeps its owner.
ReleasedKeepsOwner(d, L) ==
  [t \in Tasks |-> IF t \in Unfinished(d, L)
                   THEN [d.tasks[t] EXCEPT !.status = "blocked", !.rev = @ + 1]
                   ELSE d.tasks[t]]

Released(d, L) ==
  [t \in Tasks |-> IF t \in Unfinished(d, L)
                   THEN [owner |-> NoOne, status |-> "blocked",
                         deps |-> d.tasks[t].deps, rev |-> d.tasks[t].rev + 1]
                   ELSE d.tasks[t]]

\* The leaders a group may have after its members became M: the old one when
\* he stays, else a member, else nobody.
Leads(d, M, leader) ==
  IF d.leader \in M THEN leader = d.leader
  ELSE IF M # {} THEN leader \in M ELSE leader = NoOne

\* detach_member for each node of L.
Detached(d, L, leader) ==
  [d EXCEPT !.members = @ \ L, !.leader = leader, !.tasks = Released(d, L)]

Joined(d, n) ==
  [d EXCEPT !.members = @ \cup {n}, !.leader = IF @ = NoOne THEN n ELSE @]

\* move: out of the group of n, into another, or both, in one transaction.
Move(n, target) ==
  LET source == home[n]
      stay   == group[source].members \ {n}
  IN
  /\ Command
  /\ source # target
  /\ target # NoOne => Live(target)
  /\ source # NoOne => Live(source)
  /\ \E leader \in Nodes \cup {NoOne} :
       /\ source # NoOne => Leads(group[source], stay, leader)
       /\ source = NoOne => leader = NoOne
       /\ group' = [g \in Groups |->
            IF g = source THEN Detached(group[g], {n}, leader)
            ELSE IF g = target THEN Joined(group[g], n) ELSE group[g]]
  /\ home' = [home EXCEPT ![n] = target]
  /\ UNCHANGED <<present, saved>>

\* Mutant: nodes of other groups are taken over.
ResizeTakes(g, M) ==
  /\ Command
  /\ Live(g) /\ M # group[g].members
  /\ LET leavers == group[g].members \ M IN
     /\ \E leader \in Nodes \cup {NoOne} :
          /\ IF group[g].members \cap M = {} THEN Leads(group[g], M, leader)
             ELSE Leads(group[g], group[g].members \cap M, leader)
          /\ group' = [group EXCEPT ![g] =
               [Detached(@, leavers, leader) EXCEPT !.members = M]]
     /\ home' = [n \in Nodes |-> IF n \in M THEN g
                                 ELSE IF n \in leavers THEN NoOne ELSE home[n]]
  /\ UNCHANGED <<present, saved>>

\* reconcile: the frame of the group now covers the nodes M.  An old member
\* leads on before a new one does.
Resize(g, M) ==
  /\ Command
  /\ Live(g) /\ M # group[g].members
  /\ \A n \in M : home[n] \in {NoOne, g}
  /\ LET leavers == group[g].members \ M IN
     /\ \E leader \in Nodes \cup {NoOne} :
          /\ IF group[g].members \cap M = {} THEN Leads(group[g], M, leader)
             ELSE Leads(group[g], group[g].members \cap M, leader)
          /\ group' = [group EXCEPT ![g] =
               [Detached(@, leavers, leader) EXCEPT !.members = M]]
     /\ home' = [n \in Nodes |-> IF n \in M THEN g
                                 ELSE IF n \in leavers THEN NoOne ELSE home[n]]
  /\ UNCHANGED <<present, saved>>

SetLeader(g, n) ==
  /\ Command
  /\ Live(g) /\ n \in group[g].members
  /\ group[g].leader # n
  /\ group' = [group EXCEPT ![g].leader = n]
  /\ UNCHANGED <<present, home, saved>>

\* The document keeps its members and tasks; nothing reads it any more.
Dissolve(g) ==
  /\ Command
  /\ Live(g)
  /\ group' = [group EXCEPT ![g].dissolved = TRUE]
  /\ home' = [n \in Nodes |-> IF home[n] = g THEN NoOne ELSE home[n]]
  /\ UNCHANGED <<present, saved>>

-----------------------------------------------------------------------------
(* Tasks                                                                   *)

\* No task waits, over any number of dependencies, for itself: every set of
\* tasks has one that depends on none of the set.
Acyclic(T) ==
  \A S \in (SUBSET {t \in Tasks : T[t] # NoTask}) \ {{}} :
    \E t \in S : T[t].deps \cap S = {}

Finished(T, D) == \A t \in D : T[t].status = "done"

\* Mutant: only a direct dependency on itself is found.
ValidLooksOneStep(d, T, t) ==
  /\ T[t].owner \in d.members \cup {NoOne}
  /\ \A dep \in T[t].deps : T[dep] # NoTask
  /\ t \notin T[t].deps
  /\ T[t].status \in {"in_progress", "done"} =>
       T[t].owner # NoOne /\ Finished(T, T[t].deps)

\* validate_task of the task with id t in the tasks T, which hold it.  A task
\* is done with evidence only, which is not looked at any further.
Valid(d, T, t) ==
  /\ T[t].owner \in d.members \cup {NoOne}
  /\ \A dep \in T[t].deps : T[dep] # NoTask
  /\ Acyclic(T)
  /\ T[t].status \in {"in_progress", "done"} =>
       T[t].owner # NoOne /\ Finished(T, T[t].deps)

\* Mutant: revisions start at zero, which the contract refuses to read.
NewTaskFromZero(owner, deps) ==
  [owner |-> owner, status |-> "todo", deps |-> deps, rev |-> 0]

NewTask(owner, deps) ==
  [owner |-> owner, status |-> "todo", deps |-> deps, rev |-> 1]

CreateTask(g, t, actor, owner, deps) ==
  LET T == [group[g].tasks EXCEPT ![t] = NewTask(owner, deps)] IN
  /\ Command
  /\ Live(g) /\ actor \in group[g].members \cup {NoOne}
  /\ \A h \in Groups : group[h] # NoGroup => group[h].tasks[t] = NoTask
  /\ Valid(group[g], T, t)
  /\ group' = [group EXCEPT ![g].tasks = T]
  /\ UNCHANGED <<present, home, saved>>

\* Mutant: a finished task is reopened under those that rely on it.
MayReopenAlways(T, t, status) == TRUE

\* A finished task is reopened only when no work relies on it.
MayReopen(T, t, status) ==
  T[t].status = "done" /\ status # "done" =>
    \A u \in Tasks : T[u] # NoTask /\ t \in T[u].deps =>
      T[u].status \notin {"in_progress", "done"}

\* update: an agent changes only its own tasks and unowned ones, and takes one
\* for itself only.  With nothing changed here, it is a text that changes.
UpdateTask(g, t, actor, owner, status, deps) ==
  LET old == group[g].tasks[t]
      new == [owner |-> owner, status |-> status, deps |-> deps, rev |-> old.rev + 1]
      T   == [group[g].tasks EXCEPT ![t] = new]
  IN
  /\ Command
  /\ Live(g) /\ actor \in group[g].members \cup {NoOne}
  /\ old # NoTask
  /\ actor # NoOne => /\ old.owner \in {NoOne, actor}
                      /\ owner \in {NoOne, actor, old.owner}
  /\ Valid(group[g], T, t)
  /\ MayReopen(group[g].tasks, t, status)
  /\ group' = [group EXCEPT ![g].tasks = T]
  /\ UNCHANGED <<present, home, saved>>

-----------------------------------------------------------------------------
(* Nodes come and go                                                       *)

\* node_departure: the node is deleted, which can be undone, or moved to
\* another graph.
Depart(n, deleted) ==
  LET g    == home[n]
      lost == [t \in Tasks |-> IF g # NoOne /\ t \in Unfinished(group[g], {n})
                               THEN group[g].tasks[t] ELSE NoTask]
  IN
  /\ Command
  /\ n \in present /\ (g # NoOne => Live(g))
  /\ present' = present \ {n}
  /\ home' = [home EXCEPT ![n] = NoOne]
  /\ IF g = NoOne THEN UNCHANGED group
     ELSE \E leader \in Nodes \cup {NoOne} :
            /\ Leads(group[g], group[g].members \ {n}, leader)
            /\ group' = [group EXCEPT ![g] = Detached(@, {n}, leader)]
  /\ saved' = IF deleted THEN saved \cup {[node |-> n, group |-> g, tasks |-> lost]}
                         ELSE saved

\* A node with the name is made.
Appear(n) ==
  /\ Command
  /\ n \notin present
  /\ present' = present \cup {n}
  /\ UNCHANGED <<home, group, saved>>

\* Mutant: the snapshot comes back as it was.
PutBackAsSaved(d, s) ==
  [t \in Tasks |-> IF s.tasks[t] = NoTask THEN d.tasks[t] ELSE s.tasks[t]]

\* The tasks of snapshot s, put back into d.
PutBack(d, s) ==
  [t \in Tasks |-> IF s.tasks[t] = NoTask THEN d.tasks[t]
                   ELSE [s.tasks[t] EXCEPT !.rev = d.tasks[t].rev + 1]]

\* The released tasks are as the departure left them.
Untouched(d, s) ==
  \A t \in Tasks : s.tasks[t] # NoTask =>
    /\ d.tasks[t].rev = s.tasks[t].rev + 1
    /\ d.tasks[t].owner = NoOne /\ d.tasks[t].status = "blocked"

Restored(d, s) ==
  [Joined(d, s.node) EXCEPT !.tasks = PutBack(d, s)]

\* Undo of a deletion: restore_deleted_member around the restored directory.
Restore(s) ==
  /\ Command
  /\ s \in saved /\ s.node \notin present
  /\ IF s.group = NoOne THEN UNCHANGED <<home, group>>
     ELSE /\ Live(s.group) /\ home[s.node] = NoOne
          /\ Untouched(group[s.group], s)
          /\ group' = [group EXCEPT ![s.group] = Restored(@, s)]
          /\ home' = [home EXCEPT ![s.node] = s.group]
  /\ present' = present \cup {s.node}
  /\ saved' = saved \ {s}

-----------------------------------------------------------------------------
Membership ==
  \/ \E g \in Groups, M \in SUBSET Nodes :
       Resize(g, M) \/ \E n \in M : Create(g, M, n)
  \/ \E n \in Nodes, g \in Groups : SetLeader(g, n)
  \/ \E n \in Nodes, target \in Groups \cup {NoOne} : Move(n, target)
  \/ \E g \in Groups : Dissolve(g)

TaskEdits ==
  \E g \in Groups, t \in Tasks, actor \in Nodes \cup {NoOne},
     owner \in Nodes \cup {NoOne}, deps \in SUBSET Tasks :
    \/ CreateTask(g, t, actor, owner, deps)
    \/ \E status \in Status : UpdateTask(g, t, actor, owner, status, deps)

NodeChanges ==
  \/ \E n \in Nodes : Appear(n) \/ \E deleted \in BOOLEAN : Depart(n, deleted)
  \/ \E s \in saved : Restore(s)

Next == Membership \/ TaskEdits \/ NodeChanges

Spec == Init /\ [][Next]_vars

-----------------------------------------------------------------------------
(* Properties                                                              *)

\* The tables and the undo entries are well formed.
BoardTypeOK ==
  /\ present \subseteq Nodes
  /\ home \in [Nodes -> Groups \cup {NoOne}]
  /\ group \in [Groups -> Group \cup {NoGroup}]
  /\ saved \subseteq Snapshot
  /\ commands \in Nat

\* The table members and the documents tell the same story through every
\* move, resize, departure and undo: a node is in one group, and in it.
IndexAgrees ==
  /\ \A n \in Nodes : home[n] # NoOne => Live(home[n])
  /\ \A g \in Groups : Live(g) => group[g].members = {n \in Nodes : home[n] = g}

\* A group with members is led by one of them, an empty one by nobody.
LeaderIsMember ==
  \A g \in Groups : Live(g) =>
    IF group[g].members = {} THEN group[g].leader = NoOne
    ELSE group[g].leader \in group[g].members

\* Unfinished work belongs to a current member or to nobody, and work in
\* progress to somebody, whoever left, was deleted or came back; and the group
\* is led by somebody who is still there.
OwnersBelong ==
  /\ LeaderIsMember
  /\ \A g \in Groups : Live(g) => \A t \in TasksOf(g) :
       LET task == group[g].tasks[t] IN
       /\ task.status # "done" => task.owner \in group[g].members \cup {NoOne}
       /\ task.status \in {"in_progress", "done"} => task.owner # NoOne

\* No task waits for itself: edits, releases and undos never close a cycle.
DependenciesAcyclic ==
  \A g \in Groups : group[g] # NoGroup =>
    /\ \A t \in TasksOf(g) : group[g].tasks[t].deps \subseteq TasksOf(g)
    /\ Acyclic(group[g].tasks)

\* What a finished task depends on is finished, whatever is reopened.
DoneRestsOnDone ==
  \A g \in Groups : Live(g) => \A t \in TasksOf(g) :
    group[g].tasks[t].status = "done"
      => Finished(group[g].tasks, group[g].tasks[t].deps)

\* A revision names one version of a task: an edit made against what a client
\* saw is never applied to something else, not even after an undo.
RevisionGrows ==
  [][\A g \in Groups : group[g] # NoGroup => \A t \in Tasks :
       /\ group[g].tasks[t] # group'[g].tasks[t]
       /\ group[g].tasks[t] # NoTask
       => group'[g].tasks[t].rev > group[g].tasks[t].rev]_vars

\* Work in progress has its dependencies done ("finish task dependencies
\* first").  An undone deletion breaks it.
WorkUnlocked ==
  \A g \in Groups : Live(g) => \A t \in TasksOf(g) :
    group[g].tasks[t].status = "in_progress"
      => Finished(group[g].tasks, group[g].tasks[t].deps)

\* A member has a node.  A request delayed between its check and its
\* transaction breaks it.
MembersPresent ==
  \A n \in Nodes : home[n] # NoOne => n \in present
=============================================================================
