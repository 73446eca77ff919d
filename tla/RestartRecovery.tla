--------------------------- MODULE RestartRecovery ---------------------------
(***************************************************************************)
(* Checkpoints of working nodes across a restart of the backend:           *)
(* RestartRecoveryCoordinator, the startup that calls it, and the part of  *)
(* the node execution that completes a recovered run.                      *)
(*                                                                         *)
(* On disk there is one tag per node, which names its current checkpoint,  *)
(* and one state file per checkpoint.  Each file is written or removed in  *)
(* one step (atomic_write_text); the process may end between any two.  The *)
(* three operations of the coordinator exclude each other by a file lock   *)
(* (external), the executors and the queues do not take it.                *)
(*                                                                         *)
(* What users do to the queue of a recovered node (pop it, stop or delete  *)
(* the node before the run begins) is left out: CapturedRuns is about      *)
(* crashes and file errors only.                                           *)
(***************************************************************************)
EXTENDS Naturals, Sequences, FiniteSets

CONSTANTS Nodes,       \* the nodes of one graph
          MaxJobs,     \* bound: messages
          MaxCaptures, \* bound: checkpoint requests
          MaxLives     \* bound: starts of the backend

ASSUME BoundsAssumption == /\ MaxJobs \in Nat \ {0} /\ MaxCaptures \in Nat \ {0}
                           /\ MaxLives \in Nat \ {0}

VARIABLES tag,    \* tag files: node -> tag or NoTag
          files,  \* state files
          rec,    \* runtime records (memory)
          exec,   \* executors: node -> pc and item
          lock,   \* operation inside the restart lock
          cap,    \* the capture under way
          rcv,    \* the recovery under way
          phase,  \* progress of the startup
          life,   \* runtime_owner_id: one per start
          njobs, ncaps,
          captured, ended, blocked  \* history: jobs saved by a capture that
                                    \* succeeded, jobs that ran or were
                                    \* stopped, jobs whose recovery failed

disk    == <<tag, files>>
count   == <<njobs, ncaps>>
history == <<captured, ended, blocked>>
vars == <<tag, files, rec, exec, lock, cap, rcv, phase, life, njobs, ncaps,
          captured, ended, blocked>>

\* ref is the restart_id in _restart_recovery, 0 without one.
Item   == [job : 0..MaxJobs, ref : 0..MaxCaptures]
NoItem == [job |-> 0, ref |-> 0]
Record == [state : {"idle", "working"}, pending : Seq(Item), inflight : Item]
Fresh  == [state |-> "idle", pending |-> << >>, inflight |-> NoItem]

Tag   == [rid : 0..MaxCaptures, owner : 0..MaxLives,
          status : {"none", "pending", "claimed", "completed"}]
NoTag == [rid |-> 0, owner |-> 0, status |-> "none"]
File  == [node : Nodes, rid : 0..MaxCaptures, inflight : Item,
          pending : Seq(Item)]

NoCap == [pc |-> "none", todo |-> {}, at |-> {}, done |-> {},
          snap |-> [n \in Nodes |-> Fresh], prev |-> [n \in Nodes |-> NoTag]]
NoRcv == [pc |-> "none", todo |-> {}, at |-> {}, current |-> Fresh]

Parked == [pc |-> "none", item |-> NoItem]

\* The backend is about to start.  The processes before it may have left a
\* checkpoint behind: captured by one, claimed by the next, which ended too.
Init ==
  /\ \/ /\ tag = [n \in Nodes |-> NoTag] /\ files = {}
        /\ njobs = 0 /\ ncaps = 0 /\ captured = {}
     \/ \E m \in Nodes :
          /\ tag = [n \in Nodes |-> IF n # m THEN NoTag ELSE
                     [rid |-> 1, owner |-> 0, status |-> "claimed"]]
          /\ files = {[node |-> m, rid |-> 1, pending |-> << >>,
                       inflight |-> [job |-> 1, ref |-> 0]]}
          /\ njobs = 1 /\ ncaps = 1 /\ captured = {1}
  /\ rec = [n \in Nodes |-> Fresh]
  /\ exec = [n \in Nodes |-> Parked]
  /\ lock = "free" /\ cap = NoCap /\ rcv = NoRcv
  /\ phase = "down" /\ life = 0
  /\ ended = {} /\ blocked = {}

FilesOf(n, r) == {f \in files : f.node = n /\ f.rid = r}
Live(t) == t.status \in {"pending", "claimed"}

-----------------------------------------------------------------------------
(* Messages.  The group delivery thread starts before the reset and the    *)
(* recovery, and recovered nodes send to the others while it goes on; the  *)
(* API joins them when the startup is over.                                *)

Deliver(n) ==
  /\ phase # "down" /\ njobs < MaxJobs
  /\ njobs' = njobs + 1
  /\ rec' = [rec EXCEPT ![n].pending = Append(@, [job |-> njobs + 1, ref |-> 0])]
  /\ UNCHANGED <<disk, exec, lock, cap, rcv, phase, life, ncaps, history>>

-----------------------------------------------------------------------------
(* The executor of node n                                                  *)

At(n, pc) == exec[n].pc = pc
Go(n, pc) == exec' = [exec EXCEPT ![n].pc = pc]

\* The item does not matter to the executor any more.
GoClear(n) == exec' = [exec EXCEPT ![n] = [pc |-> "clear", item |-> NoItem]]

Dequeue(n) ==
  /\ phase # "down" /\ At(n, "none")
  /\ rec[n].state = "idle" /\ rec[n].pending # << >>
  /\ exec' = [exec EXCEPT ![n] = [pc |-> "run", item |-> Head(rec[n].pending)]]
  /\ rec' = [rec EXCEPT ![n] = [state |-> "working", pending |-> Tail(@.pending),
                                inflight |-> Head(@.pending)]]
  /\ UNCHANGED <<disk, lock, cap, rcv, phase, life, count, history>>

\* Stopped before the logic begins: the tag is not completed.
StopEarly(n) ==
  /\ phase = "ready" /\ At(n, "run")
  /\ ended' = ended \cup {exec[n].item.job}
  /\ GoClear(n)
  /\ UNCHANGED <<disk, rec, lock, cap, rcv, phase, life, count, captured, blocked>>

\* The logic returns, raises or is stopped; its finally clause completes the
\* recovery before inflight is cleared.
Logic(n) ==
  /\ At(n, "run")
  /\ ended' = ended \cup {exec[n].item.job}
  /\ IF exec[n].item.ref # 0 THEN Go(n, "complete") ELSE GoClear(n)
  /\ UNCHANGED <<disk, rec, lock, cap, rcv, phase, life, count, captured, blocked>>

\* Mutant: the state file goes while the tag still names it.
CompleteTagLate(n) ==
  /\ At(n, "complete") /\ lock = "free"
  /\ tag[n].status # "none" /\ tag[n].rid = exec[n].item.ref
  /\ files' = files \ FilesOf(n, tag[n].rid)
  /\ lock' = "complete"
  /\ Go(n, "untag")
  /\ UNCHANGED <<tag, rec, cap, rcv, phase, life, count, history>>

\* complete_node_recovery: the tag of this checkpoint is marked, then the
\* state file and the tag go.
CompleteTag(n) ==
  /\ At(n, "complete") /\ lock = "free"
  /\ tag[n].status # "none" /\ tag[n].rid = exec[n].item.ref
  /\ tag' = [tag EXCEPT ![n].status = "completed"]
  /\ lock' = "complete"
  /\ Go(n, "unfile")
  /\ UNCHANGED <<files, rec, cap, rcv, phase, life, count, history>>

\* A later capture has replaced the tag, or it is gone.
CompleteOther(n) ==
  /\ At(n, "complete") /\ lock = "free"
  /\ tag[n].status = "none" \/ tag[n].rid # exec[n].item.ref
  /\ GoClear(n)
  /\ UNCHANGED <<disk, rec, lock, cap, rcv, phase, life, count, history>>

CompleteFile(n) ==
  /\ At(n, "unfile")
  /\ files' = files \ FilesOf(n, tag[n].rid)
  /\ Go(n, "untag")
  /\ UNCHANGED <<tag, rec, lock, cap, rcv, phase, life, count, history>>

CompleteUntag(n) ==
  /\ At(n, "untag")
  /\ tag' = [tag EXCEPT ![n] = NoTag]
  /\ lock' = "free"
  /\ GoClear(n)
  /\ UNCHANGED <<files, rec, cap, rcv, phase, life, count, history>>

\* An error of a file operation is logged only.
CompleteFails(n) ==
  /\ \/ At(n, "complete") /\ lock = "free"
     \/ At(n, "unfile") \/ At(n, "untag")
  /\ lock' = "free"
  /\ GoClear(n)
  /\ UNCHANGED <<disk, rec, cap, rcv, phase, life, count, history>>

Clear(n) ==
  /\ At(n, "clear")
  /\ rec' = [rec EXCEPT ![n].inflight = NoItem]
  /\ Go(n, "settle")
  /\ UNCHANGED <<disk, lock, cap, rcv, phase, life, count, history>>

\* The node is idle again; what it sends on is a Deliver to another node.
Settle(n) ==
  /\ At(n, "settle")
  /\ exec' = [exec EXCEPT ![n] = Parked]
  /\ rec' = [rec EXCEPT ![n].state = "idle"]
  /\ UNCHANGED <<disk, lock, cap, rcv, phase, life, count, history>>

-----------------------------------------------------------------------------
(* capture_running_nodes.  ncaps is its restart_id.                        *)

\* A working node without inflight makes it fail before anything is written;
\* without working nodes it does nothing.
\* The records are read one after the other; nothing here relates two of them,
\* so one step reads them all.
CaptureBegin ==
  LET working == {n \in Nodes : rec[n].state = "working"} IN
  /\ phase = "ready" /\ lock = "free" /\ ncaps < MaxCaptures
  /\ working # {}
  /\ \A n \in working : rec[n].inflight # NoItem
  /\ ncaps' = ncaps + 1
  /\ lock' = "capture"
  /\ cap' = [NoCap EXCEPT
       !.pc = "write", !.todo = working,
       !.snap = [n \in Nodes |-> IF n \in working THEN rec[n] ELSE Fresh],
       !.prev = [n \in Nodes |-> IF n \in working THEN tag[n] ELSE NoTag]]
  /\ UNCHANGED <<disk, rec, exec, rcv, phase, life, njobs, history>>

CaptureEnd == lock' = "free" /\ cap' = NoCap

\* build_restart_checkpoint: the inflight item without its restart reference.
Checkpoint(n) ==
  [node |-> n, rid |-> ncaps, inflight |-> [cap.snap[n].inflight EXCEPT !.ref = 0],
   pending |-> cap.snap[n].pending]

CaptureState(n) ==
  /\ cap.pc = "write" /\ cap.at = {} /\ n \in cap.todo
  /\ files' = files \cup {Checkpoint(n)}
  /\ cap' = [cap EXCEPT !.at = {n}, !.todo = @ \ {n}]
  /\ UNCHANGED <<tag, rec, exec, lock, rcv, phase, life, count, history>>

CaptureTag(n) ==
  /\ cap.pc = "write" /\ cap.at = {n}
  /\ tag' = [tag EXCEPT ![n] = [rid |-> ncaps, owner |-> 0, status |-> "pending"]]
  /\ cap' = [cap EXCEPT !.at = {}, !.done = @ \cup {n}]
  /\ UNCHANGED <<files, rec, exec, lock, rcv, phase, life, count, history>>

\* A write raises: everything written so far is taken back.
CaptureFails ==
  /\ cap.pc = "write" /\ cap.todo \cup cap.at # {}
  /\ cap' = [cap EXCEPT !.pc = "undo", !.todo = cap.done \cup cap.at, !.at = {},
                         !.done = {}, !.snap = NoCap.snap]
  /\ UNCHANGED <<disk, rec, exec, lock, rcv, phase, life, count, history>>

\* Mutant: the tag that was there before is not written back.
CaptureUndoTagForgets(n) ==
  /\ cap.pc = "undo" /\ cap.at = {} /\ n \in cap.todo
  /\ tag' = [tag EXCEPT ![n] = NoTag]
  /\ cap' = [cap EXCEPT !.at = {n}, !.todo = @ \ {n}]
  /\ UNCHANGED <<files, rec, exec, lock, rcv, phase, life, count, history>>

CaptureUndoTag(n) ==
  /\ cap.pc = "undo" /\ cap.at = {} /\ n \in cap.todo
  /\ tag' = [tag EXCEPT ![n] = cap.prev[n]]
  /\ cap' = [cap EXCEPT !.at = {n}, !.todo = @ \ {n}]
  /\ UNCHANGED <<files, rec, exec, lock, rcv, phase, life, count, history>>

CaptureUndoState(n) ==
  /\ cap.pc = "undo" /\ cap.at = {n}
  /\ files' = files \ FilesOf(n, ncaps)
  /\ cap' = [cap EXCEPT !.at = {}]
  /\ UNCHANGED <<tag, rec, exec, lock, rcv, phase, life, count, history>>

CaptureUndone ==
  /\ cap.pc = "undo" /\ cap.todo = {} /\ cap.at = {}
  /\ CaptureEnd
  /\ UNCHANGED <<disk, rec, exec, rcv, phase, life, count, history>>

\* All tags name the new checkpoints: the files of the old ones go.
CaptureTidy(n) ==
  /\ cap.pc = "write" /\ cap.todo \cup cap.at = {} /\ n \in cap.done
  /\ cap.prev[n].status # "none"
  /\ files' = files \ FilesOf(n, cap.prev[n].rid)
  /\ cap' = [cap EXCEPT !.prev[n] = NoTag]
  /\ UNCHANGED <<tag, rec, exec, lock, rcv, phase, life, count, history>>

CaptureDone ==
  /\ cap.pc = "write" /\ cap.todo \cup cap.at = {}
  /\ \A n \in cap.done : cap.prev[n].status = "none"
  /\ captured' = captured \cup {cap.snap[n].inflight.job : n \in cap.done}
  /\ CaptureEnd
  /\ UNCHANGED <<disk, rec, exec, rcv, phase, life, count, ended, blocked>>

\* An error while taking back or tidying up leaves the rest as it is.
CaptureAborts ==
  /\ \/ cap.pc = "undo"
     \/ cap.pc = "write" /\ cap.todo \cup cap.at = {}
  /\ CaptureEnd
  /\ UNCHANGED <<disk, rec, exec, rcv, phase, life, count, history>>

-----------------------------------------------------------------------------
(* Startup                                                                 *)

\* The last life of the bound goes on.
Crash ==
  /\ phase # "down" /\ life < MaxLives
  /\ phase' = "down"
  /\ rec' = [n \in Nodes |-> Fresh]
  /\ exec' = [n \in Nodes |-> Parked]
  /\ lock' = "free" /\ cap' = NoCap /\ rcv' = NoRcv
  /\ UNCHANGED <<disk, life, count, history>>

Start ==
  /\ phase = "down" /\ life < MaxLives
  /\ life' = life + 1
  /\ phase' = "boot"
  /\ rcv' = [NoRcv EXCEPT !.pc = "reset"]
  /\ UNCHANGED <<disk, rec, exec, lock, cap, count, history>>

\* _recover_node_runtime_state_on_startup
Reset ==
  /\ rcv.pc = "reset"
  /\ rec' = [n \in Nodes |-> Fresh]
  /\ rcv' = [rcv EXCEPT !.pc = "begin"]
  /\ UNCHANGED <<disk, exec, lock, cap, phase, life, count, history>>

RecoverBegin ==
  /\ rcv.pc = "begin" /\ lock = "free"
  /\ lock' = "recover"
  /\ rcv' = [NoRcv EXCEPT !.pc = "scan",
                          !.todo = {n \in Nodes : tag[n].status # "none"}]
  /\ UNCHANGED <<disk, rec, exec, cap, phase, life, count, history>>

\* Mutant: a tag claimed by an earlier process is taken for claimed.
TurnSkipsClaimed(n, statuses) ==
  /\ rcv.pc = "scan" /\ n \in rcv.todo
  /\ tag[n].status \in statuses \ {"claimed"}

Turn(n, statuses) ==
  /\ rcv.pc = "scan" /\ n \in rcv.todo
  /\ tag[n].status \in statuses

\* The end of a completion that was interrupted.
RecoverCleanState(n) ==
  /\ Turn(n, {"completed"})
  /\ files' = files \ FilesOf(n, tag[n].rid)
  /\ rcv' = [rcv EXCEPT !.pc = "untag", !.at = {n}]
  /\ UNCHANGED <<tag, rec, exec, lock, cap, phase, life, count, history>>

RecoverCleanTag(n) ==
  /\ rcv.pc = "untag" /\ rcv.at = {n}
  /\ tag' = [tag EXCEPT ![n] = NoTag]
  /\ rcv' = [rcv EXCEPT !.pc = "scan", !.at = {}, !.todo = @ \ {n}]
  /\ UNCHANGED <<files, rec, exec, lock, cap, phase, life, count, history>>

Jobs(n) == {f.inflight.job : f \in FilesOf(n, tag[n].rid)}

\* The node has taken work already: its tag stays for the next start.
RecoverRefused(n) ==
  /\ Turn(n, {"pending", "claimed"})
  /\ rec[n].state # "idle" \/ rec[n].inflight # NoItem \/ Jobs(n) = {}
  /\ rcv' = [rcv EXCEPT !.todo = @ \ {n}]
  /\ blocked' = blocked \cup Jobs(n)
  /\ UNCHANGED <<disk, rec, exec, lock, cap, phase, life, count, captured, ended>>

RecoverClaim(n) ==
  /\ Turn(n, {"pending", "claimed"})
  /\ rec[n].state = "idle" /\ rec[n].inflight = NoItem /\ Jobs(n) # {}
  /\ tag' = [tag EXCEPT ![n].status = "claimed", ![n].owner = life]
  /\ rcv' = [rcv EXCEPT !.pc = "restore", !.at = {n}, !.current = rec[n]]
  /\ UNCHANGED <<files, rec, exec, lock, cap, phase, life, count, history>>

\* The queue is made from the checkpoint and from the record read before.
RecoverRestore(n) ==
  /\ rcv.pc = "restore" /\ rcv.at = {n}
  /\ \E f \in FilesOf(n, tag[n].rid) :
       rec' = [rec EXCEPT ![n] =
         [state |-> "idle", inflight |-> NoItem,
          pending |-> <<[f.inflight EXCEPT !.ref = tag[n].rid]>>
                        \o f.pending \o rcv.current.pending]]
  /\ rcv' = [rcv EXCEPT !.pc = "wake"]
  /\ UNCHANGED <<disk, exec, lock, cap, phase, life, count, history>>

RecoverWake(n) ==
  /\ rcv.pc = "wake" /\ rcv.at = {n}
  /\ rcv' = [rcv EXCEPT !.pc = "scan", !.at = {}, !.todo = @ \ {n}]
  /\ UNCHANGED <<disk, rec, exec, lock, cap, phase, life, count, history>>

\* An error after the claim: the record read before and the tag come back.
RecoverUndo(n) ==
  /\ rcv.pc \in {"restore", "wake"} /\ rcv.at = {n}
  /\ rec' = [rec EXCEPT ![n] = rcv.current]
  /\ tag' = [tag EXCEPT ![n].status = "pending", ![n].owner = 0]
  /\ rcv' = [rcv EXCEPT !.pc = "scan", !.at = {}, !.todo = @ \ {n}]
  /\ blocked' = blocked \cup Jobs(n)
  /\ UNCHANGED <<files, exec, lock, cap, phase, life, count, captured, ended>>

RecoverEnd ==
  /\ rcv.pc = "scan" /\ rcv.todo = {}
  /\ rcv' = NoRcv /\ lock' = "free" /\ phase' = "ready"
  /\ UNCHANGED <<disk, rec, exec, cap, life, count, history>>

-----------------------------------------------------------------------------
Executor(n) ==
  \/ Dequeue(n) \/ Logic(n) \/ Clear(n) \/ Settle(n)
  \/ CompleteTag(n) \/ CompleteOther(n) \/ CompleteFile(n) \/ CompleteUntag(n)
  \/ CompleteFails(n)

Capture ==
  \/ \E n \in Nodes : \/ CaptureState(n) \/ CaptureTag(n)
                      \/ CaptureUndoTag(n) \/ CaptureUndoState(n)
                      \/ CaptureTidy(n)
  \/ CaptureFails \/ CaptureUndone
  \/ CaptureDone \/ CaptureAborts

Startup ==
  \/ Start \/ Reset \/ RecoverBegin \/ RecoverEnd
  \/ \E n \in Nodes : \/ RecoverCleanState(n) \/ RecoverCleanTag(n)
                      \/ RecoverRefused(n) \/ RecoverClaim(n)
                      \/ RecoverRestore(n) \/ RecoverWake(n) \/ RecoverUndo(n)

Next == \/ \E n \in Nodes : Deliver(n) \/ StopEarly(n) \/ Executor(n)
        \/ CaptureBegin \/ Capture \/ Startup \/ Crash

Spec == Init /\ [][Next]_vars

\* The threads go on; a backend that ended is started again.
Fairness == WF_vars(Capture) /\ WF_vars(Startup)
            /\ \A n \in Nodes : WF_vars(Executor(n))

FairSpec == Spec /\ Fairness

-----------------------------------------------------------------------------
(* Properties                                                              *)

ExecType == [pc : {"none", "run", "complete", "unfile", "untag", "clear",
                   "settle"}, item : Item]
CapType  == [pc : {"none", "write", "undo"}, todo : SUBSET Nodes,
             at : SUBSET Nodes, done : SUBSET Nodes,
             snap : [Nodes -> Record], prev : [Nodes -> Tag]]
RcvType  == [pc : {"none", "reset", "begin", "scan", "untag", "restore", "wake"},
             todo : SUBSET Nodes, at : SUBSET Nodes, current : Record]

\* The files, the queues and the operations under way are well formed.
RecoveryTypeOK ==
  /\ tag \in [Nodes -> Tag]
  /\ files \subseteq File
  /\ rec \in [Nodes -> Record]
  /\ exec \in [Nodes -> ExecType]
  /\ lock \in {"free", "capture", "recover", "complete"}
  /\ cap \in CapType
  /\ rcv \in RcvType
  /\ phase \in {"down", "boot", "ready"}
  /\ life \in 0..MaxLives
  /\ njobs \in 0..MaxJobs /\ ncaps \in 0..MaxCaptures
  /\ captured \cup ended \cup blocked \subseteq 0..MaxJobs

\* Wherever the process ends, a tag that asks for recovery names a state file
\* that is there: capture, its rollback, recovery and completion order their
\* file operations so.
TagHasState == \A n \in Nodes : Live(tag[n]) => FilesOf(n, tag[n].rid) # {}

\* What TagHasState rests on: who works on the files of a node holds the
\* lock, a tag under removal says completed, and a capture has the file of
\* every tag it has written and of every tag it may have to write back.
FileOrder ==
  /\ \A n \in Nodes : tag[n].rid <= ncaps
  /\ \A n \in Nodes : exec[n].pc \in {"unfile", "untag"}
       => lock = "complete" /\ tag[n].status = "completed"
  /\ \A n, m \in Nodes : exec[n].pc \in {"unfile", "untag"}
                        /\ exec[m].pc \in {"unfile", "untag"} => n = m
  /\ rcv.pc \in {"scan", "untag", "restore", "wake"} => lock = "recover"
  /\ rcv.pc \in {"restore", "wake"} => \A n \in rcv.at : Live(tag[n])
  /\ cap.pc # "none" => lock = "capture" /\ \A n \in Nodes : cap.prev[n].rid < ncaps
  /\ cap.pc = "write" =>
       /\ \A n \in cap.at : FilesOf(n, ncaps) # {}
       /\ \A n \in cap.done : tag[n].rid = ncaps
  /\ cap.pc = "undo" => \A n \in cap.at : tag[n].rid # ncaps
  /\ cap.pc = "undo" \/ (cap.pc = "write" /\ cap.todo \cup cap.at # {}) =>
       \A n \in Nodes : Live(cap.prev[n]) => FilesOf(n, cap.prev[n].rid) # {}

\* A run saved by a capture that succeeded can be recovered from the disk until
\* it has run or was stopped, through any number of crashes and captures,
\* unless its recovery failed at a start (RecoverRefused, RecoverUndo).
CapturedKept ==
  \A j \in captured \ (ended \cup blocked) :
    \E n \in Nodes : Live(tag[n]) /\ j \in Jobs(n)

\* The same without the exception: a failed recovery retains its checkpoint.
FailedRetained ==
  \A j \in captured \ ended : \E n \in Nodes : Live(tag[n]) /\ j \in Jobs(n)

\* A captured run is run again (or was finished before the process ended),
\* whatever crashes come between, once the backend stays up.
CapturedRuns ==
  \A j \in 1..MaxJobs :
    j \in captured ~> j \in ended \cup blocked
=============================================================================
