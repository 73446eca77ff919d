------------------------ MODULE RestartRecoveryProofs ------------------------
(* The state of the restart recovery stays well formed, a tag always has   *)
(* its state file, and a run that was captured stays on disk until it has  *)
(* run again, for any number of nodes, messages, captures and processes.   *)
EXTENDS RestartRecovery, SequenceTheorems, TLAPS

\* Ranges of the numbers, which the steps below need as facts of arithmetic.
LEMMA Constants ==
  /\ NoItem \in Item /\ Fresh \in Record /\ NoTag \in Tag
  /\ 0 \in 0..MaxCaptures /\ 0 \in 0..MaxLives
  /\ 1 \in 0..MaxJobs /\ 1 \in 0..MaxCaptures /\ 1 \in 1..MaxCaptures
<1>1. << >> \in Seq(Item)
  BY EmptySeq
<1> QED BY <1>1, BoundsAssumption DEF NoItem, Item, Fresh, Record, NoTag, Tag

\* The values that nothing under way has.
LEMMA Resting == NoCap \in CapType /\ NoRcv \in RcvType /\ Parked \in ExecType
BY Constants DEF NoCap, CapType, NoRcv, RcvType, Parked, ExecType

LEMMA InitType == Init => RecoveryTypeOK
<1> SUFFICES ASSUME Init PROVE RecoveryTypeOK
  OBVIOUS
<1>1. << >> \in Seq(Item)
  BY EmptySeq
<1>2. tag \in [Nodes -> Tag]
  BY Constants, BoundsAssumption DEF Init, Tag
<1>3. files \subseteq File
  <2>1. [job |-> 1, ref |-> 0] \in Item
    BY BoundsAssumption DEF Item
  <2>2. ASSUME NEW m \in Nodes
        PROVE  [node |-> m, rid |-> 1, pending |-> << >>,
                inflight |-> [job |-> 1, ref |-> 0]] \in File
    BY <1>1, <2>1, Constants DEF File
  <2> QED BY <2>2 DEF Init
<1> QED BY <1>2, <1>3, Constants, Resting, BoundsAssumption
        DEF Init, RecoveryTypeOK

LEMMA NextType == RecoveryTypeOK /\ [Next]_vars => RecoveryTypeOK'
<1> SUFFICES ASSUME RecoveryTypeOK, [Next]_vars PROVE RecoveryTypeOK'
  OBVIOUS
<1>1. ASSUME NEW n \in Nodes, Deliver(n) PROVE RecoveryTypeOK'
  <2>1. (rec \in [Nodes -> Record])'
    <3>1. [job |-> njobs + 1, ref |-> 0] \in Item
      BY <1>1, BoundsAssumption DEF Deliver, RecoveryTypeOK, Item
    <3>2. Append(rec[n].pending, [job |-> njobs + 1, ref |-> 0]) \in Seq(Item)
      BY <3>1, AppendProperties DEF RecoveryTypeOK, Record
    <3> QED BY <1>1, <3>2 DEF Deliver, RecoveryTypeOK, Record
  <2>2. (njobs \in 0..MaxJobs)'
    BY <1>1, Constants, Resting, BoundsAssumption DEF Deliver, RecoveryTypeOK
  <2> QED BY <1>1, <2>1, <2>2 DEF Deliver, RecoveryTypeOK, disk, count, history
<1>2. ASSUME NEW n \in Nodes, StopEarly(n) PROVE RecoveryTypeOK'
  <2>1. (exec \in [Nodes -> ExecType])'
    BY <1>2, Constants, Resting, BoundsAssumption DEF StopEarly, RecoveryTypeOK, GoClear, At, ExecType
  <2>2. (captured \cup ended \cup blocked \subseteq 0..MaxJobs)'
    BY <1>2, Constants, Resting, BoundsAssumption DEF StopEarly, RecoveryTypeOK, At, ExecType, Item
  <2> QED BY <1>2, <2>1, <2>2 DEF StopEarly, RecoveryTypeOK, disk, count, history
<1>3. ASSUME NEW n \in Nodes, Dequeue(n) PROVE RecoveryTypeOK'
  <2>1. (exec \in [Nodes -> ExecType])'
    BY <1>3, Constants, Resting, BoundsAssumption DEF Dequeue, RecoveryTypeOK, ExecType, Record, At
  <2>2. (rec \in [Nodes -> Record])'
    BY <1>3, Constants, Resting, BoundsAssumption DEF Dequeue, RecoveryTypeOK, Record
  <2> QED BY <1>3, <2>1, <2>2 DEF Dequeue, RecoveryTypeOK, disk, count, history
<1>4. ASSUME NEW n \in Nodes, Logic(n) PROVE RecoveryTypeOK'
  <2>1. (exec \in [Nodes -> ExecType])'
    BY <1>4, Constants, Resting, BoundsAssumption DEF Logic, RecoveryTypeOK, Go, GoClear, At, ExecType
  <2>2. (captured \cup ended \cup blocked \subseteq 0..MaxJobs)'
    BY <1>4, Constants, Resting, BoundsAssumption DEF Logic, RecoveryTypeOK, ExecType, Item
  <2> QED BY <1>4, <2>1, <2>2 DEF Logic, RecoveryTypeOK, disk, count, history
<1>5. ASSUME NEW n \in Nodes, Clear(n) PROVE RecoveryTypeOK'
  <2>1. (exec \in [Nodes -> ExecType])'
    BY <1>5, Constants, Resting, BoundsAssumption DEF Clear, RecoveryTypeOK, Go, At, ExecType
  <2>2. (rec \in [Nodes -> Record])'
    BY <1>5, Constants, Resting, BoundsAssumption DEF Clear, RecoveryTypeOK, Record
  <2> QED BY <1>5, <2>1, <2>2 DEF Clear, RecoveryTypeOK, disk, count, history
<1>6. ASSUME NEW n \in Nodes, Settle(n) PROVE RecoveryTypeOK'
  <2>1. (exec \in [Nodes -> ExecType])'
    BY <1>6, Constants, Resting, BoundsAssumption DEF Settle, RecoveryTypeOK, ExecType, Parked
  <2>2. (rec \in [Nodes -> Record])'
    BY <1>6, Constants, Resting, BoundsAssumption DEF Settle, RecoveryTypeOK, Record
  <2> QED BY <1>6, <2>1, <2>2 DEF Settle, RecoveryTypeOK, disk, count, history
<1>7. ASSUME NEW n \in Nodes, CompleteTag(n) PROVE RecoveryTypeOK'
  <2>1. (tag \in [Nodes -> Tag])'
    BY <1>7, Constants, Resting, BoundsAssumption DEF CompleteTag, RecoveryTypeOK, Tag
  <2>2. (exec \in [Nodes -> ExecType])'
    BY <1>7, Constants, Resting, BoundsAssumption DEF CompleteTag, RecoveryTypeOK, Go, At, ExecType
  <2> QED BY <1>7, <2>1, <2>2 DEF CompleteTag, RecoveryTypeOK, disk, count, history
<1>8. ASSUME NEW n \in Nodes, CompleteOther(n) PROVE RecoveryTypeOK'
  <2>1. (exec \in [Nodes -> ExecType])'
    BY <1>8, Constants, Resting, BoundsAssumption DEF CompleteOther, RecoveryTypeOK, GoClear, At, ExecType
  <2> QED BY <1>8, <2>1 DEF CompleteOther, RecoveryTypeOK, disk, count, history
<1>9. ASSUME NEW n \in Nodes, CompleteFile(n) PROVE RecoveryTypeOK'
  <2>1. (files \subseteq File)'
    BY <1>9, Constants, Resting, BoundsAssumption DEF CompleteFile, RecoveryTypeOK
  <2>2. (exec \in [Nodes -> ExecType])'
    BY <1>9, Constants, Resting, BoundsAssumption DEF CompleteFile, RecoveryTypeOK, Go, At, ExecType
  <2> QED BY <1>9, <2>1, <2>2 DEF CompleteFile, RecoveryTypeOK, disk, count, history
<1>10. ASSUME NEW n \in Nodes, CompleteUntag(n) PROVE RecoveryTypeOK'
  <2>1. (tag \in [Nodes -> Tag])'
    BY <1>10, Constants, Resting, BoundsAssumption DEF CompleteUntag, RecoveryTypeOK
  <2>2. (exec \in [Nodes -> ExecType])'
    BY <1>10, Constants, Resting, BoundsAssumption DEF CompleteUntag, RecoveryTypeOK, GoClear, At, ExecType
  <2> QED BY <1>10, <2>1, <2>2 DEF CompleteUntag, RecoveryTypeOK, disk, count, history
<1>11. ASSUME NEW n \in Nodes, CompleteFails(n) PROVE RecoveryTypeOK'
  <2>1. (exec \in [Nodes -> ExecType])'
    BY <1>11, Constants, Resting, BoundsAssumption DEF CompleteFails, RecoveryTypeOK, GoClear, At, ExecType
  <2> QED BY <1>11, <2>1 DEF CompleteFails, RecoveryTypeOK, disk, count, history
<1>12. CASE CaptureBegin
  <2>1. (cap \in CapType)'
    BY <1>12, Constants, Resting, BoundsAssumption DEF CaptureBegin, RecoveryTypeOK, CapType, NoCap
  <2>2. (ncaps \in 0..MaxCaptures)'
    BY <1>12, Constants, Resting, BoundsAssumption DEF CaptureBegin, RecoveryTypeOK
  <2> QED BY <1>12, <2>1, <2>2 DEF CaptureBegin, RecoveryTypeOK, disk, count, history
<1>13. ASSUME NEW n \in Nodes, CaptureState(n) PROVE RecoveryTypeOK'
  <2>1. (files \subseteq File)'
    <3>0. cap.snap[n].inflight \in Item
      BY DEF RecoveryTypeOK, CapType, Record
    <3>1. [cap.snap[n].inflight EXCEPT !.ref = 0] \in Item
      BY <3>0, Constants DEF Item
    <3>2. Checkpoint(n) \in File
      BY <3>1 DEF RecoveryTypeOK, CapType, Record, Checkpoint, File
    <3> QED BY <1>13, <3>2 DEF CaptureState, RecoveryTypeOK
  <2>2. (cap \in CapType)'
    BY <1>13, Constants, Resting, BoundsAssumption DEF CaptureState, RecoveryTypeOK, CapType
  <2> QED BY <1>13, <2>1, <2>2 DEF CaptureState, RecoveryTypeOK, disk, count, history
<1>14. ASSUME NEW n \in Nodes, CaptureTag(n) PROVE RecoveryTypeOK'
  <2>1. (tag \in [Nodes -> Tag])'
    BY <1>14, Constants, Resting, BoundsAssumption DEF CaptureTag, RecoveryTypeOK, Tag
  <2>2. (cap \in CapType)'
    BY <1>14, Constants, Resting, BoundsAssumption DEF CaptureTag, RecoveryTypeOK, CapType
  <2> QED BY <1>14, <2>1, <2>2 DEF CaptureTag, RecoveryTypeOK, disk, count, history
<1>15. ASSUME NEW n \in Nodes, CaptureUndoTag(n) PROVE RecoveryTypeOK'
  <2>1. (tag \in [Nodes -> Tag])'
    BY <1>15, Constants, Resting, BoundsAssumption DEF CaptureUndoTag, RecoveryTypeOK, CapType
  <2>2. (cap \in CapType)'
    BY <1>15, Constants, Resting, BoundsAssumption DEF CaptureUndoTag, RecoveryTypeOK, CapType
  <2> QED BY <1>15, <2>1, <2>2 DEF CaptureUndoTag, RecoveryTypeOK, disk, count, history
<1>16. ASSUME NEW n \in Nodes, CaptureUndoState(n) PROVE RecoveryTypeOK'
  <2>1. (files \subseteq File)'
    BY <1>16, Constants, Resting, BoundsAssumption DEF CaptureUndoState, RecoveryTypeOK
  <2>2. (cap \in CapType)'
    BY <1>16, Constants, Resting, BoundsAssumption DEF CaptureUndoState, RecoveryTypeOK, CapType
  <2> QED BY <1>16, <2>1, <2>2 DEF CaptureUndoState, RecoveryTypeOK, disk, count, history
<1>17. ASSUME NEW n \in Nodes, CaptureTidy(n) PROVE RecoveryTypeOK'
  <2>1. (files \subseteq File)'
    BY <1>17, Constants, Resting, BoundsAssumption DEF CaptureTidy, RecoveryTypeOK
  <2>2. (cap \in CapType)'
    BY <1>17, Constants, Resting, BoundsAssumption DEF CaptureTidy, RecoveryTypeOK, CapType
  <2> QED BY <1>17, <2>1, <2>2 DEF CaptureTidy, RecoveryTypeOK, disk, count, history
<1>18. CASE CaptureFails
  <2>1. (cap \in CapType)'
    BY <1>18, Constants, Resting, BoundsAssumption DEF CaptureFails, RecoveryTypeOK, CapType, NoCap
  <2> QED BY <1>18, <2>1 DEF CaptureFails, RecoveryTypeOK, disk, count, history
<1>19. CASE CaptureUndone
  <2>1. (cap \in CapType)'
    BY <1>19, Constants, Resting, BoundsAssumption DEF CaptureUndone, RecoveryTypeOK, CaptureEnd, CapType, NoCap
  <2> QED BY <1>19, <2>1 DEF CaptureUndone, RecoveryTypeOK, disk, count, history, CaptureEnd
<1>20. CASE CaptureDone
  <2>1. (cap \in CapType)'
    BY <1>20, Constants, Resting, BoundsAssumption DEF CaptureDone, RecoveryTypeOK, CaptureEnd, CapType, NoCap
  <2>2. (captured \cup ended \cup blocked \subseteq 0..MaxJobs)'
    BY <1>20, Constants, Resting, BoundsAssumption DEF CaptureDone, RecoveryTypeOK, CapType, Record, Item
  <2> QED BY <1>20, <2>1, <2>2 DEF CaptureDone, RecoveryTypeOK, disk, count, history, CaptureEnd
<1>21. CASE CaptureAborts
  <2>1. (cap \in CapType)'
    BY <1>21, Constants, Resting, BoundsAssumption DEF CaptureAborts, RecoveryTypeOK, CaptureEnd, CapType, NoCap
  <2> QED BY <1>21, <2>1 DEF CaptureAborts, RecoveryTypeOK, disk, count, history, CaptureEnd
<1>22. CASE Start
  <2>1. (rcv \in RcvType)'
    BY <1>22, Constants, Resting, BoundsAssumption DEF Start, RecoveryTypeOK, NoRcv, RcvType
  <2>2. (life \in 0..MaxLives)'
    BY <1>22, Constants, Resting, BoundsAssumption DEF Start, RecoveryTypeOK
  <2> QED BY <1>22, <2>1, <2>2 DEF Start, RecoveryTypeOK, disk, count, history
<1>23. CASE Reset
  <2>1. (rec \in [Nodes -> Record])'
    BY <1>23, Constants, Resting, BoundsAssumption DEF Reset, RecoveryTypeOK
  <2>2. (rcv \in RcvType)'
    BY <1>23, Constants, Resting, BoundsAssumption DEF Reset, RecoveryTypeOK, RcvType
  <2> QED BY <1>23, <2>1, <2>2 DEF Reset, RecoveryTypeOK, disk, count, history
<1>24. CASE RecoverBegin
  <2>1. (rcv \in RcvType)'
    BY <1>24, Constants, Resting, BoundsAssumption DEF RecoverBegin, RecoveryTypeOK, NoRcv, RcvType
  <2> QED BY <1>24, <2>1 DEF RecoverBegin, RecoveryTypeOK, disk, count, history
<1>25. CASE RecoverEnd
  <2>1. (rcv \in RcvType)'
    BY <1>25, Constants, Resting, BoundsAssumption DEF RecoverEnd, RecoveryTypeOK, NoRcv, RcvType
  <2> QED BY <1>25, <2>1 DEF RecoverEnd, RecoveryTypeOK, disk, count, history
<1>26. ASSUME NEW n \in Nodes, RecoverCleanState(n) PROVE RecoveryTypeOK'
  <2>1. (files \subseteq File)'
    BY <1>26, Constants, Resting, BoundsAssumption DEF RecoverCleanState, RecoveryTypeOK, Turn
  <2>2. (rcv \in RcvType)'
    BY <1>26, Constants, Resting, BoundsAssumption DEF RecoverCleanState, RecoveryTypeOK, RcvType
  <2> QED BY <1>26, <2>1, <2>2 DEF RecoverCleanState, RecoveryTypeOK, disk, count, history
<1>27. ASSUME NEW n \in Nodes, RecoverCleanTag(n) PROVE RecoveryTypeOK'
  <2>1. (tag \in [Nodes -> Tag])'
    BY <1>27, Constants, Resting, BoundsAssumption DEF RecoverCleanTag, RecoveryTypeOK
  <2>2. (rcv \in RcvType)'
    BY <1>27, Constants, Resting, BoundsAssumption DEF RecoverCleanTag, RecoveryTypeOK, RcvType
  <2> QED BY <1>27, <2>1, <2>2 DEF RecoverCleanTag, RecoveryTypeOK, disk, count, history
<1>28. ASSUME NEW n \in Nodes, RecoverRefused(n) PROVE RecoveryTypeOK'
  <2>1. (rcv \in RcvType)'
    BY <1>28, Constants, Resting, BoundsAssumption DEF RecoverRefused, RecoveryTypeOK, RcvType
  <2>2. (captured \cup ended \cup blocked \subseteq 0..MaxJobs)'
    BY <1>28, Constants, Resting, BoundsAssumption DEF RecoverRefused, RecoveryTypeOK, Jobs, FilesOf, File, Item
  <2> QED BY <1>28, <2>1, <2>2 DEF RecoverRefused, RecoveryTypeOK, disk, count, history
<1>29. ASSUME NEW n \in Nodes, RecoverClaim(n) PROVE RecoveryTypeOK'
  <2>1. (tag \in [Nodes -> Tag])'
    BY <1>29, Constants, Resting, BoundsAssumption DEF RecoverClaim, RecoveryTypeOK, Tag
  <2>2. (rcv \in RcvType)'
    BY <1>29, Constants, Resting, BoundsAssumption DEF RecoverClaim, RecoveryTypeOK, RcvType
  <2> QED BY <1>29, <2>1, <2>2 DEF RecoverClaim, RecoveryTypeOK, disk, count, history
<1>30. ASSUME NEW n \in Nodes, RecoverRestore(n) PROVE RecoveryTypeOK'
  <2>1. (rec \in [Nodes -> Record])'
    <3>1. PICK f \in FilesOf(n, tag[n].rid) :
            rec' = [rec EXCEPT ![n] =
              [state |-> "idle", inflight |-> NoItem,
               pending |-> <<[f.inflight EXCEPT !.ref = tag[n].rid]>>
                             \o f.pending \o rcv.current.pending]]
      BY <1>30 DEF RecoverRestore
    <3>2. f \in File /\ tag[n].rid \in 0..MaxCaptures
      BY DEF RecoveryTypeOK, FilesOf, Tag
    <3>3. [f.inflight EXCEPT !.ref = tag[n].rid] \in Item
      BY <3>2 DEF File, Item
    <3> DEFINE head == <<[f.inflight EXCEPT !.ref = tag[n].rid]>>
    <3>4. head \in Seq(Item)
      BY <3>3
    <3>5. f.pending \in Seq(Item) /\ rcv.current.pending \in Seq(Item)
      BY <3>2 DEF File, RecoveryTypeOK, RcvType, Record
    <3> HIDE DEF head
    <3>6. head \o f.pending \o rcv.current.pending \in Seq(Item)
      BY <3>4, <3>5, ConcatProperties
    <3>7. [state |-> "idle", inflight |-> NoItem,
           pending |-> head \o f.pending \o rcv.current.pending] \in Record
      BY <3>6, Constants DEF Record
    <3> QED BY <3>1, <3>7 DEF RecoveryTypeOK, head
  <2>2. (rcv \in RcvType)'
    BY <1>30, Constants, Resting, BoundsAssumption DEF RecoverRestore, RecoveryTypeOK, RcvType
  <2> QED BY <1>30, <2>1, <2>2 DEF RecoverRestore, RecoveryTypeOK, disk, count, history
<1>31. ASSUME NEW n \in Nodes, RecoverWake(n) PROVE RecoveryTypeOK'
  <2>1. (rcv \in RcvType)'
    BY <1>31, Constants, Resting, BoundsAssumption DEF RecoverWake, RecoveryTypeOK, RcvType
  <2> QED BY <1>31, <2>1 DEF RecoverWake, RecoveryTypeOK, disk, count, history
<1>32. ASSUME NEW n \in Nodes, RecoverUndo(n) PROVE RecoveryTypeOK'
  <2>1. (rec \in [Nodes -> Record])'
    BY <1>32, Constants, Resting, BoundsAssumption DEF RecoverUndo, RecoveryTypeOK, RcvType
  <2>2. (tag \in [Nodes -> Tag])'
    <3>1. [tag[n] EXCEPT !.status = "pending", !.owner = 0] \in Tag
      <4>1. tag[n] \in Tag
        BY DEF RecoveryTypeOK
      <4> QED BY <4>1, Constants DEF Tag
    <3> QED BY <1>32, <3>1 DEF RecoverUndo, RecoveryTypeOK
  <2>3. (rcv \in RcvType)'
    BY <1>32, Constants, Resting, BoundsAssumption DEF RecoverUndo, RecoveryTypeOK, RcvType
  <2>4. (captured \cup ended \cup blocked \subseteq 0..MaxJobs)'
    BY <1>32, Constants, Resting, BoundsAssumption DEF RecoverUndo, RecoveryTypeOK, Jobs, FilesOf, File, Item
  <2> QED BY <1>32, <2>1, <2>2, <2>3, <2>4 DEF RecoverUndo, RecoveryTypeOK, disk, count, history
<1>33. CASE Crash
  <2>1. (rec \in [Nodes -> Record])'
    BY <1>33, Constants, Resting, BoundsAssumption DEF Crash, RecoveryTypeOK
  <2>2. (exec \in [Nodes -> ExecType])'
    BY <1>33, Constants, Resting, BoundsAssumption DEF Crash, RecoveryTypeOK, Parked, ExecType
  <2>3. (cap \in CapType)'
    BY <1>33, Constants, Resting, BoundsAssumption DEF Crash, RecoveryTypeOK, NoCap, CapType
  <2>4. (rcv \in RcvType)'
    BY <1>33, Constants, Resting, BoundsAssumption DEF Crash, RecoveryTypeOK, NoRcv, RcvType
  <2> QED BY <1>33, <2>1, <2>2, <2>3, <2>4 DEF Crash, RecoveryTypeOK, disk, count, history
<1>34. CASE UNCHANGED vars
  BY <1>34 DEF RecoveryTypeOK, vars
<1> QED BY <1>1, <1>2, <1>3, <1>4, <1>5, <1>6, <1>7, <1>8, <1>9, <1>10, <1>11,
        <1>12, <1>13, <1>14, <1>15, <1>16, <1>17, <1>18, <1>19, <1>20, <1>21,
        <1>22, <1>23, <1>24, <1>25, <1>26, <1>27, <1>28, <1>29, <1>30, <1>31,
        <1>32, <1>33, <1>34 DEF Next, Executor, Capture, Startup
\* The restart recovery keeps its files, queues and operations well formed.
THEOREM RecoveryTypeCorrect == Spec => []RecoveryTypeOK
BY InitType, NextType, PTL DEF Spec

-----------------------------------------------------------------------------
(* A tag always has its state file.  The invariant is inductive together   *)
(* with FileOrder: who may touch which file when.                          *)

RecoveryInv == RecoveryTypeOK /\ TagHasState /\ FileOrder

LEMMA InitOrder == Init => TagHasState /\ FileOrder
<1> SUFFICES ASSUME Init PROVE TagHasState /\ FileOrder
  OBVIOUS
<1>1. CASE files = {}
  <2>1. tag = [n \in Nodes |-> NoTag] /\ ncaps = 0
    BY <1>1 DEF Init
  <2> QED BY <1>1, <2>1 DEF Init, TagHasState, FileOrder, FilesOf, Live, NoTag, NoCap, NoRcv, Parked
<1>2. CASE files # {}
  <2>1. PICK m \in Nodes :
          /\ tag = [n \in Nodes |-> IF n # m THEN NoTag ELSE
                     [rid |-> 1, owner |-> 0, status |-> "claimed"]]
          /\ files = {[node |-> m, rid |-> 1, pending |-> << >>,
                       inflight |-> [job |-> 1, ref |-> 0]]}
          /\ ncaps = 1
    BY <1>2 DEF Init
  <2>2. TagHasState
    <3>1. \A n \in Nodes : Live(tag[n]) => n = m /\ tag[n].rid = 1
      BY <2>1 DEF Live, NoTag
    <3>2. [node |-> m, rid |-> 1, pending |-> << >>,
           inflight |-> [job |-> 1, ref |-> 0]] \in FilesOf(m, 1)
      BY <2>1 DEF FilesOf
    <3> QED BY <3>1, <3>2 DEF TagHasState
  <2>3. FileOrder
    BY <2>1 DEF Init, FileOrder, Live, NoTag, NoCap, NoRcv, Parked
  <2> QED BY <2>2, <2>3
<1> QED BY <1>1, <1>2

LEMMA NextOrder == RecoveryInv /\ [Next]_vars => TagHasState' /\ FileOrder'
<1> SUFFICES ASSUME RecoveryInv, [Next]_vars PROVE TagHasState' /\ FileOrder'
  OBVIOUS
<1> USE DEF RecoveryInv, RecoveryTypeOK, Tag, ExecType, CapType, RcvType, FilesOf, Live, disk, count, history
<1>1. ASSUME NEW n \in Nodes, Deliver(n) PROVE TagHasState' /\ FileOrder'
  <2>1. TagHasState'
    BY <1>1 DEF TagHasState, FileOrder, Deliver
  <2>2. FileOrder'
    BY <1>1 DEF TagHasState, FileOrder, Deliver
  <2> QED BY <2>1, <2>2
<1>2. ASSUME NEW n \in Nodes, StopEarly(n) PROVE TagHasState' /\ FileOrder'
  <2>1. TagHasState'
    BY <1>2 DEF TagHasState, FileOrder, StopEarly, GoClear, At
  <2>2. FileOrder'
    BY <1>2 DEF TagHasState, FileOrder, StopEarly, GoClear, At
  <2> QED BY <2>1, <2>2
<1>3. ASSUME NEW n \in Nodes, Dequeue(n) PROVE TagHasState' /\ FileOrder'
  <2>1. TagHasState'
    BY <1>3 DEF TagHasState, FileOrder, Dequeue, At
  <2>2. FileOrder'
    BY <1>3 DEF TagHasState, FileOrder, Dequeue, At
  <2> QED BY <2>1, <2>2
<1>4. ASSUME NEW n \in Nodes, Logic(n) PROVE TagHasState' /\ FileOrder'
  <2>1. TagHasState'
    BY <1>4 DEF TagHasState, FileOrder, Logic, GoClear, Go, At
  <2>2. FileOrder'
    <3>1. \A m \in Nodes : exec'[m].pc \in {"unfile", "untag"} => exec'[m].pc = exec[m].pc
      <4>1. CASE exec[n].item.ref # 0
        <5>1. exec' = [exec EXCEPT ![n].pc = "complete"]
          BY <1>4, <4>1 DEF Logic, Go
        <5> QED BY <5>1
      <4>2. CASE exec[n].item.ref = 0
        <5>1. exec' = [exec EXCEPT ![n] = [pc |-> "clear", item |-> NoItem]]
          BY <1>4, <4>2 DEF Logic, GoClear
        <5> QED BY <5>1
      <4> QED BY <4>1, <4>2
    <3>2. UNCHANGED <<tag, files, lock, rcv, cap, ncaps>>
      BY <1>4 DEF Logic
    <3> QED BY <3>1, <3>2 DEF FileOrder
  <2> QED BY <2>1, <2>2
<1>5. ASSUME NEW n \in Nodes, Clear(n) PROVE TagHasState' /\ FileOrder'
  <2>1. TagHasState'
    BY <1>5 DEF TagHasState, FileOrder, Clear, Go, At
  <2>2. FileOrder'
    BY <1>5 DEF TagHasState, FileOrder, Clear, Go, At
  <2> QED BY <2>1, <2>2
<1>6. ASSUME NEW n \in Nodes, Settle(n) PROVE TagHasState' /\ FileOrder'
  <2>1. TagHasState'
    BY <1>6 DEF TagHasState, FileOrder, Settle, At, Parked
  <2>2. FileOrder'
    BY <1>6 DEF TagHasState, FileOrder, Settle, At, Parked
  <2> QED BY <2>1, <2>2
<1>7. ASSUME NEW n \in Nodes, CompleteTag(n) PROVE TagHasState' /\ FileOrder'
  <2>1. TagHasState'
    BY <1>7 DEF TagHasState, FileOrder, CompleteTag, Go, At
  <2>2. FileOrder'
    BY <1>7 DEF TagHasState, FileOrder, CompleteTag, Go, At
  <2> QED BY <2>1, <2>2
<1>8. ASSUME NEW n \in Nodes, CompleteOther(n) PROVE TagHasState' /\ FileOrder'
  <2>1. TagHasState'
    BY <1>8 DEF TagHasState, FileOrder, CompleteOther, GoClear, At
  <2>2. FileOrder'
    BY <1>8 DEF TagHasState, FileOrder, CompleteOther, GoClear, At
  <2> QED BY <2>1, <2>2
<1>9. ASSUME NEW n \in Nodes, CompleteFile(n) PROVE TagHasState' /\ FileOrder'
  <2>1. TagHasState'
    <3>1. ASSUME NEW m \in Nodes, Live(tag[m])
          PROVE  FilesOf(m, tag[m].rid)' # {}
      <4>1. m # n
        BY <1>9, <3>1 DEF CompleteFile, At, FileOrder
      <4>2. PICK f \in files : f.node = m /\ f.rid = tag[m].rid
        BY <3>1 DEF TagHasState
      <4> QED BY <1>9, <4>1, <4>2 DEF CompleteFile
    <3> QED BY <1>9, <3>1 DEF TagHasState, CompleteFile
  <2>2. FileOrder'
    BY <1>9 DEF TagHasState, FileOrder, CompleteFile, Go, At
  <2> QED BY <2>1, <2>2
<1>10. ASSUME NEW n \in Nodes, CompleteUntag(n) PROVE TagHasState' /\ FileOrder'
  <2>1. TagHasState'
    BY <1>10 DEF TagHasState, FileOrder, CompleteUntag, GoClear, At, NoTag
  <2>2. FileOrder'
    BY <1>10 DEF TagHasState, FileOrder, CompleteUntag, GoClear, At, NoTag
  <2> QED BY <2>1, <2>2
<1>11. ASSUME NEW n \in Nodes, CompleteFails(n) PROVE TagHasState' /\ FileOrder'
  <2>1. TagHasState'
    BY <1>11 DEF TagHasState, FileOrder, CompleteFails, GoClear, At
  <2>2. FileOrder'
    BY <1>11 DEF TagHasState, FileOrder, CompleteFails, GoClear, At
  <2> QED BY <2>1, <2>2
<1>12. CASE CaptureBegin
  <2>1. TagHasState'
    BY <1>12 DEF TagHasState, FileOrder, CaptureBegin, NoCap, NoTag
  <2>2. FileOrder'
    BY <1>12 DEF TagHasState, FileOrder, CaptureBegin, NoCap, NoTag
  <2> QED BY <2>1, <2>2
<1>13. ASSUME NEW n \in Nodes, CaptureState(n) PROVE TagHasState' /\ FileOrder'
  <2>1. TagHasState'
    BY <1>13 DEF TagHasState, FileOrder, CaptureState, Checkpoint
  <2>2. FileOrder'
    <3>1. Checkpoint(n) \in files' /\ Checkpoint(n).node = n /\ Checkpoint(n).rid = ncaps
      BY <1>13 DEF CaptureState, Checkpoint
    <3>2. files \subseteq files'
      BY <1>13 DEF CaptureState
    <3>3. /\ cap'.pc = "write" /\ cap.pc = "write" /\ cap'.at = {n} /\ n \in cap.todo
          /\ cap'.done = cap.done /\ cap'.prev = cap.prev
          /\ UNCHANGED <<tag, exec, lock, rcv, ncaps>>
      BY <1>13 DEF CaptureState
    <3>4. \A m \in Nodes : Live(cap.prev[m]) => FilesOf(m, cap.prev[m].rid)' # {}
      BY <3>2, <3>3 DEF FileOrder
    <3>5. FilesOf(n, ncaps)' # {}
      BY <3>1, <3>3
    <3> QED BY <3>3, <3>4, <3>5 DEF FileOrder
  <2> QED BY <2>1, <2>2
<1>14. ASSUME NEW n \in Nodes, CaptureTag(n) PROVE TagHasState' /\ FileOrder'
  <2>1. TagHasState'
    BY <1>14 DEF TagHasState, FileOrder, CaptureTag
  <2>2. FileOrder'
    BY <1>14 DEF TagHasState, FileOrder, CaptureTag
  <2> QED BY <2>1, <2>2
<1>15. ASSUME NEW n \in Nodes, CaptureUndoTag(n) PROVE TagHasState' /\ FileOrder'
  <2>1. TagHasState'
    BY <1>15 DEF TagHasState, FileOrder, CaptureUndoTag
  <2>2. FileOrder'
    BY <1>15 DEF TagHasState, FileOrder, CaptureUndoTag
  <2> QED BY <2>1, <2>2
<1>16. ASSUME NEW n \in Nodes, CaptureUndoState(n) PROVE TagHasState' /\ FileOrder'
  <2>1. TagHasState'
    BY <1>16 DEF TagHasState, FileOrder, CaptureUndoState
  <2>2. FileOrder'
    BY <1>16 DEF TagHasState, FileOrder, CaptureUndoState
  <2> QED BY <2>1, <2>2
<1>17. ASSUME NEW n \in Nodes, CaptureTidy(n) PROVE TagHasState' /\ FileOrder'
  <2>1. TagHasState'
    <3>1. ASSUME NEW m \in Nodes, Live(tag[m])
          PROVE  FilesOf(m, tag[m].rid)' # {}
      <4>1. m # n \/ tag[m].rid # cap.prev[n].rid
        BY <1>17 DEF CaptureTidy, FileOrder
      <4>2. PICK f \in files : f.node = m /\ f.rid = tag[m].rid
        BY <3>1 DEF TagHasState
      <4> QED BY <1>17, <4>1, <4>2 DEF CaptureTidy
    <3> QED BY <1>17, <3>1 DEF TagHasState, CaptureTidy
  <2>2. FileOrder'
    BY <1>17 DEF TagHasState, FileOrder, CaptureTidy, NoTag
  <2> QED BY <2>1, <2>2
<1>18. CASE CaptureFails
  <2>1. TagHasState'
    BY <1>18 DEF TagHasState, FileOrder, CaptureFails, NoCap
  <2>2. FileOrder'
    BY <1>18 DEF TagHasState, FileOrder, CaptureFails, NoCap
  <2> QED BY <2>1, <2>2
<1>19. CASE CaptureUndone
  <2>1. TagHasState'
    BY <1>19 DEF TagHasState, FileOrder, CaptureUndone, CaptureEnd, NoCap, NoTag
  <2>2. FileOrder'
    BY <1>19 DEF TagHasState, FileOrder, CaptureUndone, CaptureEnd, NoCap, NoTag
  <2> QED BY <2>1, <2>2
<1>20. CASE CaptureDone
  <2>1. TagHasState'
    BY <1>20 DEF TagHasState, FileOrder, CaptureDone, CaptureEnd, NoCap, NoTag
  <2>2. FileOrder'
    BY <1>20 DEF TagHasState, FileOrder, CaptureDone, CaptureEnd, NoCap, NoTag
  <2> QED BY <2>1, <2>2
<1>21. CASE CaptureAborts
  <2>1. TagHasState'
    BY <1>21 DEF TagHasState, FileOrder, CaptureAborts, CaptureEnd, NoCap, NoTag
  <2>2. FileOrder'
    BY <1>21 DEF TagHasState, FileOrder, CaptureAborts, CaptureEnd, NoCap, NoTag
  <2> QED BY <2>1, <2>2
<1>22. CASE Start
  <2>1. TagHasState'
    BY <1>22 DEF TagHasState, FileOrder, Start, NoRcv
  <2>2. FileOrder'
    BY <1>22 DEF TagHasState, FileOrder, Start, NoRcv
  <2> QED BY <2>1, <2>2
<1>23. CASE Reset
  <2>1. TagHasState'
    BY <1>23 DEF TagHasState, FileOrder, Reset
  <2>2. FileOrder'
    BY <1>23 DEF TagHasState, FileOrder, Reset
  <2> QED BY <2>1, <2>2
<1>24. CASE RecoverBegin
  <2>1. TagHasState'
    BY <1>24 DEF TagHasState, FileOrder, RecoverBegin, NoRcv
  <2>2. FileOrder'
    BY <1>24 DEF TagHasState, FileOrder, RecoverBegin, NoRcv
  <2> QED BY <2>1, <2>2
<1>25. CASE RecoverEnd
  <2>1. TagHasState'
    BY <1>25 DEF TagHasState, FileOrder, RecoverEnd, NoRcv
  <2>2. FileOrder'
    BY <1>25 DEF TagHasState, FileOrder, RecoverEnd, NoRcv
  <2> QED BY <2>1, <2>2
<1>26. ASSUME NEW n \in Nodes, RecoverCleanState(n) PROVE TagHasState' /\ FileOrder'
  <2>1. TagHasState'
    BY <1>26 DEF TagHasState, FileOrder, RecoverCleanState, Turn
  <2>2. FileOrder'
    BY <1>26 DEF TagHasState, FileOrder, RecoverCleanState, Turn
  <2> QED BY <2>1, <2>2
<1>27. ASSUME NEW n \in Nodes, RecoverCleanTag(n) PROVE TagHasState' /\ FileOrder'
  <2>1. TagHasState'
    BY <1>27 DEF TagHasState, FileOrder, RecoverCleanTag, NoTag
  <2>2. FileOrder'
    BY <1>27 DEF TagHasState, FileOrder, RecoverCleanTag, NoTag
  <2> QED BY <2>1, <2>2
<1>28. ASSUME NEW n \in Nodes, RecoverRefused(n) PROVE TagHasState' /\ FileOrder'
  <2>1. TagHasState'
    BY <1>28 DEF TagHasState, FileOrder, RecoverRefused, Turn
  <2>2. FileOrder'
    BY <1>28 DEF TagHasState, FileOrder, RecoverRefused, Turn
  <2> QED BY <2>1, <2>2
<1>29. ASSUME NEW n \in Nodes, RecoverClaim(n) PROVE TagHasState' /\ FileOrder'
  <2>1. TagHasState'
    BY <1>29 DEF TagHasState, FileOrder, RecoverClaim, Turn
  <2>2. FileOrder'
    BY <1>29 DEF TagHasState, FileOrder, RecoverClaim, Turn
  <2> QED BY <2>1, <2>2
<1>30. ASSUME NEW n \in Nodes, RecoverRestore(n) PROVE TagHasState' /\ FileOrder'
  <2>1. TagHasState'
    BY <1>30 DEF TagHasState, FileOrder, RecoverRestore
  <2>2. FileOrder'
    BY <1>30 DEF TagHasState, FileOrder, RecoverRestore
  <2> QED BY <2>1, <2>2
<1>31. ASSUME NEW n \in Nodes, RecoverWake(n) PROVE TagHasState' /\ FileOrder'
  <2>1. TagHasState'
    BY <1>31 DEF TagHasState, FileOrder, RecoverWake
  <2>2. FileOrder'
    BY <1>31 DEF TagHasState, FileOrder, RecoverWake
  <2> QED BY <2>1, <2>2
<1>32. ASSUME NEW n \in Nodes, RecoverUndo(n) PROVE TagHasState' /\ FileOrder'
  <2>1. TagHasState'
    BY <1>32 DEF TagHasState, FileOrder, RecoverUndo
  <2>2. FileOrder'
    BY <1>32 DEF TagHasState, FileOrder, RecoverUndo
  <2> QED BY <2>1, <2>2
<1>33. CASE Crash
  <2>1. TagHasState'
    BY <1>33 DEF TagHasState, FileOrder, Crash, NoCap, NoRcv, NoTag, Parked
  <2>2. FileOrder'
    BY <1>33 DEF TagHasState, FileOrder, Crash, NoCap, NoRcv, NoTag, Parked
  <2> QED BY <2>1, <2>2
<1>34. CASE UNCHANGED vars
  BY <1>34 DEF TagHasState, FileOrder, vars
<1> QED BY <1>1, <1>2, <1>3, <1>4, <1>5, <1>6, <1>7, <1>8, <1>9, <1>10, <1>11, <1>12, <1>13, <1>14, <1>15, <1>16, <1>17, <1>18, <1>19, <1>20, <1>21, <1>22, <1>23, <1>24, <1>25, <1>26, <1>27, <1>28, <1>29, <1>30, <1>31, <1>32, <1>33, <1>34 DEF Next, Executor, Capture, Startup

\* Wherever the process ends, in a capture, its rollback, a recovery or a
\* completion, each live tag on disk names a state file that is there.
THEOREM TagsHaveStates == Spec => []TagHasState
<1>1. Init => RecoveryInv
  BY InitType, InitOrder DEF RecoveryInv
<1>2. RecoveryInv /\ [Next]_vars => RecoveryInv'
  BY NextType, NextOrder DEF RecoveryInv
<1>3. RecoveryInv => TagHasState
  BY DEF RecoveryInv
<1> QED BY <1>1, <1>2, <1>3, PTL DEF Spec

-----------------------------------------------------------------------------
(* A captured run is kept.  Its tag keeps it on disk; what must be excluded *)
(* is that a completion or a later capture replaces the tag before the run  *)
(* has been repeated.  So the invariant follows the run through memory: from *)
(* the moment the startup is done with the node, the run of its tag is the  *)
(* next one of the node, or under way, or over.                             *)

Done == ended \cup blocked

\* The runs that the files F save for node n under restart_id r.
JobsIn(F, n, r) == {f.inflight.job : f \in {g \in F : g.node = n /\ g.rid = r}}

\* F without these files.
Less(F, n, r) == F \ {g \in F : g.node = n /\ g.rid = r}

PrevJobs(n) == JobsIn(files, n, cap.prev[n].rid)
NewJobs(n)  == JobsIn(files, n, ncaps)

\* The startup is done with node n.
Recovered(n) ==
  \/ phase = "ready"
  \/ rcv.pc \in {"scan", "untag", "restore", "wake"} /\ n \notin rcv.todo
  \/ rcv.pc = "wake" /\ rcv.at = {n}

Runs(n, j) ==
  exec[n].pc = "run" /\ exec[n].item.job = j /\ rec[n].inflight.job = j

\* The executor may still be busy with an item from before the recovery, which
\* refers to no checkpoint.
IsNext(n, j) ==
  /\ rec[n].state = "idle" /\ rec[n].inflight = NoItem /\ exec[n].item.ref = 0
  /\ rec[n].pending # << >> /\ Head(rec[n].pending).job = j

Comes(n, j) == Runs(n, j) \/ IsNext(n, j)

Phases ==
  /\ phase # "boot" => rcv.pc = "none"
  /\ cap.pc # "none" => phase = "ready"
  /\ rcv.pc \in {"restore", "wake"} =>
       rcv.at \subseteq rcv.todo /\ rcv.current.inflight = NoItem

FilesAgree ==
  /\ \A f, g \in files : f.node = g.node /\ f.rid = g.rid => f.inflight.job = g.inflight.job
  /\ \A f \in files : f.rid <= ncaps
  /\ cap.pc = "write" => \A n \in cap.todo : NewJobs(n) = {}

\* Before its recovery a node has no item that refers to a checkpoint.
Unreferred ==
  \A n \in Nodes :
    /\ exec[n].pc \in {"complete", "unfile", "untag"} => exec[n].item.ref # 0
    /\ ~Recovered(n) => /\ exec[n].item.ref = 0
                        /\ \A i \in DOMAIN rec[n].pending : rec[n].pending[i].ref = 0

InflightOK(n) ==
  rec[n].inflight # NoItem =>
    \/ rec[n].inflight.job \in ended
    \/ exec[n].pc = "run" /\ exec[n].item.job = rec[n].inflight.job

InflightRuns == \A n \in Nodes : InflightOK(n)

TagsCome ==
  \A n \in Nodes : Live(tag[n]) /\ Recovered(n) =>
    \A j \in Jobs(n) : j \in Done \/ Comes(n, j)

\* The tag that the capture under way has written.
New(n) == tag[n].rid = ncaps /\ Live(tag[n])

SnapJob(n) == cap.snap[n].inflight.job

\* What the capture replaces is saved again by what it writes.
PrevKept(n) ==
  Live(cap.prev[n]) =>
    /\ tag[n] = cap.prev[n] \/ New(n)
    /\ \A j \in PrevJobs(n) : /\ j \in Done \/ Comes(n, j)
                              /\ j \in Done \/ \A k \in NewJobs(n) : j = k

SnapKept(n) ==
  /\ \A j : j = SnapJob(n) => j \in ended \/ Comes(n, j)
  /\ \A k \in NewJobs(n) : k = SnapJob(n)

NotYet(n) ==
  /\ tag[n] = cap.prev[n]
  /\ Live(tag[n]) => \A j \in Jobs(n) : j \in Done \/ j = SnapJob(n)

CaptureTags ==
  cap.pc # "none" =>
    /\ \A n \in Nodes : PrevKept(n)
    /\ cap.pc = "write" =>
         /\ \A n \in cap.todo \cup cap.at \cup cap.done : SnapKept(n)
         /\ \A n \in cap.todo \cup cap.at : NotYet(n)
         /\ \A n \in cap.done : New(n)
    /\ cap.pc = "undo" => \A n \in cap.todo : tag[n] = cap.prev[n] \/ New(n)

\* Saved without the capture under way, too.
Before(j) ==
  \E n \in Nodes : \/ Live(cap.prev[n]) /\ j \in PrevJobs(n)
                   \/ Live(tag[n]) /\ tag[n].rid # ncaps /\ j \in Jobs(n)

AllBefore == \A j \in captured \ Done : Before(j)

CaptureKeeps ==
  cap.pc = "undo" \/ (cap.pc = "write" /\ cap.todo \cup cap.at # {}) => AllBefore

\* The recovery takes away only tags of completed checkpoints.
Removing == rcv.pc = "untag" => \A n \in rcv.at : ~Live(tag[n])

MemoryInv == Phases /\ Unreferred /\ InflightRuns
DiskInv   == FilesAgree /\ TagsCome /\ CaptureTags /\ CaptureKeeps /\ CapturedKept
KeepInv   == RecoveryInv /\ MemoryInv /\ DiskInv /\ Removing

\* Files that a step adds or removes for one node and one checkpoint leave
\* the runs of the others alone.
LEMMA JobsSame ==
  ASSUME NEW F, NEW n, NEW r, NEW m, NEW s, m # n \/ s # r
  PROVE  JobsIn(Less(F, n, r), m, s) = JobsIn(F, m, s)
BY DEF JobsIn, Less

LEMMA JobsOther ==
  ASSUME NEW F, NEW f, NEW m, NEW s, m # f.node \/ s # f.rid
  PROVE  JobsIn(F \cup {f}, m, s) = JobsIn(F, m, s)
BY DEF JobsIn

LEMMA JobsAdded ==
  ASSUME NEW F, NEW f
  PROVE  JobsIn(F \cup {f}, f.node, f.rid) = JobsIn(F, f.node, f.rid) \cup {f.inflight.job}
BY DEF JobsIn

LEMMA JobsNone ==
  ASSUME NEW F, NEW n, NEW r
  PROVE  /\ JobsIn(F, n, r) = {} <=> {f \in F : f.node = n /\ f.rid = r} = {}
         /\ (\A f \in F : f.rid # r) => JobsIn(F, n, r) = {}
BY DEF JobsIn

LEMMA JobsAre ==
  /\ \A n : Jobs(n) = JobsIn(files, n, tag[n].rid)
  /\ \A n : Jobs(n)' = JobsIn(files', n, tag'[n].rid)
  /\ \A n : PrevJobs(n)' = JobsIn(files', n, cap'.prev[n].rid)
  /\ \A n : NewJobs(n)' = JobsIn(files', n, ncaps')
BY DEF Jobs, FilesOf, JobsIn, PrevJobs, NewJobs

\* Whatever the capture has reached, the tags keep what was kept before it.
LEMMA BeforeKept ==
  RecoveryInv /\ CaptureTags /\ cap.pc # "none" /\ AllBefore => CapturedKept
<1> SUFFICES ASSUME RecoveryInv, CaptureTags, cap.pc # "none", AllBefore,
                    NEW j \in captured \ Done
             PROVE  \E n \in Nodes : Live(tag[n]) /\ j \in Jobs(n)
  BY DEF CapturedKept, Done
<1>1. PICK n \in Nodes : \/ Live(cap.prev[n]) /\ j \in PrevJobs(n)
                         \/ Live(tag[n]) /\ tag[n].rid # ncaps /\ j \in Jobs(n)
  BY DEF AllBefore, Before
<1>2. CASE Live(cap.prev[n]) /\ j \in PrevJobs(n)
  <2>1. PrevKept(n)
    BY DEF CaptureTags
  <2>2. CASE tag[n] = cap.prev[n]
    BY <1>2, <2>2, JobsAre DEF PrevJobs
  <2>3. CASE New(n)
    <3>1. NewJobs(n) # {} /\ NewJobs(n) = Jobs(n)
      BY <2>3, JobsAre, JobsNone DEF RecoveryInv, TagHasState, FilesOf, New, NewJobs
    <3>2. \A k \in NewJobs(n) : j = k
      BY <1>2, <2>1 DEF PrevKept
    <3> QED BY <2>3, <3>1, <3>2 DEF New
  <2> QED BY <1>2, <2>1, <2>2, <2>3 DEF PrevKept
<1> QED BY <1>1, <1>2

LEMMA BeforeKeptNext ==
  RecoveryInv' /\ CaptureTags' /\ (cap.pc # "none")' /\ AllBefore' => CapturedKept'
BY BeforeKept, PTL

\* Steps of the queues and of the executors: what a step of node n does to its own record and executor.
MemoryStep(n) ==
  /\ \A m \in Nodes \ {n} : rec'[m] = rec[m] /\ exec'[m] = exec[m]
  /\ \A j : Comes(n, j) => Comes(n, j)' \/ j \in ended'
  /\ InflightOK(n)'
  /\ exec'[n].pc \in {"complete", "unfile", "untag"} => exec'[n].item.ref # 0
  /\ ~Recovered(n) => /\ exec'[n].item.ref = 0
                      /\ \A i \in DOMAIN rec'[n].pending : rec'[n].pending[i].ref = 0

LEMMA OwnMemory ==
  ASSUME MemoryInv, NEW n \in Nodes, MemoryStep(n), UNCHANGED <<phase, rcv, cap>>,
         ended \subseteq ended'
  PROVE  MemoryInv' /\ \A m \in Nodes : \A j : Comes(m, j) => Comes(m, j)' \/ j \in ended'
<1>1. \A m \in Nodes : Recovered(m)' = Recovered(m)
  BY DEF Recovered
<1>2. ASSUME NEW m \in Nodes \ {n} PROVE \A j : /\ Runs(m, j)' = Runs(m, j)
                                                /\ Comes(m, j)' = Comes(m, j)
  BY DEF MemoryStep, Comes, Runs, IsNext
<1>3. Unreferred'
  BY <1>1 DEF MemoryInv, MemoryStep, Unreferred
<1>4. InflightRuns'
  <2>1. ASSUME NEW m \in Nodes \ {n} PROVE InflightOK(m)'
    BY DEF MemoryStep, MemoryInv, InflightRuns, InflightOK
  <2> QED BY <2>1 DEF MemoryStep, InflightRuns
<1>5. Phases'
  BY DEF MemoryInv, Phases
<1> QED BY <1>2, <1>3, <1>4, <1>5 DEF MemoryInv, MemoryStep

\* The record and the executor that a node has after a step.
LEMMA MemoryOf ==
  ASSUME RecoveryTypeOK, NEW n \in Nodes
  PROVE  /\ rec[n] \in Record /\ exec[n] \in ExecType /\ rec[n].pending \in Seq(Item)
         /\ \A r : rec' = [rec EXCEPT ![n] = r] =>
              rec'[n] = r /\ \A m \in Nodes \ {n} : rec'[m] = rec[m]
         /\ \A x : exec' = [exec EXCEPT ![n] = x] =>
              exec'[n] = x /\ \A m \in Nodes \ {n} : exec'[m] = exec[m]
BY DEF RecoveryTypeOK, Record

LEMMA DeliverMemory ==
  ASSUME RecoveryTypeOK, MemoryInv, NEW n \in Nodes, Deliver(n)
  PROVE  MemoryStep(n)
<1> DEFINE it == [job |-> njobs + 1, ref |-> 0]
           p == rec[n].pending
<1>1. /\ rec[n] \in Record /\ p \in Seq(Item) /\ exec' = exec /\ ended' = ended
      /\ rec'[n] = [rec[n] EXCEPT !.pending = Append(p, it)]
      /\ \A m \in Nodes \ {n} : rec'[m] = rec[m]
  BY MemoryOf DEF Deliver, history, RecoveryTypeOK
<1>2. /\ rec'[n].pending = Append(p, it) /\ rec'[n].inflight = rec[n].inflight
      /\ rec'[n].state = rec[n].state
  BY <1>1 DEF Record
<1>3. it \in Item
  BY BoundsAssumption DEF Deliver, Item, RecoveryTypeOK
<1> HIDE DEF it
<1>4. /\ Len(p) \in Nat /\ DOMAIN p = 1..Len(p) /\ DOMAIN Append(p, it) = 1..(Len(p) + 1)
      /\ \A i \in DOMAIN p : Append(p, it)[i] = p[i]
      /\ Append(p, it)[Len(p) + 1] = it /\ Append(p, it) # << >>
  BY <1>1, <1>3, AppendProperties, LenProperties
<1>5. p # << >> => Head(Append(p, it)) = Head(p)
  BY <1>1, <1>3, <1>4, EmptySeq, HeadTailProperties, AppendProperties
<1>6. \A i \in DOMAIN Append(p, it) : i \in DOMAIN p \/ Append(p, it)[i] = it
  BY <1>4
<1>7. it.ref = 0
  BY DEF it
<1> HIDE DEF p
<1>8. \A j : Comes(n, j) => Comes(n, j)'
  BY <1>1, <1>2, <1>4, <1>5 DEF Comes, Runs, IsNext, p
<1>9. InflightOK(n)'
  BY <1>1, <1>2 DEF MemoryInv, InflightRuns, InflightOK
<1>10. ~Recovered(n) => \A i \in DOMAIN rec'[n].pending : rec'[n].pending[i].ref = 0
  BY <1>2, <1>4, <1>6, <1>7 DEF MemoryInv, Unreferred, p
<1> QED BY <1>1, <1>8, <1>9, <1>10 DEF MemoryStep, MemoryInv, Unreferred

LEMMA DequeueMemory ==
  ASSUME RecoveryTypeOK, MemoryInv, NEW n \in Nodes, Dequeue(n)
  PROVE  MemoryStep(n)
<1> DEFINE p == rec[n].pending
<1>1. /\ rec[n] \in Record /\ p \in Seq(Item) /\ p # << >> /\ exec[n].pc = "none"
      /\ rec'[n] = [state |-> "working", pending |-> Tail(p), inflight |-> Head(p)]
      /\ exec'[n] = [pc |-> "run", item |-> Head(p)]
      /\ \A m \in Nodes \ {n} : rec'[m] = rec[m] /\ exec'[m] = exec[m]
  BY MemoryOf DEF Dequeue, At
<1>2. /\ Head(p) = p[1] /\ 1 \in DOMAIN p /\ DOMAIN Tail(p) = 1..(Len(p) - 1)
      /\ \A i \in DOMAIN Tail(p) : i + 1 \in DOMAIN p /\ Tail(p)[i] = p[i + 1]
  BY <1>1, HeadTailProperties, LenProperties, EmptySeq
<1>3. \A j : Comes(n, j) => Comes(n, j)'
  BY <1>1 DEF Comes, Runs, IsNext
<1>4. InflightOK(n)'
  BY <1>1 DEF InflightOK
<1> HIDE DEF p
<1>5. ~Recovered(n) => \A i \in DOMAIN p : p[i].ref = 0
  BY DEF MemoryInv, Unreferred, p
<1>6. ~Recovered(n) => /\ exec'[n].item.ref = 0
                       /\ \A i \in DOMAIN rec'[n].pending : rec'[n].pending[i].ref = 0
  BY <1>1, <1>2, <1>5
<1> QED BY <1>1, <1>3, <1>4, <1>6 DEF MemoryStep

\* The run is over, by its end or by a stop.
LEMMA OverMemory ==
  ASSUME RecoveryTypeOK, MemoryInv, NEW n \in Nodes, StopEarly(n) \/ Logic(n)
  PROVE  MemoryStep(n)
<1>1. /\ exec[n].pc = "run" /\ rec' = rec /\ ended' = ended \cup {exec[n].item.job}
  BY DEF StopEarly, Logic, At
<1>2. /\ \/ exec'[n] = [pc |-> "clear", item |-> NoItem]
         \/ exec'[n] = [exec[n] EXCEPT !.pc = "complete"] /\ exec[n].item.ref # 0
      /\ \A m \in Nodes \ {n} : exec'[m] = exec[m]
  <2>1. CASE GoClear(n)
    BY <2>1 DEF GoClear, RecoveryTypeOK
  <2>2. CASE Go(n, "complete") /\ exec[n].item.ref # 0
    BY <2>2 DEF Go, RecoveryTypeOK
  <2> QED BY <2>1, <2>2 DEF StopEarly, Logic
<1>3. exec[n] \in ExecType /\ NoItem.ref = 0
  BY MemoryOf DEF NoItem
<1>4. /\ exec'[n].pc \in {"clear", "complete"}
      /\ exec'[n].pc = "complete" => exec'[n].item.ref # 0
      /\ exec[n].item.ref = 0 => exec'[n].item.ref = 0
  BY <1>2, <1>3 DEF ExecType
<1>5. \A j : Comes(n, j) => Comes(n, j)' \/ j \in ended'
  BY <1>1, <1>4 DEF Comes, Runs, IsNext
<1>6. InflightOK(n)'
  BY <1>1 DEF MemoryInv, InflightRuns, InflightOK
<1> QED BY <1>1, <1>2, <1>4, <1>5, <1>6 DEF MemoryStep, MemoryInv, Unreferred

\* The completion moves on or ends.
LEMMA CompleteMemory ==
  ASSUME RecoveryTypeOK, MemoryInv, NEW n \in Nodes,
         exec[n].pc \in {"complete", "unfile", "untag"}, rec' = rec, ended' = ended,
         Go(n, "unfile") \/ Go(n, "untag") \/ GoClear(n)
  PROVE  MemoryStep(n)
<1>1. /\ \/ exec'[n] = [pc |-> "clear", item |-> NoItem]
         \/ \E pc \in {"unfile", "untag"} : exec'[n] = [exec[n] EXCEPT !.pc = pc]
      /\ \A m \in Nodes \ {n} : exec'[m] = exec[m]
  <2>1. CASE GoClear(n)
    BY <2>1 DEF GoClear, RecoveryTypeOK
  <2>2. ASSUME NEW pc \in {"unfile", "untag"}, Go(n, pc)
        PROVE  exec'[n] = [exec[n] EXCEPT !.pc = pc] /\ \A m \in Nodes \ {n} : exec'[m] = exec[m]
    BY <2>2 DEF Go, RecoveryTypeOK
  <2> QED BY <2>1, <2>2
<1>2. exec[n] \in ExecType /\ NoItem.ref = 0 /\ exec[n].item.ref # 0
  BY MemoryOf DEF NoItem, MemoryInv, Unreferred
<1>3. /\ exec'[n].pc \in {"unfile", "untag"} => exec'[n].item.ref # 0
      /\ exec'[n].pc # "complete"
  BY <1>1, <1>2 DEF ExecType
<1>4. Recovered(n) /\ \A j : ~Comes(n, j)
  BY <1>2 DEF MemoryInv, Unreferred, Comes, Runs, IsNext
<1>5. InflightOK(n)'
  BY DEF MemoryInv, InflightRuns, InflightOK
<1> QED BY <1>1, <1>3, <1>4, <1>5 DEF MemoryStep

LEMMA IdleMemory ==
  ASSUME RecoveryTypeOK, MemoryInv, NEW n \in Nodes, Clear(n) \/ Settle(n)
  PROVE  MemoryStep(n)
<1>1. rec[n] \in Record /\ exec[n] \in ExecType /\ NoItem.ref = 0 /\ ended' = ended
  BY MemoryOf DEF NoItem, Clear, Settle, history
<1>2. CASE Clear(n)
  <2>1. /\ exec[n].pc = "clear" /\ rec'[n] = [rec[n] EXCEPT !.inflight = NoItem]
        /\ exec'[n] = [exec[n] EXCEPT !.pc = "settle"]
        /\ \A m \in Nodes \ {n} : rec'[m] = rec[m] /\ exec'[m] = exec[m]
    BY <1>2, MemoryOf DEF Clear, At, Go
  <2>2. /\ rec'[n].inflight = NoItem /\ rec'[n].pending = rec[n].pending
        /\ rec'[n].state = rec[n].state
        /\ exec'[n].pc = "settle" /\ exec'[n].item = exec[n].item
    BY <1>1, <2>1 DEF Record, ExecType
  <2>3. InflightOK(n)'
    BY <2>2 DEF InflightOK
  <2> QED BY <2>1, <2>2, <2>3 DEF MemoryStep, MemoryInv, Unreferred, Comes, Runs, IsNext
<1>3. CASE Settle(n)
  <2>1. /\ exec[n].pc = "settle" /\ rec'[n] = [rec[n] EXCEPT !.state = "idle"]
        /\ exec'[n] = Parked
        /\ \A m \in Nodes \ {n} : rec'[m] = rec[m] /\ exec'[m] = exec[m]
    BY <1>3, MemoryOf DEF Settle, At
  <2>2. /\ rec'[n].inflight = rec[n].inflight /\ rec'[n].pending = rec[n].pending
        /\ rec'[n].state = "idle" /\ exec'[n].pc = "none" /\ exec'[n].item = NoItem
    BY <1>1, <2>1 DEF Record, Parked
  <2>3. InflightOK(n)'
    BY <1>1, <2>1, <2>2 DEF MemoryInv, InflightRuns, InflightOK
  <2> QED BY <1>1, <2>1, <2>2, <2>3 DEF MemoryStep, MemoryInv, Unreferred, Comes, Runs, IsNext
<1> QED BY <1>2, <1>3

Work(n) == Deliver(n) \/ StopEarly(n) \/ Executor(n)

LEMMA WorkMemory ==
  ASSUME RecoveryTypeOK, MemoryInv, NEW n \in Nodes, Work(n)
  PROVE  MemoryStep(n)
<1>1. CASE Deliver(n)
  BY <1>1, DeliverMemory
<1>2. CASE Dequeue(n)
  BY <1>2, DequeueMemory
<1>3. CASE StopEarly(n) \/ Logic(n)
  BY <1>3, OverMemory
<1>4. CASE Clear(n) \/ Settle(n)
  BY <1>4, IdleMemory
<1>5. CASE CompleteTag(n) \/ CompleteOther(n) \/ CompleteFile(n) \/ CompleteUntag(n)
           \/ CompleteFails(n)
  <2>1. /\ exec[n].pc \in {"complete", "unfile", "untag"} /\ rec' = rec /\ ended' = ended
        /\ Go(n, "unfile") \/ Go(n, "untag") \/ GoClear(n)
    BY <1>5 DEF CompleteTag, CompleteOther, CompleteFile, CompleteUntag, CompleteFails, At,
                history
  <2> QED BY <2>1, CompleteMemory
<1> QED BY <1>1, <1>2, <1>3, <1>4, <1>5 DEF Work, Executor

\* The disk changes by a completion only, outside of a capture, and only the
\* tag of a run that is over.
DiskStep ==
  /\ files' \subseteq files
  /\ cap.pc # "none" => UNCHANGED <<tag, files>>
  /\ \A n \in Nodes :
       /\ Live(tag'[n]) => tag'[n] = tag[n]
       /\ Live(tag[n]) => Jobs(n) \subseteq Done \/ (tag'[n] = tag[n] /\ Jobs(n)' = Jobs(n))

LEMMA SameDisk == UNCHANGED <<tag, files>> => DiskStep
BY JobsAre DEF DiskStep

LEMMA CompleteTagDisk ==
  ASSUME KeepInv, NEW n \in Nodes, CompleteTag(n)
  PROVE  DiskStep
<1>1. /\ tag \in [Nodes -> Tag] /\ tag' = [tag EXCEPT ![n].status = "completed"]
      /\ files' = files /\ lock = "free" /\ exec[n].pc = "complete"
  BY DEF CompleteTag, KeepInv, RecoveryInv, RecoveryTypeOK, At
<1>2. /\ tag'[n].status = "completed" /\ \A m \in Nodes \ {n} : tag'[m] = tag[m]
  BY <1>1 DEF Tag
<1>3. cap.pc = "none"
  BY <1>1 DEF KeepInv, RecoveryInv, FileOrder
<1>4. exec[n].item.ref # 0 /\ Recovered(n)
  BY <1>1 DEF KeepInv, MemoryInv, Unreferred
<1>5. \A j : ~Comes(n, j)
  BY <1>1, <1>4 DEF Comes, Runs, IsNext
<1>6. Live(tag[n]) => Jobs(n) \subseteq Done
  BY <1>4, <1>5 DEF KeepInv, DiskInv, TagsCome
<1>7. ~Live(tag'[n])
  BY <1>2 DEF Live
<1>8. \A m \in Nodes \ {n} : Jobs(m)' = Jobs(m)
  BY <1>1, <1>2, JobsAre
<1> QED BY <1>1, <1>2, <1>3, <1>6, <1>7, <1>8 DEF DiskStep

LEMMA CompleteFileDisk ==
  ASSUME KeepInv, NEW n \in Nodes, CompleteFile(n)
  PROVE  DiskStep
<1>1. /\ tag' = tag /\ files' = Less(files, n, tag[n].rid) /\ files' \subseteq files
      /\ exec[n].pc = "unfile"
  BY DEF CompleteFile, FilesOf, At, Less
<1>2. lock = "complete" /\ tag[n].status = "completed" /\ cap.pc = "none"
  BY <1>1 DEF KeepInv, RecoveryInv, FileOrder
<1>3. ~Live(tag[n])
  BY <1>2 DEF Live
<1>4. ASSUME NEW m \in Nodes \ {n} PROVE Jobs(m)' = Jobs(m)
  <2>1. JobsIn(files', m, tag[m].rid) = JobsIn(files, m, tag[m].rid)
    BY <1>1, JobsSame
  <2> QED BY <1>1, <2>1, JobsAre
<1> QED BY <1>1, <1>2, <1>3, <1>4 DEF DiskStep

LEMMA CompleteUntagDisk ==
  ASSUME KeepInv, NEW n \in Nodes, CompleteUntag(n)
  PROVE  DiskStep
<1>1. /\ tag \in [Nodes -> Tag] /\ tag' = [tag EXCEPT ![n] = NoTag] /\ files' = files
      /\ exec[n].pc = "untag"
  BY DEF CompleteUntag, KeepInv, RecoveryInv, RecoveryTypeOK, At
<1>2. lock = "complete" /\ tag[n].status = "completed" /\ cap.pc = "none"
  BY <1>1 DEF KeepInv, RecoveryInv, FileOrder
<1>3. ~Live(tag[n]) /\ tag'[n] = NoTag /\ \A m \in Nodes \ {n} : tag'[m] = tag[m]
  BY <1>1, <1>2 DEF Live
<1>4. ~Live(tag'[n])
  BY <1>3 DEF Live, NoTag
<1>5. \A m \in Nodes \ {n} : Jobs(m)' = Jobs(m)
  BY <1>1, <1>3, JobsAre
<1> QED BY <1>1, <1>2, <1>3, <1>4, <1>5 DEF DiskStep

LEMMA WorkDisk ==
  ASSUME KeepInv, NEW n \in Nodes, Work(n)
  PROVE  /\ DiskStep /\ UNCHANGED <<cap, rcv, phase, ncaps, captured, blocked>>
         /\ ended \subseteq ended'
<1>1. UNCHANGED <<cap, rcv, phase, ncaps, captured, blocked>> /\ ended \subseteq ended'
  BY DEF Work, Executor, Deliver, StopEarly, Dequeue, Logic, Clear, Settle, CompleteTag,
         CompleteOther, CompleteFile, CompleteUntag, CompleteFails, disk, count, history
<1>2. CASE UNCHANGED <<tag, files>>
  BY <1>1, <1>2, SameDisk
<1>3. \/ UNCHANGED <<tag, files>>
      \/ CompleteTag(n) \/ CompleteFile(n) \/ CompleteUntag(n)
  BY DEF Work, Executor, Deliver, StopEarly, Dequeue, Logic, Clear, Settle,
         CompleteOther, CompleteFails, disk
<1> QED BY <1>1, <1>2, <1>3, CompleteTagDisk, CompleteFileDisk, CompleteUntagDisk

LEMMA WorkKeeps ==
  ASSUME KeepInv, NEW n \in Nodes, Work(n)
  PROVE  MemoryInv' /\ DiskInv'
<1>1. /\ DiskStep /\ UNCHANGED <<cap, rcv, phase, ncaps, captured, blocked>>
      /\ ended \subseteq ended'
  BY WorkDisk
<1>2. /\ MemoryInv'
      /\ \A m \in Nodes : \A j : Comes(m, j) => Comes(m, j)' \/ j \in ended'
  BY <1>1, WorkMemory, OwnMemory DEF KeepInv, RecoveryInv
<1>3. Done \subseteq Done' /\ ended' \subseteq Done' /\ \A m \in Nodes : Recovered(m)' = Recovered(m)
  BY <1>1 DEF Done, Recovered
<1>4. FilesAgree'
  <2>1. \A m : NewJobs(m)' \subseteq NewJobs(m)
    BY <1>1 DEF NewJobs, JobsIn, DiskStep
  <2> QED BY <1>1, <2>1 DEF KeepInv, DiskInv, FilesAgree, DiskStep
<1>5. TagsCome'
  <2> SUFFICES ASSUME NEW m \in Nodes, Live(tag'[m]), Recovered(m)', NEW j \in Jobs(m)'
               PROVE  j \in Done' \/ Comes(m, j)'
    BY DEF TagsCome
  <2>1. tag'[m] = tag[m] /\ j \in Jobs(m)
    BY <1>1, JobsAre DEF DiskStep, JobsIn
  <2>2. j \in Done \/ Comes(m, j)
    BY <1>3, <2>1 DEF KeepInv, DiskInv, TagsCome
  <2> QED BY <1>2, <1>3, <2>2
<1>6. CapturedKept'
  <2> SUFFICES ASSUME NEW j \in captured' \ Done'
               PROVE  \E m \in Nodes : Live(tag'[m]) /\ j \in Jobs(m)'
    BY DEF CapturedKept, Done
  <2>1. j \in captured \ Done
    BY <1>1, <1>3
  <2>2. PICK m \in Nodes : Live(tag[m]) /\ j \in Jobs(m)
    BY <2>1 DEF KeepInv, DiskInv, CapturedKept, Done
  <2>3. tag'[m] = tag[m] /\ Jobs(m)' = Jobs(m)
    BY <1>1, <2>1, <2>2 DEF DiskStep
  <2> QED BY <2>2, <2>3
<1>7. CASE cap.pc = "none"
  <2>1. CaptureTags' /\ CaptureKeeps'
    BY <1>1, <1>7 DEF CaptureTags, CaptureKeeps
  <2> QED BY <1>2, <1>4, <1>5, <1>6, <2>1 DEF DiskInv
<1>8. CASE cap.pc # "none"
  <2>1. tag' = tag /\ files' = files
    BY <1>1, <1>8 DEF DiskStep
  <2>2. \A m \in Nodes : /\ PrevJobs(m)' = PrevJobs(m) /\ NewJobs(m)' = NewJobs(m)
                         /\ Jobs(m)' = Jobs(m) /\ New(m)' = New(m) /\ SnapJob(m)' = SnapJob(m)
    BY <1>1, <2>1 DEF PrevJobs, NewJobs, Jobs, FilesOf, New, SnapJob
  <2>3. ASSUME NEW m \in Nodes, PrevKept(m) PROVE PrevKept(m)'
    BY <1>1, <1>2, <1>3, <2>1, <2>2, <2>3 DEF PrevKept
  <2>4. ASSUME NEW m \in Nodes, SnapKept(m) PROVE SnapKept(m)'
    BY <1>1, <1>2, <2>2, <2>4 DEF SnapKept
  <2>5. ASSUME NEW m \in Nodes, NotYet(m) PROVE NotYet(m)'
    BY <1>1, <1>3, <2>1, <2>2, <2>5 DEF NotYet
  <2>6. /\ cap.todo \subseteq Nodes /\ cap.at \subseteq Nodes /\ cap.done \subseteq Nodes
    BY DEF KeepInv, RecoveryInv, RecoveryTypeOK, CapType
  <2>7. CaptureTags'
    BY <1>1, <2>1, <2>2, <2>3, <2>4, <2>5, <2>6 DEF KeepInv, DiskInv, CaptureTags
  <2>8. CaptureKeeps'
    BY <1>1, <1>3, <2>1, <2>2 DEF KeepInv, DiskInv, CaptureKeeps, AllBefore, Before
  <2> QED BY <1>2, <1>4, <1>5, <1>6, <2>7, <2>8 DEF DiskInv
<1> QED BY <1>7, <1>8

\* Steps of the capture leave the memory alone.
CaptureFrame == phase = "ready" /\ UNCHANGED <<rec, exec, rcv, phase, ended, blocked>>

LEMMA CaptureMemory ==
  ASSUME MemoryInv, CaptureFrame
  PROVE  /\ MemoryInv' /\ Done' = Done
         /\ \A n \in Nodes : Recovered(n) /\ Recovered(n)'
         /\ \A n, j : Comes(n, j)' = Comes(n, j)
<1>1. \A n \in Nodes : Recovered(n) /\ Recovered(n)'
  BY DEF CaptureFrame, Recovered
<1>2. Phases'
  BY DEF CaptureFrame, MemoryInv, Phases
<1>3. Unreferred'
  BY <1>1 DEF CaptureFrame, MemoryInv, Unreferred
<1>4. InflightRuns'
  BY DEF CaptureFrame, MemoryInv, InflightRuns, InflightOK
<1> QED BY <1>1, <1>2, <1>3, <1>4 DEF MemoryInv, CaptureFrame, Done, Comes, Runs, IsNext

LEMMA CaptureUnderWay ==
  ASSUME KeepInv, Capture
  PROVE  CaptureFrame /\ cap.pc # "none" /\ ncaps' = ncaps
<1>1. cap.pc \in {"write", "undo"} /\ UNCHANGED <<rec, exec, rcv, phase, ended, blocked, ncaps>>
  BY DEF Capture, CaptureState, CaptureTag, CaptureUndoTag, CaptureUndoState, CaptureTidy,
         CaptureFails, CaptureUndone, CaptureDone, CaptureAborts, disk, count, history
<1> QED BY <1>1 DEF CaptureFrame, KeepInv, MemoryInv, Phases

\* What the steps below need of the capture under way.
LEMMA CaptureFacts ==
  ASSUME KeepInv
  PROVE  /\ cap \in CapType /\ cap.todo \subseteq Nodes /\ cap.at \subseteq Nodes
         /\ cap.done \subseteq Nodes /\ cap.prev \in [Nodes -> Tag]
         /\ tag \in [Nodes -> Tag] /\ ncaps \in Nat
         /\ \A n \in Nodes : /\ cap.prev[n].rid \in Nat /\ tag[n].rid \in Nat
                             /\ tag[n].rid <= ncaps
                             /\ cap.pc # "none" => cap.prev[n].rid < ncaps
BY DEF KeepInv, RecoveryInv, RecoveryTypeOK, CapType, Tag, FileOrder

LEMMA CaptureBeginKeeps ==
  ASSUME KeepInv, CaptureBegin
  PROVE  MemoryInv' /\ DiskInv'
<1> DEFINE working == {n \in Nodes : rec[n].state = "working"}
<1>1. /\ CaptureFrame /\ UNCHANGED <<tag, files, captured>> /\ ncaps' = ncaps + 1
      /\ lock = "free" /\ \A n \in working : rec[n].inflight # NoItem
      /\ cap'.pc = "write" /\ cap'.todo = working /\ cap'.at = {} /\ cap'.done = {}
      /\ cap'.snap = [n \in Nodes |-> IF n \in working THEN rec[n] ELSE Fresh]
      /\ cap'.prev = [n \in Nodes |-> IF n \in working THEN tag[n] ELSE NoTag]
  BY DEF CaptureBegin, CaptureFrame, NoCap, disk, history
<1>2. /\ MemoryInv' /\ Done' = Done
      /\ \A n \in Nodes : Recovered(n) /\ Recovered(n)'
      /\ \A n, j : Comes(n, j)' = Comes(n, j)
  BY <1>1, CaptureMemory DEF KeepInv
<1>3. \A n : Jobs(n)' = Jobs(n)
  BY <1>1, JobsAre
<1>4. \A f \in files : f.rid \in Nat /\ f.rid <= ncaps
  BY DEF KeepInv, RecoveryInv, RecoveryTypeOK, File, DiskInv, FilesAgree
<1>5. ncaps \in Nat /\ \A n \in Nodes : tag[n].rid \in Nat /\ tag[n].rid <= ncaps
  BY CaptureFacts
<1>6. \A n : NewJobs(n)' = {}
  <2>1. \A f \in files' : f.rid # ncaps'
    BY <1>1, <1>4, <1>5
  <2> QED BY <2>1, JobsAre, JobsNone
<1>7. FilesAgree'
  BY <1>1, <1>4, <1>5, <1>6 DEF KeepInv, DiskInv, FilesAgree
<1>8. TagsCome'
  BY <1>1, <1>2, <1>3 DEF KeepInv, DiskInv, TagsCome
<1>9. CapturedKept'
  BY <1>1, <1>2, <1>3 DEF KeepInv, DiskInv, CapturedKept, Done
<1>10. CaptureKeeps'
  <2> SUFFICES ASSUME NEW j \in captured' \ Done' PROVE Before(j)'
    BY DEF CaptureKeeps, AllBefore
  <2>1. PICK n \in Nodes : Live(tag[n]) /\ j \in Jobs(n)
    BY <1>1, <1>2 DEF KeepInv, DiskInv, CapturedKept, Done
  <2>2. tag'[n].rid # ncaps'
    BY <1>1, <1>5
  <2> QED BY <1>1, <1>3, <2>1, <2>2 DEF Before
<1>11. ASSUME NEW n \in Nodes, n \in working
       PROVE  /\ cap'.prev[n] = tag[n] /\ SnapJob(n)' = rec[n].inflight.job
              /\ PrevJobs(n)' = Jobs(n)
              /\ SnapJob(n)' \in ended \/ Comes(n, rec[n].inflight.job)
              /\ Live(tag[n]) => \A j \in Jobs(n) : j \in Done \/ j = SnapJob(n)'
  <2>1. cap'.prev[n] = tag[n] /\ SnapJob(n)' = rec[n].inflight.job
    BY <1>1, <1>11 DEF SnapJob
  <2>2. PrevJobs(n)' = Jobs(n)
    BY <1>1, <2>1, JobsAre
  <2>3. rec[n].inflight # NoItem /\ rec[n].state = "working"
    BY <1>1, <1>11
  <2>4. \/ rec[n].inflight.job \in ended
        \/ exec[n].pc = "run" /\ exec[n].item.job = rec[n].inflight.job
    BY <2>3 DEF KeepInv, MemoryInv, InflightRuns, InflightOK
  <2>5. \A j : Comes(n, j) => j = rec[n].inflight.job
    BY <2>3 DEF Comes, Runs, IsNext
  <2>6. Live(tag[n]) => \A j \in Jobs(n) : j \in Done \/ Comes(n, j)
    BY <1>2 DEF KeepInv, DiskInv, TagsCome
  <2> QED BY <2>1, <2>2, <2>4, <2>5, <2>6 DEF Comes, Runs
<1>12. ASSUME NEW n \in Nodes PROVE PrevKept(n)'
  <2>1. CASE n \in working
    <3>1. Live(tag[n]) => \A j \in Jobs(n) : j \in Done \/ Comes(n, j)
      BY <1>2 DEF KeepInv, DiskInv, TagsCome
    <3> QED BY <1>1, <1>2, <1>6, <1>11, <2>1, <3>1 DEF PrevKept
  <2>2. CASE n \notin working
    <3>1. ~Live(cap'.prev[n])
      BY <1>1, <2>2 DEF Live, NoTag
    <3> QED BY <3>1 DEF PrevKept
  <2> QED BY <2>1, <2>2
<1>13. ASSUME NEW n \in working PROVE SnapKept(n)' /\ NotYet(n)'
  BY <1>1, <1>2, <1>3, <1>6, <1>11 DEF SnapKept, NotYet, CaptureFrame
<1>14. CaptureTags'
  BY <1>1, <1>12, <1>13 DEF CaptureTags
<1> QED BY <1>2, <1>7, <1>8, <1>9, <1>10, <1>14 DEF DiskInv

LEMMA CaptureStateKeeps ==
  ASSUME KeepInv, NEW n \in Nodes, CaptureState(n)
  PROVE  MemoryInv' /\ DiskInv'
<1> DEFINE f == Checkpoint(n)
<1>1. /\ cap.pc = "write" /\ cap.at = {} /\ n \in cap.todo
      /\ files' = files \cup {f} /\ UNCHANGED <<tag, captured>>
      /\ cap'.pc = "write" /\ cap'.at = {n} /\ cap'.todo = cap.todo \ {n}
      /\ cap'.done = cap.done /\ cap'.snap = cap.snap /\ cap'.prev = cap.prev
  BY CaptureFacts DEF CaptureState, history, CapType
<1>2. CaptureFrame /\ cap.pc # "none" /\ ncaps' = ncaps
  BY CaptureUnderWay DEF Capture
<1>3. /\ MemoryInv' /\ Done' = Done /\ ended' = ended
      /\ \A m \in Nodes : Recovered(m) /\ Recovered(m)'
      /\ \A m, j : Comes(m, j)' = Comes(m, j)
  BY <1>2, CaptureMemory DEF KeepInv, CaptureFrame
<1>4. /\ cap.todo \subseteq Nodes /\ cap.at \subseteq Nodes /\ cap.done \subseteq Nodes
      /\ ncaps \in Nat
      /\ \A m \in Nodes : cap.prev[m].rid < ncaps /\ cap.prev[m].rid \in Nat
  BY <1>2, CaptureFacts
<1>5. f.node = n /\ f.rid = ncaps /\ f.inflight.job = SnapJob(n)
  <2>1. cap.snap[n].inflight \in Item
    BY DEF KeepInv, RecoveryInv, RecoveryTypeOK, CapType, Record
  <2> QED BY <2>1 DEF Checkpoint, SnapJob, Item
<1> HIDE DEF f
<1>6. ASSUME NEW m, NEW r, m # n \/ r # ncaps
      PROVE  JobsIn(files', m, r) = JobsIn(files, m, r)
  <2>1. JobsIn(files \cup {f}, m, r) = JobsIn(files, m, r)
    BY <1>5, <1>6, JobsOther
  <2> QED BY <1>1, <2>1
<1>7. /\ NewJobs(n) = {} /\ PrevKept(n) /\ SnapKept(n) /\ NotYet(n)
      /\ tag[n] = cap.prev[n]
  BY <1>1, <1>2 DEF KeepInv, DiskInv, FilesAgree, CaptureTags, NotYet
<1>8. NewJobs(n)' = {SnapJob(n)} /\ \A m \in Nodes \ {n} : NewJobs(m)' = NewJobs(m)
  <2>1. NewJobs(n)' = JobsIn(files, n, ncaps) \cup {SnapJob(n)}
    BY <1>1, <1>2, <1>5, JobsAdded, JobsAre
  <2>2. \A m \in Nodes \ {n} : NewJobs(m)' = NewJobs(m)
    BY <1>2, <1>6, JobsAre DEF NewJobs
  <2> QED BY <1>7, <2>1, <2>2 DEF NewJobs
<1>9. ASSUME NEW m \in Nodes
      PROVE  PrevJobs(m)' = PrevJobs(m) /\ SnapJob(m)' = SnapJob(m) /\ New(m)' = New(m)
  <2>1. cap.prev[m].rid # ncaps
    BY <1>4
  <2>2. PrevJobs(m)' = PrevJobs(m)
    BY <1>1, <1>6, <2>1, JobsAre DEF PrevJobs
  <2> QED BY <1>1, <1>2, <2>2 DEF SnapJob, New
<1>10. ASSUME NEW m \in Nodes PROVE Jobs(m)' = Jobs(m)
  <2>1. CASE m = n
    <3>1. tag[m].rid # ncaps
      BY <1>4, <1>7, <2>1
    <3> QED BY <1>1, <1>6, <3>1, JobsAre
  <2>2. CASE m # n
    BY <1>1, <1>6, <2>2, JobsAre
  <2> QED BY <2>1, <2>2
<1>11. FilesAgree'
  <2>1. ASSUME NEW g \in files PROVE ~(g.node = n /\ g.rid = ncaps)
    BY <1>7, JobsNone DEF NewJobs
  <2>2. \A g \in files' : g.rid <= ncaps'
    BY <1>1, <1>2, <1>4, <1>5 DEF KeepInv, DiskInv, FilesAgree
  <2>3. \A g, h \in files' : g.node = h.node /\ g.rid = h.rid => g.inflight.job = h.inflight.job
    BY <1>1, <1>5, <2>1 DEF KeepInv, DiskInv, FilesAgree
  <2>4. \A m \in cap'.todo : NewJobs(m)' = {}
    BY <1>1, <1>4, <1>8 DEF KeepInv, DiskInv, FilesAgree
  <2> QED BY <2>2, <2>3, <2>4 DEF FilesAgree
<1>12. TagsCome'
  BY <1>1, <1>3, <1>10 DEF KeepInv, DiskInv, TagsCome
<1>13. CapturedKept'
  BY <1>1, <1>3, <1>10 DEF KeepInv, DiskInv, CapturedKept, Done
<1>14. CaptureKeeps'
  <2>1. AllBefore
    BY <1>1 DEF KeepInv, DiskInv, CaptureKeeps
  <2>2. AllBefore'
    BY <1>1, <1>2, <1>3, <1>9, <1>10, <2>1 DEF AllBefore, Before
  <2> QED BY <2>2 DEF CaptureKeeps
<1>15. ASSUME NEW m \in Nodes, PrevKept(m) PROVE PrevKept(m)'
  <2>1. CASE m = n
    <3>1. Live(cap.prev[n]) => \A j \in PrevJobs(n) : j \in Done \/ j = SnapJob(n)
      BY <1>7, JobsAre DEF NotYet, PrevJobs
    <3> QED BY <1>1, <1>3, <1>7, <1>8, <1>9, <2>1, <3>1 DEF PrevKept
  <2>2. CASE m # n
    BY <1>1, <1>3, <1>8, <1>9, <1>15, <2>2 DEF PrevKept
  <2> QED BY <2>1, <2>2
<1>16. ASSUME NEW m \in Nodes, SnapKept(m) PROVE SnapKept(m)'
  BY <1>3, <1>8, <1>9, <1>16 DEF SnapKept
<1>17. ASSUME NEW m \in Nodes, NotYet(m) PROVE NotYet(m)'
  BY <1>1, <1>3, <1>9, <1>10, <1>17 DEF NotYet
<1>18. CaptureTags'
  BY <1>1, <1>2, <1>4, <1>9, <1>15, <1>16, <1>17 DEF KeepInv, DiskInv, CaptureTags
<1> QED BY <1>3, <1>11, <1>12, <1>13, <1>14, <1>18 DEF DiskInv

\* A step of the capture that keeps the files: what has the same names in
\* it as before.
LEMMA SameFilesNames ==
  ASSUME files' = files, ncaps' = ncaps
  PROVE  /\ \A m : NewJobs(m)' = NewJobs(m)
         /\ \A m : cap'.prev[m] = cap.prev[m] => PrevJobs(m)' = PrevJobs(m)
         /\ \A m : tag'[m] = tag[m] => Jobs(m)' = Jobs(m) /\ New(m)' = New(m)
BY JobsAre DEF NewJobs, PrevJobs, New

LEMMA CaptureTagKeeps ==
  ASSUME KeepInv, RecoveryInv', NEW n \in Nodes, CaptureTag(n)
  PROVE  MemoryInv' /\ DiskInv'
<1> DEFINE t == [rid |-> ncaps, owner |-> 0, status |-> "pending"]
<1>1. /\ cap.pc = "write" /\ cap.at = {n} /\ UNCHANGED <<files, captured>>
      /\ tag' = [tag EXCEPT ![n] = t]
      /\ cap'.pc = "write" /\ cap'.at = {} /\ cap'.todo = cap.todo
      /\ cap'.done = cap.done \cup {n} /\ cap'.snap = cap.snap /\ cap'.prev = cap.prev
  BY CaptureFacts DEF CaptureTag, history, CapType
<1>2. CaptureFrame /\ cap.pc # "none" /\ ncaps' = ncaps
  BY CaptureUnderWay DEF Capture
<1>3. /\ MemoryInv' /\ Done' = Done /\ ended' = ended
      /\ \A m \in Nodes : Recovered(m) /\ Recovered(m)'
      /\ \A m, j : Comes(m, j)' = Comes(m, j)
  BY <1>2, CaptureMemory DEF KeepInv, CaptureFrame
<1>4. /\ cap.todo \subseteq Nodes /\ cap.at \subseteq Nodes /\ cap.done \subseteq Nodes
      /\ tag \in [Nodes -> Tag]
  BY CaptureFacts
<1>5. tag'[n] = t /\ \A m \in Nodes \ {n} : tag'[m] = tag[m]
  BY <1>1, <1>4
<1>6. New(n)' /\ Live(tag'[n]) /\ tag'[n].rid = ncaps
  BY <1>2, <1>5 DEF New, Live
<1>7. PrevKept(n) /\ SnapKept(n) /\ NotYet(n) /\ tag[n] = cap.prev[n]
  BY <1>1, <1>2 DEF KeepInv, DiskInv, CaptureTags, NotYet
<1>8. /\ \A m : NewJobs(m)' = NewJobs(m) /\ PrevJobs(m)' = PrevJobs(m)
      /\ \A m \in Nodes \ {n} : Jobs(m)' = Jobs(m) /\ New(m)' = New(m)
      /\ \A m : SnapJob(m)' = SnapJob(m)
  BY <1>1, <1>2, <1>5, SameFilesNames DEF SnapJob
<1>9. Jobs(n)' = NewJobs(n)
  BY <1>1, <1>6, JobsAre DEF NewJobs
<1>10. n \notin cap.todo
  <2>1. FilesOf(n, ncaps) # {}
    BY <1>1 DEF KeepInv, RecoveryInv, FileOrder
  <2>2. NewJobs(n) # {}
    BY <2>1, JobsNone DEF FilesOf, NewJobs
  <2> QED BY <1>1, <2>2 DEF KeepInv, DiskInv, FilesAgree
<1>11. FilesAgree'
  BY <1>1, <1>2, <1>8 DEF KeepInv, DiskInv, FilesAgree
<1>12. TagsCome'
  <2>1. \A j \in Jobs(n)' : j \in Done' \/ Comes(n, j)'
    BY <1>3, <1>7, <1>8, <1>9 DEF SnapKept, Done
  <2> QED BY <1>3, <1>5, <1>8, <2>1 DEF KeepInv, DiskInv, TagsCome
<1>13. ASSUME NEW m \in Nodes, PrevKept(m) PROVE PrevKept(m)'
  <2>1. CASE m = n
    BY <1>1, <1>3, <1>6, <1>8, <1>13, <2>1 DEF PrevKept
  <2>2. CASE m # n
    BY <1>1, <1>3, <1>5, <1>8, <1>13, <2>2 DEF PrevKept
  <2> QED BY <2>1, <2>2
<1>14. ASSUME NEW m \in Nodes, SnapKept(m) PROVE SnapKept(m)'
  BY <1>3, <1>8, <1>14 DEF SnapKept
<1>15. ASSUME NEW m \in Nodes \ {n}, NotYet(m) PROVE NotYet(m)'
  BY <1>1, <1>3, <1>5, <1>8, <1>15 DEF NotYet
<1>16. CaptureTags'
  <2>1. \A m \in cap'.todo \cup cap'.at \cup cap'.done : SnapKept(m)'
    BY <1>1, <1>4, <1>14 DEF KeepInv, DiskInv, CaptureTags
  <2>2. \A m \in cap'.todo \cup cap'.at : NotYet(m)'
    BY <1>1, <1>4, <1>10, <1>15 DEF KeepInv, DiskInv, CaptureTags
  <2>3. \A m \in cap'.done : New(m)'
    BY <1>1, <1>4, <1>6, <1>8 DEF KeepInv, DiskInv, CaptureTags
  <2> QED BY <1>1, <1>2, <1>13, <2>1, <2>2, <2>3 DEF KeepInv, DiskInv, CaptureTags
<1>17. AllBefore'
  <2> SUFFICES ASSUME NEW j \in captured \ Done PROVE Before(j)'
    BY <1>1, <1>3 DEF AllBefore
  <2>1. PICK m \in Nodes : \/ Live(cap.prev[m]) /\ j \in PrevJobs(m)
                           \/ Live(tag[m]) /\ tag[m].rid # ncaps /\ j \in Jobs(m)
    BY <1>1 DEF KeepInv, DiskInv, CaptureKeeps, AllBefore, Before
  <2>2. Jobs(n) = PrevJobs(n)
    BY <1>7, JobsAre DEF PrevJobs
  <2>3. CASE m = n
    BY <1>1, <1>7, <1>8, <2>1, <2>2, <2>3 DEF Before
  <2>4. CASE m # n
    BY <1>1, <1>2, <1>5, <1>8, <2>1, <2>4 DEF Before
  <2> QED BY <2>3, <2>4
<1>18. CapturedKept'
  BY <1>1, <1>16, <1>17, BeforeKeptNext
<1> QED BY <1>3, <1>11, <1>12, <1>16, <1>17, <1>18 DEF DiskInv, CaptureKeeps

LEMMA CaptureFailsKeeps ==
  ASSUME KeepInv, CaptureFails
  PROVE  MemoryInv' /\ DiskInv'
<1>1. /\ cap.pc = "write" /\ cap.todo \cup cap.at # {} /\ UNCHANGED <<tag, files, captured>>
      /\ cap'.pc = "undo" /\ cap'.at = {} /\ cap'.todo = cap.done \cup cap.at
      /\ cap'.prev = cap.prev
  BY CaptureFacts DEF CaptureFails, disk, history, CapType
<1>2. CaptureFrame /\ cap.pc # "none" /\ ncaps' = ncaps
  BY CaptureUnderWay DEF Capture
<1>3. /\ MemoryInv' /\ Done' = Done
      /\ \A m \in Nodes : Recovered(m) /\ Recovered(m)'
      /\ \A m, j : Comes(m, j)' = Comes(m, j)
  BY <1>2, CaptureMemory DEF KeepInv
<1>4. cap.at \subseteq Nodes /\ cap.done \subseteq Nodes
  BY CaptureFacts
<1>5. \A m : /\ NewJobs(m)' = NewJobs(m) /\ PrevJobs(m)' = PrevJobs(m)
             /\ Jobs(m)' = Jobs(m) /\ New(m)' = New(m)
  BY <1>1, <1>2, SameFilesNames
<1>6. FilesAgree'
  BY <1>1, <1>2 DEF KeepInv, DiskInv, FilesAgree
<1>7. TagsCome'
  BY <1>1, <1>3, <1>5 DEF KeepInv, DiskInv, TagsCome
<1>8. CapturedKept'
  BY <1>1, <1>3, <1>5 DEF KeepInv, DiskInv, CapturedKept, Done
<1>9. CaptureKeeps'
  <2>1. AllBefore
    BY <1>1 DEF KeepInv, DiskInv, CaptureKeeps
  <2>2. AllBefore'
    BY <1>1, <1>2, <1>3, <1>5, <2>1 DEF AllBefore, Before
  <2> QED BY <2>2 DEF CaptureKeeps
<1>10. ASSUME NEW m \in Nodes, PrevKept(m) PROVE PrevKept(m)'
  BY <1>1, <1>3, <1>5, <1>10 DEF PrevKept
<1>11. \A m \in cap.done \cup cap.at : tag[m] = cap.prev[m] \/ New(m)
  BY <1>1, <1>2 DEF KeepInv, DiskInv, CaptureTags, NotYet
<1>12. CaptureTags'
  BY <1>1, <1>2, <1>5, <1>10, <1>11 DEF KeepInv, DiskInv, CaptureTags
<1> QED BY <1>3, <1>6, <1>7, <1>8, <1>9, <1>12 DEF DiskInv

LEMMA CaptureUndoTagKeeps ==
  ASSUME KeepInv, RecoveryInv', NEW n \in Nodes, CaptureUndoTag(n)
  PROVE  MemoryInv' /\ DiskInv'
<1>1. /\ cap.pc = "undo" /\ cap.at = {} /\ n \in cap.todo /\ UNCHANGED <<files, captured>>
      /\ tag' = [tag EXCEPT ![n] = cap.prev[n]]
      /\ cap'.pc = "undo" /\ cap'.at = {n} /\ cap'.todo = cap.todo \ {n}
      /\ cap'.prev = cap.prev
  BY CaptureFacts DEF CaptureUndoTag, history, CapType
<1>2. CaptureFrame /\ cap.pc # "none" /\ ncaps' = ncaps
  BY CaptureUnderWay DEF Capture
<1>3. /\ MemoryInv' /\ Done' = Done
      /\ \A m \in Nodes : Recovered(m) /\ Recovered(m)'
      /\ \A m, j : Comes(m, j)' = Comes(m, j)
  BY <1>2, CaptureMemory DEF KeepInv
<1>4. cap.todo \subseteq Nodes /\ tag'[n] = cap.prev[n] /\ \A m \in Nodes \ {n} : tag'[m] = tag[m]
  BY <1>1, CaptureFacts
<1>5. /\ \A m : NewJobs(m)' = NewJobs(m) /\ PrevJobs(m)' = PrevJobs(m)
      /\ \A m \in Nodes \ {n} : Jobs(m)' = Jobs(m) /\ New(m)' = New(m)
  BY <1>1, <1>2, <1>4, SameFilesNames
<1>6. Jobs(n)' = PrevJobs(n)
  BY <1>1, <1>4, JobsAre DEF PrevJobs
<1>7. PrevKept(n) /\ (tag[n] = cap.prev[n] \/ New(n))
  BY <1>1, <1>2 DEF KeepInv, DiskInv, CaptureTags
<1>8. FilesAgree'
  BY <1>1, <1>2 DEF KeepInv, DiskInv, FilesAgree
<1>9. TagsCome'
  <2>1. Live(tag'[n]) => \A j \in Jobs(n)' : j \in Done' \/ Comes(n, j)'
    BY <1>3, <1>4, <1>6, <1>7 DEF PrevKept
  <2> QED BY <1>3, <1>4, <1>5, <2>1 DEF KeepInv, DiskInv, TagsCome
<1>10. ASSUME NEW m \in Nodes, PrevKept(m) PROVE PrevKept(m)'
  <2>1. CASE m = n
    BY <1>1, <1>3, <1>4, <1>5, <1>10, <2>1 DEF PrevKept
  <2>2. CASE m # n
    BY <1>1, <1>3, <1>4, <1>5, <1>10, <2>2 DEF PrevKept
  <2> QED BY <2>1, <2>2
<1>11. CaptureTags'
  BY <1>1, <1>2, <1>4, <1>5, <1>10 DEF KeepInv, DiskInv, CaptureTags
<1>12. AllBefore'
  <2> SUFFICES ASSUME NEW j \in captured \ Done PROVE Before(j)'
    BY <1>1, <1>3 DEF AllBefore
  <2>1. PICK m \in Nodes : \/ Live(cap.prev[m]) /\ j \in PrevJobs(m)
                           \/ Live(tag[m]) /\ tag[m].rid # ncaps /\ j \in Jobs(m)
    BY <1>1 DEF KeepInv, DiskInv, CaptureKeeps, AllBefore, Before
  <2>2. tag[n] = cap.prev[n] => Jobs(n) = PrevJobs(n)
    BY JobsAre DEF PrevJobs
  <2>3. CASE m = n
    BY <1>1, <1>5, <1>7, <2>1, <2>2, <2>3 DEF Before, New
  <2>4. CASE m # n
    BY <1>1, <1>2, <1>4, <1>5, <2>1, <2>4 DEF Before
  <2> QED BY <2>3, <2>4
<1>13. CapturedKept'
  BY <1>1, <1>11, <1>12, BeforeKeptNext
<1> QED BY <1>3, <1>8, <1>9, <1>11, <1>12, <1>13 DEF DiskInv, CaptureKeeps

LEMMA CaptureUndoStateKeeps ==
  ASSUME KeepInv, NEW n \in Nodes, CaptureUndoState(n)
  PROVE  MemoryInv' /\ DiskInv'
<1>1. /\ cap.pc = "undo" /\ cap.at = {n} /\ UNCHANGED <<tag, captured>>
      /\ files' = Less(files, n, ncaps) /\ files' \subseteq files
      /\ cap'.pc = "undo" /\ cap'.at = {} /\ cap'.todo = cap.todo
      /\ cap'.prev = cap.prev
  BY CaptureFacts DEF CaptureUndoState, history, CapType, Less, FilesOf
<1>2. CaptureFrame /\ cap.pc # "none" /\ ncaps' = ncaps
  BY CaptureUnderWay DEF Capture
<1>3. /\ MemoryInv' /\ Done' = Done
      /\ \A m \in Nodes : Recovered(m) /\ Recovered(m)'
      /\ \A m, j : Comes(m, j)' = Comes(m, j)
  BY <1>2, CaptureMemory DEF KeepInv
<1>4. tag[n].rid # ncaps
  BY <1>1 DEF KeepInv, RecoveryInv, FileOrder
<1>5. ASSUME NEW m \in Nodes
      PROVE  Jobs(m)' = Jobs(m) /\ PrevJobs(m)' = PrevJobs(m) /\ New(m)' = New(m)
  <2>1. cap.prev[m].rid # ncaps
    BY <1>2, CaptureFacts
  <2>2. m # n \/ tag[m].rid # ncaps
    BY <1>4
  <2>3. /\ JobsIn(files', m, tag[m].rid) = JobsIn(files, m, tag[m].rid)
        /\ JobsIn(files', m, cap.prev[m].rid) = JobsIn(files, m, cap.prev[m].rid)
    BY <1>1, <2>1, <2>2, JobsSame
  <2> QED BY <1>1, <1>2, <2>3, JobsAre DEF PrevJobs, New
<1>6. \A m : NewJobs(m)' \subseteq NewJobs(m)
  BY <1>1, <1>2 DEF NewJobs, JobsIn
<1>7. FilesAgree'
  BY <1>1, <1>2 DEF KeepInv, DiskInv, FilesAgree
<1>8. TagsCome'
  BY <1>1, <1>3, <1>5 DEF KeepInv, DiskInv, TagsCome
<1>9. CapturedKept'
  BY <1>1, <1>3, <1>5 DEF KeepInv, DiskInv, CapturedKept, Done
<1>10. CaptureKeeps'
  BY <1>1, <1>2, <1>3, <1>5 DEF KeepInv, DiskInv, CaptureKeeps, AllBefore, Before
<1>11. ASSUME NEW m \in Nodes, PrevKept(m) PROVE PrevKept(m)'
  BY <1>1, <1>3, <1>5, <1>6, <1>11 DEF PrevKept
<1>12. CaptureTags'
  <2>1. cap.todo \subseteq Nodes
    BY CaptureFacts
  <2> QED BY <1>1, <1>2, <1>5, <1>11, <2>1 DEF KeepInv, DiskInv, CaptureTags
<1> QED BY <1>3, <1>7, <1>8, <1>9, <1>10, <1>12 DEF DiskInv

LEMMA CaptureTidyKeeps ==
  ASSUME KeepInv, NEW n \in Nodes, CaptureTidy(n)
  PROVE  MemoryInv' /\ DiskInv'
<1> DEFINE r == cap.prev[n].rid
<1>1. /\ cap.pc = "write" /\ cap.todo \cup cap.at = {} /\ n \in cap.done
      /\ UNCHANGED <<tag, captured>>
      /\ files' = Less(files, n, r) /\ files' \subseteq files
      /\ cap'.pc = "write" /\ cap'.at = cap.at /\ cap'.todo = cap.todo
      /\ cap'.done = cap.done /\ cap'.snap = cap.snap
      /\ cap'.prev = [cap.prev EXCEPT ![n] = NoTag]
  BY CaptureFacts DEF CaptureTidy, history, CapType, Less, FilesOf
<1>2. CaptureFrame /\ cap.pc # "none" /\ ncaps' = ncaps
  BY CaptureUnderWay DEF Capture
<1>3. /\ MemoryInv' /\ Done' = Done /\ ended' = ended
      /\ \A m \in Nodes : Recovered(m) /\ Recovered(m)'
      /\ \A m, j : Comes(m, j)' = Comes(m, j)
  BY <1>2, CaptureMemory DEF KeepInv, CaptureFrame
<1>4. /\ cap.done \subseteq Nodes /\ cap.prev \in [Nodes -> Tag] /\ r # ncaps
      /\ cap'.prev[n] = NoTag /\ \A m \in Nodes \ {n} : cap'.prev[m] = cap.prev[m]
  BY <1>1, <1>2, CaptureFacts
<1>5. New(n) /\ tag[n].rid = ncaps
  BY <1>1, <1>2 DEF KeepInv, DiskInv, CaptureTags, New
<1>6. ASSUME NEW m \in Nodes
      PROVE  /\ Jobs(m)' = Jobs(m) /\ NewJobs(m)' = NewJobs(m) /\ New(m)' = New(m)
             /\ SnapJob(m)' = SnapJob(m)
             /\ m # n => PrevJobs(m)' = PrevJobs(m)
  <2>1. m # n \/ tag[m].rid # r
    BY <1>4, <1>5
  <2>2. /\ JobsIn(files', m, tag[m].rid) = JobsIn(files, m, tag[m].rid)
        /\ JobsIn(files', m, ncaps) = JobsIn(files, m, ncaps)
        /\ m # n => JobsIn(files', m, cap.prev[m].rid) = JobsIn(files, m, cap.prev[m].rid)
    BY <1>1, <1>4, <2>1, JobsSame
  <2> QED BY <1>1, <1>2, <1>4, <2>2, JobsAre DEF PrevJobs, NewJobs, New, SnapJob
<1>7. FilesAgree'
  BY <1>1, <1>2 DEF KeepInv, DiskInv, FilesAgree
<1>8. TagsCome'
  BY <1>1, <1>3, <1>6 DEF KeepInv, DiskInv, TagsCome
<1>9. CapturedKept'
  BY <1>1, <1>3, <1>6 DEF KeepInv, DiskInv, CapturedKept, Done
<1>10. CaptureKeeps'
  BY <1>1 DEF CaptureKeeps
<1>11. ASSUME NEW m \in Nodes, PrevKept(m) PROVE PrevKept(m)'
  <2>1. CASE m = n
    <3>1. ~Live(cap'.prev[m])
      BY <1>4, <2>1 DEF Live, NoTag
    <3> QED BY <3>1 DEF PrevKept
  <2>2. CASE m # n
    BY <1>1, <1>3, <1>4, <1>6, <1>11, <2>2 DEF PrevKept
  <2> QED BY <2>1, <2>2
<1>12. ASSUME NEW m \in Nodes, SnapKept(m) PROVE SnapKept(m)'
  BY <1>3, <1>6, <1>12 DEF SnapKept
<1>13. CaptureTags'
  <2>1. \A m \in cap'.done : SnapKept(m)' /\ New(m)'
    BY <1>1, <1>4, <1>6, <1>12 DEF KeepInv, DiskInv, CaptureTags
  <2> QED BY <1>1, <1>2, <1>11, <2>1 DEF KeepInv, DiskInv, CaptureTags
<1> QED BY <1>3, <1>7, <1>8, <1>9, <1>10, <1>13 DEF DiskInv

\* However the capture ends: nothing is left of it but the disk.
LEMMA CaptureEndKeeps ==
  ASSUME KeepInv, CaptureUndone \/ CaptureDone \/ CaptureAborts
  PROVE  MemoryInv' /\ DiskInv'
<1>1. /\ UNCHANGED <<tag, files>> /\ cap'.pc = "none"
      /\ captured' = captured \/ CaptureDone
  BY DEF CaptureUndone, CaptureDone, CaptureAborts, CaptureEnd, disk, history, NoCap
<1>2. CaptureFrame /\ cap.pc # "none" /\ ncaps' = ncaps
  BY CaptureUnderWay DEF Capture
<1>3. /\ MemoryInv' /\ Done' = Done
      /\ \A m \in Nodes : Recovered(m) /\ Recovered(m)'
      /\ \A m, j : Comes(m, j)' = Comes(m, j)
  BY <1>2, CaptureMemory DEF KeepInv
<1>4. \A m : Jobs(m)' = Jobs(m)
  BY <1>1, JobsAre
<1>5. FilesAgree' /\ CaptureTags' /\ CaptureKeeps'
  BY <1>1, <1>2 DEF KeepInv, DiskInv, FilesAgree, CaptureTags, CaptureKeeps
<1>6. TagsCome'
  BY <1>1, <1>3, <1>4 DEF KeepInv, DiskInv, TagsCome
<1>7. ASSUME NEW j \in captured \ Done
      PROVE  \E m \in Nodes : Live(tag[m]) /\ j \in Jobs(m)
  BY DEF KeepInv, DiskInv, CapturedKept, Done
<1>8. ASSUME CaptureDone, NEW n \in cap.done
      PROVE  Live(tag[n]) /\ SnapJob(n) \in Jobs(n)
  <2>1. n \in Nodes /\ New(n) /\ SnapKept(n)
    BY <1>2, <1>8, CaptureFacts DEF CaptureDone, KeepInv, DiskInv, CaptureTags
  <2>2. Jobs(n) = NewJobs(n) /\ NewJobs(n) # {}
    BY <2>1, JobsAre, JobsNone DEF KeepInv, RecoveryInv, TagHasState, FilesOf, New, NewJobs
  <2> QED BY <2>1, <2>2 DEF New, SnapKept
<1>9. CapturedKept'
  <2> SUFFICES ASSUME NEW j \in captured' \ Done
               PROVE  \E m \in Nodes : Live(tag[m]) /\ j \in Jobs(m)
    BY <1>1, <1>3, <1>4 DEF CapturedKept, Done
  <2>1. CASE j \in captured
    BY <1>7, <2>1
  <2>2. CASE j \notin captured
    <3>1. CaptureDone
      BY <1>1, <2>2
    <3>2. PICK n \in cap.done : j = SnapJob(n)
      BY <2>2, <3>1 DEF CaptureDone, SnapJob
    <3> QED BY <1>8, <3>1, <3>2, CaptureFacts
  <2> QED BY <2>1, <2>2
<1> QED BY <1>3, <1>5, <1>6, <1>9 DEF DiskInv

LEMMA CaptureStepKeeps ==
  ASSUME KeepInv, RecoveryInv', Capture
  PROVE  MemoryInv' /\ DiskInv'
BY CaptureStateKeeps, CaptureTagKeeps, CaptureUndoTagKeeps, CaptureUndoStateKeeps,
   CaptureTidyKeeps, CaptureFailsKeeps, CaptureEndKeeps DEF Capture

\* Steps of the startup, and its end.
StartupDisk ==
  /\ cap'.pc = "none" /\ files' \subseteq files /\ UNCHANGED <<ncaps, captured>>
  /\ Done \subseteq Done'
  /\ \A n \in Nodes : Live(tag[n]) => Live(tag'[n]) /\ Jobs(n)' = Jobs(n)

LEMMA StartupDiskKeeps ==
  ASSUME KeepInv, StartupDisk, TagsCome'
  PROVE  DiskInv'
<1>1. FilesAgree' /\ CaptureTags' /\ CaptureKeeps'
  BY DEF StartupDisk, KeepInv, DiskInv, FilesAgree, CaptureTags, CaptureKeeps
<1>2. CapturedKept'
  BY DEF StartupDisk, KeepInv, DiskInv, CapturedKept, Done
<1> QED BY <1>1, <1>2 DEF DiskInv

LEMMA NoCaptureWhileStarting ==
  ASSUME KeepInv, rcv.pc # "none" \/ phase = "down"
  PROVE  cap.pc = "none" /\ (rcv.pc # "none" => phase = "boot")
BY DEF KeepInv, MemoryInv, Phases

LEMMA StartKeeps ==
  ASSUME KeepInv, Start
  PROVE  MemoryInv' /\ DiskInv' /\ Removing'
<1>1. /\ phase = "down" /\ phase' = "boot" /\ rcv'.pc = "reset"
      /\ UNCHANGED <<tag, files, rec, exec, cap, ncaps, captured, ended, blocked>>
  BY DEF Start, NoRcv, disk, count, history
<1>2. cap.pc = "none" /\ rcv.pc = "none"
  BY <1>1 DEF KeepInv, MemoryInv, Phases
<1>3. \A n \in Nodes : ~Recovered(n) /\ ~Recovered(n)'
  BY <1>1, <1>2 DEF Recovered
<1>4. MemoryInv'
  BY <1>1, <1>2, <1>3 DEF KeepInv, MemoryInv, Phases, Unreferred, InflightRuns, InflightOK
<1>5. TagsCome' /\ Removing'
  BY <1>1, <1>3 DEF TagsCome, Removing
<1>6. StartupDisk
  BY <1>1, <1>2, JobsAre DEF StartupDisk, Done
<1> QED BY <1>4, <1>5, <1>6, StartupDiskKeeps

LEMMA ResetKeeps ==
  ASSUME KeepInv, Reset
  PROVE  MemoryInv' /\ DiskInv' /\ Removing'
<1>1. /\ rcv.pc = "reset" /\ rcv'.pc = "begin" /\ rec' = [n \in Nodes |-> Fresh]
      /\ UNCHANGED <<tag, files, exec, cap, phase, ncaps, captured, ended, blocked>>
  BY DEF Reset, disk, count, history, KeepInv, RecoveryInv, RecoveryTypeOK, RcvType
<1>2. cap.pc = "none" /\ phase = "boot"
  BY <1>1, NoCaptureWhileStarting
<1>3. \A n \in Nodes : ~Recovered(n) /\ ~Recovered(n)'
  BY <1>1, <1>2 DEF Recovered
<1>4. MemoryInv'
  <2>1. Phases'
    BY <1>1, <1>2 DEF Phases
  <2>2. Unreferred'
    BY <1>1, <1>3 DEF KeepInv, MemoryInv, Unreferred, Fresh
  <2>3. InflightRuns'
    BY <1>1 DEF InflightRuns, InflightOK, Fresh
  <2> QED BY <2>1, <2>2, <2>3 DEF MemoryInv
<1>5. TagsCome' /\ Removing'
  BY <1>1, <1>3 DEF TagsCome, Removing
<1>6. StartupDisk
  BY <1>1, <1>2, JobsAre DEF StartupDisk, Done
<1> QED BY <1>4, <1>5, <1>6, StartupDiskKeeps

LEMMA RecoverBeginKeeps ==
  ASSUME KeepInv, RecoverBegin
  PROVE  MemoryInv' /\ DiskInv' /\ Removing'
<1>1. /\ rcv.pc = "begin" /\ rcv'.pc = "scan" /\ rcv'.todo = {n \in Nodes : tag[n].status # "none"}
      /\ UNCHANGED <<tag, files, rec, exec, cap, phase, ncaps, captured, ended, blocked>>
  BY DEF RecoverBegin, disk, count, history, NoRcv
<1>2. cap.pc = "none" /\ phase = "boot"
  BY <1>1, NoCaptureWhileStarting
<1>3. \A n \in Nodes : ~Recovered(n) /\ (Recovered(n)' => tag[n].status = "none")
  BY <1>1, <1>2 DEF Recovered
<1>4. MemoryInv'
  BY <1>1, <1>2, <1>3 DEF KeepInv, MemoryInv, Phases, Unreferred, InflightRuns, InflightOK
<1>5. TagsCome' /\ Removing'
  BY <1>1, <1>3 DEF TagsCome, Removing, Live
<1>6. StartupDisk
  BY <1>1, <1>2, JobsAre DEF StartupDisk, Done
<1> QED BY <1>4, <1>5, <1>6, StartupDiskKeeps

LEMMA RecoverEndKeeps ==
  ASSUME KeepInv, RecoverEnd
  PROVE  MemoryInv' /\ DiskInv' /\ Removing'
<1>1. /\ rcv.pc = "scan" /\ rcv.todo = {} /\ rcv'.pc = "none" /\ phase' = "ready"
      /\ UNCHANGED <<tag, files, rec, exec, cap, ncaps, captured, ended, blocked>>
  BY DEF RecoverEnd, disk, count, history, NoRcv
<1>2. cap.pc = "none" /\ phase = "boot"
  BY <1>1, NoCaptureWhileStarting
<1>3. \A n \in Nodes : Recovered(n) /\ Recovered(n)'
  BY <1>1 DEF Recovered
<1>4. MemoryInv'
  BY <1>1, <1>2, <1>3 DEF KeepInv, MemoryInv, Phases, Unreferred, InflightRuns, InflightOK
<1>5. Removing' /\ \A n : Jobs(n)' = Jobs(n) /\ \A j : Comes(n, j)' = Comes(n, j)
  BY <1>1, JobsAre DEF Removing, Comes, Runs, IsNext
<1>6. TagsCome'
  BY <1>1, <1>3, <1>5 DEF KeepInv, DiskInv, TagsCome, Done
<1>7. StartupDisk
  BY <1>1, <1>2, JobsAre DEF StartupDisk, Done
<1> QED BY <1>4, <1>5, <1>6, <1>7, StartupDiskKeeps

LEMMA CrashKeeps ==
  ASSUME KeepInv, Crash
  PROVE  MemoryInv' /\ DiskInv' /\ Removing'
<1>1. /\ phase' = "down" /\ rcv'.pc = "none" /\ cap'.pc = "none"
      /\ rec' = [n \in Nodes |-> Fresh] /\ exec' = [n \in Nodes |-> Parked]
      /\ UNCHANGED <<tag, files, ncaps, captured, ended, blocked>>
  BY DEF Crash, disk, count, history, NoRcv, NoCap
<1>2. MemoryInv'
  <2>1. Phases'
    BY <1>1 DEF Phases
  <2>2. Unreferred'
    BY <1>1 DEF Unreferred, Fresh, Parked, NoItem
  <2>3. InflightRuns'
    BY <1>1 DEF InflightRuns, InflightOK, Fresh
  <2> QED BY <2>1, <2>2, <2>3 DEF MemoryInv
<1>3. TagsCome' /\ Removing'
  BY <1>1 DEF TagsCome, Removing, Recovered
<1>4. StartupDisk
  BY <1>1, JobsAre DEF StartupDisk, Done
<1> QED BY <1>2, <1>3, <1>4, StartupDiskKeeps

\* The steps of the recovery that work on one node and leave the records alone.
RecoverTurn ==
  /\ UNCHANGED <<rec, exec, cap, phase, ncaps, captured, ended>> /\ blocked \subseteq blocked'
  /\ rcv.pc # "none"
  /\ rcv'.pc \in {"restore", "wake"} =>
       rcv'.at \subseteq rcv'.todo /\ rcv'.current.inflight = NoItem
  /\ \A m \in Nodes : Recovered(m) => Recovered(m)'

LEMMA RecoverTurnMemory ==
  ASSUME KeepInv, RecoverTurn
  PROVE  /\ MemoryInv' /\ Done \subseteq Done' /\ cap'.pc = "none"
         /\ \A m, j : Comes(m, j)' = Comes(m, j)
<1>1. cap.pc = "none" /\ phase = "boot"
  BY NoCaptureWhileStarting DEF RecoverTurn
<1>2. Phases'
  BY <1>1 DEF RecoverTurn, Phases
<1>3. Unreferred' /\ InflightRuns'
  BY DEF RecoverTurn, KeepInv, MemoryInv, Unreferred, InflightRuns, InflightOK
<1> QED BY <1>1, <1>2, <1>3 DEF MemoryInv, RecoverTurn, Done, Comes, Runs, IsNext

LEMMA RecoverRefusedKeeps ==
  ASSUME KeepInv, NEW n \in Nodes, RecoverRefused(n)
  PROVE  MemoryInv' /\ DiskInv' /\ Removing'
<1>1. /\ rcv.pc = "scan" /\ rcv'.pc = "scan" /\ rcv'.todo = rcv.todo \ {n}
      /\ blocked' = blocked \cup Jobs(n)
      /\ UNCHANGED <<tag, files, rec, exec, cap, phase, ncaps, captured, ended>>
  BY DEF RecoverRefused, Turn, disk, count, KeepInv, RecoveryInv, RecoveryTypeOK, RcvType
<1>2. \A m \in Nodes : /\ Recovered(m) => Recovered(m)'
                       /\ m # n => (Recovered(m)' => Recovered(m))
  BY <1>1 DEF Recovered
<1>3. RecoverTurn
  BY <1>1, <1>2 DEF RecoverTurn
<1>4. /\ MemoryInv' /\ Done \subseteq Done' /\ cap'.pc = "none"
      /\ \A m, j : Comes(m, j)' = Comes(m, j)
  BY <1>3, RecoverTurnMemory
<1>5. \A m : Jobs(m)' = Jobs(m)
  BY <1>1, JobsAre
<1>6. TagsCome'
  <2>1. Jobs(n)' \subseteq Done'
    BY <1>1, <1>5 DEF Done
  <2> QED BY <1>1, <1>2, <1>4, <1>5, <2>1 DEF KeepInv, DiskInv, TagsCome
<1>7. Removing'
  BY <1>1 DEF Removing
<1>8. StartupDisk
  BY <1>1, <1>4, <1>5 DEF StartupDisk
<1> QED BY <1>4, <1>6, <1>7, <1>8, StartupDiskKeeps

LEMMA RecoverClaimKeeps ==
  ASSUME KeepInv, NEW n \in Nodes, RecoverClaim(n)
  PROVE  MemoryInv' /\ DiskInv' /\ Removing'
<1>1. /\ rcv.pc = "scan" /\ n \in rcv.todo /\ rcv'.pc = "restore" /\ rcv'.todo = rcv.todo
      /\ rcv'.at = {n} /\ rcv'.current = rec[n] /\ rec[n].inflight = NoItem
      /\ tag \in [Nodes -> Tag]
      /\ tag' = [tag EXCEPT ![n].status = "claimed", ![n].owner = life]
      /\ UNCHANGED <<files, rec, exec, cap, phase, ncaps, captured, ended, blocked>>
  BY DEF RecoverClaim, Turn, disk, count, history, KeepInv, RecoveryInv, RecoveryTypeOK, RcvType
<1>2. phase = "boot"
  BY <1>1, NoCaptureWhileStarting
<1>3. \A m \in Nodes : Recovered(m)' = Recovered(m)
  BY <1>1 DEF Recovered
<1>4. RecoverTurn
  BY <1>1, <1>3 DEF RecoverTurn
<1>5. /\ MemoryInv' /\ Done \subseteq Done' /\ cap'.pc = "none"
      /\ \A m, j : Comes(m, j)' = Comes(m, j)
  BY <1>4, RecoverTurnMemory
<1>6. /\ tag'[n].rid = tag[n].rid /\ tag'[n].status = "claimed"
      /\ \A m \in Nodes \ {n} : tag'[m] = tag[m]
  BY <1>1 DEF Tag
<1>7. \A m \in Nodes : Jobs(m)' = Jobs(m) /\ (Live(tag[m]) => Live(tag'[m]))
  BY <1>1, <1>6, JobsAre DEF Live
<1>8. ~Recovered(n)
  BY <1>1, <1>2 DEF Recovered
<1>9. TagsCome'
  BY <1>3, <1>5, <1>6, <1>7, <1>8 DEF KeepInv, DiskInv, TagsCome
<1>10. Removing'
  BY <1>1 DEF Removing
<1>11. StartupDisk
  BY <1>1, <1>5, <1>7 DEF StartupDisk
<1> QED BY <1>5, <1>9, <1>10, <1>11, StartupDiskKeeps

LEMMA RecoverWakeKeeps ==
  ASSUME KeepInv, NEW n \in Nodes, RecoverWake(n)
  PROVE  MemoryInv' /\ DiskInv' /\ Removing'
<1>1. /\ rcv.pc = "wake" /\ rcv.at = {n} /\ rcv'.pc = "scan" /\ rcv'.todo = rcv.todo \ {n}
      /\ UNCHANGED <<tag, files, rec, exec, cap, phase, ncaps, captured, ended, blocked>>
  BY DEF RecoverWake, disk, count, history, KeepInv, RecoveryInv, RecoveryTypeOK, RcvType
<1>2. \A m \in Nodes : Recovered(m)' = Recovered(m)
  BY <1>1 DEF Recovered
<1>3. RecoverTurn
  BY <1>1, <1>2 DEF RecoverTurn
<1>4. /\ MemoryInv' /\ Done \subseteq Done' /\ cap'.pc = "none"
      /\ \A m, j : Comes(m, j)' = Comes(m, j)
  BY <1>3, RecoverTurnMemory
<1>5. \A m : Jobs(m)' = Jobs(m)
  BY <1>1, JobsAre
<1>6. TagsCome'
  BY <1>1, <1>2, <1>4, <1>5 DEF KeepInv, DiskInv, TagsCome
<1>7. Removing'
  BY <1>1 DEF Removing
<1>8. StartupDisk
  BY <1>1, <1>4, <1>5 DEF StartupDisk
<1> QED BY <1>4, <1>6, <1>7, <1>8, StartupDiskKeeps

LEMMA RecoverCleanStateKeeps ==
  ASSUME KeepInv, NEW n \in Nodes, RecoverCleanState(n)
  PROVE  MemoryInv' /\ DiskInv' /\ Removing'
<1>1. /\ rcv.pc = "scan" /\ tag[n].status = "completed" /\ rcv'.pc = "untag"
      /\ rcv'.at = {n} /\ rcv'.todo = rcv.todo
      /\ files' = Less(files, n, tag[n].rid) /\ files' \subseteq files
      /\ UNCHANGED <<tag, rec, exec, cap, phase, ncaps, captured, ended, blocked>>
  BY DEF RecoverCleanState, Turn, disk, count, history, KeepInv, RecoveryInv, RecoveryTypeOK,
         RcvType, Less, FilesOf
<1>2. \A m \in Nodes : Recovered(m)' = Recovered(m)
  BY <1>1 DEF Recovered
<1>3. RecoverTurn
  BY <1>1, <1>2 DEF RecoverTurn
<1>4. /\ MemoryInv' /\ Done \subseteq Done' /\ cap'.pc = "none"
      /\ \A m, j : Comes(m, j)' = Comes(m, j)
  BY <1>3, RecoverTurnMemory
<1>5. ~Live(tag[n])
  BY <1>1 DEF Live
<1>6. ASSUME NEW m \in Nodes \ {n} PROVE Jobs(m)' = Jobs(m)
  <2>1. JobsIn(files', m, tag[m].rid) = JobsIn(files, m, tag[m].rid)
    BY <1>1, JobsSame
  <2> QED BY <1>1, <2>1, JobsAre
<1>7. TagsCome'
  BY <1>1, <1>2, <1>4, <1>5, <1>6 DEF KeepInv, DiskInv, TagsCome
<1>8. Removing'
  BY <1>1, <1>5 DEF Removing
<1>9. StartupDisk
  BY <1>1, <1>4, <1>5, <1>6 DEF StartupDisk
<1> QED BY <1>4, <1>7, <1>8, <1>9, StartupDiskKeeps

LEMMA RecoverCleanTagKeeps ==
  ASSUME KeepInv, NEW n \in Nodes, RecoverCleanTag(n)
  PROVE  MemoryInv' /\ DiskInv' /\ Removing'
<1>1. /\ rcv.pc = "untag" /\ rcv.at = {n} /\ rcv'.pc = "scan" /\ rcv'.todo = rcv.todo \ {n}
      /\ tag \in [Nodes -> Tag] /\ tag' = [tag EXCEPT ![n] = NoTag]
      /\ UNCHANGED <<files, rec, exec, cap, phase, ncaps, captured, ended, blocked>>
  BY DEF RecoverCleanTag, count, history, KeepInv, RecoveryInv, RecoveryTypeOK, RcvType
<1>2. \A m \in Nodes : /\ Recovered(m) => Recovered(m)'
                       /\ m # n => (Recovered(m)' => Recovered(m))
  BY <1>1 DEF Recovered
<1>3. RecoverTurn
  BY <1>1, <1>2 DEF RecoverTurn
<1>4. /\ MemoryInv' /\ Done \subseteq Done' /\ cap'.pc = "none"
      /\ \A m, j : Comes(m, j)' = Comes(m, j)
  BY <1>3, RecoverTurnMemory
<1>5. ~Live(tag[n])
  BY <1>1 DEF KeepInv, Removing
<1>6. tag'[n] = NoTag /\ \A m \in Nodes \ {n} : tag'[m] = tag[m]
  BY <1>1
<1>7. ~Live(tag'[n]) /\ \A m \in Nodes \ {n} : Jobs(m)' = Jobs(m)
  BY <1>1, <1>6, JobsAre DEF Live, NoTag
<1>8. TagsCome'
  BY <1>2, <1>4, <1>6, <1>7 DEF KeepInv, DiskInv, TagsCome
<1>9. Removing'
  BY <1>1 DEF Removing
<1>10. StartupDisk
  BY <1>1, <1>4, <1>5, <1>6, <1>7 DEF StartupDisk
<1> QED BY <1>4, <1>8, <1>9, <1>10, StartupDiskKeeps

\* The run saved first is the first one of the queue that is made from it.
LEMMA FirstOfQueue ==
  ASSUME NEW S, NEW x \in S, NEW s \in Seq(S), NEW t \in Seq(S)
  PROVE  <<x>> \o s \o t # << >> /\ Head(<<x>> \o s \o t) = x
<1>1. /\ <<x>> \o s \in Seq(S) /\ Len(<<x>> \o s) \in Nat /\ Len(<<x>> \o s) >= 1
      /\ (<<x>> \o s)[1] = x
  OBVIOUS
<1>2. /\ Len(<<x>> \o s \o t) >= 1 /\ (<<x>> \o s \o t)[1] = x
  BY <1>1
<1> QED BY <1>1, <1>2

LEMMA RecoverRestoreKeeps ==
  ASSUME KeepInv, NEW n \in Nodes, RecoverRestore(n)
  PROVE  MemoryInv' /\ DiskInv' /\ Removing'
<1>1. /\ rcv.pc = "restore" /\ rcv.at = {n} /\ rcv'.pc = "wake" /\ rcv'.at = rcv.at
      /\ rcv'.todo = rcv.todo /\ rcv'.current = rcv.current /\ rcv \in RcvType
      /\ UNCHANGED <<tag, files, exec, cap, phase, ncaps, captured, ended, blocked>>
  BY DEF RecoverRestore, disk, count, history, KeepInv, RecoveryInv, RecoveryTypeOK, RcvType
<1>2. PICK f \in FilesOf(n, tag[n].rid) :
        rec' = [rec EXCEPT ![n] =
          [state |-> "idle", inflight |-> NoItem,
           pending |-> <<[f.inflight EXCEPT !.ref = tag[n].rid]>>
                         \o f.pending \o rcv.current.pending]]
  BY DEF RecoverRestore
<1> DEFINE x == [f.inflight EXCEPT !.ref = tag[n].rid]
           q == <<x>> \o f.pending \o rcv.current.pending
<1>3. f \in files /\ f.node = n /\ f.rid = tag[n].rid
  BY DEF FilesOf
<1>4. x \in Item /\ x.job = f.inflight.job /\ f.pending \in Seq(Item) /\ rcv.current.pending \in Seq(Item)
  <2>1. f \in File /\ tag[n] \in Tag /\ rcv.current \in Record
    BY <1>1, <1>3 DEF KeepInv, RecoveryInv, RecoveryTypeOK, RcvType
  <2>2. f.inflight \in Item /\ f.pending \in Seq(Item) /\ rcv.current.pending \in Seq(Item)
    BY <2>1 DEF File, Record
  <2>3. tag[n].rid \in 0..MaxCaptures
    BY <2>1 DEF Tag
  <2> QED BY <2>2, <2>3 DEF Item
<1>5. rec' = [rec EXCEPT ![n] = [state |-> "idle", inflight |-> NoItem, pending |-> q]]
  BY <1>2
<1> HIDE DEF x
<1>15. q # << >> /\ Head(q) = x
  BY <1>4, FirstOfQueue
<1> HIDE DEF q
<1>6. /\ rec'[n].state = "idle" /\ rec'[n].inflight = NoItem /\ rec'[n].pending = q
      /\ \A m \in Nodes \ {n} : rec'[m] = rec[m]
  <2>1. rec \in [Nodes -> Record]
    BY DEF KeepInv, RecoveryInv, RecoveryTypeOK
  <2> QED BY <1>5, <2>1
<1>7. cap.pc = "none" /\ phase = "boot" /\ rcv.at \subseteq rcv.todo /\ rcv.current.inflight = NoItem
  BY <1>1, NoCaptureWhileStarting DEF KeepInv, MemoryInv, Phases
<1>8. /\ ~Recovered(n) /\ Recovered(n)'
      /\ \A m \in Nodes \ {n} : Recovered(m)' = Recovered(m)
  BY <1>1, <1>7 DEF Recovered
<1>9. exec'[n].item.ref = 0
  BY <1>1, <1>8 DEF KeepInv, MemoryInv, Unreferred
<1>10. MemoryInv'
  <2>1. Phases'
    BY <1>1, <1>7 DEF Phases
  <2>2. Unreferred'
    BY <1>1, <1>6, <1>8 DEF KeepInv, MemoryInv, Unreferred
  <2>3. InflightRuns'
    BY <1>1, <1>6 DEF KeepInv, MemoryInv, InflightRuns, InflightOK
  <2> QED BY <2>1, <2>2, <2>3 DEF MemoryInv
<1>11. \A m : Jobs(m)' = Jobs(m)
  BY <1>1, JobsAre
<1>12. TagsCome'
  <2>1. ASSUME NEW j \in Jobs(n) PROVE Comes(n, j)'
    <3>1. j = f.inflight.job
      BY <1>3 DEF Jobs, FilesOf, KeepInv, DiskInv, FilesAgree
    <3> QED BY <1>4, <1>6, <1>9, <1>15, <3>1 DEF Comes, IsNext
  <2>2. \A m \in Nodes \ {n} : \A j : Comes(m, j)' = Comes(m, j)
    BY <1>1, <1>6 DEF Comes, Runs, IsNext
  <2> QED BY <1>1, <1>8, <1>11, <2>1, <2>2 DEF KeepInv, DiskInv, TagsCome, Done
<1>13. Removing'
  BY <1>1 DEF Removing
<1>14. StartupDisk
  BY <1>1, <1>7, <1>11 DEF StartupDisk, Done
<1> QED BY <1>10, <1>12, <1>13, <1>14, StartupDiskKeeps

LEMMA RecoverUndoKeeps ==
  ASSUME KeepInv, NEW n \in Nodes, RecoverUndo(n)
  PROVE  MemoryInv' /\ DiskInv' /\ Removing'
<1>1. /\ rcv.pc \in {"restore", "wake"} /\ rcv.at = {n} /\ rcv'.pc = "scan"
      /\ rcv'.todo = rcv.todo \ {n} /\ blocked' = blocked \cup Jobs(n)
      /\ tag \in [Nodes -> Tag] /\ rec \in [Nodes -> Record]
      /\ rec' = [rec EXCEPT ![n] = rcv.current]
      /\ tag' = [tag EXCEPT ![n].status = "pending", ![n].owner = 0]
      /\ UNCHANGED <<files, exec, cap, phase, ncaps, captured, ended>>
  BY DEF RecoverUndo, count, KeepInv, RecoveryInv, RecoveryTypeOK, RcvType
<1>2. cap.pc = "none" /\ phase = "boot" /\ rcv.current.inflight = NoItem
  BY <1>1, NoCaptureWhileStarting DEF KeepInv, MemoryInv, Phases
<1>3. /\ Recovered(n)' /\ \A m \in Nodes \ {n} : Recovered(m)' = Recovered(m)
  BY <1>1, <1>2 DEF Recovered
<1>4. rec'[n] = rcv.current /\ \A m \in Nodes \ {n} : rec'[m] = rec[m]
  BY <1>1
<1>5. /\ tag'[n].rid = tag[n].rid /\ tag'[n].status = "pending"
      /\ \A m \in Nodes \ {n} : tag'[m] = tag[m]
  BY <1>1 DEF Tag
<1>6. \A m \in Nodes : Jobs(m)' = Jobs(m) /\ (Live(tag[m]) => Live(tag'[m]))
  BY <1>1, <1>5, JobsAre DEF Live
<1>7. MemoryInv'
  <2>1. Phases'
    BY <1>1, <1>2 DEF Phases
  <2>2. Unreferred'
    BY <1>1, <1>3, <1>4 DEF KeepInv, MemoryInv, Unreferred
  <2>3. InflightRuns'
    BY <1>1, <1>2, <1>4 DEF KeepInv, MemoryInv, InflightRuns, InflightOK
  <2> QED BY <2>1, <2>2, <2>3 DEF MemoryInv
<1>8. Done \subseteq Done' /\ Jobs(n)' \subseteq Done'
  BY <1>1, <1>6 DEF Done
<1>9. TagsCome'
  <2>1. \A m \in Nodes \ {n} : \A j : Comes(m, j)' = Comes(m, j)
    BY <1>1, <1>4 DEF Comes, Runs, IsNext
  <2> QED BY <1>3, <1>5, <1>6, <1>8, <2>1 DEF KeepInv, DiskInv, TagsCome
<1>10. Removing'
  BY <1>1 DEF Removing
<1>11. StartupDisk
  BY <1>1, <1>2, <1>6, <1>8 DEF StartupDisk
<1> QED BY <1>7, <1>9, <1>10, <1>11, StartupDiskKeeps

LEMMA StartupKeeps ==
  ASSUME KeepInv, Startup
  PROVE  MemoryInv' /\ DiskInv' /\ Removing'
BY StartKeeps, ResetKeeps, RecoverBeginKeeps, RecoverEndKeeps, RecoverCleanStateKeeps,
   RecoverCleanTagKeeps, RecoverRefusedKeeps, RecoverClaimKeeps, RecoverRestoreKeeps,
   RecoverWakeKeeps, RecoverUndoKeeps DEF Startup

LEMMA InitKeep == Init => KeepInv
<1> SUFFICES ASSUME Init PROVE KeepInv
  OBVIOUS
<1>1. /\ rec = [n \in Nodes |-> Fresh] /\ exec = [n \in Nodes |-> Parked]
      /\ cap.pc = "none" /\ rcv.pc = "none" /\ phase = "down"
      /\ ended = {} /\ blocked = {}
  BY DEF Init, NoCap, NoRcv
<1>2. RecoveryInv
  BY InitType, InitOrder DEF RecoveryInv
<1>3. MemoryInv
  <2>1. Phases
    BY <1>1 DEF Phases
  <2>2. Unreferred
    BY <1>1 DEF Unreferred, Fresh, Parked, NoItem
  <2>3. InflightRuns
    BY <1>1 DEF InflightRuns, InflightOK, Fresh
  <2> QED BY <2>1, <2>2, <2>3 DEF MemoryInv
<1>4. TagsCome /\ CaptureTags /\ CaptureKeeps /\ Removing
  BY <1>1 DEF TagsCome, Recovered, CaptureTags, CaptureKeeps, Removing
<1>5. CASE files = {} /\ captured = {}
  BY <1>1, <1>2, <1>3, <1>4, <1>5 DEF FilesAgree, CapturedKept, KeepInv, DiskInv
<1>6. CASE \E m \in Nodes :
             /\ tag = [n \in Nodes |-> IF n # m THEN NoTag ELSE
                        [rid |-> 1, owner |-> 0, status |-> "claimed"]]
             /\ files = {[node |-> m, rid |-> 1, pending |-> << >>,
                          inflight |-> [job |-> 1, ref |-> 0]]}
             /\ ncaps = 1 /\ captured = {1}
  <2>1. PICK m \in Nodes :
             /\ tag = [n \in Nodes |-> IF n # m THEN NoTag ELSE
                        [rid |-> 1, owner |-> 0, status |-> "claimed"]]
             /\ files = {[node |-> m, rid |-> 1, pending |-> << >>,
                          inflight |-> [job |-> 1, ref |-> 0]]}
             /\ ncaps = 1 /\ captured = {1}
    BY <1>6
  <2>2. FilesAgree
    BY <1>1, <2>1 DEF FilesAgree
  <2>3. Live(tag[m]) /\ 1 \in Jobs(m)
    <3>1. tag[m].rid = 1 /\ tag[m].status = "claimed"
      BY <2>1
    <3>2. PICK f \in files : f.node = m /\ f.rid = 1 /\ f.inflight.job = 1
      BY <2>1
    <3> QED BY <3>1, <3>2 DEF Live, Jobs, FilesOf
  <2>4. CapturedKept
    BY <2>1, <2>3 DEF CapturedKept
  <2> QED BY <1>2, <1>3, <1>4, <2>2, <2>4 DEF KeepInv, DiskInv
<1> QED BY <1>5, <1>6 DEF Init

LEMMA NextKeep == KeepInv /\ [Next]_vars => KeepInv'
<1> SUFFICES ASSUME KeepInv, [Next]_vars PROVE KeepInv'
  OBVIOUS
<1>1. RecoveryInv'
  BY NextType, NextOrder DEF KeepInv, RecoveryInv
<1>2. CASE \E n \in Nodes : Work(n)
  <2>1. PICK n \in Nodes : Work(n)
    BY <1>2
  <2>2. DiskStep /\ rcv' = rcv
    BY <2>1, WorkDisk
  <2>3. Removing'
    <3>1. rcv.pc = "untag" => rcv.at \subseteq Nodes
      BY DEF KeepInv, RecoveryInv, RecoveryTypeOK, RcvType
    <3> QED BY <2>2, <3>1 DEF DiskStep, KeepInv, Removing
  <2> QED BY <1>1, <2>1, <2>3, WorkKeeps DEF KeepInv
<1>3. CASE CaptureBegin \/ Capture
  <2>1. phase = "ready" /\ rcv' = rcv
    BY <1>3, CaptureUnderWay DEF CaptureBegin, CaptureFrame
  <2>2. Removing'
    BY <2>1 DEF KeepInv, MemoryInv, Phases, Removing
  <2> QED BY <1>1, <1>3, <2>2, CaptureBeginKeeps, CaptureStepKeeps DEF KeepInv
<1>4. CASE Startup \/ Crash
  BY <1>1, <1>4, StartupKeeps, CrashKeeps DEF KeepInv
<1>5. CASE UNCHANGED vars
  <2>1. UNCHANGED <<tag, files, rec, exec, cap, rcv, phase, ncaps, captured, ended, blocked>>
    BY <1>5 DEF vars
  <2>2. \A n : /\ Jobs(n)' = Jobs(n) /\ NewJobs(n)' = NewJobs(n) /\ PrevJobs(n)' = PrevJobs(n)
               /\ New(n)' = New(n) /\ SnapJob(n)' = SnapJob(n) /\ Recovered(n)' = Recovered(n)
               /\ \A j : Comes(n, j)' = Comes(n, j)
    <3>1. \A n : /\ Jobs(n)' = Jobs(n) /\ NewJobs(n)' = NewJobs(n) /\ PrevJobs(n)' = PrevJobs(n)
                 /\ New(n)' = New(n)
      BY <2>1, SameFilesNames
    <3>2. \A n : SnapJob(n)' = SnapJob(n) /\ Recovered(n)' = Recovered(n)
      BY <2>1 DEF SnapJob, Recovered
    <3>3. \A n, j : Comes(n, j)' = Comes(n, j)
      BY <2>1 DEF Comes, Runs, IsNext
    <3> QED BY <3>1, <3>2, <3>3
  <2>3. MemoryInv' /\ Removing'
    BY <2>1, <2>2 DEF KeepInv, MemoryInv, Phases, Unreferred, InflightRuns, InflightOK, Removing
  <2>4. \A n : /\ PrevKept(n)' = PrevKept(n) /\ SnapKept(n)' = SnapKept(n)
               /\ NotYet(n)' = NotYet(n)
    BY <2>1, <2>2 DEF PrevKept, SnapKept, NotYet, Done
  <2>5. FilesAgree' /\ TagsCome' /\ CaptureTags'
    BY <2>1, <2>2, <2>4 DEF KeepInv, DiskInv, FilesAgree, TagsCome, CaptureTags, Done
  <2>6. CaptureKeeps' /\ CapturedKept'
    BY <2>1, <2>2 DEF KeepInv, DiskInv, CaptureKeeps, AllBefore, Before, CapturedKept, Done
  <2> QED BY <1>1, <2>3, <2>5, <2>6 DEF KeepInv, DiskInv
<1> QED BY <1>2, <1>3, <1>4, <1>5 DEF Next, Work

\* A run that a successful capture has saved (capture_running_nodes) stays on
\* disk under a tag that asks for its recovery until it has run again or was
\* stopped, or its recovery was given up at a start, however often the process
\* ends in the middle of a capture, of its rollback, of a recovery or of a
\* completion, and whichever captures come after.
THEOREM CapturedRunsKept == Spec => []CapturedKept
<1>1. KeepInv => CapturedKept
  BY DEF KeepInv, DiskInv
<1> QED BY <1>1, InitKeep, NextKeep, PTL DEF Spec
=============================================================================
