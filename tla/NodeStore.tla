------------------------------ MODULE NodeStore ------------------------------
(***************************************************************************)
(* The runtime state of one graph node and the operations of               *)
(* NodeConfigStore and NodeOutputHoldStore on it.                          *)
(*                                                                         *)
(* RuntimeStateMemoryStore keeps one record per node and runs every        *)
(* operation as a read-modify-write under that node's lock                 *)
(* (runtime_state_memory_store.py, update).  An operation is therefore a   *)
(* function from the record to the record that replaces it; GraphRunner    *)
(* applies one such function per atomic step.  The nodes are non-clock     *)
(* nodes, so the clock branches of the operations do not appear, and all   *)
(* the work items belong to this process (_runtime_owner_id).              *)
(***************************************************************************)
EXTENDS Naturals, Sequences, FiniteSets

CONSTANTS Nodes,        \* the nodes of one graph
          Traces,       \* trace ids; a keyed request uses its trace as key
          MaxDepth,     \* bound: hops and goal turns of one trace
          HistoryLimit, \* REQUEST_HISTORY_LIMIT
          MidTurnLimit, \* limit of consume_mid_turn_user_inputs
          NoItem        \* "no inflight"

ASSUME MaxDepthAssumption == MaxDepth \in Nat
ASSUME MidTurnLimitAssumption == MidTurnLimit \in Nat \ {0}
ASSUME HistoryLimitAssumption == HistoryLimit \in Nat \ {0}

-----------------------------------------------------------------------------
(* Work items.  Of an item only its trace, its depth and its source decide *)
(* anything; the payload does not.                                         *)

\* "emit" is a user message, "api" a keyed request (queue API, cron, voice,
\* peers), "group_notice" a keyed group delivery, the others are internal.
Sources == {"emit", "api", "group_notice", "propagate", "goal_continuation"}
Keyed   == {"api", "group_notice"}

Item   == [trace : Traces, depth : 0..MaxDepth, src : Sources]
Output == [trace : Traces, depth : 0..MaxDepth \ {MaxDepth},
           targets : (SUBSET Nodes) \ {{}}]

ASSUME NoItemAssumption == NoItem \notin Item

NodeStates == {"idle", "working", "stop"}

\* The fields of RUNTIME_STATE_FIELDS that decide anything.
Runtime == [state     : NodeStates,
            pending   : Seq(Item),
            inflight  : Item \cup {NoItem},
            stopReq   : BOOLEAN,       \* _stop_requested
            delReq    : BOOLEAN,       \* _delete_requested
            held      : Seq(Output),   \* held_outputs
            completed : Seq(Traces)]   \* completed_requests

\* What a node without a record reads as (RUNTIME_STATE_DEFAULTS).
FreshRuntime == [state |-> "idle", pending |-> << >>, inflight |-> NoItem,
                 stopReq |-> FALSE, delReq |-> FALSE,
                 held |-> << >>, completed |-> << >>]

Elements(s) == {s[i] : i \in DOMAIN s}

-----------------------------------------------------------------------------
(* NodeConfigStore                                                         *)

\* The state the user chooses with POST .../state, other than idle.
UpdateState(r, s) ==
  IF r.delReq THEN r
  ELSE [r EXCEPT !.state = s, !.stopReq = (s = "working") /\ @]

\* Mutant: the flag of a stop that came too late survives the iteration.
TransitionToIdleKeepsFlag(r) ==
  IF r.delReq \/ r.state = "stop" THEN r ELSE [r EXCEPT !.state = "idle"]

TransitionToIdle(r) ==
  IF r.delReq THEN [r EXCEPT !.state = "stop", !.stopReq = FALSE]
  ELSE IF r.state = "stop" THEN r
  ELSE [r EXCEPT !.state = "idle", !.stopReq = FALSE]

\* Mutant: the inflight request is not looked at.
AlreadyKnownNotInflight(r, it) ==
  /\ it.src \in Keyed
  /\ \/ \E p \in Elements(r.pending) : p.src \in Keyed /\ p.trace = it.trace
     \/ it.trace \in Elements(r.completed)

\* Same key among the pending items, the inflight one or the completed ones.
AlreadyKnown(r, it) ==
  /\ it.src \in Keyed
  /\ \/ \E p \in Elements(r.pending) : p.src \in Keyed /\ p.trace = it.trace
     \/ r.inflight # NoItem /\ r.inflight.src \in Keyed
                            /\ r.inflight.trace = it.trace
     \/ it.trace \in Elements(r.completed)

\* A node being deleted refuses the item (NodeDeletingError).
Refuses(r) == r.delReq

\* Mutant: the caller has looked whether the node is being deleted.
AppendPendingTrusts(r, it) ==
  IF AlreadyKnown(r, it) THEN r ELSE [r EXCEPT !.pending = Append(@, it)]

AppendPending(r, it) ==
  IF Refuses(r) \/ AlreadyKnown(r, it) THEN r
  ELSE [r EXCEPT !.pending = Append(@, it)]

PopPending(r) ==
  IF r.pending = << >> THEN r ELSE [r EXCEPT !.pending = Tail(@)]

\* Mutant: Stop drops the inflight item at once.
CancelWorkDropsInflight(r) ==
  [r EXCEPT !.pending = << >>, !.inflight = NoItem, !.state = "idle"]

CancelWork(r) ==
  IF r.delReq THEN r
  ELSE IF r.inflight # NoItem
  THEN [r EXCEPT !.pending = << >>, !.state = "working", !.stopReq = TRUE]
  ELSE [r EXCEPT !.pending = << >>, !.state = "idle", !.stopReq = FALSE]

\* Mutant: a stopped item goes back to the queue, as after a crash.
FinishStopRequeues(r) ==
  IF ~r.stopReq THEN r
  ELSE [r EXCEPT !.pending = <<r.inflight>> \o @, !.inflight = NoItem,
                 !.stopReq = FALSE, !.state = "idle"]

FinishStopRequested(r) ==
  IF ~r.stopReq THEN r
  ELSE [r EXCEPT !.inflight = NoItem, !.stopReq = FALSE, !.state = "idle"]

CanDequeue(r) == ~r.delReq /\ r.state = "idle" /\ r.pending # << >>

DequeueToWorking(r) ==
  IF ~CanDequeue(r) THEN r
  ELSE [r EXCEPT !.inflight = Head(r.pending), !.pending = Tail(@),
                 !.state = "working"]

\* Direct user messages (source emit, depth 0, no link) that the running
\* agent may take into its current turn.
MidTurnInput(it) == it.src = "emit" /\ it.depth = 0

\* Place i of s is among the first MidTurnLimit mid-turn inputs.
Consumable(s, i) ==
  /\ MidTurnInput(s[i])
  /\ Cardinality({j \in 1..i : MidTurnInput(s[j])}) <= MidTurnLimit

\* s without them, in order: the k-th item that stays is the one with k items
\* that stay up to its place.  (A recursive definition is out of the provers'
\* reach; MCGraphRunner compares this one with the loop of the code.)
Remaining(s) ==
  LET stay    == {i \in DOMAIN s : ~Consumable(s, i)}
      rank(i) == Cardinality({j \in stay : j <= i})
      nth(k)  == CHOOSE i \in DOMAIN s :
                   (\E j \in stay : rank(j) = k) => i \in stay /\ rank(i) = k
  IN  [k \in 1..Cardinality(stay) |-> s[nth(k)]]

ConsumeMidTurnInputs(r) ==
  IF r.delReq \/ r.stopReq \/ r.state # "working" \/ r.inflight = NoItem THEN r
  ELSE [r EXCEPT !.pending = Remaining(@)]

MarkDeleteRequested(r) ==
  [r EXCEPT !.pending = << >>, !.delReq = TRUE,
            !.stopReq = (r.inflight # NoItem),
            !.state = IF r.inflight # NoItem THEN "working" ELSE "stop"]

\* What a deletion that is rolled back undoes of MarkDeleteRequested.
ClearDeleteRequested(r) == [r EXCEPT !.delReq = FALSE]

ClearInflight(r) == [r EXCEPT !.inflight = NoItem]

\* working without inflight: no executor owns the node any more.
StaleWorking(r) == r.state = "working" /\ r.inflight = NoItem

RecoverStaleWorking(r) ==
  IF StaleWorking(r) THEN [r EXCEPT !.state = "idle", !.stopReq = FALSE] ELSE r

-----------------------------------------------------------------------------
(* NodeOutputHoldStore                                                     *)

FinalState(r) == IF r.delReq \/ r.state = "stop" THEN "stop" ELSE "idle"

\* Mutant: the output is held, but the pause does not outlive the iteration.
CompleteWorkEndsPause(r, out) ==
  [r EXCEPT !.state = "idle", !.stopReq = FALSE,
            !.held = IF FinalState(r) = "stop" /\ out.targets # {}
                     THEN Append(@, out) ELSE @]

\* out.targets = {} stands for the empty held output of the early returns.
CompleteWork(r, out) ==
  [r EXCEPT !.state = FinalState(r), !.stopReq = FALSE,
            !.held = IF FinalState(r) = "stop" /\ out.targets # {}
                     THEN Append(@, out) ELSE @]

Released(r) == IF r.delReq THEN << >> ELSE r.held

Resume(r) ==
  IF r.delReq THEN r
  ELSE [r EXCEPT !.held = << >>, !.state = "idle", !.stopReq = FALSE]

-----------------------------------------------------------------------------
(* node_request_tracking: the trace moves to the end of the bounded        *)
(* history, in which it occurs at most once.                               *)

Without(s, x) ==
  IF x \notin Elements(s) THEN s
  ELSE LET i == CHOOSE i \in DOMAIN s : s[i] = x
       IN  SubSeq(s, 1, i - 1) \o SubSeq(s, i + 1, Len(s))

Newest(s, k) == IF Len(s) <= k THEN s ELSE SubSeq(s, Len(s) - k + 1, Len(s))

RecordCompletion(r, trace) ==
  [r EXCEPT !.completed = Newest(Append(Without(@, trace), trace), HistoryLimit)]

\* _ready_pending_count_for_config > 0
ReadyPending(r) == CanDequeue(r)
=============================================================================
