-------------------------- MODULE GroupOutboxProofs --------------------------
(***************************************************************************)
(* The invariants of GroupOutbox for any nodes, roles, batch limit and     *)
(* bounds: types, pending notifications wait for members, one hand-over    *)
(* per life, one answer, one wake-up per role, and what is settled stays.  *)
(*                                                                         *)
(* A step is taken apart by what it changes: the events (EventsStep), the  *)
(* record of a node (RecordStep), its executor and what the executor was   *)
(* handed or answered (ExecStep).  The invariants follow from the three.   *)
(***************************************************************************)
EXTENDS GroupOutbox, NodeStoreProofs

-----------------------------------------------------------------------------
(* The inductive invariant                                                 *)

Settled == {"delivered", "cancelled"}

Pcs == {"none", "resolve", "logic", "record", "clear", "idle", "reply",
        "settle", "notify"}

ExecType == [pc : Pcs, item : Item \cup {NoItem}, got : SUBSET Seqs,
             how : {"none", "empty", "ok", "failed"}]

\* An executor that has resolved nothing yet got nothing, and one that runs,
\* succeeded or has to complete something got something.
ExecOK(e) ==
  /\ e \in ExecType
  /\ e.pc \in {"logic", "reply", "notify"} \/ e.how = "ok" => e.got # {}
  /\ e.pc \in {"none", "resolve"} => e.got = {}
  /\ e.pc \in {"resolve", "logic", "record"} => e.item \in Item

\* Queues hold items of the poller, each once.
NoticeOf(b) == [trace |-> RequestId(b), depth |-> 0, src |-> "group_notice"]

IsNotice(it) ==
  /\ it.trace \in Seqs \X (0..MaxCommands)
  /\ it.depth = 0 /\ it.src = "group_notice"

Items(r) == {it \in Elements(r.pending) \cup {r.inflight} : it # NoItem}

QueuedOnce(r) ==
  \A i, k \in DOMAIN r.pending : /\ r.pending[i] = r.pending[k] => i = k
                                 /\ r.pending[i] # r.inflight

RecordOK(r) ==
  /\ r \in Runtime /\ QueuedOnce(r)
  /\ \A it \in Items(r) : it \in Item /\ IsNotice(it)

\* A rename costs a command, which is counted when the node is reserved.
NameOK(n) ==
  /\ name[n] \in Nat /\ commands \in Nat
  /\ IF rec[n].delReq THEN name[n] + 1 <= commands ELSE name[n] <= commands

TypeInv ==
  /\ members \subseteq Nodes /\ todo \subseteq Nodes /\ closed \in BOOLEAN
  /\ events \in Seq(Event) /\ Len(events) <= MaxEvents
  /\ poll \subseteq Batch
  /\ name \in [Nodes -> Nat] /\ commands \in Nat /\ commands <= MaxCommands
  /\ crashes \in Nat /\ faults \in Nat
  /\ rec \in [Nodes -> Runtime] /\ exec \in [Nodes -> ExecType]
  /\ handed \in [Nodes -> [Seqs -> Nat]] /\ answers \in [Nodes -> [Seqs -> Nat]]
  /\ \A n \in Nodes : /\ RecordOK(rec[n]) /\ NameOK(n)
                      /\ ExecOK(exec[n]) /\ exec[n].got \subseteq DOMAIN events

\* A pending event that a queued item or a batch names is the oldest of its
\* role: later events have larger numbers, and none waits again.
Oldest(n, e) ==
  /\ e \in DOMAIN events
  /\ e \in Pending(n) =>
       \A d \in Pending(n) : events[d].role = events[e].role => e <= d

AnchorInv ==
  /\ \A b \in poll : Oldest(b.node, b.seq)
  /\ \A n \in Nodes : \A it \in Items(rec[n]) : Oldest(n, it.trace[1])

\* What was handed out more often than things failed is settled or still with
\* the executor; what was answered is settled.
Failures == crashes + faults

HandedInv ==
  \A n \in Nodes :
    /\ exec[n].pc = "settle" => exec[n].got \cap Pending(n) = {}
    /\ \A e \in Seqs :
         /\ handed[n][e] <= 1 + Failures
         /\ handed[n][e] > Failures =>
              e \in DOMAIN events /\ (e \in Pending(n) => e \in exec[n].got)

AnswersInv ==
  \A n \in Nodes : \A e \in Seqs :
    /\ answers[n][e] <= 1
    /\ answers[n][e] > 0 => e \in DOMAIN events /\ e \notin Pending(n)

OutboxInv == TypeInv /\ PendingForMembers /\ AnchorInv /\ HandedInv /\ AnswersInv

-----------------------------------------------------------------------------
(* Records                                                                 *)

LEMMA Places ==
  ASSUME NEW r \in Runtime
  PROVE  /\ r.pending \in Seq(Item) /\ Len(r.pending) \in Nat
         /\ DOMAIN r.pending = 1..Len(r.pending)
         /\ \A i \in DOMAIN r.pending : /\ r.pending[i] \in Item
                                        /\ r.pending[i] \in Items(r)
         /\ r.inflight # NoItem => r.inflight \in Items(r)
<1>1. r.pending \in Seq(Item)
  BY DEF Runtime
<1>2. Len(r.pending) \in Nat /\ DOMAIN r.pending = 1..Len(r.pending)
  BY <1>1, LenProperties
<1>3. \A i \in DOMAIN r.pending : r.pending[i] \in Item
  BY <1>1, <1>2, ElementOfSeq
<1> QED BY <1>1, <1>2, <1>3, NoItemAssumption DEF Items, Elements

LEMMA ShrunkOK ==
  ASSUME NEW r, RecordOK(r), NEW q, Shrinks(r, q)
  PROVE  RecordOK(q) /\ Items(q) \subseteq Items(r)
<1>1. /\ \A i \in DOMAIN r.pending : r.pending[i] \in Item
      /\ q.inflight # NoItem => q.inflight \in Items(r)
  BY Places DEF RecordOK, Shrinks
<1>2. CASE q.pending = r.pending
  <2>1. Items(q) \subseteq Items(r)
    BY <1>1, <1>2 DEF Items
  <2>2. QueuedOnce(q)
    BY <1>1, <1>2, NoItemAssumption DEF QueuedOnce, RecordOK, Shrinks
  <2> QED BY <2>1, <2>2 DEF RecordOK, Shrinks
<1>3. CASE q.pending = << >>
  <2>1. DOMAIN q.pending = {}
    BY <1>3
  <2>2. Items(q) \subseteq Items(r)
    BY <1>1, <2>1 DEF Items, Elements
  <2>3. QueuedOnce(q)
    BY <2>1 DEF QueuedOnce
  <2> QED BY <2>2, <2>3 DEF RecordOK, Shrinks
<1> QED BY <1>2, <1>3 DEF Shrinks

\* None of the operations of the executor touches the rename reservation.
LEMMA OperationsKeep ==
  ASSUME NEW r \in Runtime
  PROVE  /\ ClearInflight(r).delReq = r.delReq
         /\ TransitionToIdle(r).delReq = r.delReq
         /\ FinishStopRequested(r).delReq = r.delReq
         /\ CompleteWork(r, [targets |-> {}]).delReq = r.delReq
         /\ RecoverStaleWorking(r).delReq = r.delReq
         /\ CancelWork(r).delReq = r.delReq
         /\ \A t \in Traces : RecordCompletion(r, t).delReq = r.delReq
<1>1. ClearInflight(r).delReq = r.delReq
  BY DEF ClearInflight, Runtime
<1>2. TransitionToIdle(r).delReq = r.delReq
  BY DEF TransitionToIdle, Runtime
<1>3. FinishStopRequested(r).delReq = r.delReq
  BY DEF FinishStopRequested, Runtime
<1>4. CompleteWork(r, [targets |-> {}]).delReq = r.delReq
  BY DEF CompleteWork, Runtime
<1>5. RecoverStaleWorking(r).delReq = r.delReq
  BY DEF RecoverStaleWorking, Runtime
<1>6. CancelWork(r).delReq = r.delReq
  BY DEF CancelWork, Runtime
<1>7. \A t \in Traces : RecordCompletion(r, t).delReq = r.delReq
  BY DEF RecordCompletion, Runtime
<1> QED BY <1>1, <1>2, <1>3, <1>4, <1>5, <1>6, <1>7

\* append_pending of the poller: a request that the queue or the executor has
\* is refused.
LEMMA AppendedOK ==
  ASSUME NEW r, RecordOK(r), NEW it \in Item, IsNotice(it)
  PROVE  LET q == AppendPending(r, it) IN
         /\ RecordOK(q) /\ Items(q) \subseteq Items(r) \cup {it}
         /\ q.delReq = r.delReq
<1> DEFINE q == AppendPending(r, it)
<1>1. r \in Runtime /\ q \in Runtime
  BY AppendPendingType DEF RecordOK
<1>2. /\ r.pending \in Seq(Item) /\ Len(r.pending) \in Nat
      /\ DOMAIN r.pending = 1..Len(r.pending)
      /\ \A i \in DOMAIN r.pending : r.pending[i] \in Item /\ r.pending[i] \in Items(r)
  BY <1>1, Places
<1>3. CASE q = r
  BY <1>3
<1>4. CASE /\ ~AlreadyKnown(r, it)
           /\ q = [r EXCEPT !.pending = Append(r.pending, it)]
  <2>1. /\ q.inflight = r.inflight /\ q.pending = Append(r.pending, it)
        /\ q.delReq = r.delReq
    BY <1>1, <1>4 DEF Runtime
  <2>2. /\ DOMAIN q.pending = 1..(Len(r.pending) + 1)
        /\ \A i \in DOMAIN r.pending : q.pending[i] = r.pending[i]
        /\ q.pending[Len(r.pending) + 1] = it
    BY <1>2, <2>1, AppendProperties
  <2>3. r.inflight # it /\ \A i \in DOMAIN r.pending : r.pending[i] # it
    BY <1>4, NoItemAssumption DEF AlreadyKnown, Elements, Keyed, IsNotice
  <2> HIDE DEF q
  <2>4. \A i \in DOMAIN q.pending : i \in DOMAIN r.pending \/ i = Len(r.pending) + 1
    BY <1>2, <2>2
  <2>5. QueuedOnce(q)
    BY <2>1, <2>2, <2>3, <2>4 DEF QueuedOnce, RecordOK
  <2>6. Items(q) \subseteq Items(r) \cup {it}
    BY <1>2, <2>1, <2>2, <2>4 DEF Items, Elements
  <2> QED BY <1>1, <2>1, <2>5, <2>6 DEF RecordOK, q
<1> QED BY <1>3, <1>4 DEF AppendPending

LEMMA DequeuedOK ==
  ASSUME NEW r, RecordOK(r), CanDequeue(r)
  PROVE  LET q == DequeueToWorking(r) IN
         /\ RecordOK(q) /\ Items(q) \subseteq Items(r) /\ q.delReq = r.delReq
         /\ Head(r.pending) \in Item
<1> DEFINE q == DequeueToWorking(r)
           p == r.pending
<1>1. r \in Runtime /\ q \in Runtime /\ p \in Seq(Item) /\ p # << >>
  BY DequeueType DEF RecordOK, CanDequeue, Runtime
<1>2. /\ Head(p) = p[1] /\ Head(p) \in Item /\ 1 \in DOMAIN p
      /\ DOMAIN p = 1..Len(p) /\ Len(p) \in Nat
  BY <1>1, HeadTailProperties, LenProperties, EmptySeq
<1>3. /\ DOMAIN Tail(p) = 1..(Len(p) - 1)
      /\ \A i \in 1..(Len(p) - 1) : Tail(p)[i] = p[i + 1] /\ i + 1 \in DOMAIN p
  BY <1>1, <1>2, HeadTailProperties
<1>4. q.pending = Tail(p) /\ q.inflight = p[1] /\ q.delReq = r.delReq
  BY <1>1, <1>2 DEF DequeueToWorking, Runtime
<1>5. \A i \in DOMAIN p : p[i] \in Items(r)
  BY <1>1, Places
<1>6. \A i, k \in DOMAIN p : p[i] = p[k] => i = k
  BY DEF RecordOK, QueuedOnce
<1> HIDE DEF q, p
<1>7. QueuedOnce(q)
  <2> SUFFICES ASSUME NEW i \in DOMAIN q.pending, NEW k \in DOMAIN q.pending
               PROVE  /\ q.pending[i] = q.pending[k] => i = k
                      /\ q.pending[i] # q.inflight
    BY DEF QueuedOnce
  <2>1. /\ q.pending[i] = p[i + 1] /\ q.pending[k] = p[k + 1]
        /\ i + 1 \in DOMAIN p /\ k + 1 \in DOMAIN p
        /\ i \in Nat /\ k \in Nat /\ i + 1 # 1
    BY <1>2, <1>3, <1>4
  <2> QED BY <1>2, <1>4, <1>6, <2>1
<1>8. Items(q) \subseteq Items(r)
  BY <1>2, <1>3, <1>4, <1>5 DEF Items, Elements
<1> QED BY <1>1, <1>2, <1>4, <1>7, <1>8 DEF RecordOK, q, p

LEMMA FreshOK == /\ RecordOK(FreshRuntime) /\ Items(FreshRuntime) = {}
                 /\ ~FreshRuntime.delReq /\ ExecOK(Parked)
<1>1. /\ FreshRuntime \in Runtime /\ FreshRuntime.pending = << >>
      /\ FreshRuntime.inflight = NoItem /\ ~FreshRuntime.delReq
  BY FreshRuntimeType DEF FreshRuntime
<1>2. DOMAIN FreshRuntime.pending = {}
  BY <1>1
<1>3. RecordOK(FreshRuntime) /\ Items(FreshRuntime) = {}
  BY <1>1, <1>2 DEF RecordOK, QueuedOnce, Items, Elements
<1>4. ExecOK(Parked)
  BY DEF ExecOK, Parked, ExecType, Pcs
<1> QED BY <1>1, <1>3, <1>4

-----------------------------------------------------------------------------
(* Events                                                                  *)

LEMMA EventPlaces ==
  ASSUME TypeInv
  PROVE  /\ events \in Seq(Event) /\ Len(events) \in Nat
         /\ DOMAIN events = 1..Len(events) /\ DOMAIN events \subseteq Seqs
         /\ \A e \in DOMAIN events : /\ events[e] \in Event
                                     /\ events[e].to \in [Nodes -> DeliveryStates]
         /\ \A n : Pending(n) \subseteq DOMAIN events
<1>1. events \in Seq(Event) /\ Len(events) <= MaxEvents /\ MaxEvents \in Nat
  BY OutboxBoundsAssumption DEF TypeInv
<1>2. Len(events) \in Nat /\ DOMAIN events = 1..Len(events)
  BY <1>1, LenProperties
<1>3. \A e \in DOMAIN events : events[e] \in Event
  BY <1>1, <1>2, ElementOfSeq
<1>4. \A e \in DOMAIN events : events[e].to \in [Nodes -> DeliveryStates]
  BY <1>3 DEF Event
<1>5. DOMAIN events \subseteq Seqs
  BY <1>1, <1>2 DEF Seqs
<1> QED BY <1>1, <1>2, <1>3, <1>4, <1>5 DEF Pending

\* A delivery that is no longer pending is settled for good; new events come
\* after the old ones and wait for members only.
EventsStep ==
  /\ events' \in Seq(Event) /\ Len(events') <= MaxEvents
  /\ DOMAIN events \subseteq DOMAIN events'
  /\ \A e \in DOMAIN events :
       /\ events'[e].role = events[e].role
       /\ \A n \in Nodes :
            \/ events'[e].to[n] = events[e].to[n]
            \/ events[e].to[n] = "pending" /\ events'[e].to[n] \in Settled
  /\ \A e \in DOMAIN events' \ DOMAIN events :
       /\ e \in Nat /\ \A d \in DOMAIN events : d < e
       /\ \A n \in Nodes : events'[e].to[n] = "pending" => n \in members'

LEMMA SameEvents == TypeInv /\ events' = events => EventsStep
BY DEF TypeInv, EventsStep

LEMMA MappedEvents ==
  ASSUME TypeInv, events' = [e \in DOMAIN events |-> events'[e]],
         \A e \in DOMAIN events :
           /\ events'[e] \in Event /\ events'[e].role = events[e].role
           /\ \A n \in Nodes :
                \/ events'[e].to[n] = events[e].to[n]
                \/ events[e].to[n] = "pending" /\ events'[e].to[n] \in Settled
  PROVE  EventsStep
<1>1. Len(events) \in Nat /\ DOMAIN events = 1..Len(events)
  BY EventPlaces
<1>2. DOMAIN events' = DOMAIN events
  OBVIOUS
<1>3. events' \in [1..Len(events) -> Event]
  BY <1>1
<1>4. events' \in Seq(Event)
  BY <1>1, <1>3, SeqDef
<1>5. Len(events') = Len(events)
  BY <1>1, <1>2, <1>4, LenProperties
<1> QED BY <1>2, <1>4, <1>5 DEF EventsStep, TypeInv

\* Marking pending deliveries of n as settled.
LEMMA MarkStep ==
  ASSUME TypeInv, NEW n \in Nodes, NEW E \in SUBSET Pending(n), NEW s \in Settled,
         events' = Mark(n, E, s)
  PROVE  /\ EventsStep /\ Pending(n)' = Pending(n) \ E
         /\ \A m \in Nodes \ {n} : Pending(m)' = Pending(m)
<1>1. \A e \in DOMAIN events : events[e] \in Event /\ events[e].to \in [Nodes -> DeliveryStates]
  BY EventPlaces
<1>2. ASSUME NEW e \in DOMAIN events
      PROVE  /\ events'[e] = IF e \in E THEN [events[e] EXCEPT !.to[n] = s] ELSE events[e]
             /\ events'[e] \in Event /\ events'[e].role = events[e].role
             /\ events'[e].to = IF e \in E THEN [events[e].to EXCEPT ![n] = s]
                                ELSE events[e].to
  <2>1. events'[e] = IF e \in E THEN [events[e] EXCEPT !.to[n] = s] ELSE events[e]
    BY DEF Mark
  <2>2. CASE e \notin E
    BY <1>1, <2>1, <2>2
  <2>3. CASE e \in E
    <3>1. events'[e] = [events[e] EXCEPT !.to = [events[e].to EXCEPT ![n] = s]]
      BY <2>1, <2>3
    <3>2. [events[e].to EXCEPT ![n] = s] \in [Nodes -> DeliveryStates]
      BY <1>1 DEF Settled, DeliveryStates
    <3>3. /\ events'[e] \in Event /\ events'[e].role = events[e].role
          /\ events'[e].to = [events[e].to EXCEPT ![n] = s]
      BY <1>1, <3>1, <3>2 DEF Event
    <3> QED BY <2>1, <2>3, <3>3
  <2> QED BY <2>2, <2>3
<1>3. events' = [e \in DOMAIN events |-> events'[e]] /\ DOMAIN events' = DOMAIN events
  BY DEF Mark
<1>4. ASSUME NEW e \in DOMAIN events, NEW m \in Nodes
      PROVE  events'[e].to[m] = IF e \in E /\ m = n THEN s ELSE events[e].to[m]
  BY <1>1, <1>2
<1>5. \A e \in E : e \in DOMAIN events /\ events[e].to[n] = "pending"
  BY DEF Pending
<1>6. EventsStep
  <2>1. \A e \in DOMAIN events : \A m \in Nodes :
          \/ events'[e].to[m] = events[e].to[m]
          \/ events[e].to[m] = "pending" /\ events'[e].to[m] \in Settled
    BY <1>4, <1>5
  <2> QED BY <1>2, <1>3, <2>1, MappedEvents
<1>7. \A m \in Nodes \ {n} : Pending(m)' = Pending(m)
  BY <1>3, <1>4 DEF Pending
<1>8. Pending(n)' = Pending(n) \ E
  BY <1>3, <1>4 DEF Pending, Settled
<1> QED BY <1>6, <1>7, <1>8

LEMMA AddStep ==
  ASSUME TypeInv, NEW kind \in {"message", "task"}, NEW actor \in Nodes \cup {User},
         NEW role \in Roles, NEW keyed \in SUBSET Nodes, NEW to \in SUBSET members',
         Len(events) < MaxEvents, AddEvent(kind, actor, role, keyed, to)
  PROVE  EventsStep
<1> DEFINE new == [kind |-> kind, actor |-> actor, role |-> role, keyed |-> keyed,
                   to |-> [n \in Nodes |-> IF n \in to THEN "pending" ELSE "none"]]
           l == Len(events)
<1>1. events' = Append(events, new)
  BY DEF AddEvent
<1>2. new \in Event /\ \A n \in Nodes : new.to[n] = "pending" => n \in members'
  BY DEF Event, DeliveryStates
<1>3. events \in Seq(Event) /\ l \in Nat /\ DOMAIN events = 1..l /\ MaxEvents \in Nat
  BY EventPlaces, OutboxBoundsAssumption
<1> HIDE DEF new
<1>4. /\ events' \in Seq(Event) /\ Len(events') = l + 1 /\ DOMAIN events' = 1..(l + 1)
      /\ \A e \in 1..l : events'[e] = events[e]
      /\ events'[l + 1] = new
  BY <1>1, <1>2, <1>3, AppendProperties, LenProperties
<1> HIDE DEF l
<1>5. \A e \in DOMAIN events' \ DOMAIN events : e = l + 1
  BY <1>3, <1>4
<1>6. Len(events') <= MaxEvents
  BY <1>3, <1>4 DEF l
<1> QED BY <1>2, <1>3, <1>4, <1>5, <1>6 DEF EventsStep

LEMMA DissolveStep ==
  ASSUME TypeInv, Dissolve
  PROVE  EventsStep /\ \A n \in Nodes : Pending(n)' = {}
<1> DEFINE t(e) == [n \in Nodes |-> IF events[e].to[n] = "pending" THEN "cancelled"
                                    ELSE events[e].to[n]]
<1>1. \A e \in DOMAIN events : events[e] \in Event /\ events[e].to \in [Nodes -> DeliveryStates]
  BY EventPlaces
<1>2. /\ events' = [e \in DOMAIN events |-> events'[e]] /\ DOMAIN events' = DOMAIN events
      /\ \A e \in DOMAIN events : events'[e] = [events[e] EXCEPT !.to = t(e)]
  BY DEF Dissolve
<1>3. ASSUME NEW e \in DOMAIN events
      PROVE  /\ t(e) \in [Nodes -> DeliveryStates]
             /\ \A n \in Nodes : t(e)[n] # "pending"
             /\ \A n \in Nodes : \/ t(e)[n] = events[e].to[n]
                                 \/ events[e].to[n] = "pending" /\ t(e)[n] = "cancelled"
  BY <1>1 DEF DeliveryStates
<1> HIDE DEF t
<1>4. ASSUME NEW e \in DOMAIN events
      PROVE  /\ events'[e] \in Event /\ events'[e].role = events[e].role
             /\ events'[e].to = t(e)
  <2>1. events'[e] = [events[e] EXCEPT !.to = t(e)]
    BY <1>2
  <2>2. t(e) \in [Nodes -> DeliveryStates] /\ events[e] \in Event
    BY <1>1, <1>3
  <2> QED BY <2>1, <2>2 DEF Event
<1>5. EventsStep
  <2>1. \A e \in DOMAIN events : \A n \in Nodes :
          \/ events'[e].to[n] = events[e].to[n]
          \/ events[e].to[n] = "pending" /\ events'[e].to[n] \in Settled
    BY <1>3, <1>4 DEF Settled
  <2> QED BY <1>2, <1>4, <2>1, MappedEvents
<1>6. \A n \in Nodes : Pending(n)' = {}
  BY <1>2, <1>3, <1>4 DEF Pending
<1> QED BY <1>5, <1>6

LEMMA RenameStep ==
  ASSUME TypeInv, NEW n \in Nodes, RenameCommit(n)
  PROVE  EventsStep /\ \A m \in Nodes : Pending(m)' = Pending(m)
<1>1. \A e \in DOMAIN events : events[e] \in Event
  BY EventPlaces
<1>2. /\ events' = [e \in DOMAIN events |-> events'[e]] /\ DOMAIN events' = DOMAIN events
      /\ \A e \in DOMAIN events :
           events'[e] = [events[e] EXCEPT !.keyed = @ \ {n}]
  BY DEF RenameCommit
<1>3. ASSUME NEW e \in DOMAIN events
      PROVE  /\ events'[e] \in Event /\ events'[e].role = events[e].role
             /\ events'[e].to = events[e].to
  BY <1>1, <1>2 DEF Event
<1>4. EventsStep
  BY <1>2, <1>3, MappedEvents
<1>5. \A m \in Nodes : Pending(m)' = Pending(m)
  BY <1>2, <1>3 DEF Pending
<1> QED BY <1>4, <1>5

\* No delivery of an old event waits again.
LEMMA OldPending ==
  ASSUME TypeInv, EventsStep, NEW n \in Nodes, NEW e \in DOMAIN events, e \in Pending(n)'
  PROVE  e \in Pending(n)
BY DEF EventsStep, Pending, Settled

LEMMA OldestStays ==
  ASSUME TypeInv, EventsStep, NEW n \in Nodes, NEW e, Oldest(n, e)
  PROVE  Oldest(n, e)'
<1>1. e \in DOMAIN events /\ e \in DOMAIN events' /\ e \in Nat
  BY EventPlaces DEF Oldest, EventsStep, Seqs
<1>2. SUFFICES ASSUME e \in Pending(n)', NEW d \in Pending(n)',
                      events'[d].role = events'[e].role
               PROVE  e <= d
  BY <1>1 DEF Oldest
<1>3. e \in Pending(n) /\ d \in DOMAIN events'
  BY <1>1, <1>2, OldPending DEF Pending
<1>4. CASE d \in DOMAIN events
  BY <1>1, <1>2, <1>3, <1>4, OldPending DEF Oldest, EventsStep
<1>5. CASE d \notin DOMAIN events
  BY <1>1, <1>3, <1>5 DEF EventsStep
<1> QED BY <1>4, <1>5

-----------------------------------------------------------------------------
(* What a step does to the records and the names                           *)

Notices(n) == {NoticeOf(b) : b \in {c \in poll : c.node = n}}

CommandsGrow == commands' \in Nat /\ commands <= commands' /\ commands' <= MaxCommands

RecordStep ==
  /\ CommandsGrow
  /\ rec' \in [Nodes -> Runtime] /\ name' \in [Nodes -> Nat]
  /\ \A n \in Nodes : /\ RecordOK(rec'[n]) /\ NameOK(n)'
                      /\ Items(rec'[n]) \subseteq Items(rec[n]) \cup Notices(n)

SetsRec(n, r) == rec' = [rec EXCEPT ![n] = r]

\* r may replace the record of n.
Replaces(n, r) ==
  /\ RecordOK(r) /\ Items(r) \subseteq Items(rec[n]) \cup Notices(n)

LEMMA CommandsFact ==
  TypeInv /\ (Command \/ UNCHANGED commands) => CommandsGrow
<1>1. MaxCommands \in Nat
  BY OutboxBoundsAssumption
<1> QED BY <1>1 DEF TypeInv, Command, CommandsGrow

LEMMA NamesKept ==
  ASSUME TypeInv, CommandsGrow, name' = name, NEW n \in Nodes,
         rec'[n].delReq = rec[n].delReq
  PROVE  NameOK(n)'
<1>1. name[n] \in Nat /\ commands \in Nat
  BY DEF TypeInv
<1>2. IF rec[n].delReq THEN name[n] + 1 <= commands ELSE name[n] <= commands
  BY DEF TypeInv, NameOK
<1> QED BY <1>1, <1>2 DEF CommandsGrow, NameOK

LEMMA SameRecords ==
  ASSUME TypeInv, CommandsGrow, rec' = rec, name' = name
  PROVE  RecordStep
<1>1. \A n \in Nodes : NameOK(n)'
  BY NamesKept
<1> QED BY <1>1 DEF RecordStep, TypeInv

LEMMA SetRecord ==
  ASSUME TypeInv, NEW n \in Nodes, NEW r, SetsRec(n, r), Replaces(n, r), CommandsGrow,
         name' \in [Nodes -> Nat], \A m \in Nodes \ {n} : name'[m] = name[m],
         IF r.delReq THEN name'[n] + 1 <= commands' ELSE name'[n] <= commands'
  PROVE  RecordStep
<1>1. /\ rec \in [Nodes -> Runtime] /\ r \in Runtime
      /\ rec' = [rec EXCEPT ![n] = r]
  BY DEF TypeInv, Replaces, RecordOK, SetsRec
<1>2. rec'[n] = r /\ \A m \in Nodes \ {n} : rec'[m] = rec[m]
  BY <1>1
<1>3. NameOK(n)'
  BY <1>2 DEF NameOK, CommandsGrow
<1>4. ASSUME NEW m \in Nodes \ {n} PROVE NameOK(m)'
  <2>1. name[m] \in Nat /\ commands \in Nat /\ rec'[m] = rec[m] /\ name'[m] = name[m]
    BY <1>2 DEF TypeInv
  <2>2. IF rec[m].delReq THEN name[m] + 1 <= commands ELSE name[m] <= commands
    BY DEF TypeInv, NameOK
  <2> QED BY <2>1, <2>2 DEF CommandsGrow, NameOK
<1>5. ASSUME NEW m \in Nodes
      PROVE  RecordOK(rec'[m]) /\ Items(rec'[m]) \subseteq Items(rec[m]) \cup Notices(m)
  BY <1>2 DEF TypeInv, Replaces
<1>6. rec' \in [Nodes -> Runtime]
  BY <1>1
<1> QED BY <1>3, <1>4, <1>5, <1>6 DEF RecordStep

\* An operation that leaves the reservation of the name alone.
LEMMA SetSame ==
  ASSUME TypeInv, NEW n \in Nodes, NEW r, SetsRec(n, r), Replaces(n, r), CommandsGrow,
         name' = name, r.delReq = rec[n].delReq
  PROVE  RecordStep
<1>1. name \in [Nodes -> Nat] /\ commands \in Nat /\ name[n] \in Nat
  BY DEF TypeInv
<1>2. IF rec[n].delReq THEN name[n] + 1 <= commands ELSE name[n] <= commands
  BY DEF TypeInv, NameOK
<1>3. IF r.delReq THEN name'[n] + 1 <= commands' ELSE name'[n] <= commands'
  BY <1>1, <1>2 DEF CommandsGrow
<1> QED BY <1>1, <1>3, SetRecord

LEMMA SetShrunk ==
  ASSUME TypeInv, NEW n \in Nodes, NEW r, SetsRec(n, r), Shrinks(rec[n], r), CommandsGrow,
         name' = name, r.delReq = rec[n].delReq
  PROVE  RecordStep
<1>1. RecordOK(rec[n])
  BY DEF TypeInv
<1>2. Replaces(n, r)
  BY <1>1, ShrunkOK DEF Replaces
<1> QED BY <1>2, SetSame

-----------------------------------------------------------------------------
(* What a step does to the executors and what they were handed             *)

NodeStep(n) ==
  /\ ExecOK(exec'[n]) /\ exec'[n].got \subseteq exec[n].got \cup Pending(n)
  /\ \A e \in exec[n].got \ exec'[n].got : Failures < Failures' \/ e \notin Pending(n)'
  /\ exec'[n].pc = "settle" => exec'[n].got \cap Pending(n)' = {}
  /\ \A e \in Seqs :
       /\ \/ handed'[n][e] = handed[n][e]
          \/ /\ handed'[n][e] = handed[n][e] + 1
             /\ e \in Pending(n) \ exec[n].got /\ e \in exec'[n].got
       /\ \/ answers'[n][e] = answers[n][e]
          \/ /\ answers'[n][e] = answers[n][e] + 1
             /\ e \in Pending(n) /\ e \notin Pending(n)'

ExecTypes == /\ exec' \in [Nodes -> ExecType]
             /\ handed' \in [Nodes -> [Seqs -> Nat]]
             /\ answers' \in [Nodes -> [Seqs -> Nat]]
             /\ crashes' \in Nat /\ faults' \in Nat /\ Failures <= Failures'

ExecStep == ExecTypes /\ \A n \in Nodes : NodeStep(n)

\* The executor of no other node moves.
Alone(n) == \A m \in Nodes \ {n} : /\ exec'[m] = exec[m] /\ handed'[m] = handed[m]
                                   /\ answers'[m] = answers[m]

LEMMA StillNode ==
  ASSUME TypeInv, HandedInv, EventsStep, NEW n \in Nodes,
         exec'[n] = exec[n], handed'[n] = handed[n], answers'[n] = answers[n]
  PROVE  NodeStep(n)
<1>1. ExecOK(exec[n]) /\ exec[n].got \subseteq DOMAIN events
  BY DEF TypeInv
<1>2. exec[n].got \cap Pending(n)' \subseteq Pending(n)
  BY <1>1, OldPending
<1>3. exec[n].pc = "settle" => exec[n].got \cap Pending(n)' = {}
  BY <1>2 DEF HandedInv
<1> QED BY <1>1, <1>3 DEF NodeStep

LEMMA OneNodeStep ==
  ASSUME TypeInv, HandedInv, EventsStep, ExecTypes, NEW n \in Nodes, Alone(n), NodeStep(n)
  PROVE  ExecStep
<1>1. ASSUME NEW m \in Nodes \ {n} PROVE NodeStep(m)
  BY StillNode DEF Alone
<1> QED BY <1>1 DEF ExecStep

LEMMA StillExecutors ==
  ASSUME TypeInv, HandedInv, EventsStep, exec' = exec, handed' = handed,
         answers' = answers, crashes' = crashes, faults' = faults
  PROVE  ExecStep
<1>1. \A n \in Nodes : NodeStep(n)
  BY StillNode
<1>2. Failures <= Failures'
  BY DEF Failures, TypeInv
<1> QED BY <1>1, <1>2 DEF ExecStep, ExecTypes, TypeInv

SetsExec(n, x) == exec' = [exec EXCEPT ![n] = x]

LEMMA SetExecutor ==
  ASSUME TypeInv, NEW n \in Nodes, NEW x, SetsExec(n, x), ExecOK(x)
  PROVE  /\ exec' \in [Nodes -> ExecType] /\ exec'[n] = x
         /\ \A m \in Nodes \ {n} : exec'[m] = exec[m]
BY DEF SetsExec, ExecOK, TypeInv

\* A fault is counted, or nothing is.
FaultCounted == /\ crashes' = crashes
                /\ faults' = faults \/ faults' = faults + 1

LEMMA FailuresGrow ==
  ASSUME TypeInv, FaultCounted
  PROVE  /\ crashes' \in Nat /\ faults' \in Nat /\ Failures <= Failures'
         /\ faults' = faults + 1 => Failures < Failures'
BY DEF TypeInv, FaultCounted, Failures

\* A step of the executor that hands out and answers nothing.
LEMMA ExecutorMoves ==
  ASSUME TypeInv, HandedInv, EventsStep, NEW n \in Nodes, NEW x, SetsExec(n, x), ExecOK(x),
         x.got \subseteq exec[n].got,
         \A e \in exec[n].got \ x.got : faults' = faults + 1 \/ e \notin Pending(n)',
         x.pc # "settle", handed' = handed, answers' = answers, FaultCounted
  PROVE  ExecStep
<1>1. /\ exec' \in [Nodes -> ExecType] /\ exec'[n] = x
      /\ \A m \in Nodes \ {n} : exec'[m] = exec[m]
  BY SetExecutor
<1>2. /\ crashes' \in Nat /\ faults' \in Nat /\ Failures <= Failures'
      /\ faults' = faults + 1 => Failures < Failures'
  BY FailuresGrow
<1>3. ExecTypes
  BY <1>1, <1>2 DEF ExecTypes, TypeInv
<1>4. NodeStep(n)
  BY <1>1, <1>2 DEF NodeStep
<1>5. Alone(n)
  BY <1>1 DEF Alone
<1> QED BY <1>3, <1>4, <1>5, OneNodeStep

\* A step that gives the events E to the logic.
LEMMA ExecutorTakes ==
  ASSUME TypeInv, HandedInv, EventsStep, NEW n \in Nodes, NEW x, SetsExec(n, x), ExecOK(x),
         NEW E, E \subseteq Pending(n) \ exec[n].got, x.got = exec[n].got \cup E,
         x.pc # "settle", answers' = answers, UNCHANGED <<crashes, faults>>,
         handed' = [handed EXCEPT ![n] =
                     [e \in Seqs |-> IF e \in E THEN @[e] + 1 ELSE @[e]]]
  PROVE  ExecStep
<1>1. /\ exec' \in [Nodes -> ExecType] /\ exec'[n] = x
      /\ \A m \in Nodes \ {n} : exec'[m] = exec[m]
  BY SetExecutor
<1>2. crashes' \in Nat /\ faults' \in Nat /\ Failures <= Failures'
  BY FailuresGrow DEF FaultCounted
<1> DEFINE h == [e \in Seqs |-> IF e \in E THEN handed[n][e] + 1 ELSE handed[n][e]]
<1>3. handed \in [Nodes -> [Seqs -> Nat]] /\ handed[n] \in [Seqs -> Nat]
  BY DEF TypeInv
<1>4. /\ h \in [Seqs -> Nat]
      /\ \A e \in Seqs : h[e] = IF e \in E THEN handed[n][e] + 1 ELSE handed[n][e]
  BY <1>3
<1>5. handed' = [handed EXCEPT ![n] = h]
  OBVIOUS
<1> HIDE DEF h
<1>6. /\ handed' \in [Nodes -> [Seqs -> Nat]] /\ handed'[n] = h
      /\ \A m \in Nodes \ {n} : handed'[m] = handed[m]
  BY <1>3, <1>4, <1>5
<1>7. ExecTypes
  BY <1>1, <1>2, <1>6 DEF ExecTypes, TypeInv
<1>8. \A e \in Seqs :
        \/ handed'[n][e] = handed[n][e]
        \/ /\ handed'[n][e] = handed[n][e] + 1
           /\ e \in Pending(n) \ exec[n].got /\ e \in exec'[n].got
  BY <1>1, <1>4, <1>6
<1>9. NodeStep(n)
  BY <1>1, <1>8 DEF NodeStep
<1>10. Alone(n)
  BY <1>1, <1>6 DEF Alone
<1> QED BY <1>7, <1>9, <1>10, OneNodeStep

-----------------------------------------------------------------------------
(* Every step                                                              *)

RestStep ==
  /\ members' \subseteq Nodes /\ todo' \subseteq Nodes /\ closed' \in BOOLEAN
  /\ poll' \subseteq Batch
  /\ \A n \in Nodes : n \in members /\ Pending(n)' # {} => n \in members'
  /\ \A b \in poll' : b \in poll \/ Oldest(b.node, b.seq)'

SmallStep == EventsStep /\ RecordStep /\ ExecStep /\ RestStep

LEMMA RestSame == TypeInv /\ UNCHANGED <<members, closed, todo, poll>> => RestStep
BY DEF TypeInv, RestStep

\* The group: events, members and tasks.
LEMMA GroupSteps ==
  ASSUME TypeInv, HandedInv, EventsStep, CommandsGrow,
         UNCHANGED <<poll, rec, exec, name, crashes, faults, handed, answers>>
  PROVE  RecordStep /\ ExecStep
BY SameRecords, StillExecutors

LEMMA PublishStep ==
  ASSUME TypeInv, HandedInv, NEW actor \in Nodes \cup {User}, NEW to \in SUBSET Nodes,
         NEW role \in Roles, Publish(actor, to, role)
  PROVE  SmallStep
<1>1. /\ Len(events) < MaxEvents /\ AddEvent("message", actor, role, {}, to)
      /\ UNCHANGED <<members, closed, todo, poll, rec, exec, name, commands, crashes, faults,
                     handed, answers>>
      /\ to \subseteq members
  BY DEF Publish, board, bounds, history
<1>2. EventsStep
  BY <1>1, AddStep
<1>3. CommandsGrow
  BY <1>1, CommandsFact
<1> QED BY <1>1, <1>2, <1>3, GroupSteps, RestSame DEF SmallStep

LEMMA TaskReadyStep ==
  ASSUME TypeInv, HandedInv, NEW actor \in Nodes \cup {User}, NEW n \in Nodes,
         NEW role \in Roles, TaskReady(actor, n, role)
  PROVE  SmallStep
<1>1. /\ Len(events) < MaxEvents /\ AddEvent("task", actor, role, {n}, {n})
      /\ UNCHANGED <<members, closed, poll, rec, exec, name, commands, crashes, faults,
                     handed, answers>>
      /\ {n} \subseteq members /\ todo' = todo \cup {n}
  BY DEF TaskReady, bounds, history
<1>2. EventsStep
  BY <1>1, AddStep
<1>3. CommandsGrow
  BY <1>1, CommandsFact
<1>4. RestStep
  BY <1>1 DEF TypeInv, RestStep
<1> QED BY <1>1, <1>2, <1>3, <1>4, GroupSteps DEF SmallStep

LEMMA CommandSteps ==
  ASSUME TypeInv, HandedInv,
         Dissolve \/ \E n \in Nodes : TaskOver(n) \/ Join(n) \/ Leave(n)
  PROVE  SmallStep
<1>1. /\ Command
      /\ UNCHANGED <<poll, rec, exec, name, crashes, faults, handed, answers>>
  BY DEF Dissolve, TaskOver, Join, Leave, history
<1>2. CommandsGrow
  BY <1>1, CommandsFact
<1>3. /\ members \subseteq Nodes /\ todo \subseteq Nodes /\ closed \in BOOLEAN
      /\ poll \subseteq Batch
  BY DEF TypeInv
<1>4. CASE Dissolve
  <2>1. EventsStep /\ \A n \in Nodes : Pending(n)' = {}
    BY <1>4, DissolveStep
  <2>2. RestStep
    BY <1>1, <1>3, <1>4, <2>1 DEF Dissolve, RestStep
  <2> QED BY <1>1, <1>2, <2>1, <2>2, GroupSteps DEF SmallStep
<1>5. ASSUME NEW n \in Nodes, TaskOver(n) \/ Join(n)
      PROVE  SmallStep
  <2>1. EventsStep
    BY <1>5, SameEvents DEF TaskOver, Join
  <2>2. RestStep
    BY <1>1, <1>3, <1>5 DEF TaskOver, Join, RestStep
  <2> QED BY <1>1, <1>2, <2>1, <2>2, GroupSteps DEF SmallStep
<1>6. ASSUME NEW n \in Nodes, Leave(n)
      PROVE  SmallStep
  <2>1. events' = Mark(n, Pending(n), "cancelled") /\ "cancelled" \in Settled
    BY <1>6 DEF Leave, Settled
  <2>2. EventsStep /\ Pending(n)' = {}
    BY <2>1, MarkStep
  <2>3. RestStep
    BY <1>1, <1>3, <1>6, <2>2 DEF Leave, RestStep
  <2> QED BY <1>1, <1>2, <2>2, <2>3, GroupSteps DEF SmallStep
<1> QED BY <1>4, <1>5, <1>6

\* The polling thread.
LEMMA PollerSteps ==
  ASSUME TypeInv, HandedInv, Poller
  PROVE  SmallStep
<1>1. UNCHANGED <<members, closed, todo, events, exec, name, commands, crashes, faults,
                  handed, answers>>
  BY DEF Poller, PollList, PollEnqueue, PollFails, board, bounds, history
<1>2. EventsStep
  BY <1>1, SameEvents
<1>3. ExecStep
  BY <1>1, <1>2, StillExecutors
<1>4. CommandsGrow
  BY <1>1, CommandsFact
<1>5. /\ members \subseteq Nodes /\ todo \subseteq Nodes /\ closed \in BOOLEAN
      /\ poll \subseteq Batch
  BY DEF TypeInv
<1>6. CASE PollList
  <2>1. RecordStep
    BY <1>1, <1>4, <1>6, SameRecords DEF PollList
  <2>2. ASSUME NEW b \in poll' PROVE b \in Batch /\ Oldest(b.node, b.seq)'
    <3>1. b \in Batch /\ \E role \in Roles : b.seq \in Anchor(b.node, role)
      BY <1>6 DEF PollList
    <3>2. PICK role \in Roles : b.seq \in Anchor(b.node, role)
      BY <3>1
    <3>3. /\ b.seq \in Pending(b.node) /\ events[b.seq].role = role
          /\ \A d \in Pending(b.node) : events[d].role = role => b.seq <= d
      BY <3>2 DEF Anchor
    <3>4. Oldest(b.node, b.seq)
      BY <3>3 DEF Oldest, Pending
    <3> QED BY <1>1, <3>1, <3>4 DEF Oldest, Pending
  <2>3. RestStep
    BY <1>1, <1>5, <2>2 DEF RestStep
  <2> QED BY <1>2, <1>3, <2>1, <2>3 DEF SmallStep
<1>7. ASSUME NEW b \in poll, PollEnqueue(b) \/ PollFails(b) PROVE SmallStep
  <2>1. b \in Batch /\ b.node \in Nodes
    BY <1>5 DEF Batch
  <2>2. RestStep
    BY <1>1, <1>5, <1>7 DEF PollEnqueue, PollFails, RestStep
  <2>3. CASE PollFails(b)
    BY <1>1, <1>2, <1>3, <1>4, <2>2, <2>3, SameRecords DEF PollFails, SmallStep
  <2>4. CASE PollEnqueue(b)
    <3> DEFINE n == b.node
               r == AppendPending(rec[n], NoticeOf(b))
    <3>1. NoticeOf(b) \in Item /\ IsNotice(NoticeOf(b)) /\ NoticeOf(b) \in Notices(n)
      <4>1. RequestId(b) \in Seqs \X (0..MaxCommands)
        BY <2>1 DEF Batch, RequestId
      <4>2. RequestId(b) \in Traces /\ 0 \in 0..MaxDepth /\ "group_notice" \in Sources
        BY <4>1, OutboxTracesAssumption, MaxDepthAssumption DEF Sources
      <4>3. NoticeOf(b) \in Item
        BY <4>2 DEF NoticeOf, Item
      <4>4. IsNotice(NoticeOf(b))
        BY <4>1 DEF NoticeOf, IsNotice
      <4> QED BY <4>3, <4>4 DEF Notices
    <3>2. RecordOK(rec[n])
      BY <2>1 DEF TypeInv
    <3>3. Replaces(n, r) /\ r.delReq = rec[n].delReq
      BY <3>1, <3>2, AppendedOK DEF Replaces
    <3>4. SetsRec(n, r)
      BY <2>4 DEF PollEnqueue, SetsRec, NoticeOf
    <3> HIDE DEF r, n
    <3>5. n \in Nodes
      BY <2>1 DEF n
    <3>6. RecordStep
      BY <1>1, <1>4, <3>3, <3>4, <3>5, SetSame
    <3> QED BY <1>2, <1>3, <2>2, <3>6 DEF SmallStep
  <2> QED BY <1>7, <2>3, <2>4
<1> QED BY <1>6, <1>7 DEF Poller

\* The executor.
LEMMA GoStep ==
  ASSUME TypeInv, HandedInv, EventsStep, NEW n \in Nodes, NEW pc \in {"notify", "clear"},
         Go(n, pc), pc = "notify" => exec[n].got # {},
         UNCHANGED <<crashes, faults, handed, answers>>
  PROVE  ExecStep
<1> DEFINE x == [exec[n] EXCEPT !.pc = pc]
<1>1. exec[n] \in ExecType /\ ExecOK(exec[n])
  BY DEF TypeInv
<1>2. SetsExec(n, x)
  BY DEF Go, SetsExec
<1>3. x \in ExecType /\ x.got = exec[n].got /\ x.pc = pc /\ x.how = exec[n].how
  BY <1>1 DEF ExecType, Pcs
<1> HIDE DEF x
<1>4. ExecOK(x) /\ x.got = exec[n].got /\ x.pc = pc
  BY <1>1, <1>3 DEF ExecOK
<1>5. x.pc # "settle" /\ x.got \subseteq exec[n].got /\ FaultCounted
  BY <1>4 DEF FaultCounted
<1> QED BY <1>2, <1>4, <1>5, ExecutorMoves

LEMMA EndStep ==
  ASSUME TypeInv, HandedInv, EventsStep, NEW n \in Nodes, End(n), FaultCounted,
         UNCHANGED <<handed, answers>>,
         \A e \in exec[n].got : faults' = faults + 1 \/ e \notin Pending(n)'
  PROVE  ExecStep
<1>1. SetsExec(n, Parked)
  BY DEF End, SetsExec
<1>2. ExecOK(Parked) /\ Parked.got = {} /\ Parked.pc # "settle"
  BY FreshOK DEF Parked
<1> QED BY <1>1, <1>2, ExecutorMoves

LEMMA DequeueStep ==
  ASSUME TypeInv, HandedInv, NEW n \in Nodes, Dequeue(n)
  PROVE  SmallStep
<1>1. UNCHANGED <<members, closed, todo, events, poll, name, commands, crashes, faults,
                  handed, answers>>
  BY DEF Dequeue, board, bounds, history
<1>2. EventsStep /\ RestStep /\ CommandsGrow
  BY <1>1, SameEvents, RestSame, CommandsFact
<1> DEFINE r == DequeueToWorking(rec[n])
           x == [Parked EXCEPT !.pc = "resolve", !.item = Head(rec[n].pending)]
<1>3. RecordOK(rec[n]) /\ CanDequeue(rec[n]) /\ ExecOK(exec[n]) /\ exec[n].got = {}
  BY DEF Dequeue, TypeInv, At, ExecOK
<1>4. /\ Replaces(n, r) /\ r.delReq = rec[n].delReq
      /\ Head(rec[n].pending) \in Item
  BY <1>3, DequeuedOK DEF Replaces
<1>5. SetsRec(n, r) /\ SetsExec(n, x)
  BY DEF Dequeue, SetsRec, SetsExec
<1>6. ExecOK(x) /\ x.got = {} /\ x.pc # "settle"
  BY <1>4 DEF ExecOK, ExecType, Parked, Pcs
<1> HIDE DEF r, x
<1>7. RecordStep
  BY <1>1, <1>2, <1>4, <1>5, SetSame
<1>8. FaultCounted
  BY <1>1 DEF FaultCounted
<1>9. ExecStep
  BY <1>1, <1>2, <1>3, <1>5, <1>6, <1>8, ExecutorMoves
<1> QED BY <1>2, <1>7, <1>9 DEF SmallStep

\* The rows that an anchor wakes the node for wait for it.
LEMMA RowsPend == \A n : BatchOf(n) \subseteq Pending(n)
BY DEF BatchOf, Rows

LEMMA ResolveStep ==
  ASSUME TypeInv, HandedInv, NEW n \in Nodes, Resolve(n)
  PROVE  SmallStep
<1> DEFINE got == {e \in BatchOf(n) : Current(n, e)}
           pc == IF got = {} THEN "clear" ELSE "logic"
           x == [exec[n] EXCEPT !.got = got, !.how = "empty", !.pc = pc]
<1>1. UNCHANGED <<members, closed, todo, poll, rec, name, commands, crashes, faults, answers>>
  BY DEF Resolve, board, bounds
<1>2. RestStep /\ CommandsGrow
  BY <1>1, RestSame, CommandsFact
<1>3. RecordStep
  BY <1>1, <1>2, SameRecords
<1>4. got \subseteq Pending(n) /\ BatchOf(n) \ got \subseteq Pending(n) /\ "cancelled" \in Settled
  BY RowsPend DEF Settled
<1>5. events' = Mark(n, BatchOf(n) \ got, "cancelled")
  BY DEF Resolve
<1>6. /\ handed' = [handed EXCEPT ![n] =
            [e \in Seqs |-> IF e \in got THEN @[e] + 1 ELSE @[e]]]
      /\ SetsExec(n, x)
  BY DEF Resolve, SetsExec
<1>7. ExecOK(exec[n]) /\ exec[n].pc = "resolve" /\ exec[n] \in ExecType
  BY DEF Resolve, TypeInv, At
<1>8. got \subseteq Seqs
  BY <1>4, EventPlaces
<1> HIDE DEF got
<1>9. /\ x.got = got /\ x.pc = pc /\ x.item = exec[n].item /\ x.how = "empty"
      /\ x \in ExecType
  BY <1>7, <1>8 DEF ExecType, Pcs
<1>10. ExecOK(x) /\ x.pc # "settle"
  BY <1>7, <1>9 DEF ExecOK
<1>11. exec[n].got = {}
  BY <1>7 DEF ExecOK
<1> HIDE DEF x, pc
<1>12. EventsStep
  BY <1>4, <1>5, MarkStep
<1>13. got \subseteq Pending(n) \ exec[n].got /\ x.got = exec[n].got \cup got
  BY <1>4, <1>9, <1>11
<1>14. ExecStep
  BY <1>1, <1>6, <1>10, <1>12, <1>13, ExecutorTakes
<1> QED BY <1>2, <1>3, <1>12, <1>14 DEF SmallStep

LEMMA ResolveRaisesStep ==
  ASSUME TypeInv, HandedInv, NEW n \in Nodes, ResolveRaises(n)
  PROVE  SmallStep
<1> DEFINE x == [exec[n] EXCEPT !.pc = "record", !.how = "failed"]
<1>1. UNCHANGED <<members, closed, todo, poll, rec, name, commands, crashes, handed, answers>>
  BY DEF ResolveRaises, board, history
<1>2. RestStep /\ CommandsGrow
  BY <1>1, RestSame, CommandsFact
<1>3. RecordStep
  BY <1>1, <1>2, SameRecords
<1>4. EventsStep
  <2>1. {e \in BatchOf(n) : ~Current(n, e)} \subseteq Pending(n) /\ "cancelled" \in Settled
    BY RowsPend DEF Settled
  <2>2. \/ events' = events
        \/ events' = Mark(n, {e \in BatchOf(n) : ~Current(n, e)}, "cancelled")
    BY DEF ResolveRaises
  <2> QED BY <2>1, <2>2, SameEvents, MarkStep
<1>5. ExecOK(exec[n]) /\ exec[n].pc = "resolve" /\ exec[n] \in ExecType
  BY DEF ResolveRaises, TypeInv, At
<1>6. /\ x \in ExecType /\ x.pc = "record" /\ x.got = exec[n].got /\ x.item = exec[n].item
      /\ x.how = "failed" /\ SetsExec(n, x)
  BY <1>5 DEF ResolveRaises, SetsExec, ExecType, Pcs
<1> HIDE DEF x
<1>7. ExecOK(x) /\ x.got \subseteq exec[n].got /\ x.pc # "settle"
  BY <1>5, <1>6 DEF ExecOK
<1>8. FaultCounted
  BY <1>1 DEF ResolveRaises, Fault, FaultCounted
<1>9. ExecStep
  BY <1>1, <1>4, <1>6, <1>7, <1>8, ExecutorMoves
<1> QED BY <1>2, <1>3, <1>4, <1>9 DEF SmallStep

LEMMA FollowupsStep ==
  ASSUME TypeInv, HandedInv, NEW n \in Nodes, Followups(n)
  PROVE  SmallStep
<1>1. UNCHANGED <<members, closed, todo, events, poll, rec, name, commands, crashes, faults,
                  answers>>
  BY DEF Followups, board, bounds
<1>2. EventsStep /\ RestStep /\ CommandsGrow
  BY <1>1, SameEvents, RestSame, CommandsFact
<1>3. RecordStep
  BY <1>1, <1>2, SameRecords
<1> DEFINE role == events[CHOOSE e \in exec[n].got : TRUE].role
           more == {e \in Pending(n) \ exec[n].got :
                      /\ events[e].kind = "message" /\ events[e].actor = User
                      /\ events[e].role = role}
           x == [exec[n] EXCEPT !.got = exec[n].got \cup more]
<1>4. /\ handed' = [handed EXCEPT ![n] =
            [e \in Seqs |-> IF e \in more THEN @[e] + 1 ELSE @[e]]]
      /\ SetsExec(n, x)
  BY DEF Followups, SetsExec
<1>5. ExecOK(exec[n]) /\ exec[n].pc = "logic" /\ exec[n] \in ExecType
  BY DEF Followups, TypeInv, At
<1>6. more \subseteq Pending(n) \ exec[n].got
  OBVIOUS
<1> HIDE DEF more
<1>7. more \subseteq Seqs
  BY <1>6, EventPlaces
<1>8. x \in ExecType /\ x.pc = "logic" /\ x.got = exec[n].got \cup more /\ x.item = exec[n].item
  BY <1>5, <1>7 DEF ExecType
<1> HIDE DEF x
<1>9. ExecOK(x) /\ x.pc # "settle"
  BY <1>5, <1>8 DEF ExecOK
<1>10. ExecStep
  BY <1>1, <1>2, <1>4, <1>6, <1>8, <1>9, ExecutorTakes
<1> QED BY <1>2, <1>3, <1>10 DEF SmallStep

LEMMA LogicStep ==
  ASSUME TypeInv, HandedInv, NEW n \in Nodes, NEW how \in {"ok", "failed"}, Logic(n, how)
  PROVE  SmallStep
<1>1. UNCHANGED <<members, closed, todo, events, poll, rec, name, commands, crashes, faults,
                  handed, answers>>
  BY DEF Logic, board, bounds, history
<1>2. EventsStep /\ RestStep /\ CommandsGrow
  BY <1>1, SameEvents, RestSame, CommandsFact
<1>3. RecordStep
  BY <1>1, <1>2, SameRecords
<1> DEFINE x == [exec[n] EXCEPT !.pc = "record", !.how = how]
<1>4. ExecOK(exec[n]) /\ exec[n].pc = "logic" /\ exec[n] \in ExecType
  BY DEF Logic, TypeInv, At
<1>5. /\ x \in ExecType /\ x.pc = "record" /\ x.got = exec[n].got /\ x.item = exec[n].item
      /\ SetsExec(n, x)
  BY <1>4 DEF Logic, SetsExec, ExecType, Pcs
<1> HIDE DEF x
<1>6. ExecOK(x) /\ x.got \subseteq exec[n].got /\ x.pc # "settle"
  BY <1>4, <1>5 DEF ExecOK
<1>7. FaultCounted
  BY <1>1 DEF FaultCounted
<1>8. ExecStep
  BY <1>1, <1>2, <1>5, <1>6, <1>7, ExecutorMoves
<1> QED BY <1>2, <1>3, <1>8 DEF SmallStep

\* The steps that only settle the record and move the executor on.
Settling(n) ==
  \/ StopBefore(n) \/ Stopped(n) \/ ToIdle(n) \/ Settle(n) \/ RecoverStale(n)
  \/ \E ok \in BOOLEAN : Record(n, ok) \/ Clear(n, ok)

LEMMA SettlingFrame ==
  ASSUME TypeInv, NEW n \in Nodes, Settling(n)
  PROVE  /\ UNCHANGED <<events, crashes, faults, handed, answers>>
         /\ EventsStep /\ RestStep /\ RecordStep /\ FaultCounted
         /\ Pending(n)' = Pending(n)
<1>1. UNCHANGED <<members, closed, todo, events, poll, name, commands, crashes, faults,
                  handed, answers>>
  BY DEF Settling, StopBefore, Stopped, ToIdle, Settle, RecoverStale, Record, Clear,
         board, bounds, history
<1>2. EventsStep /\ RestStep /\ CommandsGrow /\ FaultCounted /\ Pending(n)' = Pending(n)
  BY <1>1, SameEvents, RestSame, CommandsFact DEF FaultCounted, Pending
<1>3. rec[n] \in Runtime /\ ExecOK(exec[n])
  BY DEF TypeInv
<1>4. ASSUME NEW r, SetsRec(n, r), Shrinks(rec[n], r), r.delReq = rec[n].delReq
      PROVE  RecordStep
  BY <1>1, <1>2, <1>4, SetShrunk
<1>5. CASE StopBefore(n) \/ Stopped(n)
  <2>1. SetsRec(n, FinishStopRequested(rec[n]))
    BY <1>5 DEF StopBefore, Stopped, SetsRec
  <2> QED BY <1>1, <1>2, <1>3, <1>4, <2>1, OperationsShrink, OperationsKeep
<1>6. CASE ToIdle(n)
  <2>1. SetsRec(n, TransitionToIdle(rec[n]))
    BY <1>6 DEF ToIdle, SetsRec
  <2> QED BY <1>1, <1>2, <1>3, <1>4, <2>1, OperationsShrink, OperationsKeep
<1>7. CASE Settle(n)
  <2>1. SetsRec(n, CompleteWork(rec[n], [targets |-> {}]))
    BY <1>7 DEF Settle, SetsRec
  <2> QED BY <1>1, <1>2, <1>3, <1>4, <2>1, OperationsShrink, OperationsKeep
<1>8. CASE RecoverStale(n)
  <2>1. SetsRec(n, RecoverStaleWorking(rec[n]))
    BY <1>8 DEF RecoverStale, SetsRec
  <2> QED BY <1>1, <1>2, <1>3, <1>4, <2>1, OperationsShrink, OperationsKeep
<1>9. ASSUME NEW ok \in BOOLEAN, Clear(n, ok) PROVE RecordStep
  <2>1. SetsRec(n, ClearInflight(rec[n]))
    BY <1>9 DEF Clear, SetsRec
  <2> QED BY <1>3, <1>4, <2>1, OperationsShrink, OperationsKeep
<1>10. ASSUME NEW ok \in BOOLEAN, Record(n, ok) PROVE RecordStep
  <2>1. exec[n].item \in Item
    BY <1>3, <1>10 DEF Record, At, ExecOK
  <2>2. exec[n].item.trace \in Traces
    BY <2>1 DEF Item
  <2>3. \/ SetsRec(n, FinishStopRequested(rec[n]))
        \/ SetsRec(n, RecordCompletion(rec[n], exec[n].item.trace))
        \/ SetsRec(n, rec[n])
    BY <1>10 DEF Record, SetsRec
  <2> QED BY <1>3, <1>4, <2>2, <2>3, OperationsShrink, OperationsKeep
<1> QED BY <1>1, <1>2, <1>5, <1>6, <1>7, <1>8, <1>9, <1>10 DEF Settling

LEMMA SettlingStep ==
  ASSUME TypeInv, HandedInv, NEW n \in Nodes, Settling(n)
  PROVE  SmallStep
<1>1. /\ UNCHANGED <<events, crashes, faults, handed, answers>>
      /\ EventsStep /\ RestStep /\ RecordStep /\ FaultCounted
      /\ Pending(n)' = Pending(n)
  BY SettlingFrame
<1>2. SUFFICES ExecStep
  BY <1>1 DEF SmallStep
<1>3. ExecOK(exec[n]) /\ exec[n] \in ExecType
  BY DEF TypeInv
<1>4. ASSUME End(n), exec[n].got = {} PROVE ExecStep
  BY <1>1, <1>4, EndStep
<1>5. ASSUME NEW pc \in {"notify", "clear"}, Go(n, pc), pc = "notify" => exec[n].got # {}
      PROVE  ExecStep
  BY <1>1, <1>5, GoStep
<1>6. CASE StopBefore(n)
  <2>1. End(n) /\ exec[n].got = {}
    BY <1>3, <1>6 DEF StopBefore, At, ExecOK
  <2> QED BY <1>4, <2>1
<1>7. CASE Stopped(n)
  <2>1. Go(n, "notify") /\ exec[n].got # {}
    BY <1>3, <1>7 DEF Stopped, At, ExecOK
  <2> QED BY <1>5, <2>1
<1>8. CASE ToIdle(n)
  BY <1>4, <1>5, <1>8 DEF ToIdle
<1>9. CASE Settle(n)
  <2>1. End(n) /\ exec[n].got \cap Pending(n) = {}
    BY <1>9 DEF Settle, At, HandedInv
  <2> QED BY <1>1, <2>1, EndStep
<1>10. CASE RecoverStale(n)
  BY <1>1, <1>10, StillExecutors DEF RecoverStale
<1>11. ASSUME NEW ok \in BOOLEAN, Record(n, ok) PROVE ExecStep
  <2>1. \/ End(n) /\ exec[n].got = {}
        \/ Go(n, "notify") /\ exec[n].got # {}
        \/ Go(n, "clear")
    BY <1>11 DEF Record
  <2> QED BY <1>4, <1>5, <2>1
<1>12. ASSUME NEW ok \in BOOLEAN, Clear(n, ok) PROVE ExecStep
  <2> DEFINE pc == IF exec[n].how # "ok" THEN "idle" ELSE IF ok THEN "reply" ELSE "notify"
             x == [Parked EXCEPT !.got = exec[n].got, !.pc = pc]
  <2>1. SetsExec(n, x)
    BY <1>12 DEF Clear, SetsExec
  <2>2. pc \in {"idle", "reply", "notify"} /\ (pc # "idle" => exec[n].how = "ok")
    OBVIOUS
  <2> HIDE DEF pc
  <2>3. x.got = exec[n].got /\ x.pc = pc /\ x.how = "none" /\ x \in ExecType
    BY <1>3, <2>2 DEF Parked, ExecType, Pcs
  <2> HIDE DEF x
  <2>4. ExecOK(x) /\ x.pc # "settle" /\ x.got \subseteq exec[n].got
    BY <1>3, <2>2, <2>3 DEF ExecOK
  <2> QED BY <1>1, <2>1, <2>3, <2>4, ExecutorMoves
<1> QED BY <1>6, <1>7, <1>8, <1>9, <1>10, <1>11, <1>12 DEF Settling

LEMMA ReplyStep ==
  ASSUME TypeInv, HandedInv, NEW n \in Nodes, NEW text \in BOOLEAN, Reply(n, text)
  PROVE  SmallStep
<1>1. UNCHANGED <<members, closed, todo, poll, rec, name, commands, crashes, faults, handed>>
  BY DEF Reply, board, bounds
<1>2. RestStep /\ CommandsGrow
  BY <1>1, RestSame, CommandsFact
<1>3. RecordStep
  BY <1>1, <1>2, SameRecords
<1>4. EventsStep /\ Pending(n)' = Pending(n) \ (exec[n].got \cap Pending(n))
  <2>1. /\ events' = Mark(n, exec[n].got \cap Pending(n), "delivered")
        /\ exec[n].got \cap Pending(n) \subseteq Pending(n) /\ "delivered" \in Settled
    BY DEF Reply, Completed, Settled
  <2> QED BY <2>1, MarkStep
<1> DEFINE x == [exec[n] EXCEPT !.pc = "settle"]
           a == [e \in Seqs |-> IF text /\ n \in members /\ e \in Asked(n)
                                THEN answers[n][e] + 1 ELSE answers[n][e]]
<1>5. ExecOK(exec[n]) /\ exec[n] \in ExecType
  BY DEF TypeInv
<1>6. /\ x \in ExecType /\ x.pc = "settle" /\ x.got = exec[n].got /\ x.how = exec[n].how
      /\ SetsExec(n, x)
  BY <1>5 DEF Reply, Go, SetsExec, ExecType, Pcs
<1> HIDE DEF x
<1>7. ExecOK(x)
  BY <1>5, <1>6 DEF ExecOK
<1>8. /\ exec' \in [Nodes -> ExecType] /\ exec'[n] = x
      /\ \A m \in Nodes \ {n} : exec'[m] = exec[m]
  BY <1>6, <1>7, SetExecutor
<1>9. answers \in [Nodes -> [Seqs -> Nat]] /\ answers[n] \in [Seqs -> Nat]
  BY DEF TypeInv
<1>10. /\ a \in [Seqs -> Nat]
       /\ \A e \in Seqs : \/ a[e] = answers[n][e]
                          \/ a[e] = answers[n][e] + 1 /\ e \in Asked(n)
  BY <1>9
<1>11. answers' = [answers EXCEPT ![n] = a]
  BY DEF Reply
<1> HIDE DEF a
<1>12. /\ answers' \in [Nodes -> [Seqs -> Nat]] /\ answers'[n] = a
       /\ \A m \in Nodes \ {n} : answers'[m] = answers[m]
  BY <1>9, <1>10, <1>11
<1>13. Asked(n) \subseteq exec[n].got \cap Pending(n)
  BY DEF Asked
<1>14. ExecTypes
  <2>1. crashes' \in Nat /\ faults' \in Nat /\ Failures <= Failures'
    BY <1>1, FailuresGrow DEF FaultCounted
  <2> QED BY <1>1, <1>8, <1>12, <2>1 DEF ExecTypes, TypeInv
<1>15. NodeStep(n)
  <2>1. \A e \in Seqs : \/ answers'[n][e] = answers[n][e]
                        \/ /\ answers'[n][e] = answers[n][e] + 1
                           /\ e \in Pending(n) /\ e \notin Pending(n)'
    BY <1>4, <1>10, <1>12, <1>13
  <2>2. exec'[n].got \cap Pending(n)' = {} /\ exec'[n].got = exec[n].got
    BY <1>4, <1>6, <1>8
  <2> QED BY <1>1, <1>7, <1>8, <2>1, <2>2 DEF NodeStep
<1>16. Alone(n)
  BY <1>1, <1>8, <1>12 DEF Alone
<1>17. ExecStep
  BY <1>4, <1>14, <1>15, <1>16, OneNodeStep
<1> QED BY <1>2, <1>3, <1>4, <1>17 DEF SmallStep

LEMMA NotifyStep ==
  ASSUME TypeInv, HandedInv, NEW n \in Nodes, Notify(n) \/ CompleteRaises(n)
  PROVE  SmallStep
<1>1. /\ UNCHANGED <<members, closed, todo, poll, rec, name, commands, crashes, handed, answers>>
      /\ End(n)
  BY DEF Notify, CompleteRaises, board, bounds, history
<1>2. RestStep /\ CommandsGrow
  BY <1>1, RestSame, CommandsFact
<1>3. RecordStep
  BY <1>1, <1>2, SameRecords
<1>4. CASE Notify(n)
  <2>1. /\ events' = Mark(n, exec[n].got \cap Pending(n), "delivered")
        /\ exec[n].got \cap Pending(n) \subseteq Pending(n) /\ "delivered" \in Settled
    BY <1>4 DEF Notify, Completed, Settled
  <2>2. EventsStep /\ Pending(n)' = Pending(n) \ (exec[n].got \cap Pending(n))
    BY <2>1, MarkStep
  <2>3. FaultCounted
    BY <1>4 DEF Notify, bounds, FaultCounted
  <2>4. ExecStep
    BY <1>1, <2>2, <2>3, EndStep
  <2> QED BY <1>2, <1>3, <2>2, <2>4 DEF SmallStep
<1>5. CASE CompleteRaises(n)
  <2>1. events' = events /\ faults' = faults + 1
    BY <1>5 DEF CompleteRaises, Fault
  <2>2. EventsStep /\ FaultCounted
    BY <1>1, <2>1, SameEvents DEF FaultCounted
  <2>3. ExecStep
    BY <1>1, <2>1, <2>2, EndStep
  <2> QED BY <1>2, <1>3, <2>2, <2>3 DEF SmallStep
<1> QED BY <1>4, <1>5

\* Stopping and renaming.
LEMMA NodeCommandStep ==
  ASSUME TypeInv, HandedInv, NEW n \in Nodes,
         Stop(n) \/ RenameReserve(n) \/ RenameCommit(n) \/ RenameFails(n)
  PROVE  SmallStep
<1>1. UNCHANGED <<members, closed, todo, poll, exec, crashes, faults, handed, answers>>
  BY DEF Stop, RenameReserve, RenameCommit, RenameFails, board, bounds, history
<1>2. RestStep
  BY <1>1, RestSame
<1>3. /\ RecordOK(rec[n]) /\ rec[n] \in Runtime /\ name[n] \in Nat /\ commands \in Nat
      /\ name \in [Nodes -> Nat]
      /\ IF rec[n].delReq THEN name[n] + 1 <= commands ELSE name[n] <= commands
  BY DEF TypeInv, NameOK
<1>4. ASSUME NEW d \in BOOLEAN
      PROVE  LET r == [rec[n] EXCEPT !.delReq = d] IN
             r.delReq = d /\ Replaces(n, r)
  <2> DEFINE r == [rec[n] EXCEPT !.delReq = d]
  <2>1. /\ r \in Runtime /\ r.delReq = d /\ r.pending = rec[n].pending
        /\ r.inflight = rec[n].inflight
    BY <1>3 DEF Runtime
  <2> HIDE DEF r
  <2>2. Items(r) = Items(rec[n]) /\ QueuedOnce(r)
    BY <1>3, <2>1 DEF Items, QueuedOnce, RecordOK
  <2>3. Replaces(n, r)
    BY <1>3, <2>1, <2>2 DEF Replaces, RecordOK
  <2> QED BY <2>1, <2>3 DEF r
<1>5. CASE Stop(n)
  <2>1. SetsRec(n, CancelWork(rec[n])) /\ name' = name /\ events' = events /\ Command
    BY <1>5 DEF Stop, SetsRec
  <2>2. CommandsGrow /\ EventsStep
    BY <2>1, CommandsFact, SameEvents
  <2>3. RecordStep
    BY <1>3, <2>1, <2>2, OperationsShrink, OperationsKeep, SetShrunk
  <2> QED BY <1>1, <1>2, <2>2, <2>3, StillExecutors DEF SmallStep
<1>6. CASE RenameReserve(n)
  <2> DEFINE r == [rec[n] EXCEPT !.delReq = TRUE]
  <2>1. /\ SetsRec(n, r) /\ name' = name /\ events' = events /\ Command
        /\ ~rec[n].delReq
    BY <1>6 DEF RenameReserve, SetsRec
  <2>2. CommandsGrow /\ EventsStep
    BY <2>1, CommandsFact, SameEvents
  <2>3. Replaces(n, r) /\ r.delReq
    BY <1>4
  <2> HIDE DEF r
  <2>4. name'[n] + 1 <= commands'
    BY <1>3, <2>1 DEF Command
  <2>5. RecordStep
    BY <1>3, <2>1, <2>2, <2>3, <2>4, SetRecord
  <2> QED BY <1>1, <1>2, <2>2, <2>5, StillExecutors DEF SmallStep
<1>7. CASE RenameCommit(n)
  <2> DEFINE r == [rec[n] EXCEPT !.delReq = FALSE]
  <2>1. /\ SetsRec(n, r) /\ name' = [name EXCEPT ![n] = name[n] + 1]
        /\ commands' = commands /\ rec[n].delReq
    BY <1>7 DEF RenameCommit, SetsRec, bounds
  <2>2. CommandsGrow
    BY <2>1, CommandsFact
  <2>3. EventsStep
    BY <1>7, RenameStep
  <2>4. Replaces(n, r) /\ ~r.delReq
    BY <1>4
  <2> HIDE DEF r
  <2>5. /\ name' \in [Nodes -> Nat] /\ name'[n] = name[n] + 1
        /\ \A m \in Nodes \ {n} : name'[m] = name[m]
    BY <1>3, <2>1
  <2>6. name'[n] <= commands'
    BY <1>3, <2>1, <2>5
  <2>7. RecordStep
    BY <2>1, <2>2, <2>4, <2>5, <2>6, SetRecord
  <2> QED BY <1>1, <1>2, <2>3, <2>7, StillExecutors DEF SmallStep
<1>8. CASE RenameFails(n)
  <2> DEFINE r == [rec[n] EXCEPT !.delReq = FALSE]
  <2>1. /\ SetsRec(n, r) /\ name' = name /\ commands' = commands /\ rec[n].delReq
        /\ events' = events
    BY <1>8 DEF RenameFails, SetsRec, bounds
  <2>2. CommandsGrow /\ EventsStep
    BY <2>1, CommandsFact, SameEvents
  <2>3. Replaces(n, r) /\ ~r.delReq
    BY <1>4
  <2> HIDE DEF r
  <2>4. name'[n] <= commands'
    BY <1>3, <2>1
  <2>5. RecordStep
    BY <1>3, <2>1, <2>2, <2>3, <2>4, SetRecord
  <2> QED BY <1>1, <1>2, <2>2, <2>5, StillExecutors DEF SmallStep
<1> QED BY <1>5, <1>6, <1>7, <1>8

LEMMA CrashStep ==
  ASSUME TypeInv, HandedInv, Crash
  PROVE  SmallStep
<1>1. /\ UNCHANGED <<members, closed, todo, events, name, commands, faults, handed, answers>>
      /\ poll' = {} /\ crashes' = crashes + 1
      /\ rec' = [n \in Nodes |-> FreshRuntime] /\ exec' = [n \in Nodes |-> Parked]
      /\ \A n \in Nodes : ~rec[n].delReq
  BY DEF Crash, board, history
<1>2. EventsStep /\ CommandsGrow
  BY <1>1, SameEvents, CommandsFact
<1>3. RestStep
  BY <1>1 DEF RestStep, TypeInv
<1>4. /\ RecordOK(FreshRuntime) /\ Items(FreshRuntime) = {} /\ ExecOK(Parked)
      /\ ~FreshRuntime.delReq /\ FreshRuntime \in Runtime /\ Parked \in ExecType
      /\ Parked.got = {} /\ Parked.pc = "none"
  BY FreshOK DEF RecordOK, ExecOK, Parked
<1>5. RecordStep
  <2>1. ASSUME NEW n \in Nodes PROVE NameOK(n)'
    <3>1. name[n] \in Nat /\ commands \in Nat /\ name[n] <= commands
      BY <1>1 DEF TypeInv, NameOK
    <3>2. rec'[n] = FreshRuntime
      BY <1>1
    <3> QED BY <1>1, <1>4, <3>1, <3>2 DEF NameOK
  <2>2. rec' \in [Nodes -> Runtime] /\ name' \in [Nodes -> Nat]
    BY <1>1, <1>4 DEF TypeInv
  <2>3. \A n \in Nodes : RecordOK(rec'[n]) /\ Items(rec'[n]) = {}
    BY <1>1, <1>4
  <2> QED BY <1>2, <2>1, <2>2, <2>3 DEF RecordStep
<1>6. crashes' \in Nat /\ faults' \in Nat /\ Failures < Failures' /\ Failures <= Failures'
  BY <1>1 DEF TypeInv, Failures
<1>7. ExecTypes
  BY <1>1, <1>4, <1>6 DEF ExecTypes, TypeInv
<1>8. \A n \in Nodes : NodeStep(n)
  BY <1>1, <1>4, <1>6 DEF NodeStep
<1> QED BY <1>2, <1>3, <1>5, <1>7, <1>8 DEF SmallStep, ExecStep

LEMMA NextStep ==
  ASSUME TypeInv, HandedInv, Next
  PROVE  SmallStep
<1>1. CASE Group
  BY <1>1, PublishStep, TaskReadyStep, CommandSteps DEF Group
<1>2. CASE Poller
  BY <1>2, PollerSteps
<1>3. CASE Crash
  BY <1>3, CrashStep
<1>4. ASSUME NEW n \in Nodes, Executor(n) PROVE SmallStep
  BY <1>4, DequeueStep, ResolveStep, ResolveRaisesStep, FollowupsStep, LogicStep,
     SettlingStep, ReplyStep, NotifyStep DEF Executor, Settling
<1>5. ASSUME NEW n \in Nodes, Stop(n) \/ RenameReserve(n) \/ RenameEnds(n) PROVE SmallStep
  BY <1>5, NodeCommandStep DEF RenameEnds
<1> QED BY <1>1, <1>2, <1>3, <1>4, <1>5 DEF Next

LEMMA AnyStep ==
  ASSUME TypeInv, HandedInv, [Next]_vars
  PROVE  SmallStep
<1>1. CASE UNCHANGED vars
  <2>1. UNCHANGED <<members, closed, todo, events, poll, rec, exec, name, commands, crashes,
                    faults, handed, answers>>
    BY <1>1 DEF vars
  <2>2. EventsStep /\ RestStep /\ CommandsGrow
    BY <2>1, SameEvents, RestSame, CommandsFact
  <2> QED BY <2>1, <2>2, SameRecords, StillExecutors DEF SmallStep
<1> QED BY <1>1, NextStep

-----------------------------------------------------------------------------
(* The inductive invariant holds                                           *)

LEMMA TypesStay == TypeInv /\ SmallStep => TypeInv'
<1> SUFFICES ASSUME TypeInv, SmallStep PROVE TypeInv'
  OBVIOUS
<1>1. ASSUME NEW n \in Nodes PROVE ExecOK(exec'[n]) /\ exec'[n].got \subseteq DOMAIN events'
  <2>1. exec[n].got \subseteq DOMAIN events /\ Pending(n) \subseteq DOMAIN events
    BY DEF TypeInv, Pending
  <2> QED BY <2>1 DEF SmallStep, ExecStep, NodeStep, EventsStep
<1>2. \A n \in Nodes : RecordOK(rec'[n]) /\ NameOK(n)'
  BY DEF SmallStep, RecordStep
<1>3. commands' \in Nat /\ commands' <= MaxCommands
  BY DEF SmallStep, RecordStep, CommandsGrow
<1> QED BY <1>1, <1>2, <1>3 DEF TypeInv, SmallStep, RecordStep, ExecStep, ExecTypes, RestStep,
                                EventsStep

LEMMA MembersStay == TypeInv /\ PendingForMembers /\ SmallStep => PendingForMembers'
<1> SUFFICES ASSUME TypeInv, PendingForMembers, SmallStep, NEW n \in Nodes, Pending(n)' # {}
             PROVE  n \in members'
  BY DEF PendingForMembers
<1>1. PICK e \in Pending(n)' : TRUE
  OBVIOUS
<1>2. EventsStep /\ RestStep /\ e \in DOMAIN events' /\ events'[e].to[n] = "pending"
  BY <1>1 DEF SmallStep, Pending
<1>3. CASE e \in DOMAIN events
  <2>1. n \in members
    BY <1>1, <1>2, <1>3, OldPending DEF PendingForMembers
  <2> QED BY <1>2, <2>1 DEF RestStep
<1>4. CASE e \notin DOMAIN events
  BY <1>2, <1>4 DEF EventsStep
<1> QED BY <1>3, <1>4

LEMMA AnchorsStay == TypeInv /\ AnchorInv /\ SmallStep => AnchorInv'
<1> SUFFICES ASSUME TypeInv, AnchorInv, SmallStep PROVE AnchorInv'
  OBVIOUS
<1>1. EventsStep /\ RestStep /\ RecordStep
  BY DEF SmallStep
<1>2. ASSUME NEW b \in poll PROVE Oldest(b.node, b.seq)'
  <2>1. b.node \in Nodes /\ Oldest(b.node, b.seq)
    BY DEF TypeInv, AnchorInv, Batch
  <2> QED BY <1>1, <2>1, OldestStays
<1>3. \A b \in poll' : Oldest(b.node, b.seq)'
  BY <1>1, <1>2 DEF RestStep
<1>4. ASSUME NEW n \in Nodes, NEW it \in Items(rec'[n]) PROVE Oldest(n, it.trace[1])'
  <2>1. CASE it \in Items(rec[n])
    BY <1>1, <2>1, OldestStays DEF AnchorInv
  <2>2. CASE it \in Notices(n)
    <3>1. PICK b \in poll : b.node = n /\ it = NoticeOf(b)
      BY <2>2 DEF Notices
    <3>2. it.trace[1] = b.seq
      BY <3>1 DEF NoticeOf, RequestId
    <3> QED BY <1>2, <3>1, <3>2
  <2> QED BY <1>1, <2>1, <2>2 DEF RecordStep
<1> QED BY <1>3, <1>4 DEF AnchorInv

LEMMA FailuresCount ==
  ASSUME TypeInv, ExecTypes
  PROVE  Failures \in Nat /\ Failures' \in Nat /\ Failures <= Failures'
<1>1. crashes \in Nat /\ faults \in Nat
  BY DEF TypeInv
<1>2. crashes' \in Nat /\ faults' \in Nat /\ Failures <= Failures'
  BY DEF ExecTypes
<1>3. \A a, b \in Nat : a + b \in Nat
  OBVIOUS
<1> QED BY <1>1, <1>2, <1>3 DEF Failures

LEMMA HandedStays == TypeInv /\ HandedInv /\ SmallStep => HandedInv'
<1> SUFFICES ASSUME TypeInv, HandedInv, SmallStep, NEW n \in Nodes
             PROVE  /\ exec'[n].pc = "settle" => exec'[n].got \cap Pending(n)' = {}
                    /\ \A e \in Seqs :
                         /\ handed'[n][e] <= 1 + Failures'
                         /\ handed'[n][e] > Failures' =>
                              /\ e \in DOMAIN events'
                              /\ e \in Pending(n)' => e \in exec'[n].got
  BY DEF HandedInv
<1>1. EventsStep /\ NodeStep(n) /\ DOMAIN events \subseteq DOMAIN events'
  BY DEF SmallStep, ExecStep, EventsStep
<1>2. Failures \in Nat /\ Failures' \in Nat /\ Failures <= Failures'
  BY FailuresCount DEF SmallStep, ExecStep
<1> SUFFICES ASSUME NEW e \in Seqs
             PROVE  /\ handed'[n][e] <= 1 + Failures'
                    /\ handed'[n][e] > Failures' =>
                         /\ e \in DOMAIN events'
                         /\ e \in Pending(n)' => e \in exec'[n].got
  BY <1>1 DEF NodeStep
<1> DEFINE h == handed[n][e]
<1>3. h \in Nat /\ h <= 1 + Failures
  BY DEF TypeInv, HandedInv
<1>4. h > Failures => e \in DOMAIN events /\ (e \in Pending(n) => e \in exec[n].got)
  BY DEF HandedInv
<1>5. CASE handed'[n][e] = h
  <2>1. handed'[n][e] <= 1 + Failures'
    BY <1>2, <1>3, <1>5
  <2>2. ASSUME handed'[n][e] > Failures'
        PROVE  e \in DOMAIN events' /\ (e \in Pending(n)' => e \in exec'[n].got)
    <3>1. h > Failures /\ ~(Failures < Failures')
      BY <1>2, <1>3, <1>5, <2>2
    <3>2. e \in DOMAIN events /\ (e \in Pending(n)' => e \in exec[n].got)
      BY <1>1, <1>4, <3>1, OldPending
    <3> QED BY <1>1, <3>1, <3>2 DEF NodeStep
  <2> QED BY <2>1, <2>2
<1>6. CASE /\ handed'[n][e] = h + 1
           /\ e \in Pending(n) \ exec[n].got /\ e \in exec'[n].got
  <2>1. ~(h > Failures) /\ e \in DOMAIN events
    BY <1>4, <1>6 DEF Pending
  <2>2. handed'[n][e] <= 1 + Failures'
    BY <1>2, <1>3, <1>6, <2>1
  <2> QED BY <1>1, <1>6, <2>1, <2>2
<1> QED BY <1>1, <1>5, <1>6 DEF NodeStep

LEMMA AnswersStay == TypeInv /\ AnswersInv /\ SmallStep => AnswersInv'
<1> SUFFICES ASSUME TypeInv, AnswersInv, SmallStep, NEW n \in Nodes, NEW e \in Seqs
             PROVE  /\ answers'[n][e] <= 1
                    /\ answers'[n][e] > 0 => e \in DOMAIN events' /\ e \notin Pending(n)'
  BY DEF AnswersInv
<1>1. EventsStep /\ NodeStep(n) /\ DOMAIN events \subseteq DOMAIN events'
  BY DEF SmallStep, ExecStep, EventsStep
<1> DEFINE a == answers[n][e]
<1>2. a \in Nat /\ a <= 1 /\ (a > 0 => e \in DOMAIN events /\ e \notin Pending(n))
  BY DEF TypeInv, AnswersInv
<1>3. CASE answers'[n][e] = a
  BY <1>1, <1>2, <1>3, OldPending
<1>4. CASE answers'[n][e] = a + 1 /\ e \in Pending(n) /\ e \notin Pending(n)'
  <2>1. a = 0 /\ e \in DOMAIN events
    BY <1>2, <1>4 DEF Pending
  <2> QED BY <1>1, <1>4, <2>1
<1> QED BY <1>1, <1>3, <1>4 DEF NodeStep

LEMMA OutboxInit == Init => OutboxInv
<1> SUFFICES ASSUME Init PROVE OutboxInv
  OBVIOUS
<1>1. /\ RecordOK(FreshRuntime) /\ Items(FreshRuntime) = {} /\ ExecOK(Parked)
      /\ ~FreshRuntime.delReq /\ FreshRuntime \in Runtime /\ Parked \in ExecType
      /\ Parked.got = {} /\ Parked.pc = "none"
  BY FreshOK DEF RecordOK, ExecOK, Parked
<1>2. /\ events = << >> /\ events \in Seq(Event) /\ Len(events) = 0 /\ DOMAIN events = {}
  BY EmptySeq DEF Init
<1>3. \A n : Pending(n) = {}
  BY <1>2 DEF Pending
<1>4. \A n \in Nodes : rec[n] = FreshRuntime /\ exec[n] = Parked /\ name[n] = 0
  BY DEF Init
<1>5. MaxEvents \in Nat /\ MaxCommands \in Nat
  BY OutboxBoundsAssumption
<1>6. \A n \in Nodes : NameOK(n)
  BY <1>1, <1>4 DEF NameOK, Init
<1>7. TypeInv
  <2>1. /\ members \subseteq Nodes /\ todo \subseteq Nodes /\ closed \in BOOLEAN
        /\ poll \subseteq Batch
    BY DEF Init
  <2>2. /\ commands \in Nat /\ commands <= MaxCommands /\ crashes \in Nat /\ faults \in Nat
        /\ Len(events) <= MaxEvents
    BY <1>2, <1>5 DEF Init
  <2>3. /\ name \in [Nodes -> Nat] /\ handed \in [Nodes -> [Seqs -> Nat]]
        /\ answers \in [Nodes -> [Seqs -> Nat]]
    BY DEF Init
  <2>4. rec \in [Nodes -> Runtime] /\ exec \in [Nodes -> ExecType]
    BY <1>1 DEF Init
  <2>5. \A n \in Nodes : /\ RecordOK(rec[n]) /\ ExecOK(exec[n])
                         /\ exec[n].got \subseteq DOMAIN events
    BY <1>1, <1>4
  <2> QED BY <1>2, <1>6, <2>1, <2>2, <2>3, <2>4, <2>5 DEF TypeInv
<1>8. PendingForMembers /\ AnchorInv
  BY <1>1, <1>3, <1>4 DEF PendingForMembers, AnchorInv, Init
<1>9. \A n \in Nodes : \A e \in Seqs : handed[n][e] = 0 /\ answers[n][e] = 0
  BY DEF Init
<1>10. HandedInv
  BY <1>1, <1>4, <1>9 DEF HandedInv, Failures, Init
<1>11. AnswersInv
  BY <1>9 DEF AnswersInv
<1> QED BY <1>7, <1>8, <1>10, <1>11 DEF OutboxInv

LEMMA OutboxStep == OutboxInv /\ [Next]_vars => OutboxInv' /\ SmallStep
<1> SUFFICES ASSUME OutboxInv, [Next]_vars PROVE OutboxInv' /\ SmallStep
  OBVIOUS
<1>1. SmallStep
  BY AnyStep DEF OutboxInv
<1> QED BY <1>1, TypesStay, MembersStay, AnchorsStay, HandedStays, AnswersStay DEF OutboxInv

LEMMA OutboxInvariant == Spec => []OutboxInv
BY OutboxInit, OutboxStep, PTL DEF Spec

-----------------------------------------------------------------------------
(* Theorems                                                                *)

\* The tables of groups.sqlite3, the nodes' queues and their executors are
\* well formed, for any number of nodes, roles and failures: an executor never
\* holds an event that is not in the table, one that runs, replies or reports
\* an error has events to do it for, and a node is not renamed more often than
\* it was asked to.
THEOREM OutboxTypes == Spec => []OutboxTypeOK
<1>1. OutboxInv => OutboxTypeOK
  <2> SUFFICES ASSUME OutboxInv PROVE OutboxTypeOK
    OBVIOUS
  <2>1. ASSUME NEW n \in Nodes PROVE name[n] \in 0..MaxCommands
    <3>1. /\ name[n] \in Nat /\ commands \in Nat /\ commands <= MaxCommands
          /\ MaxCommands \in Nat
          /\ IF rec[n].delReq THEN name[n] + 1 <= commands ELSE name[n] <= commands
      BY OutboxBoundsAssumption DEF OutboxInv, TypeInv, NameOK
    <3>2. name[n] <= commands
      BY <3>1
    <3> QED BY <3>1, <3>2
  <2>2. ASSUME NEW n \in Nodes
        PROVE  /\ exec[n].got \subseteq DOMAIN events
               /\ exec[n].pc \in {"logic", "reply", "notify"} => exec[n].got # {}
    BY DEF OutboxInv, TypeInv, ExecOK
  <2> QED BY <2>1, <2>2 DEF OutboxInv, TypeInv, OutboxTypeOK
<1> QED BY <1>1, OutboxInvariant, PTL

\* detach_member and dissolve cancel what waits, and events are only addressed
\* to members: no delivery ever waits for a node that is not a member.
THEOREM WaitsForMembers == Spec => []PendingForMembers
<1>1. OutboxInv => PendingForMembers
  BY DEF OutboxInv
<1> QED BY <1>1, OutboxInvariant, PTL

\* A notification reaches its node's logic once, and once more at most for
\* every crash or failed transaction: the executor that resolved it keeps it
\* until it is settled, and resolve and consume_followups hand out only what
\* is pending and not with the executor already.
THEOREM NotificationsOnce == Spec => []HandedOnce
<1>1. OutboxInv => HandedOnce
  BY DEF OutboxInv, HandedInv, HandedOnce, Failures, TypeInv
<1> QED BY <1>1, OutboxInvariant, PTL

\* complete(reply) writes the reply and the deliveries in one transaction, and
\* answers only what still waits: whatever is repeated, a request of the user
\* gets at most one reply of a member.
THEOREM RepliesOnce == Spec => []AnsweredOnce
<1>1. OutboxInv => AnsweredOnce
  BY DEF OutboxInv, AnswersInv, AnsweredOnce
<1> QED BY <1>1, OutboxInvariant, PTL

\* Two queue items of a node that would both wake it have the same anchor
\* when they are of one role, because both name the oldest event that waits,
\* and then the same request id, which append_pending refuses.
LEMMA SameAnchor ==
  ASSUME OutboxInv, NEW n \in Nodes, NEW i \in Items(rec[n]), NEW j \in Items(rec[n]),
         Wakes(n, i), Wakes(n, j), SameRole(i, j)
  PROVE  i = j
<1>1. /\ i \in Item /\ j \in Item /\ IsNotice(i) /\ IsNotice(j)
      /\ Oldest(n, i.trace[1]) /\ Oldest(n, j.trace[1])
  BY DEF OutboxInv, TypeInv, RecordOK, AnchorInv
<1>2. /\ i.trace \in Seqs \X (0..MaxCommands) /\ j.trace \in Seqs \X (0..MaxCommands)
      /\ i.trace[1] \in Nat /\ j.trace[1] \in Nat
  BY <1>1 DEF IsNotice, Seqs
<1>3. i.trace[1] <= j.trace[1] /\ j.trace[1] <= i.trace[1]
  BY <1>1 DEF Wakes, SameRole, Oldest
<1>4. i.trace[1] = j.trace[1] /\ i.trace[2] = j.trace[2]
  BY <1>2, <1>3 DEF Wakes
<1>5. i.trace = j.trace
  BY <1>2, <1>4
<1> QED BY <1>1, <1>5 DEF IsNotice, Item

\* However events, polls, stops, renames and crashes interleave, a node has at
\* most one useful wake-up per role, in its queue or in work.
THEOREM WakesOnce == Spec => []OneWakeup
<1>1. OutboxInv => OneWakeup
  <2> SUFFICES ASSUME OutboxInv, NEW n \in Nodes, NEW i \in DOMAIN rec[n].pending,
                      NEW j \in DOMAIN rec[n].pending, Wakes(n, rec[n].pending[i])
               PROVE  /\ /\ Wakes(n, rec[n].pending[j])
                         /\ SameRole(rec[n].pending[i], rec[n].pending[j])
                         => i = j
                      /\ Wakes(n, rec[n].inflight) =>
                           ~SameRole(rec[n].pending[i], rec[n].inflight)
    BY DEF OneWakeup
  <2>1. RecordOK(rec[n]) /\ rec[n] \in Runtime
    BY DEF OutboxInv, TypeInv
  <2>2. /\ rec[n].pending[i] \in Items(rec[n]) /\ rec[n].pending[j] \in Items(rec[n])
        /\ rec[n].inflight # NoItem => rec[n].inflight \in Items(rec[n])
    BY <2>1, Places
  <2>3. /\ rec[n].pending[i] = rec[n].pending[j] => i = j
        /\ rec[n].pending[i] # rec[n].inflight
    BY <2>1 DEF RecordOK, QueuedOnce
  <2>4. Wakes(n, rec[n].inflight) => rec[n].inflight \in Items(rec[n])
    BY <2>2 DEF Wakes
  <2> QED BY <2>2, <2>3, <2>4, SameAnchor
<1> QED BY <1>1, OutboxInvariant, PTL

\* No step of the group, the poller, an executor, a rename or a crash takes a
\* delivered or cancelled notification back.
THEOREM SettledForGood == Spec => SettledStays
<1>1. OutboxInv /\ [Next]_vars =>
        [\A e \in DOMAIN events : \A n \in Nodes :
           events[e].to[n] \in {"delivered", "cancelled"}
             => events'[e].to[n] = events[e].to[n]]_vars
  <2> SUFFICES ASSUME OutboxInv, [Next]_vars, NEW e \in DOMAIN events, NEW n \in Nodes,
                      events[e].to[n] \in {"delivered", "cancelled"}
               PROVE  events'[e].to[n] = events[e].to[n]
    OBVIOUS
  <2>1. EventsStep
    BY OutboxStep DEF SmallStep
  <2> QED BY <2>1 DEF EventsStep
<1> QED BY <1>1, OutboxInvariant, PTL DEF Spec, SettledStays
=============================================================================
