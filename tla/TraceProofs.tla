----------------------------- MODULE TraceProofs -----------------------------
(***************************************************************************)
(* A work item is handed to an executor at most once, and while it is in   *)
(* flight it has an owner.                                                 *)
(*                                                                         *)
(* A place is a node, a trace and a depth.  The invariant follows every    *)
(* place of a trace that is no key: from whoever may still put it into the *)
(* queue of its node, through that queue and the copies of the queue in    *)
(* config transactions, to the executor.  At any time it is at one of      *)
(* these stages at most, and only the first of them is ever entered anew.  *)
(***************************************************************************)
EXTENDS GraphRunnerProofs

Plain == Traces \ Keys

\* The nodes to which an iteration of n may pass its trace on.
Feeds(n) == Links[n] \cup (IF n \in GoalNodes THEN {n} ELSE {})

\* No node gets a trace from two nodes.  Otherwise it gets it twice by design.
OneSource ==
  \A n, k \in Nodes : \A m \in Nodes : m \in Feeds(n) /\ m \in Feeds(k) => n = k

-----------------------------------------------------------------------------
(* The stages of a place                                                   *)

Holds(s, r, d) == \E i \in DOMAIN s : s[i].trace = r /\ s[i].depth = d

\* In the queue of n, or in a copy of it that an executor will write back.
Queued(n, r, d) ==
  \/ Holds(rt[n].pending, r, d)
  \/ \E t \in Threads : th[t].node = n /\ Holds(th[t].snap.pending, r, d)

\* Handed to an executor, or about to be.
Begun(n, r, d) ==
  \E x \in started : x[1] = n /\ x[2].trace = r /\ x[2].depth = d

Used(n, r, d) == Queued(n, r, d) \/ Begun(n, r, d)

\* The steps of an iteration whose outputs are not decided yet.
Working == ThreadPc \ {"free", "propagate", "complete_empty", "return"}

\* Who may still pass trace r of depth d on from n to m: the scheduler that
\* will submit it, the executor, the held outputs of n...
SubmitSends(n, r, d, m) ==
  /\ spc = "submit" /\ cur = n /\ picked.trace = r /\ picked.depth = d
  /\ m \in Feeds(n)

ThreadSends(t, n, r, d, m) ==
  /\ th[t].node = n /\ th[t].item.trace = r /\ th[t].item.depth = d
  /\ \/ th[t].pc \in Working /\ m \in Feeds(n)
     \/ th[t].pc = "propagate" /\ m \in th[t].tasks

Sending(s, r, d, m) ==
  \E i \in DOMAIN s : s[i].trace = r /\ s[i].depth = d /\ m \in s[i].targets

NodeSends(n, r, d, m) ==
  \/ SubmitSends(n, r, d, m)
  \/ \E t \in Threads : ThreadSends(t, n, r, d, m)
  \/ Sending(rt[n].held, r, d, m)

\* ...and the API thread that resumed n.
ClientSends(c, n, r, d, m) == cl[c].node = n /\ Sending(cl[c].outs, r, d, m)

\* A message accepted by emit_graph that is not in the queue yet.
Emits(c, n, r) ==
  cl[c].pc = "emit_append" /\ cl[c].node = n /\ cl[c].item.trace = r

-----------------------------------------------------------------------------
(* The invariant                                                           *)

Distinct(s) ==
  \A i, j \in DOMAIN s :
    s[i].trace = s[j].trace /\ s[i].depth = s[j].depth /\ s[i].trace \in Plain
      => i = j

QueuesDistinct ==
  /\ \A n \in Nodes : Distinct(rt[n].pending)
  /\ \A t \in Threads : Distinct(th[t].snap.pending)

QueuedNotBegun ==
  \A n \in Nodes, r \in Plain, d \in Nat : Queued(n, r, d) => ~Begun(n, r, d)

\* Where the places come from: an emitted message or an iteration before.
Caused ==
  \A n \in Nodes, r \in Plain :
    /\ Used(n, r, 0) => r \in used
    /\ \A d \in Nat :
         Used(n, r, d + 1) => \E k \in Nodes : n \in Feeds(k) /\ Begun(k, r, d)

Sound(n, r, d, m) ==
  m \in Feeds(n) /\ Begun(n, r, d) /\ ~Used(m, r, d + 1)

NodesSound ==
  \A n, m \in Nodes, r \in Plain, d \in Nat :
    NodeSends(n, r, d, m) => Sound(n, r, d, m)

ClientsSound ==
  \A c \in Clients, n, m \in Nodes, r \in Plain, d \in Nat :
    ClientSends(c, n, r, d, m) =>
      /\ Sound(n, r, d, m) /\ ~NodeSends(n, r, d, m)
      /\ \A e \in Clients : ClientSends(e, n, r, d, m) => e = c

EmitsSound ==
  \A c \in Clients, n \in Nodes, r \in Plain :
    Emits(c, n, r) =>
      /\ r \in used /\ ~Used(n, r, 0)
      /\ \A e \in Clients, k \in Nodes : Emits(e, k, r) => e = c

TraceInv == /\ QueuesDistinct /\ QueuedNotBegun /\ Caused
            /\ NodesSound /\ ClientsSound /\ EmitsSound

-----------------------------------------------------------------------------
(* What a step may do to the stages                                        *)

KeepsQueued ==
  \A n \in Nodes, r \in Plain, d \in Nat : Queued(n, r, d)' => Queued(n, r, d)
KeepsNodes ==
  \A n, m \in Nodes, r \in Plain, d \in Nat :
    NodeSends(n, r, d, m)' => NodeSends(n, r, d, m)
KeepsClients ==
  \A c \in Clients, n, m \in Nodes, r \in Plain, d \in Nat :
    ClientSends(c, n, r, d, m)' => ClientSends(c, n, r, d, m)
KeepsEmits ==
  \A c \in Clients, n \in Nodes, r \in Plain : Emits(c, n, r)' => Emits(c, n, r)

\* What enters a queue at depth 0 was emitted, and what begins was queued.
Grows ==
  /\ used \subseteq used'
  /\ \A n \in Nodes, r \in Plain, d \in Nat : Begun(n, r, d)' => Used(n, r, d)
  /\ \A n \in Nodes, r \in Plain :
       Used(n, r, 0)' => Used(n, r, 0) \/ \E c \in Clients : Emits(c, n, r)
  /\ \A c \in Clients, n \in Nodes, r \in Plain :
       Emits(c, n, r)' => Emits(c, n, r) \/ r \notin used

TraceStep == TraceInv' /\ Grows

LEMMA SameBegun ==
  ASSUME started' = started
  PROVE  \A n, r, d : Begun(n, r, d)' <=> Begun(n, r, d)
BY DEF Begun

\* Nothing moves on, or less can.
LEMMA KeepTraces ==
  ASSUME TraceInv, QueuesDistinct', started' = started, used \subseteq used',
         KeepsQueued, KeepsNodes, KeepsClients, KeepsEmits
  PROVE  TraceStep
<1>1. \A n, r, d : Begun(n, r, d)' <=> Begun(n, r, d)
  BY SameBegun
<1>2. \A n \in Nodes, r \in Plain, d \in Nat : Used(n, r, d)' => Used(n, r, d)
  BY <1>1 DEF Used, KeepsQueued
<1>3. \A n, m \in Nodes, r \in Plain, d \in Nat : Sound(n, r, d, m) => Sound(n, r, d, m)'
  <2>1. \A d \in Nat : d + 1 \in Nat
    OBVIOUS
  <2> QED BY <1>1, <1>2, <2>1 DEF Sound
<1>4. QueuedNotBegun'
  BY <1>1 DEF TraceInv, QueuedNotBegun, KeepsQueued
<1>5. Caused'
  <2>1. 0 \in Nat /\ \A d \in Nat : d + 1 \in Nat
    OBVIOUS
  <2> QED BY <1>1, <1>2, <2>1 DEF TraceInv, Caused
<1>6. NodesSound'
  BY <1>3 DEF TraceInv, NodesSound, KeepsNodes
<1>7. ClientsSound'
  BY <1>3 DEF TraceInv, ClientsSound, KeepsNodes, KeepsClients
<1>8. EmitsSound'
  BY <1>2 DEF TraceInv, EmitsSound, KeepsEmits
<1>9. 0 \in Nat
  OBVIOUS
<1>10. Grows
  BY <1>9, <1>1, <1>2 DEF Grows, Used, KeepsEmits
<1> QED BY <1>4, <1>5, <1>6, <1>7, <1>8, <1>10 DEF TraceInv, TraceStep

\* An iteration or a resumed output is passed on to m: nobody can pass it on
\* to m again, because nobody else could before.
LEMMA SendTraces ==
  ASSUME TraceInv, OneSource, QueuesDistinct', started' = started, used' = used,
         KeepsNodes, KeepsClients, KeepsEmits,
         NEW n \in Nodes, NEW m \in Nodes, NEW r \in Plain, NEW d \in Nat,
         Sound(n, r, d, m),
         ~NodeSends(n, r, d, m)',
         \A c \in Clients : ~ClientSends(c, n, r, d, m)',
         \A k \in Nodes, q \in Plain, e \in Nat :
           Queued(k, q, e)' => Queued(k, q, e) \/ (k = m /\ q = r /\ e = d + 1)
  PROVE  TraceStep
<1>0. 0 \in Nat /\ \A e \in Nat : e + 1 \in Nat /\ e + 1 # 0
      /\ \A f \in Nat : f + 1 = e + 1 => f = e
  OBVIOUS
<1>1. \A k, q, e : Begun(k, q, e)' <=> Begun(k, q, e)
  BY SameBegun
<1>2. \A k \in Nodes, q \in Plain, e \in Nat :
        Used(k, q, e)' => Used(k, q, e) \/ (k = m /\ q = r /\ e = d + 1)
  BY <1>1 DEF Used
<1>3. \A k, j \in Nodes, q \in Plain, e \in Nat :
        Sound(k, q, e, j) => Sound(k, q, e, j)' \/ (k = n /\ j = m /\ q = r /\ e = d)
  <2> SUFFICES ASSUME NEW k \in Nodes, NEW j \in Nodes, NEW q \in Plain, NEW e \in Nat,
                      Sound(k, q, e, j), ~(k = n /\ j = m /\ q = r /\ e = d)
               PROVE  Sound(k, q, e, j)'
    OBVIOUS
  <2>1. j \in Feeds(k) /\ Begun(k, q, e)' /\ ~Used(j, q, e + 1)
    BY <1>1 DEF Sound
  <2>2. j = m => k = n
    BY <2>1 DEF Sound, OneSource
  <2>3. ~Used(j, q, e + 1)'
    BY <1>0, <1>2, <2>1, <2>2
  <2> QED BY <2>1, <2>3 DEF Sound
<1>4. QueuedNotBegun'
  BY <1>1 DEF TraceInv, QueuedNotBegun, Sound, Used
<1>5. Caused'
  <2>1. \A k \in Nodes, q \in Plain : Used(k, q, 0)' => q \in used'
    BY <1>0, <1>2 DEF TraceInv, Caused
  <2>2. ASSUME NEW k \in Nodes, NEW q \in Plain, NEW e \in Nat, Used(k, q, e + 1)'
        PROVE  \E j \in Nodes : k \in Feeds(j) /\ Begun(j, q, e)'
    <3>1. Used(k, q, e + 1) \/ (k = m /\ q = r /\ e = d)
      BY <1>0, <1>2, <2>2
    <3> QED BY <1>1, <3>1 DEF TraceInv, Caused, Sound
  <2> QED BY <2>1, <2>2 DEF Caused
<1>6. NodesSound'
  BY <1>3 DEF TraceInv, NodesSound, KeepsNodes
<1>7. ClientsSound'
  BY <1>3 DEF TraceInv, ClientsSound, KeepsNodes, KeepsClients
<1>8. EmitsSound'
  <2>1. \A k \in Nodes, q \in Plain : Used(k, q, 0)' => Used(k, q, 0)
    BY <1>0, <1>2
  <2> QED BY <2>1 DEF TraceInv, EmitsSound, KeepsEmits
<1>10. Grows
  BY <1>0, <1>1, <1>2 DEF Grows, Used, KeepsEmits
<1> QED BY <1>4, <1>5, <1>6, <1>7, <1>8, <1>10 DEF TraceInv, TraceStep

\* An emitted message enters the queue of its node.
LEMMA EmitTraces ==
  ASSUME TraceInv, QueuesDistinct', started' = started, used' = used,
         KeepsNodes, KeepsClients, KeepsEmits,
         NEW c \in Clients, NEW n \in Nodes, NEW r \in Plain, Emits(c, n, r),
         \A k \in Nodes : ~Emits(c, k, r)',
         \A k \in Nodes, q \in Plain, e \in Nat :
           Queued(k, q, e)' => Queued(k, q, e) \/ (k = n /\ q = r /\ e = 0)
  PROVE  TraceStep
<1>0. 0 \in Nat /\ \A e \in Nat : e + 1 \in Nat /\ e + 1 # 0
  OBVIOUS
<1>1. \A k, q, e : Begun(k, q, e)' <=> Begun(k, q, e)
  BY SameBegun
<1>2. \A k \in Nodes, q \in Plain, e \in Nat :
        Used(k, q, e)' => Used(k, q, e) \/ (k = n /\ q = r /\ e = 0)
  BY <1>1 DEF Used
<1>3. \A k, j \in Nodes, q \in Plain, e \in Nat : Sound(k, q, e, j) => Sound(k, q, e, j)'
  BY <1>0, <1>1, <1>2 DEF Sound
<1>a. r \in used /\ ~Used(n, r, 0)
      /\ \A e \in Clients, k \in Nodes : Emits(e, k, r) => e = c
  BY DEF TraceInv, EmitsSound
<1>4. QueuedNotBegun'
  BY <1>1, <1>a DEF TraceInv, QueuedNotBegun, Used
<1>5. Caused'
  BY <1>0, <1>1, <1>2, <1>a DEF TraceInv, Caused
<1>6. NodesSound'
  BY <1>3 DEF TraceInv, NodesSound, KeepsNodes
<1>7. ClientsSound'
  BY <1>3 DEF TraceInv, ClientsSound, KeepsNodes, KeepsClients
<1>8. EmitsSound'
  <2> SUFFICES ASSUME NEW e \in Clients, NEW k \in Nodes, NEW q \in Plain, Emits(e, k, q)'
               PROVE  /\ q \in used' /\ ~Used(k, q, 0)'
                      /\ \A f \in Clients, j \in Nodes : Emits(f, j, q)' => f = e
    BY DEF EmitsSound
  <2>1. Emits(e, k, q) /\ q \in used /\ ~Used(k, q, 0)
        /\ \A f \in Clients, j \in Nodes : Emits(f, j, q) => f = e
    BY DEF KeepsEmits, TraceInv, EmitsSound
  <2>2. q # r
    BY <1>a, <2>1
  <2> QED BY <1>0, <1>2, <2>1, <2>2 DEF KeepsEmits
<1>10. Grows
  BY <1>0, <1>1, <1>2 DEF Grows, Used, KeepsEmits
<1> QED BY <1>4, <1>5, <1>6, <1>7, <1>8, <1>10 DEF TraceInv, TraceStep

\* emit_graph gives a message a trace that was never used.
LEMMA NewTrace ==
  ASSUME TraceInv, QueuesDistinct', started' = started,
         KeepsQueued, KeepsNodes, KeepsClients,
         NEW c \in Clients, NEW n \in Nodes, NEW r \in Plain,
         r \notin used, used' = used \cup {r},
         \A e \in Clients, k \in Nodes, q \in Plain :
           Emits(e, k, q)' => Emits(e, k, q) \/ (e = c /\ k = n /\ q = r)
  PROVE  TraceStep
<1>0. 0 \in Nat /\ \A e \in Nat : e + 1 \in Nat
  OBVIOUS
<1>1. \A k, q, e : Begun(k, q, e)' <=> Begun(k, q, e)
  BY SameBegun
<1>2. \A k \in Nodes, q \in Plain, e \in Nat : Used(k, q, e)' => Used(k, q, e)
  BY <1>1 DEF Used, KeepsQueued
<1>3. \A k, j \in Nodes, q \in Plain, e \in Nat : Sound(k, q, e, j) => Sound(k, q, e, j)'
  BY <1>0, <1>1, <1>2 DEF Sound
<1>4. QueuedNotBegun'
  BY <1>1 DEF TraceInv, QueuedNotBegun, KeepsQueued
<1>5. Caused'
  BY <1>0, <1>1, <1>2 DEF TraceInv, Caused
<1>6. NodesSound'
  BY <1>3 DEF TraceInv, NodesSound, KeepsNodes
<1>7. ClientsSound'
  BY <1>3 DEF TraceInv, ClientsSound, KeepsNodes, KeepsClients
<1>8. EmitsSound'
  <2>1. \A e \in Clients, k \in Nodes : ~Emits(e, k, r) /\ ~Used(k, r, 0)
    BY DEF TraceInv, EmitsSound, Caused
  <2> QED BY <1>0, <1>2, <2>1 DEF TraceInv, EmitsSound
<1>10. Grows
  BY <1>0, <1>1, <1>2 DEF Grows, Used
<1> QED BY <1>4, <1>5, <1>6, <1>7, <1>8, <1>10 DEF TraceInv, TraceStep

\* The held outputs of n go to the API thread that resumes it.
LEMMA ReleaseTraces ==
  ASSUME TraceInv, QueuesDistinct', started' = started, used' = used,
         KeepsQueued, KeepsNodes, KeepsEmits, NEW c \in Clients,
         \A e \in Clients, k, m \in Nodes, q \in Plain, d \in Nat :
           ClientSends(e, k, q, d, m)' =>
             \/ ClientSends(e, k, q, d, m)
             \/ e = c /\ NodeSends(k, q, d, m) /\ ~NodeSends(k, q, d, m)'
  PROVE  TraceStep
<1>0. 0 \in Nat /\ \A e \in Nat : e + 1 \in Nat
  OBVIOUS
<1>1. \A k, q, e : Begun(k, q, e)' <=> Begun(k, q, e)
  BY SameBegun
<1>2. \A k \in Nodes, q \in Plain, e \in Nat : Used(k, q, e)' => Used(k, q, e)
  BY <1>1 DEF Used, KeepsQueued
<1>3. \A k, j \in Nodes, q \in Plain, e \in Nat : Sound(k, q, e, j) => Sound(k, q, e, j)'
  BY <1>0, <1>1, <1>2 DEF Sound
<1>4. QueuedNotBegun'
  BY <1>1 DEF TraceInv, QueuedNotBegun, KeepsQueued
<1>5. Caused'
  BY <1>0, <1>1, <1>2 DEF TraceInv, Caused
<1>6. NodesSound'
  BY <1>3 DEF TraceInv, NodesSound, KeepsNodes
<1>7. ClientsSound'
  <2> SUFFICES ASSUME NEW e \in Clients, NEW k \in Nodes, NEW m \in Nodes,
                      NEW q \in Plain, NEW d \in Nat, ClientSends(e, k, q, d, m)'
               PROVE  /\ Sound(k, q, d, m)' /\ ~NodeSends(k, q, d, m)'
                      /\ \A f \in Clients : ClientSends(f, k, q, d, m)' => f = e
    BY DEF ClientsSound
  <2>1. CASE ClientSends(e, k, q, d, m)
    BY <1>3, <2>1 DEF TraceInv, ClientsSound, KeepsNodes
  <2>2. CASE e = c /\ NodeSends(k, q, d, m) /\ ~NodeSends(k, q, d, m)'
    BY <1>3, <2>2 DEF TraceInv, ClientsSound, NodesSound
  <2> QED BY <2>1, <2>2
<1>8. EmitsSound'
  BY <1>0, <1>2 DEF TraceInv, EmitsSound, KeepsEmits
<1>10. Grows
  BY <1>0, <1>1, <1>2 DEF Grows, Used, KeepsEmits
<1> QED BY <1>4, <1>5, <1>6, <1>7, <1>8, <1>10 DEF TraceInv, TraceStep

\* dequeue_pending_to_working: what follows from the item was not there yet,
\* because what follows from it comes from it alone.
LEMMA BeginTraces ==
  ASSUME TraceInv, OneSource, QueuesDistinct', used' = used,
         KeepsQueued, KeepsClients, KeepsEmits,
         NEW n \in Nodes, NEW r \in Traces, NEW d \in Nat, Queued(n, r, d),
         r \in Plain => ~Queued(n, r, d)',
         \A k, q, e : Begun(k, q, e)' <=> Begun(k, q, e) \/ (k = n /\ q = r /\ e = d),
         \A k, m \in Nodes, q \in Plain, e \in Nat :
           NodeSends(k, q, e, m)' =>
             NodeSends(k, q, e, m) \/ (k = n /\ q = r /\ e = d /\ m \in Feeds(n))
  PROVE  TraceStep
<1>0. 0 \in Nat /\ \A e \in Nat : e + 1 \in Nat /\ e + 1 # e
  OBVIOUS
<1>1. \A k \in Nodes, q \in Plain, e \in Nat : Used(k, q, e)' => Used(k, q, e)
  BY DEF Used, KeepsQueued
<1>2. \A k, j \in Nodes, q \in Plain, e \in Nat : Sound(k, q, e, j) => Sound(k, q, e, j)'
  BY <1>0, <1>1 DEF Sound
<1>3. ASSUME r \in Plain, NEW m \in Nodes, m \in Feeds(n)
      PROVE  Sound(n, r, d, m)' /\ \A c \in Clients : ~ClientSends(c, n, r, d, m)
  <2>1. ~Begun(n, r, d)
    BY <1>3 DEF TraceInv, QueuedNotBegun
  <2>2. ~Used(m, r, d + 1)
    BY <1>3, <2>1 DEF TraceInv, Caused, OneSource
  <2>3. ~Used(m, r, d + 1)'
    BY <1>0, <1>1, <1>3, <2>2
  <2> QED BY <1>3, <2>1, <2>3 DEF Sound, TraceInv, ClientsSound
<1>4. QueuedNotBegun'
  BY DEF TraceInv, QueuedNotBegun, KeepsQueued
<1>5. Caused'
  BY <1>0, <1>1 DEF TraceInv, Caused
<1>6. NodesSound'
  BY <1>2, <1>3 DEF TraceInv, NodesSound
<1>7. ClientsSound'
  <2> SUFFICES ASSUME NEW c \in Clients, NEW k \in Nodes, NEW m \in Nodes,
                      NEW q \in Plain, NEW e \in Nat, ClientSends(c, k, q, e, m)'
               PROVE  /\ Sound(k, q, e, m)' /\ ~NodeSends(k, q, e, m)'
                      /\ \A f \in Clients : ClientSends(f, k, q, e, m)' => f = c
    BY DEF ClientsSound
  <2>1. ClientSends(c, k, q, e, m) /\ Sound(k, q, e, m) /\ ~NodeSends(k, q, e, m)
        /\ \A f \in Clients : ClientSends(f, k, q, e, m) => f = c
    BY DEF KeepsClients, TraceInv, ClientsSound
  <2> QED BY <1>2, <1>3, <2>1 DEF KeepsClients
<1>8. EmitsSound'
  BY <1>0, <1>1 DEF TraceInv, EmitsSound, KeepsEmits
<1>10. Grows
  BY <1>0, <1>1 DEF Grows, Used, KeepsEmits
<1> QED BY <1>4, <1>5, <1>6, <1>7, <1>8, <1>10 DEF TraceInv, TraceStep

-----------------------------------------------------------------------------
(* What the store operations do to a queue and to held outputs             *)

Thins(s, q) ==
  /\ \A r \in Plain, d \in Nat : Holds(q, r, d) => Holds(s, r, d)
  /\ Distinct(s) => Distinct(q)

Thin(r, q) ==
  /\ Thins(r.pending, q.pending)
  /\ q.held = r.held \/ q.held = << >>

LEMMA EmptyThins == ASSUME NEW s PROVE Thins(s, << >>)
BY DEF Thins, Holds, Distinct

LEMMA SameThins == ASSUME NEW s PROVE Thins(s, s)
BY DEF Thins

LEMMA TailThins ==
  ASSUME NEW s \in Seq(Item), s # << >>
  PROVE  /\ Thins(s, Tail(s))
         /\ Holds(s, Head(s).trace, Head(s).depth)
         /\ Distinct(s) /\ Head(s).trace \in Plain
              => ~Holds(Tail(s), Head(s).trace, Head(s).depth)
<1>1. /\ Len(s) \in Nat \ {0} /\ DOMAIN s = 1..Len(s)
      /\ DOMAIN Tail(s) = 1..(Len(s) - 1)
      /\ \A i \in 1..(Len(s) - 1) : Tail(s)[i] = s[i + 1]
      /\ Head(s) = s[1]
  <2>1. /\ Tail(s) \in Seq(Item) /\ Len(Tail(s)) = Len(s) - 1
        /\ \A i \in 1..Len(Tail(s)) : Tail(s)[i] = s[i + 1]
    BY HeadTailProperties
  <2>2. Len(s) \in Nat \ {0} /\ DOMAIN s = 1..Len(s)
    BY EmptySeq, LenProperties
  <2>3. DOMAIN Tail(s) = 1..Len(Tail(s))
    BY <2>1, LenProperties
  <2>4. Head(s) = s[1]
    OBVIOUS
  <2> QED BY <2>1, <2>2, <2>3, <2>4
<1>2. \A i \in DOMAIN Tail(s) : i + 1 \in DOMAIN s /\ i + 1 # 1 /\ i \in Nat
  BY <1>1
<1>3. \A i, j \in DOMAIN Tail(s) : i + 1 = j + 1 => i = j
  BY <1>2
<1>4. Thins(s, Tail(s))
  <2>1. \A r \in Plain, d \in Nat : Holds(Tail(s), r, d) => Holds(s, r, d)
    BY <1>1, <1>2 DEF Holds
  <2>2. ASSUME Distinct(s) PROVE Distinct(Tail(s))
    <3> SUFFICES ASSUME NEW i \in DOMAIN Tail(s), NEW j \in DOMAIN Tail(s),
                        Tail(s)[i].trace = Tail(s)[j].trace,
                        Tail(s)[i].depth = Tail(s)[j].depth, Tail(s)[i].trace \in Plain
                 PROVE  i = j
      BY DEF Distinct
    <3>1. i + 1 = j + 1
      BY <1>1, <1>2, <2>2 DEF Distinct
    <3> QED BY <1>3, <3>1
  <2> QED BY <2>1, <2>2 DEF Thins
<1>5. 1 \in DOMAIN s
  BY <1>1
<1>6. Holds(s, Head(s).trace, Head(s).depth)
  BY <1>1, <1>5 DEF Holds
<1>7. ASSUME Distinct(s), Head(s).trace \in Plain,
             Holds(Tail(s), Head(s).trace, Head(s).depth)
      PROVE  FALSE
  <2>1. PICK i \in DOMAIN Tail(s) : Tail(s)[i].trace = Head(s).trace
                                    /\ Tail(s)[i].depth = Head(s).depth
    BY <1>7 DEF Holds
  <2>2. i + 1 = 1
    BY <1>1, <1>2, <1>5, <1>7, <2>1 DEF Distinct
  <2> QED BY <1>2, <2>2
<1> QED BY <1>4, <1>6, <1>7

LEMMA RemainingThins ==
  ASSUME NEW s \in Seq(Item)
  PROVE  Thins(s, Remaining(s))
<1> DEFINE q == Remaining(s)
<1>1. PICK f \in [DOMAIN q -> Stay(s)] :
        /\ \A k \in DOMAIN q : q[k] = s[f[k]]
        /\ \A j, k \in DOMAIN q : j < k => f[j] < f[k]
  BY RemainingInOrder
<1>2. DOMAIN q \subseteq Nat /\ Stay(s) \subseteq DOMAIN s /\ DOMAIN s \subseteq Nat
  <2>1. q \in Seq(Item)
    BY RemainingType
  <2>2. DOMAIN q = 1..Len(q) /\ DOMAIN s = 1..Len(s)
    BY <2>1, LenProperties
  <2> HIDE DEF q
  <2> QED BY <2>2 DEF Stay
<1> HIDE DEF q
<1>3. \A r \in Plain, d \in Nat : Holds(q, r, d) => Holds(s, r, d)
  BY <1>1, <1>2 DEF Holds
<1>4. ASSUME Distinct(s) PROVE Distinct(q)
  <2> SUFFICES ASSUME NEW i \in DOMAIN q, NEW j \in DOMAIN q,
                      q[i].trace = q[j].trace, q[i].depth = q[j].depth,
                      q[i].trace \in Plain
               PROVE  i = j
    BY DEF Distinct
  <2>1. f[i] = f[j]
    BY <1>1, <1>2, <1>4 DEF Distinct
  <2>2. i \in Nat /\ j \in Nat /\ f[i] \in Nat /\ f[j] \in Nat
    BY <1>1, <1>2
  <2> QED BY <1>1, <2>1, <2>2
<1> QED BY <1>3, <1>4 DEF Thins, q

LEMMA AppendHolds ==
  ASSUME NEW s \in Seq(Item), NEW it \in Item
  PROVE  /\ \A r, d : Holds(Append(s, it), r, d)
                        => Holds(s, r, d) \/ (it.trace = r /\ it.depth = d)
         /\ Distinct(s) /\ (it.trace \in Plain => ~Holds(s, it.trace, it.depth))
              => Distinct(Append(s, it))
<1> DEFINE q == Append(s, it)
           N == Len(s)
<1>1. /\ N \in Nat /\ DOMAIN s = 1..N /\ DOMAIN q = 1..(N + 1)
      /\ \A i \in 1..N : q[i] = s[i]
      /\ q[N + 1] = it
  <2>1. q \in Seq(Item) /\ Len(q) = N + 1 /\ (\A i \in 1..N : q[i] = s[i]) /\ q[N + 1] = it
    BY AppendProperties
  <2>2. N \in Nat /\ DOMAIN s = 1..N /\ DOMAIN q = 1..Len(q)
    BY <2>1, LenProperties
  <2> QED BY <2>1, <2>2
<1> HIDE DEF q, N
<1>2. \A i \in DOMAIN q : i \in DOMAIN s \/ i = N + 1
  BY <1>1
<1>3. \A r, d : Holds(q, r, d) => Holds(s, r, d) \/ (it.trace = r /\ it.depth = d)
  BY <1>1, <1>2 DEF Holds
<1>4. ASSUME Distinct(s), it.trace \in Plain => ~Holds(s, it.trace, it.depth)
      PROVE  Distinct(q)
  BY <1>1, <1>2, <1>4 DEF Distinct, Holds
<1> QED BY <1>3, <1>4 DEF q

\* Every operation that does not add an item or an output.
LEMMA OperationsThin ==
  ASSUME NEW r \in Runtime
  PROVE  /\ Thin(r, r)
         /\ \A s : Thin(r, UpdateState(r, s))
         /\ Thin(r, TransitionToIdle(r))
         /\ Thin(r, PopPending(r))
         /\ Thin(r, CancelWork(r))
         /\ Thin(r, FinishStopRequested(r))
         /\ Thin(r, ConsumeMidTurnInputs(r))
         /\ Thin(r, MarkDeleteRequested(r))
         /\ Thin(r, ClearDeleteRequested(r))
         /\ Thin(r, ClearInflight(r))
         /\ Thin(r, RecoverStaleWorking(r))
         /\ Thin(r, Resume(r))
         /\ Thin(r, FreshRuntime)
         /\ Thin(r, DequeueToWorking(r))
         /\ \A tr : Thin(r, RecordCompletion(r, tr))
<1>1. /\ Thins(r.pending, r.pending) /\ Thins(r.pending, << >>)
      /\ Thins(r.pending, Remaining(r.pending))
      /\ r.pending # << >> => Thins(r.pending, Tail(r.pending))
  BY SameThins, EmptyThins, RemainingThins, TailThins DEF Runtime
<1>2. /\ Thin(r, r)
      /\ \A s : Thin(r, UpdateState(r, s))
      /\ Thin(r, TransitionToIdle(r))
      /\ Thin(r, FinishStopRequested(r))
      /\ Thin(r, ClearDeleteRequested(r))
  BY <1>1 DEF Thin, Runtime, UpdateState, TransitionToIdle, FinishStopRequested,
              ClearDeleteRequested
<1>3. /\ Thin(r, ClearInflight(r))
      /\ Thin(r, RecoverStaleWorking(r))
      /\ Thin(r, Resume(r))
      /\ Thin(r, FreshRuntime)
      /\ \A tr : Thin(r, RecordCompletion(r, tr))
  BY <1>1 DEF Thin, Runtime, ClearInflight, RecoverStaleWorking, Resume, FreshRuntime,
              RecordCompletion
<1>4. /\ Thin(r, CancelWork(r))
      /\ Thin(r, MarkDeleteRequested(r))
      /\ Thin(r, PopPending(r))
      /\ Thin(r, DequeueToWorking(r))
      /\ Thin(r, ConsumeMidTurnInputs(r))
  BY <1>1 DEF Thin, Runtime, CancelWork, MarkDeleteRequested, PopPending,
              DequeueToWorking, CanDequeue, ConsumeMidTurnInputs
<1> QED BY <1>2, <1>3, <1>4

-----------------------------------------------------------------------------
(* Held outputs.  An iteration only begins when nothing is held, and only  *)
(* its last step holds something, so there is never more than one held     *)
(* output, and never one beside an iteration that is still working.        *)

NoRoutes == \A n \in Nodes : Links[n] = {}

AtMostOne(s) == s = << >> \/ \E x \in Output : s = <<x>>

ThreadShape(t) ==
  /\ th[t].snap.held = << >>
  /\ th[t].pc \notin {"free", "return"} => rt[th[t].node].held = << >>
  /\ th[t].pc \in {"goal_write", "goal_next"} => th[t].node \in GoalNodes
  /\ th[t].pc = "free" => th[t].node = NoNode

NodeShape(n) == AtMostOne(rt[n].held) /\ (NoRoutes => rt[n].held = << >>)

ClientShape(c) ==
  /\ AtMostOne(cl[c].outs)
  /\ cl[c].pc = "emit_append" => cl[c].item.depth = 0 /\ cl[c].item.trace \in Plain

ShapeInv ==
  /\ \A n \in Nodes : NodeShape(n)
  /\ \A t \in Threads : ThreadShape(t)
  /\ \A c \in Clients : ClientShape(c)
  /\ spc = "submit" => rt[cur].held = << >>

-----------------------------------------------------------------------------
(* Quiet steps: what they leave of every stage was there before            *)

QuietHeld == \A n \in Nodes : rt'[n].held = rt[n].held \/ rt'[n].held = << >>

QuietQueues ==
  \A n \in Nodes :
    /\ Distinct(rt'[n].pending)
    /\ \A r \in Plain, d \in Nat : Holds(rt'[n].pending, r, d) => Queued(n, r, d)

\* An executor that is the same, that ends, or that goes on without reaching
\* its outputs, reaches them, or gets rid of one.
ThreadQuiet(t) ==
  \/ th'[t] = FreeThread
  \/ /\ th'[t].node = th[t].node /\ th'[t].item = th[t].item
     /\ \/ th'[t].snap = th[t].snap
        \/ th'[t].snap = FreshRuntime
        \/ th'[t].snap = rt[th[t].node] /\ th[t].pc \in Working
     /\ \/ th'[t].pc = th[t].pc /\ th'[t].tasks \subseteq th[t].tasks
        \/ th'[t].pc \in {"return", "complete_empty"} /\ th[t].pc \notin {"free", "return"}
        \/ /\ th[t].pc \in Working /\ th'[t].pc \in Working
           /\ th'[t].pc \in {"goal_write", "goal_next"} => th[t].node \in GoalNodes
        \/ /\ th[t].pc \in Working /\ th'[t].pc = "propagate"
           /\ th'[t].tasks \subseteq Links[th[t].node]

QuietThreads == \A t \in Threads : ThreadQuiet(t)

\* An output that has reached one of its targets.
Reached(s, q) ==
  \E x, y \in Output :
    /\ s = <<x>> /\ q = <<y>>
    /\ y.trace = x.trace /\ y.depth = x.depth /\ y.targets \subseteq x.targets

ClientQuiet(c) ==
  /\ \/ cl'[c].outs = << >>
     \/ /\ cl'[c].node = cl[c].node
        /\ cl'[c].outs = cl[c].outs \/ Reached(cl[c].outs, cl'[c].outs)
  /\ cl'[c].pc = "emit_append" =>
       cl[c].pc = "emit_append" /\ cl'[c].node = cl[c].node /\ cl'[c].item = cl[c].item

QuietClients == \A c \in Clients : ClientQuiet(c)

QuietSched == spc' = "submit" => UNCHANGED <<spc, cur, picked>>

Quiet == /\ QuietHeld /\ QuietQueues /\ QuietThreads /\ QuietClients /\ QuietSched
         /\ started' = started /\ used \subseteq used'

LEMMA QuietThreadShape ==
  ASSUME TypeOK, ShapeInv, QuietHeld, NEW t \in Threads, ThreadQuiet(t)
  PROVE  ThreadShape(t)'
<1>1. CASE th'[t] = FreeThread
  BY <1>1 DEF ThreadShape, FreeThread, FreshRuntime
<1>2. CASE th'[t] # FreeThread
  <2>1. ThreadShape(t) /\ (Live(t) => th[t].node \in Nodes)
    BY DEF ShapeInv, TypeOK, ThreadsOK
  <2>2. th'[t].snap.held = << >>
    BY <1>2, <2>1 DEF ThreadQuiet, ThreadShape, FreshRuntime, Working
  <2>3. ASSUME th'[t].pc \notin {"free", "return"} PROVE rt'[th'[t].node].held = << >>
    <3>1. th'[t].node = th[t].node /\ th[t].pc \notin {"free", "return"}
      BY <1>2, <2>3 DEF ThreadQuiet, Working
    <3>2. th[t].node \in Nodes /\ rt[th[t].node].held = << >>
      BY <2>1, <3>1 DEF ThreadShape, Live
    <3> QED BY <3>1, <3>2 DEF QuietHeld
  <2>4. th'[t].pc \in {"goal_write", "goal_next"} => th'[t].node \in GoalNodes
    BY <1>2, <2>1 DEF ThreadQuiet, ThreadShape
  <2>5. th'[t].pc = "free" => th'[t].node = NoNode
    BY <1>2, <2>1 DEF ThreadQuiet, ThreadShape, Working
  <2> QED BY <2>2, <2>3, <2>4, <2>5 DEF ThreadShape
<1> QED BY <1>1, <1>2

LEMMA QuietShape ==
  ASSUME TypeOK, ShapeInv, QuietHeld, QuietThreads, QuietClients, QuietSched
  PROVE  ShapeInv'
<1>1. \A n \in Nodes : NodeShape(n)'
  BY DEF ShapeInv, NodeShape, QuietHeld, AtMostOne, NoRoutes
<1>2. \A t \in Threads : ThreadShape(t)'
  BY QuietThreadShape DEF QuietThreads
<1>3. \A c \in Clients : ClientShape(c)'
  BY DEF ShapeInv, ClientShape, QuietClients, ClientQuiet, AtMostOne, Reached
<1>4. spc' = "submit" => rt'[cur'].held = << >>
  BY DEF QuietSched, ShapeInv, QuietHeld, TypeOK, SchedulerOK
<1> QED BY <1>1, <1>2, <1>3, <1>4 DEF ShapeInv

LEMMA QuietSends ==
  ASSUME NEW t \in Threads, ThreadQuiet(t), NEW n, NEW r, NEW d, NEW m,
         ThreadSends(t, n, r, d, m)'
  PROVE  ThreadSends(t, n, r, d, m)
<1>1. th'[t] # FreeThread
  BY DEF ThreadSends, FreeThread, Working
<1> QED BY <1>1 DEF ThreadQuiet, ThreadSends, Working, Feeds

LEMMA QuietNodes ==
  ASSUME QuietHeld, QuietThreads, QuietSched
  PROVE  KeepsNodes
<1> SUFFICES ASSUME NEW n \in Nodes, NEW m \in Nodes, NEW r \in Plain, NEW d \in Nat,
                    NodeSends(n, r, d, m)'
             PROVE  NodeSends(n, r, d, m)
  BY DEF KeepsNodes
<1>1. CASE SubmitSends(n, r, d, m)'
  BY <1>1 DEF SubmitSends, QuietSched, NodeSends, Feeds
<1>2. ASSUME NEW t \in Threads, ThreadSends(t, n, r, d, m)' PROVE NodeSends(n, r, d, m)
  BY <1>2, QuietSends DEF QuietThreads, NodeSends
<1>3. CASE Sending(rt[n].held, r, d, m)'
  BY <1>3 DEF QuietHeld, Sending, NodeSends
<1> QED BY <1>1, <1>2, <1>3 DEF NodeSends

LEMMA QuietClientsKeep ==
  ASSUME QuietClients
  PROVE  KeepsClients /\ KeepsEmits
<1>1. KeepsClients
  <2>1. \A s, q, r, d, m : Reached(s, q) /\ Sending(q, r, d, m) => Sending(s, r, d, m)
    BY DEF Reached, Sending
  <2>2. \A r, d, m : ~Sending(<< >>, r, d, m)
    BY DEF Sending
  <2> QED BY <2>1, <2>2 DEF QuietClients, ClientQuiet, KeepsClients, ClientSends
<1>2. KeepsEmits
  BY DEF QuietClients, ClientQuiet, KeepsEmits, Emits
<1> QED BY <1>1, <1>2

\* The copies of a queue hold what the queue held.
LEMMA QuietCopies ==
  ASSUME TypeOK, QueuesDistinct, QuietThreads, NEW t \in Threads
  PROVE  /\ Distinct(th'[t].snap.pending)
         /\ \A n \in Nodes, r \in Plain, d \in Nat :
              th'[t].node = n /\ Holds(th'[t].snap.pending, r, d) => Queued(n, r, d)
<1>1. ThreadQuiet(t) /\ (Live(t) => th[t].node \in Nodes)
  BY DEF QuietThreads, TypeOK, ThreadsOK
<1>2. CASE th'[t].snap = FreshRuntime
  BY <1>2 DEF FreshRuntime, Distinct, Holds
<1>3. CASE th'[t].snap = th[t].snap /\ th'[t].node = th[t].node
  BY <1>3 DEF QueuesDistinct, Queued
<1>4. CASE /\ th'[t].snap = rt[th[t].node] /\ th'[t].node = th[t].node
           /\ th[t].pc \in Working
  <2>1. th[t].node \in Nodes
    BY <1>1, <1>4 DEF Live, Working
  <2> QED BY <1>4, <2>1 DEF QueuesDistinct, Queued
<1> QED BY <1>1, <1>2, <1>3, <1>4 DEF ThreadQuiet, FreeThread

LEMMA QuietQueued ==
  ASSUME TypeOK, QueuesDistinct, QuietThreads, QuietQueues
  PROVE  QueuesDistinct' /\ KeepsQueued
<1>1. QueuesDistinct'
  BY QuietCopies DEF QueuesDistinct, QuietQueues
<1>2. KeepsQueued
  BY QuietCopies DEF KeepsQueued, QuietQueues, Queued
<1> QED BY <1>1, <1>2

LEMMA QuietStep ==
  ASSUME TypeOK, ShapeInv, TraceInv, Quiet
  PROVE  ShapeInv' /\ TraceStep
<1>1. ShapeInv'
  BY QuietShape DEF Quiet
<1>2. KeepsNodes /\ KeepsClients /\ KeepsEmits /\ QueuesDistinct' /\ KeepsQueued
  BY QuietNodes, QuietClientsKeep, QuietQueued DEF Quiet, TraceInv
<1>3. TraceStep
  BY <1>2, KeepTraces DEF Quiet
<1> QED BY <1>1, <1>3

\* The ways to be quiet.
LEMMA ThinStore ==
  ASSUME TypeOK, QueuesDistinct, \A n \in Nodes : Thin(rt[n], rt'[n])
  PROVE  QuietHeld /\ QuietQueues
<1>1. QuietHeld
  BY DEF Thin, QuietHeld
<1>2. QuietQueues
  BY DEF Thin, Thins, QuietQueues, QueuesDistinct, Queued
<1> QED BY <1>1, <1>2

LEMMA StoreThin ==
  ASSUME TypeOK, QueuesDistinct, NEW n \in Nodes, NEW q, Store(n, q), Thin(rt[n], q)
  PROVE  QuietHeld /\ QuietQueues
<1>1. Writes(n, q)
  BY StoreWrites
<1>2. \A m \in Nodes : rt[m] \in Runtime
  BY RecordType DEF TypeOK
<1>3. \A m \in Nodes : Thin(rt[m], rt'[m])
  BY <1>1, <1>2, OperationsThin DEF Writes
<1> QED BY <1>3, ThinStore

LEMMA SameStoreQuiet ==
  ASSUME TypeOK, QueuesDistinct, rt' = rt
  PROVE  QuietHeld /\ QuietQueues
<1>1. \A m \in Nodes : rt[m] \in Runtime
  BY RecordType DEF TypeOK
<1>2. \A m \in Nodes : Thin(rt[m], rt'[m])
  BY <1>1, OperationsThin
<1> QED BY <1>2, ThinStore

LEMMA SameThreadsQuiet ==
  ASSUME th' = th PROVE QuietThreads
BY DEF QuietThreads, ThreadQuiet

LEMMA SameClientsQuiet ==
  ASSUME cl' = cl PROVE QuietClients
BY DEF QuietClients, ClientQuiet

-----------------------------------------------------------------------------
(* The scheduler                                                           *)

LEMMA SchedulerQuiet ==
  ASSUME TypeOK, TraceInv, Scheduler, spc' # "submit", th' = th
  PROVE  Quiet
<1>1. /\ UNCHANGED <<cl, used>> /\ started' = started
      /\ \/ rt' = rt
         \/ spc = "recover" /\ Store(cur, RecoverStaleWorking(rt[cur]))
  BY DEF Scheduler, SchedWait, SchedExit, SchedCleanup, SchedBatchEnd, SchedVisit,
         SchedCheckActive, SchedRecover, SchedDequeue, SchedSubmit, Update, history
<1>2. spc = "recover" => cur \in Nodes /\ rt[cur] \in Runtime
  BY RecordType DEF TypeOK, SchedulerOK
<1>3. QuietHeld /\ QuietQueues
  BY <1>1, <1>2, OperationsThin, StoreThin, SameStoreQuiet DEF TraceInv
<1>4. QuietThreads /\ QuietClients /\ QuietSched
  BY <1>1, SameThreadsQuiet, SameClientsQuiet DEF QuietSched
<1> QED BY <1>1, <1>3, <1>4 DEF Quiet

\* The item that is dequeued leaves the queue for good: the executor of its
\* node is gone, and with it any copy of the queue.
LEMMA DequeueTraces ==
  ASSUME TaskInv, AllLiveAreTasks, ShapeInv, TraceInv, OneSource,
         NoRoutes \/ StoreHeld, SchedDequeue, spc' = "submit"
  PROVE  ShapeInv' /\ TraceStep
<1>0. spc = "dequeue" /\ cur \in Nodes /\ CanDequeue(rt[cur]) /\ TypeOK
  BY DEF SchedDequeue, TaskInv, TypeOK, SchedulerOK
<1>2. PICK n \in Nodes : n = cur
  BY <1>0
<1>3. PICK s \in Seq(Item), it \in Item : s = rt[n].pending /\ s # << >> /\ it = Head(s)
  <2>1. rt[n].pending \in Seq(Item) /\ rt[n].pending # << >>
    BY <1>0, <1>2, RecordType DEF TypeOK, Runtime, CanDequeue
  <2> QED BY <2>1, HeadTailProperties
<1> DEFINE q == DequeueToWorking(rt[n])
<1>1. /\ cur' = n /\ Store(n, q) /\ rt[n] \in Runtime
      /\ started' = started \cup {<<n, q.inflight>>} /\ picked' = q.inflight
      /\ UNCHANGED <<th, cl, used>>
  BY <1>0, <1>2, RecordType DEF SchedDequeue, TypeOK
<1>4. q.inflight = it /\ q.pending = Tail(s) /\ q.held = rt[n].held
  BY <1>0, <1>1, <1>2, <1>3 DEF DequeueToWorking, Runtime
<1>5. Thin(rt[n], q) /\ Writes(n, q)
  BY <1>0, <1>1, OperationsThin, StoreWrites
<1>6. QuietHeld /\ QuietQueues /\ QuietThreads /\ QuietClients
  BY <1>0, <1>1, <1>5, StoreThin, SameThreadsQuiet, SameClientsQuiet DEF TraceInv
<1>7. \A t \in Threads : th[t].node # n
  <2> SUFFICES ASSUME NEW t \in Threads, th[t].node = n PROVE FALSE
    OBVIOUS
  <2>1. CASE th[t].pc = "free"
    BY <1>2, <2>1, NoNodeAssumption DEF ShapeInv, ThreadShape
  <2>2. CASE th[t].pc # "free"
    BY <1>0, <1>2, <2>2 DEF TaskInv, CurUnclaimed, AllLiveAreTasks, Live
  <2> QED BY <2>1, <2>2
<1>8. rt[n].held = << >>
  <2>1. CASE NoRoutes
    BY <1>2, <2>1 DEF ShapeInv, NodeShape
  <2>2. CASE StoreHeld
    BY <1>0, <1>2, <2>2 DEF StoreHeld, HeldOK, CanDequeue
  <2> QED BY <2>1, <2>2
<1>9. ShapeInv'
  <2>1. \A k \in Nodes : NodeShape(k)'
    BY <1>6 DEF ShapeInv, NodeShape, QuietHeld, AtMostOne, NoRoutes
  <2>2. \A t \in Threads : ThreadShape(t)'
    BY <1>0, <1>6, QuietThreadShape DEF QuietThreads
  <2>3. \A c \in Clients : ClientShape(c)'
    BY <1>1 DEF ShapeInv, ClientShape
  <2>4. rt'[cur'].held = << >>
    BY <1>1, <1>4, <1>5, <1>8 DEF Writes
  <2> QED BY <2>1, <2>2, <2>3, <2>4 DEF ShapeInv
<1> DEFINE r == it.trace
           d == it.depth
<1>10. r \in Traces /\ d \in Nat
  BY <1>3, MaxDepthAssumption DEF Item
<1>11. QueuesDistinct' /\ KeepsQueued /\ KeepsClients /\ KeepsEmits
  BY <1>0, <1>6, QuietQueued, QuietClientsKeep DEF TraceInv
<1>12. Queued(n, r, d)
  BY <1>3, TailThins DEF Queued
<1>13. ASSUME r \in Plain PROVE ~Queued(n, r, d)'
  <2>1. ~Holds(rt'[n].pending, r, d)
    BY <1>3, <1>4, <1>5, <1>13, TailThins DEF Writes, TraceInv, QueuesDistinct
  <2> QED BY <1>1, <1>7, <2>1 DEF Queued
<1>14. \A k, p, e : Begun(k, p, e)' <=> Begun(k, p, e) \/ (k = n /\ p = r /\ e = d)
  <2>1. started' = started \cup {<<n, it>>}
    BY <1>1, <1>4
  <2>2. \A x : x \in started' <=> x \in started \/ x = <<n, it>>
    BY <2>1
  <2>3. <<n, it>>[1] = n /\ <<n, it>>[2] = it
    OBVIOUS
  <2> QED BY <2>2, <2>3, Zenon DEF Begun
<1>15. ASSUME NEW k \in Nodes, NEW m \in Nodes, NEW p \in Plain, NEW e \in Nat,
              NodeSends(k, p, e, m)'
       PROVE  NodeSends(k, p, e, m) \/ (k = n /\ p = r /\ e = d /\ m \in Feeds(n))
  <2>1. CASE SubmitSends(k, p, e, m)'
    BY <1>1, <1>4, <2>1 DEF SubmitSends, Feeds
  <2>2. ASSUME NEW t \in Threads, ThreadSends(t, k, p, e, m)' PROVE NodeSends(k, p, e, m)
    BY <1>6, <2>2, QuietSends DEF QuietThreads, NodeSends
  <2>3. CASE Sending(rt[k].held, p, e, m)'
    BY <1>6, <2>3 DEF QuietHeld, Sending, NodeSends
  <2> QED BY <1>15, <2>1, <2>2, <2>3 DEF NodeSends
<1>16. TraceStep
  <2> HIDE DEF r, d, q
  <2> QED BY <1>1, <1>2, <1>10, <1>11, <1>12, <1>13, <1>14, <1>15, BeginTraces
<1> QED BY <1>9, <1>16

\* _submit_executor_task hands the item on to the executor.
LEMMA SubmitTraces ==
  ASSUME TaskInv, ShapeInv, TraceInv, SchedSubmit
  PROVE  ShapeInv' /\ TraceStep
<1>1. /\ spc = "submit" /\ spc' = "scan" /\ UNCHANGED <<rt, cl, used>> /\ started' = started
  BY DEF SchedSubmit, history
<1>2. TypeOK /\ cur \in Nodes
  BY <1>1 DEF TaskInv, TypeOK, SchedulerOK
<1>3. CASE th' = th
  <2>1. Quiet
    BY <1>1, <1>2, <1>3, SameStoreQuiet, SameThreadsQuiet, SameClientsQuiet
       DEF Quiet, QuietSched, TraceInv
  <2> QED BY <1>2, <2>1, QuietStep
<1>4. CASE th' # th
  <2>1. PICK t \in Threads :
          th' = [th EXCEPT ![t] = [FreeThread EXCEPT !.pc = "start",
                                     !.node = cur, !.item = picked]]
    BY <1>4 DEF SchedSubmit
  <2>2. /\ th'[t].pc = "start" /\ th'[t].node = cur /\ th'[t].item = picked
        /\ th'[t].snap = FreshRuntime
        /\ \A u \in Threads \ {t} : th'[u] = th[u]
    BY <1>2, <2>1 DEF TypeOK, ThreadsOK, FreeThread
  <2>3. \A u \in Threads \ {t} : ThreadQuiet(u)
    BY <2>2 DEF ThreadQuiet
  <2>4. QuietHeld /\ QuietQueues /\ QuietClients
    BY <1>1, <1>2, SameStoreQuiet, SameClientsQuiet DEF TraceInv
  <2>5. ShapeInv'
    <3>1. ThreadShape(t)'
      BY <1>1, <2>2 DEF ThreadShape, FreshRuntime, ShapeInv
    <3>2. \A u \in Threads \ {t} : ThreadShape(u)'
      BY <1>2, <2>3, <2>4, QuietThreadShape
    <3>3. /\ \A n \in Nodes : NodeShape(n)'
          /\ \A c \in Clients : ClientShape(c)'
      BY <1>1 DEF ShapeInv, NodeShape, ClientShape, NoRoutes
    <3> QED BY <1>1, <3>1, <3>2, <3>3 DEF ShapeInv
  <2>6. KeepsNodes
    <3> SUFFICES ASSUME NEW n \in Nodes, NEW m \in Nodes, NEW r \in Plain, NEW d \in Nat,
                        NodeSends(n, r, d, m)'
                 PROVE  NodeSends(n, r, d, m)
      BY DEF KeepsNodes
    <3>1. ~SubmitSends(n, r, d, m)'
      BY <1>1 DEF SubmitSends
    <3>2. ThreadSends(t, n, r, d, m)' => SubmitSends(n, r, d, m)
      BY <1>1, <2>2 DEF ThreadSends, SubmitSends, Feeds
    <3>3. ASSUME NEW u \in Threads \ {t}, ThreadSends(u, n, r, d, m)'
          PROVE  ThreadSends(u, n, r, d, m)
      BY <2>3, <3>3, QuietSends
    <3>4. Sending(rt[n].held, r, d, m)' => Sending(rt[n].held, r, d, m)
      BY <1>1 DEF Sending
    <3> QED BY <3>1, <3>2, <3>3, <3>4 DEF NodeSends
  <2>7. QueuesDistinct' /\ KeepsQueued
    <3>1. QueuesDistinct'
      BY <1>1, <2>2 DEF TraceInv, QueuesDistinct, FreshRuntime, Distinct
    <3>2. \A n, r, d : ~(th'[t].node = n /\ Holds(th'[t].snap.pending, r, d))
      BY <2>2 DEF FreshRuntime, Holds
    <3>3. KeepsQueued
      BY <1>1, <2>2, <3>2 DEF KeepsQueued, Queued
    <3> QED BY <3>1, <3>3
  <2>8. TraceStep
    BY <1>1, <2>4, <2>6, <2>7, QuietClientsKeep, KeepTraces
  <2> QED BY <2>5, <2>8
<1> QED BY <1>3, <1>4

LEMMA SchedulerTraces ==
  ASSUME TaskInv, AllLiveAreTasks, ShapeInv, TraceInv, OneSource,
         NoRoutes \/ StoreHeld, Scheduler
  PROVE  ShapeInv' /\ TraceStep
<1>1. CASE SchedDequeue /\ spc' = "submit"
  BY <1>1, DequeueTraces
<1>2. CASE SchedSubmit
  BY <1>2, SubmitTraces
<1>3. CASE spc' # "submit" /\ th' = th
  BY <1>3, SchedulerQuiet, QuietStep DEF TaskInv
<1>4. \/ SchedDequeue /\ spc' = "submit"
      \/ SchedSubmit
      \/ spc' # "submit" /\ th' = th
  BY DEF Scheduler, SchedWait, SchedExit, SchedCleanup, SchedBatchEnd, SchedVisit,
         SchedCheckActive, SchedRecover, SchedDequeue
<1> QED BY <1>1, <1>2, <1>3, <1>4

-----------------------------------------------------------------------------
(* The executors                                                           *)

LEMMA OneMovesQuiet ==
  ASSUME NEW t \in Threads, ThreadQuiet(t), \A u \in Threads \ {t} : th'[u] = th[u]
  PROVE  QuietThreads
BY DEF QuietThreads, ThreadQuiet

LEMMA GotoQuiet ==
  ASSUME TypeOK, NEW t \in Threads, NEW p, Goto(t, p), th[t].pc \in Working,
         p \in (Working \ {"goal_write", "goal_next"}) \cup {"return", "complete_empty"}
  PROVE  QuietThreads
<1>1. Moves(t, p) /\ th'[t].snap = th[t].snap
  BY GotoMoves
<1>2. ThreadQuiet(t)
  BY <1>1 DEF Moves, ThreadQuiet, Working
<1> QED BY <1>1, <1>2, OneMovesQuiet DEF Moves

\* What the steps of an iteration leave alone.
ExecRest == /\ UNCHANGED <<cl, used>> /\ started' = started /\ QuietSched

LEMMA RestQuiet ==
  ASSUME ExecRest, QuietHeld, QuietQueues, QuietThreads
  PROVE  Quiet
BY SameClientsQuiet DEF Quiet, ExecRest

\* The steps that change at most scalar fields of the record.
LEMMA PlainStepQuiet ==
  ASSUME TypeOK, TraceInv, NEW t \in Threads,
         \/ ExecBegin(t) \/ ExecEntry(t) \/ ExecCancel(t) \/ ExecCancelFinish(t)
         \/ ExecSucceed(t) \/ ExecFail(t) \/ ExecEnd(t) \/ ExecAfter(t)
         \/ ExecClear(t) \/ ExecToIdle(t) \/ ExecMemory(t) \/ ExecGoalEnds(t)
  PROVE  Quiet
<1>1. th[t] \in Thread /\ th[t].pc \in Working
  BY DEF TypeOK, ThreadsOK, Working, ThreadPc, ExecBegin, ExecEntry, ExecCancel,
         ExecCancelFinish, ExecSucceed, ExecFail, ExecEnd, ExecAfter, ExecClear, ExecToIdle,
         ExecMemory, ExecGoalEnds
<1>2. th[t].node \in Nodes
  BY <1>1 DEF TypeOK, ThreadsOK, Live, Working
<1>3. rt[th[t].node] \in Runtime
  BY <1>2, RecordType DEF TypeOK
<1>4. ExecRest
  BY DEF ExecRest, QuietSched, NoSched, NoApi, batch, history, Update, ExecStore,
         ExecBegin, ExecEntry, ExecCancel, ExecCancelFinish, ExecSucceed, ExecFail,
         ExecEnd, ExecAfter, ExecClear, ExecToIdle, ExecMemory, ExecGoalEnds
<1>5. QuietHeld /\ QuietQueues
  <2>1. \/ rt' = rt
        \/ Store(th[t].node, ClearInflight(rt[th[t].node]))
        \/ Store(th[t].node, FinishStopRequested(rt[th[t].node]))
        \/ Store(th[t].node, TransitionToIdle(rt[th[t].node]))
    BY DEF Update, ExecStore, ExecBegin, ExecEntry, ExecCancel, ExecCancelFinish,
           ExecSucceed, ExecFail, ExecEnd, ExecAfter, ExecClear, ExecToIdle, ExecMemory,
           ExecGoalEnds, store
  <2> QED BY <1>2, <1>3, <2>1, OperationsThin, StoreThin, SameStoreQuiet DEF TraceInv
<1>6. QuietThreads
  <2>1. CASE ExecBegin(t)
    <3>1. /\ th'[t].pc \in {"to_idle", "entry"} /\ th'[t].node = th[t].node
          /\ th'[t].item = th[t].item /\ th'[t].snap = th[t].snap
          /\ \A u \in Threads \ {t} : th'[u] = th[u]
      BY <1>1, <2>1 DEF ExecBegin, TypeOK, ThreadsOK, Thread
    <3>2. ThreadQuiet(t)
      BY <1>1, <3>1 DEF ThreadQuiet, Working, ThreadPc
    <3> QED BY <3>1, <3>2, OneMovesQuiet
  <2>2. CASE ExecEntry(t)
    <3>1. /\ th'[t].pc \in {"to_idle", "logic"} /\ th'[t].node = th[t].node
          /\ th'[t].item = th[t].item /\ th'[t].snap = th[t].snap
          /\ \A u \in Threads \ {t} : th'[u] = th[u]
      BY <1>1, <2>2 DEF ExecEntry, Goto, TypeOK, ThreadsOK, Thread
    <3>2. ThreadQuiet(t)
      BY <1>1, <3>1 DEF ThreadQuiet, Working, ThreadPc
    <3> QED BY <3>1, <3>2, OneMovesQuiet
  <2>3. CASE ExecFail(t)
    <3>1. /\ th'[t].pc \in {"end_return", "record"} /\ th'[t].node = th[t].node
          /\ th'[t].item = th[t].item /\ th'[t].snap = th[t].snap
          /\ \A u \in Threads \ {t} : th'[u] = th[u]
      BY <1>1, <2>3 DEF ExecFail, TypeOK, ThreadsOK, Thread
    <3>2. ThreadQuiet(t)
      BY <1>1, <3>1 DEF ThreadQuiet, Working, ThreadPc
    <3> QED BY <3>1, <3>2, OneMovesQuiet
  <2>4. CASE \/ ExecCancel(t) \/ ExecCancelFinish(t) \/ ExecSucceed(t) \/ ExecEnd(t)
             \/ ExecAfter(t) \/ ExecClear(t) \/ ExecToIdle(t) \/ ExecMemory(t)
             \/ ExecGoalEnds(t)
    <3>1. \E p \in {"cancelling", "end_return", "end_ok", "after", "return", "record",
                    "to_idle", "memory", "goal", "complete"} : Goto(t, p)
      BY <2>4 DEF ExecCancel, ExecCancelFinish, ExecSucceed, ExecEnd, ExecAfter, ExecClear,
                  ExecToIdle, ExecMemory, ExecGoalEnds, ExecStore
    <3>2. {"cancelling", "end_return", "end_ok", "after", "return", "record", "to_idle",
           "memory", "goal", "complete"}
            \subseteq (Working \ {"goal_write", "goal_next"}) \cup {"return", "complete_empty"}
      BY DEF Working, ThreadPc
    <3> QED BY <1>1, <3>1, <3>2, GotoQuiet
  <2> QED BY <2>1, <2>2, <2>3, <2>4
<1> QED BY <1>4, <1>5, <1>6, RestQuiet

LEMMA ConsumeQuiet ==
  ASSUME TypeOK, TraceInv, NEW t \in Threads, ExecConsume(t)
  PROVE  Quiet
<1>1. th[t].node \in Nodes /\ rt[th[t].node] \in Runtime
  BY LiveThread, RecordType DEF TypeOK, ExecConsume, Live
<1>2. Store(th[t].node, ConsumeMidTurnInputs(rt[th[t].node])) /\ th' = th
  BY DEF ExecConsume, Remove
<1>3. ExecRest
  BY DEF ExecRest, QuietSched, NoSched, NoApi, batch, Remove, ExecConsume
<1> QED BY <1>1, <1>2, <1>3, OperationsThin, StoreThin, SameThreadsQuiet, RestQuiet
        DEF TraceInv

\* A config transaction copies the record and writes the copy back.
LEMMA ReadQuiet ==
  ASSUME TypeOK, TraceInv, NEW t \in Threads, ExecRecordRead(t) \/ ExecGoal(t)
  PROVE  Quiet
<1>1. th[t] \in Thread /\ th[t].pc \in Working /\ th[t].pc \in {"record", "goal"}
  BY DEF TypeOK, ThreadsOK, Working, ThreadPc, ExecRecordRead, ExecGoal
<1>2. ExecRest /\ rt' = rt
  BY DEF ExecRest, QuietSched, NoSched, NoApi, batch, store, history, ExecRecordRead,
         ExecGoal
<1>3. CASE \E p \in {"clear", "complete", "return"} : Goto(t, p)
  <2>1. {"clear", "complete", "return"}
          \subseteq (Working \ {"goal_write", "goal_next"}) \cup {"return", "complete_empty"}
    BY DEF Working, ThreadPc
  <2>2. QuietThreads
    BY <1>1, <1>3, <2>1, GotoQuiet
  <2> QED BY <1>2, <2>2, SameStoreQuiet, RestQuiet DEF TraceInv
<1>4. CASE ~\E p \in {"clear", "complete", "return"} : Goto(t, p)
  <2>1. \E p \in {"write", "goal_write"} :
          /\ th' = [th EXCEPT ![t].pc = p, ![t].snap = rt[th[t].node]]
          /\ p = "goal_write" => th[t].node \in GoalNodes
    BY <1>4 DEF ExecRecordRead, ExecGoal
  <2>2. /\ th'[t].pc \in {"write", "goal_write"} /\ th'[t].node = th[t].node
        /\ th'[t].item = th[t].item /\ th'[t].snap = rt[th[t].node]
        /\ th'[t].pc = "goal_write" => th[t].node \in GoalNodes
        /\ \A u \in Threads \ {t} : th'[u] = th[u]
    BY <1>1, <2>1 DEF TypeOK, ThreadsOK, Thread
  <2>3. ThreadQuiet(t)
    BY <1>1, <2>2 DEF ThreadQuiet, Working, ThreadPc
  <2> QED BY <1>2, <2>2, <2>3, OneMovesQuiet, SameStoreQuiet, RestQuiet DEF TraceInv
<1> QED BY <1>3, <1>4

LEMMA WriteQuiet ==
  ASSUME TypeOK, ShapeInv, TraceInv, NEW t \in Threads,
         ExecRecordWrite(t) \/ ExecGoalWrite(t)
  PROVE  Quiet
<1> DEFINE n == th[t].node
           s == th[t].snap
<1>1. th[t] \in Thread /\ th[t].pc \in Working /\ th[t].pc \in {"write", "goal_write"}
  BY DEF TypeOK, ThreadsOK, Working, ThreadPc, ExecRecordWrite, ExecGoalWrite
<1>2. n \in Nodes /\ s \in Runtime /\ s.held = << >>
  BY <1>1, LiveThread DEF TypeOK, Live, ShapeInv, ThreadShape, Thread
<1>3. ExecRest
  BY DEF ExecRest, QuietSched, NoSched, NoApi, batch, history, WriteConfig,
         ExecRecordWrite, ExecGoalWrite
<1>4. PICK q : Store(n, q) /\ Thin(s, q)
  <2>1. Store(n, s) \/ Store(n, RecordCompletion(s, th[t].item.trace))
    BY DEF ExecRecordWrite, ExecGoalWrite, WriteConfig
  <2> QED BY <1>2, <2>1, OperationsThin
<1>5. Writes(n, q)
  BY <1>2, <1>4, StoreWrites
<1>6. QuietHeld
  BY <1>2, <1>4, <1>5 DEF QuietHeld, Writes, Thin
<1>7. QuietQueues
  <2>1. /\ Distinct(q.pending)
        /\ \A r \in Plain, d \in Nat : Holds(q.pending, r, d) => Queued(n, r, d)
    BY <1>2, <1>4 DEF Thin, Thins, TraceInv, QueuesDistinct, Queued
  <2>2. \A m \in Nodes \ {n} :
          /\ Distinct(rt[m].pending)
          /\ \A r \in Plain, d \in Nat : Holds(rt[m].pending, r, d) => Queued(m, r, d)
    BY DEF TraceInv, QueuesDistinct, Queued
  <2> HIDE DEF n
  <2> QED BY <1>5, <2>1, <2>2 DEF QuietQueues, Writes
<1>8. QuietThreads
  <2>1. \E p \in {"clear", "goal_next"} :
          /\ th' = [th EXCEPT ![t].pc = p, ![t].snap = FreshRuntime]
          /\ p = "goal_next" => th[t].pc = "goal_write"
    BY DEF ExecRecordWrite, ExecGoalWrite
  <2>2. /\ th'[t].pc \in {"clear", "goal_next"} /\ th'[t].node = th[t].node
        /\ th'[t].item = th[t].item /\ th'[t].snap = FreshRuntime
        /\ th'[t].pc = "goal_next" => th[t].node \in GoalNodes
        /\ \A u \in Threads \ {t} : th'[u] = th[u]
    BY <1>1, <2>1 DEF TypeOK, ThreadsOK, Thread, ShapeInv, ThreadShape
  <2>3. ThreadQuiet(t)
    BY <1>1, <2>2 DEF ThreadQuiet, Working, ThreadPc
  <2> QED BY <2>2, <2>3, OneMovesQuiet
<1> QED BY <1>3, <1>6, <1>7, <1>8, RestQuiet

LEMMA ReturnQuiet ==
  ASSUME TypeOK, TraceInv, NEW t \in Threads, ExecReturn(t)
  PROVE  Quiet
<1>1. ExecRest /\ rt' = rt
  BY DEF ExecRest, QuietSched, NoApi, batch, history, ExecReturn
<1>2. th'[t] = FreeThread /\ \A u \in Threads \ {t} : th'[u] = th[u]
  BY DEF ExecReturn, TypeOK, ThreadsOK
<1>3. ThreadQuiet(t)
  BY <1>2 DEF ThreadQuiet
<1> QED BY <1>1, <1>2, <1>3, OneMovesQuiet, SameStoreQuiet, RestQuiet DEF TraceInv

\* An item enters a queue.
LEMMA AcceptQueues ==
  ASSUME TypeOK, QueuesDistinct, NEW n \in Nodes, NEW it \in Item, Accept(n, it),
         it.trace \in Plain => ~Queued(n, it.trace, it.depth)
  PROVE  /\ QuietHeld /\ started' = started
         /\ \A k \in Nodes :
              /\ Distinct(rt'[k].pending)
              /\ \A r \in Plain, d \in Nat :
                   Holds(rt'[k].pending, r, d) =>
                     Queued(k, r, d) \/ (k = n /\ r = it.trace /\ d = it.depth)
<1> DEFINE q == AppendPending(rt[n], it)
<1>1. rt[n] \in Runtime /\ rt[n].pending \in Seq(Item)
  BY RecordType DEF TypeOK, Runtime
<1>2. Writes(n, q) /\ started' = started
  BY StoreWrites DEF Accept
<1>3. q.held = rt[n].held /\ (q.pending = rt[n].pending \/ q.pending = Append(rt[n].pending, it))
  BY <1>1 DEF AppendPending, Runtime
<1>4. QuietHeld
  BY <1>2, <1>3 DEF QuietHeld, Writes
<1>5. /\ Distinct(q.pending)
      /\ \A r \in Plain, d \in Nat :
           Holds(q.pending, r, d) => Queued(n, r, d) \/ (r = it.trace /\ d = it.depth)
  <2>1. Distinct(rt[n].pending) /\ \A r, d : Holds(rt[n].pending, r, d) => Queued(n, r, d)
    BY DEF QueuesDistinct, Queued
  <2>2. CASE q.pending = rt[n].pending
    BY <2>1, <2>2
  <2>3. CASE q.pending = Append(rt[n].pending, it)
    BY <1>1, <2>1, <2>3, AppendHolds
  <2> QED BY <1>3, <2>2, <2>3
<1> HIDE DEF q
<1>6. \A k \in Nodes \ {n} :
        /\ Distinct(rt'[k].pending)
        /\ \A r \in Plain, d \in Nat : Holds(rt'[k].pending, r, d) => Queued(k, r, d)
  BY <1>2 DEF Writes, QueuesDistinct, Queued
<1> QED BY <1>2, <1>4, <1>5, <1>6 DEF Writes

LEMMA AcceptQueued ==
  ASSUME TypeOK, QueuesDistinct, QuietThreads, NEW n \in Nodes, NEW it \in Item,
         Accept(n, it), it.trace \in Plain => ~Queued(n, it.trace, it.depth)
  PROVE  /\ QueuesDistinct'
         /\ \A k \in Nodes, r \in Plain, d \in Nat :
              Queued(k, r, d)' => Queued(k, r, d) \/ (k = n /\ r = it.trace /\ d = it.depth)
<1>1. QueuesDistinct'
  BY AcceptQueues, QuietCopies DEF QueuesDistinct
<1>2. \A k \in Nodes, r \in Plain, d \in Nat :
        Queued(k, r, d)' => Queued(k, r, d) \/ (k = n /\ r = it.trace /\ d = it.depth)
  BY AcceptQueues, QuietCopies DEF Queued
<1> QED BY <1>1, <1>2

LEMMA SendStep ==
  ASSUME TypeOK, ShapeInv, TraceInv, OneSource, QuietThreads, QuietClients, QuietSched,
         used' = used, NEW n \in Nodes, NEW m \in Nodes, NEW it \in Item, NEW d \in Nat,
         it.depth = d + 1, Accept(m, it),
         it.trace \in Plain =>
           /\ Sound(n, it.trace, d, m) /\ ~NodeSends(n, it.trace, d, m)'
           /\ \A c \in Clients : ~ClientSends(c, n, it.trace, d, m)'
  PROVE  ShapeInv' /\ TraceStep
<1>1. it.trace \in Plain => ~Queued(m, it.trace, it.depth)
  BY DEF Sound, Used
<1>2. QuietHeld /\ started' = started
  BY <1>1, AcceptQueues DEF TraceInv
<1>3. ShapeInv'
  BY <1>2, QuietShape
<1>4. /\ QueuesDistinct'
      /\ \A k \in Nodes, r \in Plain, e \in Nat :
           Queued(k, r, e)' => Queued(k, r, e) \/ (k = m /\ r = it.trace /\ e = it.depth)
  BY <1>1, AcceptQueued DEF TraceInv
<1>5. KeepsNodes /\ KeepsClients /\ KeepsEmits
  BY <1>2, QuietNodes, QuietClientsKeep
<1>6. CASE it.trace \in Plain
  <2>1. PICK r \in Plain : r = it.trace
    BY <1>6
  <2>2. /\ Sound(n, r, d, m) /\ ~NodeSends(n, r, d, m)'
        /\ \A c \in Clients : ~ClientSends(c, n, r, d, m)'
    BY <1>6, <2>1
  <2>3. \A k \in Nodes, p \in Plain, e \in Nat :
          Queued(k, p, e)' => Queued(k, p, e) \/ (k = m /\ p = r /\ e = d + 1)
    BY <1>4, <2>1
  <2> QED BY <1>2, <1>3, <1>4, <1>5, <2>2, <2>3, SendTraces
<1>7. CASE it.trace \notin Plain
  <2>1. KeepsQueued
    BY <1>4, <1>7 DEF KeepsQueued
  <2> QED BY <1>2, <1>3, <1>4, <1>5, <2>1, KeepTraces
<1> QED BY <1>3, <1>6, <1>7

\* Once the executor has passed its trace on to m, nobody can do it again.
LEMMA ThreadSent ==
  ASSUME TaskInv, AllLiveAreTasks, ShapeInv, TraceInv, QuietHeld, QuietSched, QuietClients,
         NEW t \in Threads, NEW n \in Nodes, NEW m \in Nodes, NEW r \in Plain, NEW d \in Nat,
         ThreadSends(t, n, r, d, m), ~ThreadSends(t, n, r, d, m)',
         \A u \in Threads \ {t} : th'[u] = th[u]
  PROVE  /\ Sound(n, r, d, m) /\ ~NodeSends(n, r, d, m)'
         /\ \A c \in Clients : ~ClientSends(c, n, r, d, m)'
<1>1. NodeSends(n, r, d, m)
  BY DEF NodeSends
<1>2. Sound(n, r, d, m) /\ \A c \in Clients : ~ClientSends(c, n, r, d, m)
  BY <1>1 DEF TraceInv, NodesSound, ClientsSound
<1>3. \A c \in Clients : ~ClientSends(c, n, r, d, m)'
  BY <1>2, QuietClientsKeep DEF KeepsClients
<1>4. th[t].node = n /\ th[t].pc \notin {"free", "return"} /\ t \in active
  BY DEF ThreadSends, Working, AllLiveAreTasks, Live
<1>5. ~SubmitSends(n, r, d, m)'
  BY <1>4 DEF SubmitSends, QuietSched, TaskInv, CurUnclaimed
<1>6. ASSUME NEW u \in Threads, ThreadSends(u, n, r, d, m)' PROVE FALSE
  <2>1. u # t /\ th'[u] = th[u] /\ th[u].node = n /\ th[u].pc # "free"
    BY <1>6 DEF ThreadSends, Working
  <2>2. u \in active
    BY <2>1 DEF AllLiveAreTasks, Live
  <2> QED BY <1>4, <2>1, <2>2 DEF TaskInv, OneTaskPerNode
<1>7. ~Sending(rt[n].held, r, d, m)'
  <2>1. rt'[n].held = << >>
    BY <1>4 DEF ShapeInv, ThreadShape, QuietHeld
  <2> QED BY <2>1 DEF Sending
<1>8. ~NodeSends(n, r, d, m)'
  BY <1>5, <1>6, <1>7 DEF NodeSends
<1> QED BY <1>2, <1>3, <1>8

LEMMA PropagateTraces ==
  ASSUME TaskInv, AllLiveAreTasks, ShapeInv, TraceInv, OneSource,
         NEW t \in Threads, NEW m \in Nodes, ExecPropagate(t, m)
  PROVE  ShapeInv' /\ TraceStep
<1>0. TypeOK /\ th[t] \in Thread /\ th[t].pc = "propagate" /\ m \in th[t].tasks
  BY DEF TaskInv, TypeOK, ThreadsOK, ExecPropagate
<1>1. PICK n \in Nodes, r \in Traces, d \in Nat :
        n = th[t].node /\ r = th[t].item.trace /\ d = th[t].item.depth /\ d < MaxDepth
  <2>1. th[t].node \in Nodes /\ th[t].item \in Item /\ th[t].item.depth < MaxDepth
    BY <1>0 DEF TypeOK, ThreadsOK, Live, Thread
  <2>2. th[t].item.trace \in Traces /\ th[t].item.depth \in Nat
    BY <2>1, MaxDepthAssumption DEF Item
  <2> QED BY <2>1, <2>2
<1>2. /\ th'[t].node = n /\ th'[t].item = th[t].item /\ th'[t].snap = th[t].snap
      /\ th'[t].tasks = th[t].tasks \ {m} /\ th'[t].pc \in {"return", "propagate"}
      /\ \A u \in Threads \ {t} : th'[u] = th[u]
  <2>1. \E p \in {"return", "propagate"} :
          th' = [th EXCEPT ![t].tasks = th[t].tasks \ {m}, ![t].pc = p]
    BY <1>0 DEF ExecPropagate
  <2> QED BY <1>0, <1>1, <2>1 DEF TypeOK, ThreadsOK, Thread
<1>3. ThreadQuiet(t)
  BY <1>0, <1>1, <1>2 DEF ThreadQuiet
<1>4. QuietThreads
  BY <1>2, <1>3, OneMovesQuiet
<1>5. UNCHANGED <<cl, used>> /\ QuietSched
  BY DEF ExecPropagate, NoApi, NoSched, batch, EnsureAndWakeOwn, NewRunner, QuietSched
<1>6. QuietClients
  BY <1>5, SameClientsQuiet
<1>7. CASE Refuses(rt[m])
  <2>1. rt' = rt /\ started' = started
    BY <1>7 DEF ExecPropagate, history
  <2>2. Quiet
    BY <1>0, <1>4, <1>5, <1>6, <2>1, SameStoreQuiet DEF Quiet, TraceInv
  <2> QED BY <1>0, <2>2, QuietStep
<1>8. CASE ~Refuses(rt[m])
  <2> DEFINE it == Propagated(r, d)
  <2>1. Accept(m, it)
    BY <1>1, <1>8 DEF ExecPropagate
  <2>2. it \in Item /\ it.trace = r /\ it.depth = d + 1
    BY <1>1, MaxDepthAssumption DEF Propagated, Item, Sources
  <2> HIDE DEF it
  <2>3. ASSUME r \in Plain
        PROVE  /\ Sound(n, r, d, m) /\ ~NodeSends(n, r, d, m)'
               /\ \A c \in Clients : ~ClientSends(c, n, r, d, m)'
    <3>1. ThreadSends(t, n, r, d, m)
      BY <1>0, <1>1 DEF ThreadSends
    <3>2. ~ThreadSends(t, n, r, d, m)'
      BY <1>2 DEF ThreadSends, Working
    <3>3. ~Queued(m, r, d + 1)
      BY <2>3, <3>1 DEF TraceInv, NodesSound, NodeSends, Sound, Used
    <3>4. QuietHeld
      BY <1>0, <2>1, <2>2, <3>3, AcceptQueues DEF TraceInv
    <3> QED BY <1>2, <1>5, <1>6, <2>3, <3>1, <3>2, <3>4, ThreadSent
  <2> QED BY <1>0, <1>4, <1>5, <1>6, <2>1, <2>2, <2>3, SendStep
<1> QED BY <1>7, <1>8

\* A goal turn: the node passes its trace on to itself.
LEMMA ContinueTraces ==
  ASSUME TaskInv, AllLiveAreTasks, ShapeInv, TraceInv, OneSource,
         NEW t \in Threads, ExecGoalContinue(t)
  PROVE  ShapeInv' /\ TraceStep
<1>0. TypeOK /\ th[t] \in Thread /\ th[t].pc = "goal_next" /\ th[t].item.depth < MaxDepth
  BY DEF TaskInv, TypeOK, ThreadsOK, ExecGoalContinue
<1>1. PICK n \in Nodes, r \in Traces, d \in Nat :
        n = th[t].node /\ r = th[t].item.trace /\ d = th[t].item.depth /\ d < MaxDepth
  <2>1. th[t].node \in Nodes /\ th[t].item \in Item
    BY <1>0 DEF TypeOK, ThreadsOK, Live, Thread
  <2>2. th[t].item.trace \in Traces /\ th[t].item.depth \in Nat
    BY <2>1, MaxDepthAssumption DEF Item
  <2> QED BY <1>0, <2>1, <2>2
<1>2. n \in Feeds(n) /\ th[t].pc \in Working
  BY <1>0, <1>1 DEF ShapeInv, ThreadShape, Feeds, Working, ThreadPc
<1>3. \E p \in {"return", "complete_empty"} : Goto(t, p)
  BY DEF ExecGoalContinue
<1>4. th'[t].pc \in {"return", "complete_empty"} /\ \A u \in Threads \ {t} : th'[u] = th[u]
  BY <1>0, <1>3, GotoMoves DEF Moves
<1>5. QuietThreads
  BY <1>0, <1>2, <1>3, GotoQuiet
<1>6. UNCHANGED <<cl, used>> /\ QuietSched
  BY DEF ExecGoalContinue, NoApi, NoSched, batch, EnsureAndWakeOwn, NewRunner, QuietSched
<1>7. QuietClients
  BY <1>6, SameClientsQuiet
<1>8. CASE Refuses(rt[n])
  <2>1. rt' = rt /\ started' = started
    BY <1>1, <1>8 DEF ExecGoalContinue, history
  <2>2. Quiet
    BY <1>0, <1>5, <1>6, <1>7, <2>1, SameStoreQuiet DEF Quiet, TraceInv
  <2> QED BY <1>0, <2>2, QuietStep
<1>9. CASE ~Refuses(rt[n])
  <2> DEFINE it == [trace |-> r, depth |-> d + 1, src |-> "goal_continuation"]
  <2>1. Accept(n, it)
    BY <1>1, <1>9 DEF ExecGoalContinue
  <2>2. it \in Item /\ it.trace = r /\ it.depth = d + 1
    BY <1>1, MaxDepthAssumption DEF Item, Sources
  <2> HIDE DEF it
  <2>3. ASSUME r \in Plain
        PROVE  /\ Sound(n, r, d, n) /\ ~NodeSends(n, r, d, n)'
               /\ \A c \in Clients : ~ClientSends(c, n, r, d, n)'
    <3>1. ThreadSends(t, n, r, d, n)
      BY <1>1, <1>2 DEF ThreadSends
    <3>2. ~ThreadSends(t, n, r, d, n)'
      BY <1>4 DEF ThreadSends, Working
    <3>3. ~Queued(n, r, d + 1)
      BY <2>3, <3>1 DEF TraceInv, NodesSound, NodeSends, Sound, Used
    <3>4. QuietHeld
      BY <1>0, <2>1, <2>2, <3>3, AcceptQueues DEF TraceInv
    <3> QED BY <1>4, <1>6, <1>7, <2>3, <3>1, <3>2, <3>4, ThreadSent
  <2> QED BY <1>0, <1>5, <1>6, <1>7, <2>1, <2>2, <2>3, SendStep
<1> QED BY <1>8, <1>9

\* The end of an iteration: its outputs are sent, or held as a whole.
LEMMA CompleteTraces ==
  ASSUME TaskInv, AllLiveAreTasks, ShapeInv, TraceInv,
         NEW t \in Threads, NEW out \in SUBSET Nodes, ExecComplete(t, out)
  PROVE  ShapeInv' /\ TraceStep
<1>0. /\ TypeOK /\ th[t] \in Thread /\ th[t].pc \in {"complete", "complete_empty"}
      /\ th[t].pc = "complete_empty" => out = {}
      /\ out # {} => th[t].item.depth < MaxDepth
  BY DEF TaskInv, TypeOK, ThreadsOK, ExecComplete
<1>1. PICK n \in Nodes, r \in Traces, d \in Nat :
        n = th[t].node /\ r = th[t].item.trace /\ d = th[t].item.depth
  <2>1. th[t].node \in Nodes /\ th[t].item \in Item
    BY <1>0 DEF TypeOK, ThreadsOK, Live, Thread
  <2>2. th[t].item.trace \in Traces /\ th[t].item.depth \in Nat
    BY <2>1, MaxDepthAssumption DEF Item
  <2> QED BY <2>1, <2>2
<1>2. out \subseteq Links[n] /\ rt[n] \in Runtime
  BY <1>0, <1>1, RecordType DEF ExecComplete, TypeOK
<1> DEFINE o == [trace |-> r, depth |-> d, targets |-> out]
           q == CompleteWork(rt[n], o)
<1>3. Store(n, q) /\ ExecRest
  BY <1>1 DEF ExecComplete, Update, history, ExecRest, NoApi, NoSched, batch, QuietSched
<1>4. Writes(n, q)
  BY <1>0, <1>3, StoreWrites
<1>5. q.pending = rt[n].pending
      /\ q.held = IF FinalState(rt[n]) = "stop" /\ out # {} THEN Append(rt[n].held, o)
                  ELSE rt[n].held
  BY <1>2 DEF CompleteWork, Runtime
<1>6. CASE FinalState(rt[n]) # "stop" \/ out = {}
  <2>1. q.held = rt[n].held
    BY <1>5, <1>6
  <2>2. Thin(rt[n], q)
    BY <1>5, <2>1, SameThins DEF Thin
  <2>3. QuietHeld /\ QuietQueues
    BY <1>0, <1>3, <2>2, StoreThin DEF TraceInv
  <2>4. /\ th'[t].node = th[t].node /\ th'[t].item = th[t].item /\ th'[t].snap = th[t].snap
        /\ \A u \in Threads \ {t} : th'[u] = th[u]
        /\ \/ th'[t].pc = "return"
           \/ out # {} /\ th'[t].pc = "propagate" /\ th'[t].tasks = out
    BY <1>0, <1>1 DEF ExecComplete, TypeOK, ThreadsOK, Thread
  <2>5. ThreadQuiet(t)
    BY <1>0, <1>1, <1>2, <2>4 DEF ThreadQuiet, Working, ThreadPc
  <2>6. Quiet
    BY <1>3, <2>3, <2>4, <2>5, OneMovesQuiet, RestQuiet
  <2> QED BY <1>0, <2>6, QuietStep
<1>7. CASE FinalState(rt[n]) = "stop" /\ out # {}
  <2>1. rt[n].held = << >> /\ ~NoRoutes
    BY <1>0, <1>1, <1>2, <1>7 DEF ShapeInv, ThreadShape, NoRoutes
  <2>2. o \in Output
    BY <1>0, <1>1, <1>7, MaxDepthAssumption DEF Output
  <2>3. rt'[n].held = <<o>> /\ rt'[n].pending = rt[n].pending
        /\ \A k \in Nodes \ {n} : rt'[k] = rt[k]
    BY <1>4, <1>5, <1>7, <2>1 DEF Writes
  <2>4. Moves(t, "return") /\ th'[t].snap = th[t].snap
    <3>1. Goto(t, "return")
      BY <1>1, <1>7 DEF ExecComplete, Goto
    <3> QED BY <1>0, <3>1, GotoMoves
  <2>5. ThreadQuiet(t)
    BY <1>0, <2>4 DEF ThreadQuiet, Moves
  <2>6. QuietThreads /\ QuietClients
    BY <1>3, <2>4, <2>5, OneMovesQuiet, SameClientsQuiet DEF Moves, ExecRest
  <2>7. \A u \in Threads \ {t} : th[u].node # n \/ th[u].pc = "free"
    BY <1>0, <1>1 DEF AllLiveAreTasks, TaskInv, OneTaskPerNode, Live
  <2>8. spc' = "submit" => cur' # n /\ UNCHANGED <<spc, cur>>
    BY <1>0, <1>1, <1>3 DEF ExecRest, QuietSched, TaskInv, CurUnclaimed, AllLiveAreTasks, Live
  <2> HIDE DEF o
  <2>9. ShapeInv'
    <3>1. \A k \in Nodes : NodeShape(k)'
      <4>1. NodeShape(n)'
        BY <2>1, <2>2, <2>3 DEF NodeShape, AtMostOne, NoRoutes
      <4>2. \A k \in Nodes \ {n} : NodeShape(k)'
        BY <2>3 DEF ShapeInv, NodeShape, NoRoutes
      <4> QED BY <4>1, <4>2
    <3>2. ASSUME NEW u \in Threads PROVE ThreadShape(u)'
      <4>1. CASE u = t
        BY <2>4, <4>1 DEF ShapeInv, ThreadShape, Moves
      <4>2. CASE u # t
        <5>1. th'[u] = th[u] /\ ThreadShape(u)
          BY <2>4, <4>2 DEF Moves, ShapeInv
        <5>2. th[u].pc # "free" => th[u].node \in Nodes \ {n}
          BY <1>0, <2>7, <4>2 DEF TypeOK, ThreadsOK, Live
        <5>3. th[u].pc # "free" => rt'[th[u].node] = rt[th[u].node]
          BY <2>3, <5>2
        <5> QED BY <5>1, <5>3 DEF ThreadShape
      <4> QED BY <4>1, <4>2
    <3>3. \A c \in Clients : ClientShape(c)'
      BY <1>3 DEF ShapeInv, ClientShape, ExecRest
    <3>4. spc' = "submit" => rt'[cur'].held = << >>
      <4>1. spc' = "submit" => cur' \in Nodes \ {n} /\ rt[cur].held = << >> /\ cur' = cur
        BY <1>0, <2>8 DEF TypeOK, SchedulerOK, ShapeInv
      <4> QED BY <2>3, <4>1
    <3> QED BY <3>1, <3>2, <3>3, <3>4 DEF ShapeInv
  <2>10. KeepsNodes
    <3> SUFFICES ASSUME NEW k \in Nodes, NEW m \in Nodes, NEW p \in Plain, NEW e \in Nat,
                        NodeSends(k, p, e, m)'
                 PROVE  NodeSends(k, p, e, m)
      BY DEF KeepsNodes
    <3>1. CASE SubmitSends(k, p, e, m)'
      BY <1>3, <3>1 DEF SubmitSends, QuietSched, NodeSends, Feeds, ExecRest
    <3>2. ASSUME NEW u \in Threads, ThreadSends(u, k, p, e, m)' PROVE NodeSends(k, p, e, m)
      BY <2>6, <3>2, QuietSends DEF QuietThreads, NodeSends
    <3>3. CASE Sending(rt[k].held, p, e, m)' /\ k # n
      BY <2>3, <3>3 DEF Sending, NodeSends
    <3>4. CASE Sending(rt[k].held, p, e, m)' /\ k = n
      <4>1. p = r /\ e = d /\ m \in out
        BY <2>3, <3>4 DEF Sending, o
      <4>2. th[t].pc \in Working
        BY <1>0, <1>7 DEF Working, ThreadPc
      <4>3. ThreadSends(t, k, p, e, m)
        BY <1>1, <1>2, <3>4, <4>1, <4>2 DEF ThreadSends, Feeds
      <4> QED BY <4>3 DEF NodeSends
    <3> QED BY <3>1, <3>2, <3>3, <3>4 DEF NodeSends
  <2>11. QuietQueues
    <3>1. \A k \in Nodes : rt'[k].pending = rt[k].pending
      BY <2>3
    <3> QED BY <3>1 DEF QuietQueues, TraceInv, QueuesDistinct, Queued
  <2>12. TraceStep
    BY <1>0, <1>3, <2>6, <2>10, <2>11, QuietQueued, QuietClientsKeep, KeepTraces
       DEF TraceInv, ExecRest
  <2> QED BY <2>9, <2>12
<1> QED BY <1>6, <1>7

LEMMA ExecutorTraces ==
  ASSUME TaskInv, AllLiveAreTasks, ShapeInv, TraceInv, OneSource,
         NEW t \in Threads, Executor(t)
  PROVE  ShapeInv' /\ TraceStep
<1>0. TypeOK
  BY DEF TaskInv
<1>1. CASE Quiet
  BY <1>0, <1>1, QuietStep
<1>2. CASE ExecGoalContinue(t)
  BY <1>2, ContinueTraces
<1>3. ASSUME NEW m \in Nodes, ExecPropagate(t, m) PROVE ShapeInv' /\ TraceStep
  BY <1>3, PropagateTraces
<1>4. ASSUME NEW out \in SUBSET Nodes, ExecComplete(t, out) PROVE ShapeInv' /\ TraceStep
  BY <1>4, CompleteTraces
<1>5. \/ ExecGoalContinue(t) \/ \E m \in Nodes : ExecPropagate(t, m)
      \/ \E out \in SUBSET Nodes : ExecComplete(t, out) \/ Quiet
  BY <1>0, PlainStepQuiet, ConsumeQuiet, ReadQuiet, WriteQuiet, ReturnQuiet DEF Executor
<1> QED BY <1>1, <1>2, <1>3, <1>4, <1>5

-----------------------------------------------------------------------------
(* The API threads                                                         *)

LEMMA OneClientQuiet ==
  ASSUME TypeOK, NEW c \in Clients, NEW x, cl' = [cl EXCEPT ![c] = x],
         x.outs = << >>, x.pc # "emit_append"
  PROVE  QuietClients /\ cl'[c].pc # "emit_append"
<1>1. cl'[c] = x /\ \A e \in Clients \ {c} : cl'[e] = cl[e]
  BY DEF TypeOK, ClientsOK
<1> QED BY <1>1 DEF QuietClients, ClientQuiet

LEMMA ReplyQuiet ==
  ASSUME TypeOK, NEW c \in Clients, Reply(c)
  PROVE  QuietClients /\ cl'[c].pc # "emit_append"
<1>1. IdleClient.outs = << >> /\ IdleClient.pc # "emit_append"
  BY DEF IdleClient
<1> QED BY <1>1, OneClientQuiet DEF Reply

LEMMA ContinueQuiet ==
  ASSUME TypeOK, NEW c \in Clients, NEW n, NEW p, p # "emit_append", Continue(c, n, p)
  PROVE  QuietClients /\ cl'[c].pc # "emit_append"
<1> DEFINE x == [IdleClient EXCEPT !.pc = p, !.node = n]
<1>1. x.outs = << >> /\ x.pc # "emit_append"
  BY DEF IdleClient
<1>2. cl' = [cl EXCEPT ![c] = x]
  BY DEF Continue
<1> HIDE DEF x
<1> QED BY <1>1, <1>2, OneClientQuiet

LEMMA CancellationQuiet ==
  ASSUME TypeOK, NEW n, RequestCancellation(n)
  PROVE  QuietThreads
<1>1. \A t \in Threads :
        /\ th'[t].pc = th[t].pc /\ th'[t].node = th[t].node /\ th'[t].item = th[t].item
        /\ th'[t].snap = th[t].snap /\ th'[t].tasks = th[t].tasks
  BY DEF RequestCancellation, TypeOK, ThreadsOK, Thread
<1> QED BY <1>1 DEF QuietThreads, ThreadQuiet

\* The steps of a request that bring no item and release no output.
LEMMA FinishQuiet ==
  ASSUME TypeOK, OwnInv, TraceInv, NEW c \in Clients,
         \/ ClientWake(c) \/ StopRequest(c) \/ DeleteRequest(c) \/ DeleteArchive(c)
         \/ DeleteRollback(c) \/ DeleteClear(c) \/ EditWrite(c)
  PROVE  Quiet
<1>0. ~EditWrite(c)
  BY DEF OwnInv, EditWrite
<1>1. started' = started /\ used' = used /\ QuietSched
  BY <1>0 DEF ClientWake, StopRequest, DeleteRequest, DeleteArchive, DeleteRollback,
              DeleteClear, history, Update, Remove, NoSched, batch, EnsureAndWake, NewRunner,
              QuietSched
<1>2. QuietClients
  <2>1. Reply(c) \/ \E p \in {"delete_wait", "delete_clear"} : \E n : Continue(c, n, p)
    BY <1>0 DEF ClientWake, StopRequest, DeleteRequest, DeleteArchive, DeleteRollback,
                DeleteClear
  <2> QED BY <2>1, ReplyQuiet, ContinueQuiet
<1>3. QuietThreads
  <2>1. th' = th \/ RequestCancellation(cl[c].node)
    BY <1>0 DEF ClientWake, StopRequest, DeleteRequest, DeleteArchive, DeleteRollback,
                DeleteClear, NoExec
  <2> QED BY <2>1, SameThreadsQuiet, CancellationQuiet
<1>4. cl[c].node \in Nodes /\ rt[cl[c].node] \in Runtime
  <2>1. cl[c].pc # "none"
    BY <1>0 DEF ClientWake, StopRequest, DeleteRequest, DeleteArchive, DeleteRollback,
                DeleteClear
  <2> QED BY <2>1, RecordType DEF TypeOK, ClientsOK
<1>5. QuietHeld /\ QuietQueues
  <2>1. \/ rt' = rt
        \/ Store(cl[c].node, rt[cl[c].node])
        \/ Store(cl[c].node, ClearDeleteRequested(rt[cl[c].node]))
        \/ Store(cl[c].node, FreshRuntime)
    BY <1>0 DEF ClientWake, StopRequest, DeleteRequest, DeleteArchive, DeleteRollback,
                DeleteClear, Update, Remove
  <2> QED BY <1>4, <2>1, OperationsThin, StoreThin, SameStoreQuiet DEF TraceInv
<1> QED BY <1>1, <1>2, <1>3, <1>5 DEF Quiet

\* The requests that bring no item of a plain trace and release no output.
LEMMA RequestQuiet ==
  ASSUME TypeOK, TraceInv, NEW c \in Clients, NEW n \in Nodes,
         \/ Pop(c, n) \/ StopNode(c, n) \/ DeleteNode(c, n)
         \/ \E s \in {"stop", "working"} : SetState(c, n, s)
  PROVE  Quiet
<1>1. started' = started /\ used' = used /\ QuietSched /\ th' = th
  BY DEF Pop, StopNode, DeleteNode, SetState, history, Update, Remove, NoSched, batch,
         QuietSched, NoExec
<1>2. QuietClients
  <2>1. cl' = cl \/ \E p \in {"stop_request", "delete_request"} : Continue(c, n, p)
    BY DEF Pop, StopNode, DeleteNode, SetState
  <2> QED BY <2>1, SameClientsQuiet, ContinueQuiet
<1>3. rt[n] \in Runtime
  BY RecordType DEF TypeOK
<1>4. QuietHeld /\ QuietQueues
  <2>1. \/ Store(n, PopPending(rt[n])) \/ Store(n, CancelWork(rt[n]))
        \/ Store(n, MarkDeleteRequested(rt[n])) \/ \E s : Store(n, UpdateState(rt[n], s))
    BY DEF Pop, StopNode, DeleteNode, SetState, Update, Remove
  <2> QED BY <1>3, <2>1, OperationsThin, StoreThin DEF TraceInv
<1> QED BY <1>1, <1>2, <1>4, SameThreadsQuiet DEF Quiet

LEMMA EnqueueQuiet ==
  ASSUME TypeOK, TraceInv, NEW c \in Clients, NEW n \in Nodes, NEW key \in Keys,
         NEW src \in Keyed, Enqueue(c, n, key, src)
  PROVE  Quiet
<1> DEFINE it == [trace |-> key, depth |-> 0, src |-> src]
<1>1. it \in Item /\ it.trace = key /\ key \notin Plain
  BY KeysAssumption, MaxDepthAssumption DEF Item, Keyed, Sources, Plain
<1>2. Accept(n, it) /\ (Reply(c) \/ Continue(c, n, "wake"))
  BY DEF Enqueue
<1>3. used' = used /\ QuietSched /\ th' = th
  BY DEF Enqueue, NoSched, batch, QuietSched, NoExec
<1> HIDE DEF it
<1>4. QuietClients
  BY <1>2, ReplyQuiet, ContinueQuiet
<1>5. QuietHeld /\ QuietQueues /\ started' = started
  BY <1>1, <1>2, AcceptQueues DEF TraceInv, QuietQueues
<1> QED BY <1>3, <1>4, <1>5, SameThreadsQuiet DEF Quiet

\* emit_graph accepts a message.
LEMMA EmitNewTrace ==
  ASSUME TypeOK, ShapeInv, TraceInv, NEW c \in Clients, NEW n \in Nodes, NEW tr \in Traces,
         Emit(c, n, tr)
  PROVE  ShapeInv' /\ TraceStep
<1>1. /\ tr \in Plain /\ tr \notin used /\ used' = used \cup {tr}
      /\ UNCHANGED <<rt, th, spc, cur, picked>> /\ started' = started
  BY DEF Emit, Plain, store, history, NoSched, batch, NoExec
<1>2. /\ cl'[c].pc = "emit_append" /\ cl'[c].node = n /\ cl'[c].outs = << >>
      /\ cl'[c].item.trace = tr /\ cl'[c].item.depth = 0
      /\ \A e \in Clients \ {c} : cl'[e] = cl[e]
  BY DEF Emit, IdleClient, TypeOK, ClientsOK
<1>3. QuietHeld /\ QuietQueues /\ QuietThreads /\ QuietSched
  BY <1>1, SameStoreQuiet, SameThreadsQuiet DEF TraceInv, QuietSched
<1>4. ShapeInv'
  <2>1. \A k \in Nodes : NodeShape(k)'
    BY <1>1 DEF ShapeInv, NodeShape, NoRoutes
  <2>2. \A t \in Threads : ThreadShape(t)'
    BY <1>1 DEF ShapeInv, ThreadShape
  <2>3. \A e \in Clients : ClientShape(e)'
    BY <1>1, <1>2 DEF ShapeInv, ClientShape, AtMostOne
  <2> QED BY <1>1, <2>1, <2>2, <2>3 DEF ShapeInv
<1>5. KeepsClients
  BY <1>2 DEF KeepsClients, ClientSends, Sending
<1>6. \A e \in Clients, k \in Nodes, q \in Plain :
        Emits(e, k, q)' => Emits(e, k, q) \/ (e = c /\ k = n /\ q = tr)
  BY <1>2 DEF Emits
<1>7. KeepsNodes /\ QueuesDistinct' /\ KeepsQueued
  BY <1>3, QuietNodes, QuietQueued DEF TraceInv
<1>8. TraceStep
  BY <1>1, <1>5, <1>6, <1>7, NewTrace
<1> QED BY <1>4, <1>8

\* ...and queues it.
LEMMA AppendTraces ==
  ASSUME TypeOK, ShapeInv, TraceInv, NEW c \in Clients, EmitAppend(c)
  PROVE  ShapeInv' /\ TraceStep
<1>1. PICK n \in Nodes, it \in Item : n = cl[c].node /\ it = cl[c].item
  BY DEF TypeOK, ClientsOK, EmitAppend, Client
<1>2. PICK r \in Plain : r = it.trace /\ it.depth = 0
  BY <1>1 DEF ShapeInv, ClientShape, EmitAppend
<1>3. /\ Accept(n, it) /\ (Reply(c) \/ Continue(c, n, "wake"))
      /\ used' = used /\ QuietSched /\ th' = th
  BY <1>1 DEF EmitAppend, NoSched, batch, QuietSched, NoExec
<1>4. QuietClients /\ QuietThreads /\ cl'[c].pc # "emit_append"
  BY <1>3, ReplyQuiet, ContinueQuiet, SameThreadsQuiet
<1>5. Emits(c, n, r)
  BY <1>1, <1>2 DEF Emits, EmitAppend
<1>6. ~Queued(n, r, 0)
  BY <1>5 DEF TraceInv, EmitsSound, Used
<1>7. QuietHeld /\ started' = started
  BY <1>2, <1>3, <1>6, AcceptQueues DEF TraceInv
<1>8. /\ QueuesDistinct'
      /\ \A k \in Nodes, q \in Plain, e \in Nat :
           Queued(k, q, e)' => Queued(k, q, e) \/ (k = n /\ q = r /\ e = 0)
  BY <1>2, <1>3, <1>4, <1>6, AcceptQueued DEF TraceInv
<1>9. \A k \in Nodes : ~Emits(c, k, r)'
  BY <1>4 DEF Emits
<1>10. KeepsNodes /\ KeepsClients /\ KeepsEmits
  BY <1>3, <1>4, <1>7, QuietNodes, QuietClientsKeep
<1>11. ShapeInv'
  BY <1>3, <1>4, <1>7, QuietShape
<1>12. TraceStep
  BY <1>3, <1>5, <1>7, <1>8, <1>9, <1>10, EmitTraces
<1> QED BY <1>11, <1>12

\* Resume takes the held output out of the store.
LEMMA ResumeTraces ==
  ASSUME TypeOK, ShapeInv, TraceInv, NEW c \in Clients, NEW n \in Nodes, ResumeNode(c, n)
  PROVE  ShapeInv' /\ TraceStep
<1>1. rt[n] \in Runtime
  BY RecordType DEF TypeOK
<1>2. /\ Store(n, Resume(rt[n])) /\ started' = started /\ used' = used /\ th' = th
      /\ UNCHANGED <<spc, cur, picked>>
  BY DEF ResumeNode, Update, history, NoSched, batch, NoExec
<1>3. QuietHeld /\ QuietQueues /\ QuietThreads /\ QuietSched
  BY <1>1, <1>2, OperationsThin, StoreThin, SameThreadsQuiet DEF TraceInv, QuietSched
<1>4. /\ cl'[c].node = n /\ cl'[c].outs = Released(rt[n]) /\ cl'[c].pc # "emit_append"
      /\ \A e \in Clients \ {c} : cl'[e] = cl[e]
  BY DEF ResumeNode, IdleClient, TypeOK, ClientsOK
<1>5. Released(rt[n]) = << >> \/ (Released(rt[n]) = rt[n].held /\ rt'[n].held = << >>)
  <2>1. Writes(n, Resume(rt[n]))
    BY <1>2, StoreWrites
  <2> QED BY <1>1, <2>1 DEF Released, Resume, Writes, Runtime
<1>6. ShapeInv'
  <2>1. \A k \in Nodes : NodeShape(k)'
    BY <1>3 DEF ShapeInv, NodeShape, QuietHeld, AtMostOne, NoRoutes
  <2>2. \A t \in Threads : ThreadShape(t)'
    BY <1>3, QuietThreadShape DEF QuietThreads
  <2>3. \A e \in Clients : ClientShape(e)'
    BY <1>4, <1>5 DEF ShapeInv, ClientShape, NodeShape, AtMostOne
  <2>4. spc' = "submit" => rt'[cur'].held = << >>
    BY <1>2, <1>3 DEF ShapeInv, QuietHeld, TypeOK, SchedulerOK
  <2> QED BY <2>1, <2>2, <2>3, <2>4 DEF ShapeInv
<1>7. KeepsEmits
  BY <1>4 DEF KeepsEmits, Emits
<1>8. KeepsNodes /\ QueuesDistinct' /\ KeepsQueued
  BY <1>3, QuietNodes, QuietQueued DEF TraceInv
<1>9. ASSUME NEW e \in Clients, NEW k \in Nodes, NEW m \in Nodes, NEW q \in Plain,
             NEW d \in Nat, ClientSends(e, k, q, d, m)', ~ClientSends(e, k, q, d, m)
      PROVE  e = c /\ NodeSends(k, q, d, m) /\ ~NodeSends(k, q, d, m)'
  <2>1. e = c /\ k = n /\ Sending(Released(rt[n]), q, d, m)
    BY <1>4, <1>9 DEF ClientSends
  <2>2. Released(rt[n]) = rt[n].held /\ rt[n].held # << >> /\ rt'[n].held = << >>
    BY <1>5, <2>1 DEF Sending
  <2>3. NodeSends(k, q, d, m)
    BY <2>1, <2>2 DEF NodeSends
  <2>4. ~SubmitSends(k, q, d, m)'
    BY <1>2, <2>1, <2>2 DEF SubmitSends, ShapeInv
  <2>5. \A t \in Threads : ~ThreadSends(t, k, q, d, m)'
    BY <1>2, <2>1, <2>2 DEF ThreadSends, ShapeInv, ThreadShape, Working
  <2>6. ~Sending(rt[k].held, q, d, m)'
    BY <2>1, <2>2 DEF Sending
  <2> QED BY <2>1, <2>3, <2>4, <2>5, <2>6 DEF NodeSends
<1>10. TraceStep
  BY <1>2, <1>7, <1>8, <1>9, ReleaseTraces
<1> QED BY <1>6, <1>10

\* A resumed output reaches one of its targets.
LEMMA ReleaseStep ==
  ASSUME TypeOK, ShapeInv, TraceInv, OneSource, NEW c \in Clients, NEW m \in Nodes,
         ResumeRelease(c, m)
  PROVE  ShapeInv' /\ TraceStep
<1>1. PICK n \in Nodes, x \in Output : n = cl[c].node /\ cl[c].outs = <<x>>
  BY DEF TypeOK, ClientsOK, ShapeInv, ClientShape, AtMostOne, ResumeRelease
<1>2. Head(cl[c].outs) = x /\ Tail(cl[c].outs) = << >> /\ m \in x.targets
  BY <1>1 DEF ResumeRelease
<1>3. used' = used /\ QuietSched /\ th' = th /\ QuietThreads
  BY SameThreadsQuiet DEF ResumeRelease, NoSched, batch, EnsureAndWake, NewRunner,
                          QuietSched, NoExec
<1>4. CASE Refuses(rt[m])
  <2>1. rt' = rt /\ started' = started /\ Reply(c)
    BY <1>4 DEF ResumeRelease, history
  <2>2. Quiet
    BY <1>3, <2>1, SameStoreQuiet, ReplyQuiet DEF Quiet, TraceInv
  <2> QED BY <2>2, QuietStep
<1>5. CASE ~Refuses(rt[m])
  <2> DEFINE y == [x EXCEPT !.targets = @ \ {m}]
             rest == IF x.targets = {m} THEN << >> ELSE <<y>>
             it == Propagated(x.trace, x.depth)
  <2>1. /\ Accept(m, it)
        /\ cl' = [cl EXCEPT ![c].outs = rest,
                    ![c].pc = IF rest = << >> THEN "wake" ELSE @]
    <3>1. <<y>> \o << >> = <<y>>
      OBVIOUS
    <3>2. rest = IF x.targets = {m} THEN Tail(cl[c].outs) ELSE <<y>> \o Tail(cl[c].outs)
      BY <1>2, <3>1
    <3> QED BY <1>2, <1>5, <3>2 DEF ResumeRelease
  <2>2. x.trace \in Traces /\ x.depth \in Nat /\ x.depth < MaxDepth
        /\ x.targets \in (SUBSET Nodes) \ {{}}
    BY MaxDepthAssumption DEF Output
  <2>3. it \in Item /\ it.trace = x.trace /\ it.depth = x.depth + 1
    BY <2>2, MaxDepthAssumption DEF Propagated, Item, Sources
  <2>4. y.trace = x.trace /\ y.depth = x.depth /\ y.targets = x.targets \ {m}
    BY DEF Output
  <2>5. x.targets # {m} => y \in Output
    BY <1>2, <2>2 DEF Output
  <2>6. /\ cl'[c].node = n /\ cl'[c].outs = rest /\ cl'[c].pc # "emit_append"
        /\ \A e \in Clients \ {c} : cl'[e] = cl[e]
    BY <1>1, <2>1 DEF ResumeRelease, TypeOK, ClientsOK, Client
  <2> HIDE DEF y, it
  <2>7. QuietClients
    <3>1. rest = << >> \/ Reached(<<x>>, rest)
      BY <2>4, <2>5 DEF Reached
    <3> HIDE DEF rest
    <3> QED BY <1>1, <2>6, <3>1 DEF QuietClients, ClientQuiet
  <2>8. ASSUME x.trace \in Plain
        PROVE  /\ Sound(n, x.trace, x.depth, m) /\ ~NodeSends(n, x.trace, x.depth, m)'
               /\ \A e \in Clients : ~ClientSends(e, n, x.trace, x.depth, m)'
    <3>1. ClientSends(c, n, x.trace, x.depth, m)
      BY <1>1, <1>2 DEF ClientSends, Sending
    <3>2. /\ Sound(n, x.trace, x.depth, m) /\ ~NodeSends(n, x.trace, x.depth, m)
          /\ \A e \in Clients : ClientSends(e, n, x.trace, x.depth, m) => e = c
      BY <2>2, <2>8, <3>1 DEF TraceInv, ClientsSound
    <3>3. QuietHeld
      BY <2>1, <2>3, <3>2, AcceptQueues DEF TraceInv, Sound, Used
    <3>4. KeepsNodes /\ KeepsClients
      BY <1>3, <2>7, <3>3, QuietNodes, QuietClientsKeep
    <3>5. ~ClientSends(c, n, x.trace, x.depth, m)'
      <4>1. ~Sending(rest, x.trace, x.depth, m)
        BY <2>4 DEF Sending
      <4> HIDE DEF rest
      <4> QED BY <2>6, <4>1 DEF ClientSends
    <3> QED BY <2>2, <2>8, <3>2, <3>4, <3>5 DEF KeepsNodes, KeepsClients
  <2> HIDE DEF rest
  <2> QED BY <1>3, <2>1, <2>2, <2>3, <2>7, <2>8, SendStep
<1> QED BY <1>4, <1>5

LEMMA ClientTraces ==
  ASSUME TypeOK, OwnInv, ShapeInv, TraceInv, OneSource, "edit" \notin Ops,
         NEW c \in Clients, ClientStep(c) \/ ClientRequest(c)
  PROVE  ShapeInv' /\ TraceStep
<1>1. CASE ClientStep(c)
  BY <1>1, AppendTraces, FinishQuiet, ReleaseStep, QuietStep DEF ClientStep
<1>2. CASE ClientRequest(c)
  <2>1. PICK n \in Nodes :
      \/ \E tr \in Traces : Emit(c, n, tr)
      \/ \E key \in Keys, src \in Keyed : Enqueue(c, n, key, src)
      \/ Pop(c, n) \/ ResumeNode(c, n) \/ StopNode(c, n) \/ DeleteNode(c, n)
      \/ \E s \in {"stop", "working"} : SetState(c, n, s)
      \/ EditRead(c, n)
    BY <1>2 DEF ClientRequest
  <2>2. ~EditRead(c, n)
    BY DEF EditRead, Request
  <2> QED BY <2>1, <2>2, EmitNewTrace, EnqueueQuiet, RequestQuiet, ResumeTraces, QuietStep
<1> QED BY <1>1, <1>2

-----------------------------------------------------------------------------
(* The theorem                                                             *)

LEMMA FreshTraces ==
  ASSUME NEW x, x = FreshRuntime
  PROVE  /\ x.held = << >> /\ Distinct(x.pending)
         /\ \A r, d : ~Holds(x.pending, r, d)
BY DEF FreshRuntime, Distinct, Holds

LEMMA RestartQuiet ==
  ASSUME Restart
  PROVE  Quiet
<1>1. /\ \A n \in Nodes : rt'[n] = FreshRuntime
      /\ \A t \in Threads : th'[t] = FreeThread
      /\ \A c \in Clients : cl'[c] = IdleClient
      /\ spc' = "dead" /\ started' = started /\ used' = used
  BY DEF Restart
<1>2. QuietHeld /\ QuietQueues
  BY <1>1, FreshTraces DEF QuietHeld, QuietQueues
<1>3. QuietThreads /\ QuietClients /\ QuietSched
  BY <1>1 DEF QuietThreads, ThreadQuiet, QuietClients, ClientQuiet, IdleClient, QuietSched
<1> QED BY <1>1, <1>2, <1>3 DEF Quiet

LEMMA InitTraces == Init => ShapeInv /\ TraceInv
<1> SUFFICES ASSUME Init PROVE ShapeInv /\ TraceInv
  OBVIOUS
<1>1. /\ \A n \in Nodes : rt[n] = FreshRuntime
      /\ \A t \in Threads : th[t] = FreeThread
      /\ \A c \in Clients : cl[c] = IdleClient
      /\ spc = "dead" /\ started = {}
  BY DEF Init
<1>2. \A t \in Threads : /\ th[t].snap = FreshRuntime /\ th[t].pc = "free"
                         /\ th[t].node = NoNode
  BY <1>1 DEF FreeThread
<1>3. \A c \in Clients : cl[c].outs = << >> /\ cl[c].pc = "none"
  BY <1>1 DEF IdleClient
<1>4. ShapeInv
  BY <1>1, <1>2, <1>3, FreshTraces DEF ShapeInv, NodeShape, ThreadShape, ClientShape, AtMostOne
<1>5. /\ \A n \in Nodes : \A r, d : ~Queued(n, r, d)
      /\ \A n, r, d : ~Begun(n, r, d)
  BY <1>1, <1>2, FreshTraces DEF Queued, Begun
<1>6. QueuesDistinct /\ QueuedNotBegun /\ Caused
  BY <1>1, <1>2, <1>5, FreshTraces DEF QueuesDistinct, QueuedNotBegun, Caused, Used
<1>7. \A n \in Nodes : \A r, d, m : ~NodeSends(n, r, d, m)
  BY <1>1, <1>2, FreshTraces DEF NodeSends, SubmitSends, ThreadSends, Sending, Working
<1>8. \A c \in Clients : /\ \A n, r, d, m : ~ClientSends(c, n, r, d, m)
                         /\ \A n, r : ~Emits(c, n, r)
  BY <1>3 DEF ClientSends, Sending, Emits
<1>9. NodesSound /\ ClientsSound /\ EmitsSound
  BY <1>7, <1>8 DEF NodesSound, ClientsSound, EmitsSound
<1> QED BY <1>4, <1>6, <1>9 DEF TraceInv

LEMMA TracesInductive ==
  ASSUME TaskInv, AllLiveAreTasks, OwnInv, ShapeInv, TraceInv, OneSource,
         NoRoutes \/ StoreHeld, "edit" \notin Ops, [Next]_vars
  PROVE  ShapeInv' /\ TraceStep
<1>0. TypeOK
  BY DEF TaskInv
<1>1. CASE Scheduler
  BY <1>1, SchedulerTraces
<1>2. ASSUME NEW t \in Threads, Executor(t) PROVE ShapeInv' /\ TraceStep
  BY <1>2, ExecutorTraces
<1>3. ASSUME NEW c \in Clients, ClientStep(c) \/ ClientRequest(c)
      PROVE  ShapeInv' /\ TraceStep
  BY <1>0, <1>3, ClientTraces
<1>4. CASE Restart
  BY <1>0, <1>4, RestartQuiet, QuietStep
<1>5. CASE StatusCleanup \/ GraphDeleteBlocked \/ UNCHANGED vars
  <2>1. UNCHANGED <<rt, th, cl, spc, cur, picked, used>> /\ started' = started
    BY <1>5 DEF StatusCleanup, GraphDeleteBlocked, vars, batch, history, NoExec
  <2>2. Quiet
    BY <1>0, <2>1, SameStoreQuiet, SameThreadsQuiet, SameClientsQuiet
       DEF Quiet, QuietSched, TraceInv
  <2> QED BY <1>0, <2>2, QuietStep
<1> QED BY <1>1, <1>2, <1>3, <1>4, <1>5 DEF Next

\* What is dequeued was queued, so it had not been begun.
LEMMA DequeuedIsNew ==
  ASSUME TypeOK, TraceInv, [Next]_vars, spc = "dequeue", spc' = "submit",
         picked'.trace \notin Keys
  PROVE  <<cur, picked'>> \notin started
<1>1. SchedDequeue
  <2>1. CASE Scheduler
    BY <2>1 DEF Scheduler, SchedWait, SchedExit, SchedCleanup, SchedBatchEnd, SchedVisit,
                SchedCheckActive, SchedRecover, SchedSubmit
  <2>2. ASSUME NEW t \in Threads, Executor(t) PROVE FALSE
    <3>1. SameRunner \/ ExecReturn(t)
      BY <2>2, ExecutorKeeps
    <3> QED BY <3>1 DEF SameRunner, ExecReturn
  <2>3. ASSUME NEW c \in Clients, ClientStep(c) \/ ClientRequest(c) PROVE FALSE
    BY <2>3, ClientKeeps DEF SameRunner
  <2>4. ~StatusCleanup /\ ~GraphDeleteBlocked /\ ~Restart /\ ~UNCHANGED vars
    BY DEF StatusCleanup, GraphDeleteBlocked, Restart, vars
  <2> QED BY <2>1, <2>2, <2>3, <2>4 DEF Next
<1>2. PICK n \in Nodes, s \in Seq(Item), it \in Item :
        /\ n = cur /\ s = rt[n].pending /\ s # << >> /\ it = Head(s)
  <2>1. cur \in Nodes /\ CanDequeue(rt[cur])
    BY <1>1 DEF TypeOK, SchedulerOK, SchedDequeue
  <2>2. rt[cur].pending \in Seq(Item) /\ rt[cur].pending # << >>
    BY <2>1, RecordType DEF TypeOK, Runtime, CanDequeue
  <2> QED BY <2>1, <2>2, HeadTailProperties
<1>3. picked' = it
  <2>1. rt[n] \in Runtime /\ CanDequeue(rt[n]) /\ picked' = DequeueToWorking(rt[n]).inflight
    BY <1>1, <1>2, RecordType DEF SchedDequeue, TypeOK
  <2> QED BY <1>2, <2>1 DEF DequeueToWorking, Runtime
<1>4. it.trace \in Plain /\ it.depth \in Nat
  BY <1>3, MaxDepthAssumption DEF Item, Plain
<1>5. Queued(n, it.trace, it.depth)
  BY <1>2, TailThins DEF Queued
<1>6. ~Begun(n, it.trace, it.depth)
  BY <1>4, <1>5 DEF TraceInv, QueuedNotBegun
<1>7. <<n, it>>[1] = n /\ <<n, it>>[2] = it
  OBVIOUS
<1>8. <<n, it>> \notin started
  BY <1>6, <1>7, Zenon DEF Begun
<1> QED BY <1>2, <1>3, <1>8

\* For every graph in which no node gets a trace from two nodes, and every
\* number of threads, clients, traces and requests: a work item that has no
\* key is handed to an executor at most once.  Pauses, held and resumed
\* outputs, goal turns, mid-turn inputs, deletions that are rolled back,
\* restarts and failing iterations never make dequeue_pending_to_working
\* return it again, although every iteration writes an old copy of the queue
\* back.  Left out are the requests after which it is false: saved settings
\* bring an old queue back, a refused graph deletion leaves two executors to
\* one node, and in a graph with routes "stop" and the state "working" let a
\* node run while it still holds an output (README, section 3).
THEOREM RunsOnce ==
  ASSUME OneSource, Ops \cap {"edit", "stop_runner"} = {},
         NoRoutes \/ Ops \cap {"stop", "set_working"} = {}
  PROVE  Spec => StartsOnce
<1> DEFINE Inv == /\ TaskInv /\ AllLiveAreTasks /\ OwnInv /\ ShapeInv /\ TraceInv
                  /\ NoRoutes \/ HeldInv
<1>0. /\ "edit" \notin Ops /\ "stop_runner" \notin Ops
      /\ NoRoutes \/ ("stop" \notin Ops /\ "set_working" \notin Ops)
  OBVIOUS
<1>1. Init => Inv
  BY InitTasks, InitOwn, InitHeld, InitTraces
<1>2. Inv /\ [Next]_vars => Inv'
  <2> SUFFICES ASSUME Inv, [Next]_vars PROVE Inv'
    OBVIOUS
  <2>1. TaskInv' /\ AllLiveAreTasks' /\ OwnInv'
    BY <1>0, TasksInductive, OwnInductive
  <2>2. ShapeInv' /\ TraceInv'
    BY <1>0, TracesInductive DEF HeldInv, TraceStep
  <2>3. NoRoutes' \/ HeldInv'
    <3>1. NoRoutes => NoRoutes'
      BY DEF NoRoutes
    <3>2. ~NoRoutes => HeldInv'
      BY <1>0, HeldInductive
    <3> QED BY <3>1, <3>2
  <2> QED BY <2>1, <2>2, <2>3
<1>3. Inv /\ [Next]_vars =>
        [spc = "dequeue" /\ spc' = "submit" /\ picked'.trace \notin Keys
           => <<cur, picked'>> \notin started]_vars
  BY DequeuedIsNew DEF TaskInv
<1> QED BY <1>1, <1>2, <1>3, PTL DEF Spec, StartsOnce

-----------------------------------------------------------------------------
(* An inflight item has an owner.                                          *)
(*                                                                         *)
(* An item loses its owner when _submit_executor_task finds an entry of    *)
(* the same trace and node in the task table, or when an executor gives    *)
(* its item up for a stop that somebody else has cleared.  In a graph      *)
(* whose routes lead from layer to layer a trace has one depth on each     *)
(* node, so the place that is dequeued is the only one of its trace there, *)
(* and no entry of it is in the table.                                     *)

Layering(l) ==
  /\ l \in [Nodes -> Int]
  /\ \A n, m \in Nodes : m \in Feeds(n) => l[m] = l[n] + 1

\* The graph has layers.  No node has a goal then: its turns keep the node.
Layered == \E l : Layering(l)

LevelInv(l) ==
  /\ \A n, m \in Nodes, r \in Plain, d, e \in Nat :
       Used(n, r, d) /\ Used(m, r, e) => d - l[n] = e - l[m]
  /\ \A n \in Nodes, r \in Plain, d \in Nat : Used(n, r, d) => r \in used
  /\ \A c \in Clients, n, m \in Nodes, r \in Plain, d \in Nat :
       Emits(c, n, r) => ~Used(m, r, d)

\* A place is used because the place before it was, or because of a message.
LEMMA LevelSource ==
  ASSUME NEW l, Layering(l), TraceStep,
         NEW n \in Nodes, NEW r \in Plain, NEW d \in Nat, Used(n, r, d)'
  PROVE  \/ \E k \in Nodes, e \in Nat : Used(k, r, e) /\ d - l[n] = e - l[k]
         \/ d = 0 /\ \E c \in Clients : Emits(c, n, r)
<1>1. CASE d = 0
  BY <1>1 DEF TraceStep, Grows
<1>2. CASE d # 0
  <2>1. PICK e \in Nat : d = e + 1
    <3>1. d - 1 \in Nat /\ d = (d - 1) + 1
      BY <1>2
    <3> QED BY <3>1
  <2>2. PICK k \in Nodes : n \in Feeds(k) /\ Begun(k, r, e)'
    BY <2>1 DEF TraceStep, TraceInv, Caused
  <2>3. Used(k, r, e)
    BY <2>2 DEF TraceStep, Grows
  <2>4. d - l[n] = e - l[k]
    <3>1. l[n] = l[k] + 1 /\ l[k] \in Int
      BY <2>2 DEF Layering
    <3> QED BY <2>1, <3>1
  <2> QED BY <2>3, <2>4
<1> QED BY <1>1, <1>2

LEMMA LevelStep ==
  ASSUME NEW l, Layering(l), TraceInv, LevelInv(l), TraceStep
  PROVE  LevelInv(l)'
<1>0. \A c, e \in Clients, n, m \in Nodes, r \in Plain :
        Emits(c, n, r) /\ Emits(e, m, r) => c = e /\ n = m
  BY DEF TraceInv, EmitsSound, Emits
<1>1. ASSUME NEW n \in Nodes, NEW m \in Nodes, NEW r \in Plain, NEW d \in Nat, NEW e \in Nat,
             Used(n, r, d)', Used(m, r, e)'
      PROVE  d - l[n] = e - l[m]
  <2>1. CASE \E k \in Nodes, f \in Nat : Used(k, r, f) /\ d - l[n] = f - l[k]
    <3>1. ~\E c \in Clients : Emits(c, m, r)
      BY <2>1 DEF LevelInv
    <3>2. \E k \in Nodes, f \in Nat : Used(k, r, f) /\ e - l[m] = f - l[k]
      BY <1>1, <3>1, LevelSource
    <3> QED BY <2>1, <3>2 DEF LevelInv
  <2>2. CASE d = 0 /\ \E c \in Clients : Emits(c, n, r)
    <3>1. ~\E k \in Nodes, f \in Nat : Used(k, r, f)
      BY <2>2 DEF LevelInv
    <3>2. e = 0 /\ \E c \in Clients : Emits(c, m, r)
      BY <1>1, <3>1, LevelSource
    <3> QED BY <1>0, <2>2, <3>2
  <2> QED BY <1>1, <2>1, <2>2, LevelSource
<1>2. ASSUME NEW n \in Nodes, NEW r \in Plain, NEW d \in Nat, Used(n, r, d)'
      PROVE  r \in used'
  <2>1. CASE \E k \in Nodes, e \in Nat : Used(k, r, e)
    BY <2>1 DEF LevelInv, TraceStep, Grows
  <2>2. CASE \E c \in Clients : Emits(c, n, r)
    BY <2>2 DEF TraceInv, EmitsSound, TraceStep, Grows
  <2> QED BY <1>2, <2>1, <2>2, LevelSource
<1>3. ASSUME NEW c \in Clients, NEW n \in Nodes, NEW m \in Nodes, NEW r \in Plain,
             NEW d \in Nat, Emits(c, n, r)', Used(m, r, d)'
      PROVE  FALSE
  <2>1. CASE \E k \in Nodes, e \in Nat : Used(k, r, e)
    BY <1>3, <2>1 DEF LevelInv, TraceStep, Grows
  <2>2. CASE d = 0 /\ \E e \in Clients : Emits(e, m, r)
    <3>1. r \in used
      BY <2>2 DEF TraceInv, EmitsSound
    <3>2. Emits(c, n, r)
      BY <1>3, <3>1 DEF TraceStep, Grows
    <3>3. n = m
      BY <1>0, <2>2, <3>2
    <3> QED BY <1>3, <2>2, <3>3 DEF TraceStep, TraceInv, EmitsSound
  <2> QED BY <1>3, <2>1, <2>2, LevelSource
<1> QED BY <1>1, <1>2, <1>3 DEF LevelInv

\* No stop is requested, and no executor gives an item up.
StoreCalm == \A n \in Nodes : ~rt[n].stopReq

NoStops ==
  /\ StoreCalm
  /\ \A t \in Threads : /\ ~th[t].snap.stopReq /\ ~th[t].cancelled
                        /\ th[t].pc # "cancelling"
  /\ \A c \in Clients : cl[c].pc # "stop_request"

LEMMA OperationsCalm ==
  ASSUME NEW r \in Runtime, ~r.stopReq
  PROVE  /\ \A it : ~AppendPending(r, it).stopReq
         /\ \A s : ~UpdateState(r, s).stopReq
         /\ ~PopPending(r).stopReq
         /\ ~TransitionToIdle(r).stopReq
         /\ ~FinishStopRequested(r).stopReq
         /\ ~ConsumeMidTurnInputs(r).stopReq
         /\ ~ClearInflight(r).stopReq
         /\ ~RecoverStaleWorking(r).stopReq
         /\ ~Resume(r).stopReq
         /\ ~DequeueToWorking(r).stopReq
         /\ \A out : ~CompleteWork(r, out).stopReq
         /\ \A tr : ~RecordCompletion(r, tr).stopReq
<1>1. /\ \A it : ~AppendPending(r, it).stopReq
      /\ \A s : ~UpdateState(r, s).stopReq
      /\ ~PopPending(r).stopReq
      /\ ~TransitionToIdle(r).stopReq
      /\ ~FinishStopRequested(r).stopReq
  BY DEF AppendPending, UpdateState, PopPending, TransitionToIdle, FinishStopRequested,
         Runtime
<1>2. /\ ~ConsumeMidTurnInputs(r).stopReq
      /\ ~ClearInflight(r).stopReq
      /\ ~RecoverStaleWorking(r).stopReq
      /\ ~Resume(r).stopReq
  BY DEF ConsumeMidTurnInputs, ClearInflight, RecoverStaleWorking, Resume, Runtime
<1>3. /\ ~DequeueToWorking(r).stopReq
      /\ \A out : ~CompleteWork(r, out).stopReq
      /\ \A tr : ~RecordCompletion(r, tr).stopReq
  BY DEF DequeueToWorking, CompleteWork, RecordCompletion, Runtime
<1> QED BY <1>1, <1>2, <1>3

LEMMA WriteCalm ==
  ASSUME TypeOK, StoreCalm, NEW n \in Nodes, NEW r, Store(n, r), ~r.stopReq
  PROVE  StoreCalm'
BY StoreWrites DEF Writes, StoreCalm

LEMMA SameCalm == StoreCalm /\ UNCHANGED rt => StoreCalm'
BY DEF StoreCalm

\* A running iteration keeps its node and item and is never cancelled.
Steady(t) ==
  /\ th'[t].node = th[t].node /\ th'[t].item = th[t].item
  /\ ~th'[t].cancelled /\ th'[t].pc \notin {"free", "cancelling"}

LEMMA GotoSteady ==
  ASSUME TypeOK, NoStops, NEW t \in Threads, NEW p, p \notin {"free", "cancelling"}, Goto(t, p)
  PROVE  Steady(t)
BY DEF TypeOK, ThreadsOK, Thread, NoStops, Goto, Steady

LEMMA ExecutorSteady ==
  ASSUME TypeOK, NoStops, NEW t \in Threads, Executor(t)
  PROVE  /\ Live(t) /\ ~ExecCancel(t) /\ ~ExecCancelFinish(t)
         /\ ExecReturn(t) \/ (Steady(t) /\ finished' \subseteq finished)
<1>1. Live(t)
  BY DEF Executor, Live, ExecBegin, ExecEntry, ExecCancel,
         ExecCancelFinish, ExecConsume, ExecSucceed, ExecFail, ExecEnd,
         ExecAfter, ExecRecordRead, ExecRecordWrite, ExecClear, ExecToIdle,
         ExecMemory, ExecGoal, ExecGoalWrite, ExecGoalEnds, ExecGoalContinue,
         ExecComplete, ExecPropagate, ExecReturn
<1>2. /\ th \in [Threads -> Thread] /\ th[t].node \in Nodes /\ ~rt[th[t].node].stopReq
      /\ ~th[t].cancelled /\ th[t].pc # "cancelling"
  BY <1>1 DEF TypeOK, ThreadsOK, NoStops, StoreCalm
<1>3. ~ExecCancel(t) /\ ~ExecCancelFinish(t)
  BY <1>2 DEF ExecCancel, ExecCancelFinish, StopRequested
<1>4. ASSUME ~ExecReturn(t) PROVE finished' \subseteq finished
  BY <1>4 DEF Executor, NoSched, batch, runner, ExecStore,
         EnsureAndWakeOwn, NewRunner, ExecBegin, ExecEntry, ExecCancel,
         ExecCancelFinish, ExecConsume, ExecSucceed, ExecFail, ExecEnd,
         ExecAfter, ExecRecordRead, ExecRecordWrite, ExecClear, ExecToIdle,
         ExecMemory, ExecGoal, ExecGoalWrite, ExecGoalEnds, ExecGoalContinue,
         ExecComplete, ExecPropagate
<1>5. ASSUME ~ExecReturn(t) PROVE Steady(t)
  <2>1. CASE ExecBegin(t)
    BY <1>2, <2>1 DEF ExecBegin, Thread, Steady
  <2>2. CASE ExecEntry(t)
    BY <1>2, <2>2 DEF ExecEntry, Goto, Thread, Steady
  <2>3. CASE \/ ExecEnd(t) \/ ExecMemory(t) \/ ExecGoalEnds(t) \/ ExecGoalContinue(t)
             \/ ExecSucceed(t) \/ ExecAfter(t) \/ ExecClear(t) \/ ExecToIdle(t)
    BY <2>3, GotoSteady DEF ExecEnd, ExecMemory, ExecGoalEnds, ExecGoalContinue,
       ExecSucceed, ExecAfter, ExecClear, ExecToIdle, ExecStore
  <2>4. CASE ExecConsume(t)
    BY <1>1, <1>2, <2>4 DEF ExecConsume, Steady, Live
  <2>5. CASE ExecFail(t)
    BY <1>2, <2>5 DEF ExecFail, Thread, Steady
  <2>6. CASE ExecRecordRead(t) \/ ExecGoal(t)
    BY <1>2, <2>6 DEF ExecRecordRead, ExecGoal, Goto, Thread, Steady
  <2>7. CASE ExecRecordWrite(t) \/ ExecGoalWrite(t)
    BY <1>2, <2>7 DEF ExecRecordWrite, ExecGoalWrite, Thread, Steady
  <2>8. ASSUME NEW out \in SUBSET Nodes, ExecComplete(t, out) PROVE Steady(t)
    BY <1>2, <2>8 DEF ExecComplete, Thread, Steady
  <2>9. ASSUME NEW m \in Nodes, ExecPropagate(t, m) PROVE Steady(t)
    BY <1>2, <2>9 DEF ExecPropagate, Thread, Steady
  <2> QED BY <1>3, <1>5, <2>1, <2>2, <2>3, <2>4, <2>5, <2>6, <2>7, <2>8, <2>9 DEF Executor
<1> QED BY <1>1, <1>3, <1>4, <1>5

LEMMA ExecutorCalm ==
  ASSUME TypeOK, NoStops, NEW t \in Threads, Executor(t)
  PROVE  StoreCalm'
<1> DEFINE n == th[t].node
           r == rt[n]
<1>a. /\ n \in Nodes /\ r \in Runtime /\ th[t].snap \in Runtime
      /\ StoreCalm /\ ~r.stopReq /\ ~th[t].snap.stopReq
  BY ExecutorSteady, LiveThread, RecordType DEF TypeOK, NoStops, StoreCalm
<1>1. CASE \/ ExecBegin(t) \/ ExecEntry(t) \/ ExecCancelFinish(t) \/ ExecSucceed(t)
           \/ ExecFail(t) \/ ExecAfter(t) \/ ExecClear(t) \/ ExecToIdle(t)
  <2>1. \/ UNCHANGED rt
        \/ Store(n, ClearInflight(r)) \/ Store(n, FinishStopRequested(r))
        \/ Store(n, TransitionToIdle(r))
    BY <1>1 DEF ExecBegin, ExecEntry, ExecCancelFinish, ExecSucceed, ExecFail,
                ExecAfter, ExecClear, ExecToIdle, ExecStore, Update
  <2> QED BY <1>a, <2>1, OperationsCalm, WriteCalm, SameCalm
<1>2. CASE \/ ExecCancel(t) \/ ExecEnd(t) \/ ExecRecordRead(t) \/ ExecMemory(t)
           \/ ExecGoal(t) \/ ExecGoalEnds(t) \/ ExecReturn(t)
  <2>1. UNCHANGED rt
    BY <1>2 DEF ExecCancel, ExecEnd, ExecRecordRead, ExecMemory, ExecGoal,
                ExecGoalEnds, ExecReturn, store
  <2> QED BY <1>a, <2>1, SameCalm
<1>3. CASE ExecConsume(t)
  BY <1>a, <1>3, OperationsCalm, WriteCalm DEF ExecConsume, Remove
<1>4. CASE ExecRecordWrite(t) \/ ExecGoalWrite(t)
  <2>1. \/ Store(n, RecordCompletion(th[t].snap, th[t].item.trace))
        \/ Store(n, th[t].snap)
    BY <1>4 DEF ExecRecordWrite, ExecGoalWrite, WriteConfig
  <2> QED BY <1>a, <2>1, OperationsCalm, WriteCalm
<1>5. ASSUME NEW m \in Nodes, ExecGoalContinue(t) \/ ExecPropagate(t, m)
      PROVE  StoreCalm'
  <2>1. \/ UNCHANGED rt
        \/ \E k \in Nodes : \E it : Store(k, AppendPending(rt[k], it))
    BY <1>a, <1>5 DEF ExecGoalContinue, ExecPropagate, Accept
  <2>2. \A k \in Nodes : rt[k] \in Runtime /\ ~rt[k].stopReq
    BY <1>a, RecordType DEF TypeOK, StoreCalm
  <2> QED BY <1>a, <2>1, <2>2, OperationsCalm, WriteCalm, SameCalm
<1>6. ASSUME NEW out \in SUBSET Nodes, ExecComplete(t, out)
      PROVE  StoreCalm'
  <2>1. \E o : Store(n, CompleteWork(r, o))
    BY <1>6 DEF ExecComplete, Update
  <2> QED BY <1>a, <2>1, OperationsCalm, WriteCalm
<1> QED BY <1>1, <1>2, <1>3, <1>4, <1>5, <1>6, <1>a DEF Executor

LEMMA SchedulerCalm ==
  ASSUME TypeOK, StoreCalm, Scheduler
  PROVE  StoreCalm'
<1>1. \/ UNCHANGED rt
      \/ /\ spc = "recover"
         /\ Store(cur, RecoverStaleWorking(rt[cur]))
      \/ /\ spc = "dequeue"
         /\ Store(cur, DequeueToWorking(rt[cur]))
  BY DEF Scheduler, SchedWait, SchedExit, SchedCleanup, SchedBatchEnd, SchedVisit,
         SchedCheckActive, SchedRecover, SchedDequeue, SchedSubmit, Update
<1>2. spc \in {"recover", "dequeue"} => cur \in Nodes /\ rt[cur] \in Runtime /\ ~rt[cur].stopReq
  BY RecordType DEF TypeOK, SchedulerOK, StoreCalm
<1> QED BY <1>1, <1>2, OperationsCalm, WriteCalm, SameCalm

\* Without stops and deletions the API threads leave the executors alone.
LEMMA ClientCalm ==
  ASSUME TypeOK, OwnInv, NoStops, Ops \cap {"edit", "stop", "delete"} = {},
         NEW c \in Clients, ClientStep(c) \/ ClientRequest(c)
  PROVE  /\ StoreCalm' /\ th' = th /\ picked' = picked /\ finished' \subseteq finished
         /\ \A e \in Clients : cl'[e].pc # "stop_request"
<1>0. /\ "edit" \notin Ops /\ "stop" \notin Ops /\ "delete" \notin Ops
      /\ StoreCalm /\ \A n \in Nodes : rt[n] \in Runtime /\ ~rt[n].stopReq
  BY RecordType DEF TypeOK, NoStops, StoreCalm
<1> DEFINE Moved == (\A e \in Clients \ {c} : cl'[e] = cl[e]) /\ cl'[c].pc # "stop_request"
<1>1. cl \in [Clients -> Client] /\ (cl[c].pc # "none" => cl[c].node \in Nodes)
  BY DEF TypeOK, ClientsOK
<1>2. \A n, p : Continue(c, n, p) /\ p # "stop_request" => Moved
  BY <1>1 DEF Continue, IdleClient
<1>3. Reply(c) => Moved
  BY <1>1 DEF Reply, IdleClient
<1>4. Moved => \A e \in Clients : cl'[e].pc # "stop_request"
  BY DEF NoStops
<1>5. CASE ClientStep(c)
  <2>0. ~StopRequest(c) /\ ~DeleteRequest(c) /\ ~DeleteArchive(c) /\ ~DeleteRollback(c)
        /\ ~DeleteClear(c) /\ ~EditWrite(c)
    BY <1>0 DEF StopRequest, DeleteRequest, DeleteArchive, DeleteRollback, DeleteClear,
                EditWrite, NoStops, OwnInv
  <2>1. CASE EmitAppend(c)
    <3>1. /\ Moved /\ th' = th /\ picked' = picked /\ finished' = finished
          /\ cl[c].node \in Nodes /\ Store(cl[c].node, AppendPending(rt[cl[c].node], cl[c].item))
      BY <1>1, <1>2, <1>3, <2>1 DEF EmitAppend, NoSched, batch, runner, NoExec, Accept
    <3> QED BY <1>0, <1>4, <3>1, OperationsCalm, WriteCalm
  <2>2. CASE ClientWake(c)
    <3>1. /\ Moved /\ UNCHANGED rt /\ th' = th /\ picked' = picked /\ finished' \subseteq finished
      BY <1>3, <2>2 DEF ClientWake, batch, NoExec, EnsureAndWake, NewRunner
    <3> QED BY <1>0, <1>4, <3>1, SameCalm
  <2>3. ASSUME NEW m \in Nodes, ResumeRelease(c, m)
        PROVE  /\ StoreCalm' /\ th' = th /\ picked' = picked /\ finished' \subseteq finished
               /\ Moved
    <3>1. th' = th /\ picked' = picked /\ finished' \subseteq finished
      BY <2>3 DEF ResumeRelease, batch, runner, NoSched, NoExec, EnsureAndWake, NewRunner
    <3>2. UNCHANGED rt \/ \E it : Store(m, AppendPending(rt[m], it))
      BY <2>3 DEF ResumeRelease, Accept
    <3>3. Moved
      <4>1. CASE Reply(c)
        BY <1>3, <4>1
      <4>2. CASE ~Reply(c)
        BY <1>1, <2>3, <4>2 DEF ResumeRelease, Client
      <4> QED BY <4>1, <4>2
    <3> QED BY <1>0, <3>1, <3>2, <3>3, OperationsCalm, WriteCalm, SameCalm
  <2> QED BY <1>4, <1>5, <2>0, <2>1, <2>2, <2>3 DEF ClientStep
<1>6. CASE ClientRequest(c)
  <2>1. PICK n \in Nodes :
      \/ \E tr \in Traces : Emit(c, n, tr)
      \/ \E key \in Keys, src \in Keyed : Enqueue(c, n, key, src)
      \/ Pop(c, n) \/ ResumeNode(c, n) \/ StopNode(c, n) \/ DeleteNode(c, n)
      \/ \E s \in {"stop", "working"} : SetState(c, n, s)
      \/ EditRead(c, n)
    BY <1>6 DEF ClientRequest
  <2>2. ~StopNode(c, n) /\ ~DeleteNode(c, n) /\ ~EditRead(c, n)
    BY <1>0 DEF StopNode, DeleteNode, EditRead, Request
  <2>3. th' = th /\ picked' = picked /\ finished' = finished
    BY <2>1, <2>2 DEF Emit, Enqueue, Pop, ResumeNode, SetState, NoSched, batch, runner, NoExec
  <2>4. \/ UNCHANGED rt
        \/ \E it : Store(n, AppendPending(rt[n], it))
        \/ Store(n, PopPending(rt[n])) \/ Store(n, Resume(rt[n]))
        \/ \E s : Store(n, UpdateState(rt[n], s))
    BY <2>1, <2>2 DEF Emit, Enqueue, Pop, ResumeNode, SetState, Accept, Remove, Update, store
  <2>5. StoreCalm'
    BY <1>0, <2>4, OperationsCalm, WriteCalm, SameCalm
  <2>6. cl' = cl \/ Moved
    <3>1. CASE \E tr \in Traces : Emit(c, n, tr)
      BY <1>1, <3>1 DEF Emit, IdleClient
    <3>2. CASE \E key \in Keys, src \in Keyed : Enqueue(c, n, key, src)
      BY <1>2, <1>3, <3>2 DEF Enqueue
    <3>3. CASE ResumeNode(c, n)
      BY <1>1, <3>3 DEF ResumeNode, IdleClient
    <3>4. CASE Pop(c, n) \/ \E s \in {"stop", "working"} : SetState(c, n, s)
      BY <3>4 DEF Pop, SetState
    <3> QED BY <2>1, <2>2, <3>1, <3>2, <3>3, <3>4
  <2>7. \A e \in Clients : cl'[e].pc # "stop_request"
    BY <1>4, <2>6 DEF NoStops
  <2> QED BY <2>3, <2>5, <2>7
<1> QED BY <1>5, <1>6

\* What a scheduler step does to the executors.
LEMMA SchedulerThreads ==
  ASSUME TypeOK, Scheduler
  PROVE  /\ UNCHANGED cl /\ finished' \subseteq finished
         /\ \/ th' = th /\ ~(SchedSubmit /\ th' # th)
            \/ SchedSubmit /\ spc = "submit" /\ \E t \in Threads :
                 /\ ~Live(t) /\ th'[t].pc = "start" /\ ~th'[t].cancelled
                 /\ th'[t].node = cur /\ th'[t].item = picked
                 /\ \A u \in Threads \ {t} : th'[u] = th[u]
<1>1. UNCHANGED cl /\ finished' \subseteq finished
  BY DEF Scheduler, SchedWait, SchedExit, SchedCleanup, SchedBatchEnd, SchedVisit,
         SchedCheckActive, SchedRecover, SchedDequeue, SchedSubmit, runner
<1>2. CASE th' = th
  BY <1>1, <1>2
<1>3. CASE th' # th
  <2>1. SchedSubmit
    BY <1>3 DEF Scheduler, SchedWait, SchedExit, SchedCleanup, SchedBatchEnd, SchedVisit,
         SchedCheckActive, SchedRecover, SchedDequeue
  <2>2. PICK t \in Threads :
          /\ ~Live(t)
          /\ th' = [th EXCEPT ![t] = [FreeThread EXCEPT !.pc = "start",
                                        !.node = cur, !.item = picked]]
    BY <1>3, <2>1 DEF SchedSubmit
  <2>3. /\ th'[t].pc = "start" /\ ~th'[t].cancelled /\ th'[t].node = cur /\ th'[t].item = picked
        /\ \A u \in Threads \ {t} : th'[u] = th[u]
    BY <2>2 DEF TypeOK, ThreadsOK, FreeThread
  <2>4. spc = "submit"
    BY <2>1 DEF SchedSubmit
  <2> QED BY <1>1, <2>1, <2>2, <2>3, <2>4
<1> QED BY <1>2, <1>3

LEMMA StopsInductive ==
  ASSUME TypeOK, OwnInv, NoStops, Ops \cap {"edit", "stop", "delete"} = {}, [Next]_vars
  PROVE  NoStops'
<1> DEFINE Alone == StoreCalm' /\ \A t \in Threads : ~th'[t].cancelled /\ th'[t].pc # "cancelling"
           Quit == \A c \in Clients : cl'[c].pc # "stop_request"
<1>0. /\ \A t \in Threads : ~th[t].cancelled /\ th[t].pc # "cancelling" /\ ~th[t].snap.stopReq
      /\ \A c \in Clients : cl[c].pc # "stop_request"
      /\ StoreCalm
  BY DEF NoStops
<1>1. ASSUME Scheduler PROVE Alone /\ Quit
  <2>1. Alone
    BY <1>0, <1>1, SchedulerThreads, SchedulerCalm
  <2> QED BY <1>0, <1>1, <2>1, SchedulerThreads
<1>2. ASSUME NEW t \in Threads, Executor(t) PROVE Alone /\ Quit
  <2>1. StoreCalm'
    BY <1>2, ExecutorCalm
  <2>2. \A u \in Threads \ {t} : th'[u] = th[u]
    <3>1. ThreadOwns(t) /\ Live(t)
      BY <1>2, ExecutorSteady DEF OwnInv
    <3>2. CASE ExecReturn(t)
      BY <3>2 DEF ExecReturn, TypeOK, ThreadsOK
    <3>3. CASE ~ExecReturn(t)
      BY <1>2, <3>1, <3>3, EarlyOwn, LateOwn DEF Executor, OthersAlone
    <3> QED BY <3>2, <3>3
  <2>3. ~th'[t].cancelled /\ th'[t].pc # "cancelling"
    <3>1. CASE ExecReturn(t)
      BY <3>1 DEF ExecReturn, TypeOK, ThreadsOK, FreeThread
    <3>2. CASE ~ExecReturn(t)
      BY <1>2, <3>2, ExecutorSteady DEF Steady
    <3> QED BY <3>1, <3>2
  <2>4. UNCHANGED cl
    BY <1>2 DEF Executor, NoApi, ExecStore,
         ExecBegin, ExecEntry, ExecCancel,
         ExecCancelFinish, ExecConsume, ExecSucceed, ExecFail, ExecEnd,
         ExecAfter, ExecRecordRead, ExecRecordWrite, ExecClear, ExecToIdle,
         ExecMemory, ExecGoal, ExecGoalWrite, ExecGoalEnds, ExecGoalContinue,
         ExecComplete, ExecPropagate, ExecReturn
  <2> QED BY <1>0, <2>1, <2>2, <2>3, <2>4
<1>3. ASSUME NEW c \in Clients, ClientStep(c) \/ ClientRequest(c) PROVE Alone /\ Quit
  BY <1>0, <1>3, ClientCalm
<1>4. ASSUME Restart PROVE Alone /\ Quit
  <2>1. /\ \A n \in Nodes : rt'[n] = FreshRuntime
        /\ \A t \in Threads : th'[t] = FreeThread
        /\ \A c \in Clients : cl'[c] = IdleClient
    BY <1>4 DEF Restart
  <2> QED BY <2>1 DEF StoreCalm, FreshRuntime, FreeThread, IdleClient
<1>5. ASSUME StatusCleanup \/ GraphDeleteBlocked \/ UNCHANGED vars PROVE Alone /\ Quit
  <2>1. UNCHANGED <<rt, th, cl>>
    BY <1>5 DEF StatusCleanup, GraphDeleteBlocked, vars, NoExec
  <2> QED BY <1>0, <2>1, SameCalm
<1>6. Alone /\ Quit
  <2> HIDE DEF Alone, Quit
  <2> QED BY <1>1, <1>2, <1>3, <1>4, <1>5 DEF Next
<1>7. ASSUME NEW t \in Threads PROVE ~th'[t].snap.stopReq
  <2>1. \/ th'[t].snap = th[t].snap \/ th'[t].snap = FreshRuntime
        \/ \E n \in Nodes : th'[t].snap = rt[n]
    BY ThreadCopies
  <2> QED BY <1>0, <2>1 DEF StoreCalm, FreshRuntime
<1> QED BY <1>6, <1>7 DEF NoStops

\* What is in the task table has begun, and what is about to be submitted is
\* not in it.
FinishedInv ==
  /\ \A x \in finished : \E d \in Nat : Begun(x[1], x[2], d)
  /\ \A t \in Threads :
       Live(t) => Begun(th[t].node, th[t].item.trace, th[t].item.depth)
  /\ spc = "submit" => /\ Begun(cur, picked.trace, picked.depth)
                       /\ <<cur, picked.trace>> \notin finished

LEMMA MoreBegun ==
  ASSUME started \subseteq started'
  PROVE  \A n, r, d : Begun(n, r, d) => Begun(n, r, d)'
BY DEF Begun

\* What dequeue_pending_to_working does to the places and the inflight items.
LEMMA DequeueItem ==
  ASSUME TypeOK, SchedDequeue, spc' = "submit"
  PROVE  \E n \in Nodes, it \in Item :
           /\ n = cur /\ cur' = n /\ picked' = it /\ Queued(n, it.trace, it.depth)
           /\ started' = started \cup {<<n, it>>} /\ UNCHANGED <<th, finished>>
           /\ rt'[n].inflight = it /\ \A m \in Nodes \ {n} : rt'[m] = rt[m]
<1>1. PICK n \in Nodes, s \in Seq(Item), it \in Item :
        /\ n = cur /\ s = rt[n].pending /\ s # << >> /\ it = Head(s)
        /\ CanDequeue(rt[n]) /\ rt[n] \in Runtime
  <2>1. cur \in Nodes /\ CanDequeue(rt[cur])
    BY DEF TypeOK, SchedulerOK, SchedDequeue
  <2>2. rt[cur].pending \in Seq(Item) /\ rt[cur].pending # << >> /\ rt[cur] \in Runtime
    BY <2>1, RecordType DEF TypeOK, Runtime, CanDequeue
  <2> QED BY <2>1, <2>2, HeadTailProperties
<1> DEFINE q == DequeueToWorking(rt[n])
<1>2. /\ cur' = n /\ Store(n, q) /\ picked' = q.inflight
      /\ started' = started \cup {<<n, q.inflight>>} /\ UNCHANGED <<th, finished>>
  BY <1>1 DEF SchedDequeue, runner
<1>3. q.inflight = it
  BY <1>1 DEF DequeueToWorking, Runtime
<1>4. Writes(n, q)
  BY <1>2, StoreWrites
<1>5. Queued(n, it.trace, it.depth)
  BY <1>1, TailThins DEF Queued
<1> QED BY <1>1, <1>2, <1>3, <1>4, <1>5 DEF Writes

LEMMA SchedulerFinished ==
  ASSUME NEW l, Layering(l), Keys = {}, TaskInv, TraceInv, LevelInv(l), FinishedInv, Scheduler
  PROVE  FinishedInv'
<1>0. TypeOK
  BY DEF TaskInv
<1>1. CASE SchedDequeue /\ spc' = "submit"
  <2>1. PICK n \in Nodes, it \in Item :
           /\ n = cur /\ cur' = n /\ picked' = it /\ Queued(n, it.trace, it.depth)
           /\ started' = started \cup {<<n, it>>} /\ UNCHANGED <<th, finished>>
    BY <1>0, <1>1, DequeueItem
  <2>2. it.trace \in Plain /\ it.depth \in Nat
    BY MaxDepthAssumption DEF Item, Plain
  <2>3. \A k, r, d : Begun(k, r, d) => Begun(k, r, d)'
    BY <2>1, MoreBegun
  <2>4. Begun(n, it.trace, it.depth)'
    <3>1. <<n, it>>[1] = n /\ <<n, it>>[2] = it /\ <<n, it>> \in started'
      BY <2>1
    <3> QED BY <3>1, Zenon DEF Begun
  <2>5. <<n, it.trace>> \notin finished
    <3> SUFFICES ASSUME <<n, it.trace>> \in finished PROVE FALSE
      OBVIOUS
    <3>1. PICK x \in finished : x = <<n, it.trace>>
      OBVIOUS
    <3>2. x[1] = n /\ x[2] = it.trace
      BY <3>1
    <3>3. PICK d \in Nat : Begun(n, it.trace, d)
      BY <3>1, <3>2 DEF FinishedInv
    <3>4. it.depth - l[n] = d - l[n]
      BY <2>1, <2>2, <3>3 DEF LevelInv, Used
    <3>5. l[n] \in Int
      BY DEF Layering
    <3>6. it.depth = d
      BY <2>2, <3>4, <3>5
    <3> QED BY <2>1, <2>2, <3>3, <3>6 DEF TraceInv, QueuedNotBegun
  <2> QED BY <2>1, <2>3, <2>4, <2>5 DEF FinishedInv, Live
<1>2. CASE ~(SchedDequeue /\ spc' = "submit")
  <2>1. spc' # "submit" /\ started' = started
    BY <1>2 DEF Scheduler, SchedWait, SchedExit, SchedCleanup, SchedBatchEnd, SchedVisit,
         SchedCheckActive, SchedRecover, SchedDequeue, SchedSubmit, Update, history
  <2>2. \A k, r, d : Begun(k, r, d)' <=> Begun(k, r, d)
    BY <2>1, SameBegun
  <2>3. finished' \subseteq finished
    BY <1>0, SchedulerThreads
  <2>4. ASSUME NEW t \in Threads, Live(t)'
        PROVE  Begun(th'[t].node, th'[t].item.trace, th'[t].item.depth)
    <3>1. CASE th'[t] = th[t]
      BY <2>4, <3>1 DEF FinishedInv, Live
    <3>2. CASE th'[t] # th[t]
      <4>1. th'[t].node = cur /\ th'[t].item = picked /\ spc = "submit"
        BY <1>0, <3>2, SchedulerThreads
      <4> QED BY <4>1 DEF FinishedInv
    <3> QED BY <3>1, <3>2
  <2> QED BY <2>1, <2>2, <2>3, <2>4 DEF FinishedInv
<1> QED BY <1>1, <1>2

LEMMA KeepFinished ==
  ASSUME TypeOK, FinishedInv, started \subseteq started', QuietSched,
         \A t \in Threads : Live(t)' => /\ Live(t) /\ th'[t].node = th[t].node
                                        /\ th'[t].item = th[t].item,
         \A x \in finished' :
           \/ x \in finished
           \/ \E t \in Threads : /\ Live(t) /\ x = <<th[t].node, th[t].item.trace>>
                                 /\ spc = "submit" => th[t].node # cur
  PROVE  FinishedInv'
<1>1. \A n, r, d : Begun(n, r, d) => Begun(n, r, d)'
  BY MoreBegun
<1>2. ASSUME NEW x \in finished' PROVE \E d \in Nat : Begun(x[1], x[2], d)
  <2>1. CASE x \in finished
    BY <2>1 DEF FinishedInv
  <2>2. CASE x \notin finished
    <3>1. PICK t \in Threads : Live(t) /\ x = <<th[t].node, th[t].item.trace>>
      BY <2>2
    <3>2. th[t].item \in Item
      BY <3>1 DEF TypeOK, ThreadsOK, Thread
    <3>3. th[t].item.depth \in Nat
      BY <3>2, MaxDepthAssumption DEF Item
    <3>4. x[1] = th[t].node /\ x[2] = th[t].item.trace
      BY <3>1
    <3>5. Begun(th[t].node, th[t].item.trace, th[t].item.depth)
      BY <3>1 DEF FinishedInv
    <3> QED BY <3>3, <3>4, <3>5
  <2> QED BY <2>1, <2>2
<1>3. ASSUME spc' = "submit"
      PROVE  Begun(cur', picked'.trace, picked'.depth) /\ <<cur', picked'.trace>> \notin finished'
  <2>1. spc = "submit" /\ cur' = cur /\ picked' = picked
    BY <1>3 DEF QuietSched
  <2>2. Begun(cur, picked.trace, picked.depth) /\ <<cur, picked.trace>> \notin finished
    BY <2>1 DEF FinishedInv
  <2>3. ASSUME <<cur, picked.trace>> \in finished' PROVE FALSE
    <3>1. PICK t \in Threads : /\ <<cur, picked.trace>> = <<th[t].node, th[t].item.trace>>
                               /\ th[t].node # cur
      BY <2>1, <2>2, <2>3
    <3> QED BY <3>1
  <2> QED BY <2>1, <2>2, <2>3
<1> QED BY <1>1, <1>2, <1>3 DEF FinishedInv

LEMMA ExecutorFinished ==
  ASSUME TaskInv, AllLiveAreTasks, OwnInv, NoStops, FinishedInv, NEW t \in Threads, Executor(t)
  PROVE  FinishedInv'
<1>0. TypeOK /\ Live(t) /\ th \in [Threads -> Thread] /\ ThreadOwns(t)
  BY ExecutorSteady DEF TaskInv, TypeOK, ThreadsOK, OwnInv
<1>1. started' = started /\ picked' = picked
  BY DEF Executor, NoSched, NoApi, batch, history, store, ExecStore, Update, Remove, Accept,
         WriteConfig, ExecBegin, ExecEntry, ExecCancel,
         ExecCancelFinish, ExecConsume, ExecSucceed, ExecFail, ExecEnd,
         ExecAfter, ExecRecordRead, ExecRecordWrite, ExecClear, ExecToIdle,
         ExecMemory, ExecGoal, ExecGoalWrite, ExecGoalEnds, ExecGoalContinue,
         ExecComplete, ExecPropagate, ExecReturn
<1>2. QuietSched
  BY <1>0, <1>1, ExecutorKeeps DEF SameRunner, ExecReturn, batch, QuietSched
<1>3. CASE ExecReturn(t)
  <2>1. /\ \A u \in Threads \ {t} : th'[u] = th[u]
        /\ th'[t] = FreeThread
        /\ finished' \subseteq finished \cup {<<th[t].node, th[t].item.trace>>}
    BY <1>0, <1>3 DEF ExecReturn
  <2>2. spc = "submit" => th[t].node # cur
    BY <1>0 DEF AllLiveAreTasks, TaskInv, CurUnclaimed
  <2>3. \A u \in Threads : Live(u)' => /\ Live(u) /\ th'[u].node = th[u].node
                                       /\ th'[u].item = th[u].item
    BY <2>1 DEF FreeThread, Live
  <2>4. \A x \in finished' :
           \/ x \in finished
           \/ \E u \in Threads : /\ Live(u) /\ x = <<th[u].node, th[u].item.trace>>
                                 /\ spc = "submit" => th[u].node # cur
    BY <1>0, <2>1, <2>2
  <2> QED BY <1>0, <1>1, <1>2, <2>3, <2>4, KeepFinished
<1>4. CASE ~ExecReturn(t)
  <2>1. Steady(t) /\ finished' \subseteq finished
    BY <1>0, <1>4, ExecutorSteady
  <2>2. \A u \in Threads \ {t} : th'[u] = th[u]
    BY <1>0, <1>4, EarlyOwn, LateOwn DEF Executor, OthersAlone
  <2>3. \A u \in Threads : Live(u)' => /\ Live(u) /\ th'[u].node = th[u].node
                                       /\ th'[u].item = th[u].item
    BY <1>0, <2>1, <2>2 DEF Live, Steady
  <2> QED BY <1>0, <1>1, <1>2, <2>1, <2>3, KeepFinished
<1> QED BY <1>3, <1>4

LEMMA FinishedInductive ==
  ASSUME NEW l, Layering(l), Keys = {}, TaskInv, AllLiveAreTasks, OwnInv, TraceInv,
         LevelInv(l), NoStops, FinishedInv, Ops \cap {"edit", "stop", "delete"} = {}, [Next]_vars
  PROVE  FinishedInv'
<1>0. TypeOK
  BY DEF TaskInv
<1>1. CASE Scheduler
  BY <1>1, SchedulerFinished
<1>2. ASSUME NEW t \in Threads, Executor(t) PROVE FinishedInv'
  BY <1>2, ExecutorFinished
<1>3. ASSUME NEW c \in Clients, ClientStep(c) \/ ClientRequest(c) PROVE FinishedInv'
  <2>1. th' = th /\ picked' = picked /\ finished' \subseteq finished
    BY <1>0, <1>3, ClientCalm
  <2>2. QuietSched
    BY <1>0, <1>3, <2>1, ClientKeeps DEF SameRunner, QuietSched
  <2>3. started' = started
    <3>1. CASE ClientStep(c)
      BY <3>1 DEF ClientStep, history, Accept, Update, Remove, WriteConfig,
         EmitAppend, ClientWake, StopRequest, DeleteRequest,
         ResumeRelease, DeleteArchive, DeleteRollback, DeleteClear, EditWrite
    <3>2. CASE ClientRequest(c)
      BY <3>2 DEF ClientRequest, history, store, Accept, Update, Remove, Emit,
         Enqueue, Pop, SetState, ResumeNode, StopNode, DeleteNode, EditRead
    <3> QED BY <1>3, <3>1, <3>2
  <2> QED BY <1>0, <2>1, <2>2, <2>3, KeepFinished DEF Live
<1>4. CASE Restart
  <2>1. /\ \A t \in Threads : th'[t] = FreeThread
        /\ finished' = {} /\ spc' = "dead"
    BY <1>4 DEF Restart
  <2> QED BY <2>1 DEF FinishedInv, FreeThread, Live
<1>5. CASE StatusCleanup \/ GraphDeleteBlocked \/ UNCHANGED vars
  <2>1. UNCHANGED <<th, spc, cur, picked>> /\ started' = started /\ finished' \subseteq finished
    BY <1>5 DEF StatusCleanup, GraphDeleteBlocked, vars, batch, runner, history, NoExec
  <2>2. QuietSched
    BY <2>1 DEF QuietSched
  <2> QED BY <1>0, <2>1, <2>2, KeepFinished DEF Live
<1> QED BY <1>1, <1>2, <1>3, <1>4, <1>5 DEF Next

\* An item in flight is about to be submitted, or its iteration has not
\* reached set_inflight(None) yet.
Owned ==
  \A n \in Nodes :
    rt[n].inflight # NoItem =>
      \/ spc = "submit" /\ cur = n /\ picked = rt[n].inflight
      \/ \E t \in Threads : /\ th[t].pc \in BeforeClear /\ th[t].node = n
                            /\ th[t].item = rt[n].inflight

LEMMA OwnedStays ==
  ASSUME Owned, th' = th, UNCHANGED <<spc, cur, picked>> \/ spc # "submit",
         \A n \in Nodes : rt'[n].inflight = rt[n].inflight \/ rt'[n].inflight = NoItem
  PROVE  Owned'
BY DEF Owned

\* An iteration leaves the steps before set_inflight(None) only through it,
\* and the later ones put nothing in flight.
LEMMA ExecutorInflight ==
  ASSUME TypeOK, OwnInv, NoStops, NEW t \in Threads, Executor(t)
  PROVE  \/ th'[t].pc \in BeforeClear \cup AfterClear
         \/ th[t].pc \notin BeforeClear /\ rt'[th[t].node].inflight = rt[th[t].node].inflight
<1> DEFINE n == th[t].node
           r == rt[n]
<1>0. /\ n \in Nodes /\ r \in Runtime /\ th \in [Threads -> Thread] /\ ~r.stopReq
      /\ ~ExecCancel(t) /\ ~ExecCancelFinish(t)
  BY ExecutorSteady, LiveThread, RecordType DEF TypeOK, ThreadsOK, NoStops, StoreCalm
<1>1. CASE ExecBegin(t) \/ ExecEntry(t) \/ ExecConsume(t) \/ ExecFail(t)
  BY <1>0, <1>1 DEF ExecBegin, ExecEntry, ExecConsume, ExecFail, Goto, Thread,
                    BeforeClear, AfterClear
<1>2. CASE ExecSucceed(t) \/ ExecAfter(t) \/ ExecClear(t)
  <2>1. Goto(t, "end_ok") \/ Goto(t, "record") \/ Goto(t, "to_idle") \/ Goto(t, "memory")
    BY <1>0, <1>2 DEF ExecSucceed, ExecAfter, ExecClear, ExecStore
  <2> QED BY <2>1, GotoMoves DEF Moves, BeforeClear, AfterClear
<1>3. CASE ExecRecordRead(t) \/ ExecRecordWrite(t) \/ ExecGoalWrite(t)
  BY <1>0, <1>3 DEF ExecRecordRead, ExecRecordWrite, ExecGoalWrite, Goto, Thread,
                    BeforeClear, AfterClear
<1>4. CASE ExecEnd(t) \/ ExecMemory(t) \/ ExecGoal(t) \/ ExecGoalEnds(t) \/ ExecReturn(t)
  <2>1. UNCHANGED rt
    BY <1>4 DEF ExecEnd, ExecMemory, ExecGoal, ExecGoalEnds, ExecReturn, store
  <2>2. th[t].pc \in BeforeClear => Goto(t, "after")
    BY <1>4 DEF ExecEnd, ExecMemory, ExecGoal, ExecGoalEnds, ExecReturn, BeforeClear
  <2> QED BY <2>1, <2>2, GotoMoves DEF Moves, BeforeClear
<1>5. CASE ExecToIdle(t)
  <2>1. th[t].pc \notin BeforeClear /\ Writes(n, TransitionToIdle(r))
    BY <1>0, <1>5, StoreWrites DEF ExecToIdle, ExecStore, Update, BeforeClear
  <2> QED BY <1>0, <2>1, InflightKept DEF Writes
<1>6. ASSUME NEW m \in Nodes, ExecGoalContinue(t) \/ ExecPropagate(t, m)
      PROVE  th[t].pc \notin BeforeClear /\ rt'[n].inflight = r.inflight
  <2>1. \/ UNCHANGED rt
        \/ \E k \in Nodes : \E it : Store(k, AppendPending(rt[k], it))
    BY <1>0, <1>6 DEF ExecGoalContinue, ExecPropagate, Accept
  <2>2. rt'[n].inflight = r.inflight
    <3>1. CASE UNCHANGED rt
      BY <3>1
    <3>2. ASSUME NEW k \in Nodes, NEW it, Store(k, AppendPending(rt[k], it))
          PROVE  rt'[n].inflight = r.inflight
      <4>1. Writes(k, AppendPending(rt[k], it)) /\ rt[k] \in Runtime
        BY <3>2, StoreWrites, RecordType DEF TypeOK
      <4> QED BY <1>0, <4>1, InflightKept DEF Writes
    <3> QED BY <2>1, <3>1, <3>2
  <2> QED BY <1>6, <2>2 DEF ExecGoalContinue, ExecPropagate, BeforeClear
<1>7. ASSUME NEW out \in SUBSET Nodes, ExecComplete(t, out)
      PROVE  th[t].pc \notin BeforeClear /\ rt'[n].inflight = r.inflight
  <2>1. th[t].pc \notin BeforeClear /\ \E o : Store(n, CompleteWork(r, o))
    BY <1>7 DEF ExecComplete, Update, BeforeClear
  <2>2. PICK o : Writes(n, CompleteWork(r, o))
    BY <1>0, <2>1, StoreWrites
  <2> QED BY <1>0, <2>1, <2>2, InflightKept DEF Writes
<1> QED BY <1>0, <1>1, <1>2, <1>3, <1>4, <1>5, <1>6, <1>7 DEF Executor

LEMMA ExecutorOwned ==
  ASSUME TaskInv, AllLiveAreTasks, OwnInv, NoStops, Owned, "delete" \notin Ops,
         NEW t \in Threads, Executor(t)
  PROVE  Owned'
<1> DEFINE k == th[t].node
<1>0. TypeOK /\ Live(t) /\ th \in [Threads -> Thread] /\ ThreadOwns(t) /\ k \in Nodes
  BY ExecutorSteady, LiveThread DEF TaskInv, TypeOK, ThreadsOK, OwnInv
<1>1. OthersAlone(t)
  <2>1. CASE ExecReturn(t)
    BY <1>0, <2>1 DEF ExecReturn, OthersAlone
  <2>2. CASE ~ExecReturn(t)
    BY <1>0, <2>2, EarlyOwn, LateOwn DEF Executor
  <2> QED BY <2>1, <2>2
<1>2. UNCHANGED <<spc, cur, picked>> \/ spc # "submit"
  <2>1. picked' = picked
    BY DEF Executor, NoSched, batch, ExecStore,
         ExecBegin, ExecEntry, ExecCancel,
         ExecCancelFinish, ExecConsume, ExecSucceed, ExecFail, ExecEnd,
         ExecAfter, ExecRecordRead, ExecRecordWrite, ExecClear, ExecToIdle,
         ExecMemory, ExecGoal, ExecGoalWrite, ExecGoalEnds, ExecGoalContinue,
         ExecComplete, ExecPropagate, ExecReturn
  <2> QED BY <1>0, <2>1, ExecutorKeeps DEF SameRunner, ExecReturn, batch
<1>3. ASSUME NEW n \in Nodes \ {k}, rt'[n].inflight # NoItem
      PROVE  \/ spc' = "submit" /\ cur' = n /\ picked' = rt'[n].inflight
             \/ \E u \in Threads : /\ th'[u].pc \in BeforeClear /\ th'[u].node = n
                                   /\ th'[u].item = rt'[n].inflight
  <2>1. rt'[n].inflight = rt[n].inflight
    BY <1>1 DEF OthersAlone
  <2>2. CASE spc = "submit" /\ cur = n /\ picked = rt[n].inflight
    BY <1>2, <2>1, <2>2
  <2>3. ASSUME NEW u \in Threads, th[u].pc \in BeforeClear, th[u].node = n,
               th[u].item = rt[n].inflight
        PROVE  th'[u] = th[u]
    BY <1>1, <2>3 DEF OthersAlone
  <2> QED BY <1>3, <2>1, <2>2, <2>3 DEF Owned
<1>4. ASSUME rt'[k].inflight # NoItem
      PROVE  /\ th'[t].pc \in BeforeClear /\ th'[t].node = k
             /\ th'[t].item = rt'[k].inflight
  <2>1. ThreadOwns(t)'
    BY ExecutorOwn DEF OwnInv
  <2>2. Steady(t) \/ ExecReturn(t)
    BY <1>0, ExecutorSteady
  <2>3. ASSUME th'[t].pc \notin BeforeClear \cup AfterClear PROVE FALSE
    <3>1. th[t].pc \notin BeforeClear /\ rt[k].inflight # NoItem
      BY <1>0, <1>4, <2>3, ExecutorInflight
    <3>2. t \in active /\ \A u \in Threads : Live(u) => u \in active
      BY <1>0 DEF AllLiveAreTasks
    <3>3. ~(spc = "submit" /\ cur = k)
      BY <3>2 DEF TaskInv, CurUnclaimed
    <3>4. PICK u \in Threads : th[u].pc \in BeforeClear /\ th[u].node = k
      BY <1>0, <3>1, <3>3 DEF Owned
    <3>5. Live(u)
      BY <3>4 DEF Live, BeforeClear
    <3>6. u = t
      BY <3>2, <3>4, <3>5 DEF TaskInv, OneTaskPerNode
    <3> QED BY <3>1, <3>4, <3>6
  <2>4. th'[t].pc \in BeforeClear \cup AfterClear
    BY <2>3
  <2>5. ~ExecReturn(t)
    BY <1>0, <2>4 DEF ExecReturn, FreeThread, BeforeClear, AfterClear
  <2>6. th'[t].node = k
    BY <2>2, <2>5 DEF Steady
  <2> QED BY <1>4, <2>1, <2>4, <2>6 DEF ThreadOwns
<1> QED BY <1>0, <1>3, <1>4 DEF Owned

LEMMA SchedulerOwned ==
  ASSUME TaskInv, AllLiveAreTasks, OwnInv, FinishedInv, Owned, "delete" \notin Ops, Scheduler
  PROVE  Owned'
<1>0. TypeOK /\ th \in [Threads -> Thread] /\ \A n \in Nodes : rt[n] \in Runtime
  BY RecordType DEF TaskInv, TypeOK, ThreadsOK
<1>1. CASE SchedDequeue /\ spc' = "submit"
  <2>1. PICK n \in Nodes, it \in Item :
           /\ cur' = n /\ picked' = it /\ th' = th
           /\ rt'[n].inflight = it /\ \A m \in Nodes \ {n} : rt'[m] = rt[m]
    BY <1>0, <1>1, DequeueItem
  <2>2. spc # "submit"
    BY <1>1 DEF SchedDequeue
  <2> QED BY <1>1, <2>1, <2>2 DEF Owned
<1>2. CASE SchedSubmit
  <2>1. spc = "submit" /\ UNCHANGED rt /\ cur \in Nodes /\ rt[cur].inflight = picked
    BY <1>0, <1>2 DEF SchedSubmit, TypeOK, SchedulerOK, OwnInv
  <2>2. <<cur, picked.trace>> \notin finished
    BY <2>1 DEF FinishedInv
  <2>3. \A t \in active : th[t].node # cur
    BY <2>1 DEF TaskInv, CurUnclaimed
  <2>4. PICK t \in Threads :
          /\ ~Live(t)
          /\ th' = [th EXCEPT ![t] = [FreeThread EXCEPT !.pc = "start",
                                        !.node = cur, !.item = picked]]
    BY <1>2, <2>2, <2>3 DEF SchedSubmit
  <2>5. /\ th'[t].pc = "start" /\ th'[t].node = cur /\ th'[t].item = picked
        /\ \A u \in Threads \ {t} : th'[u] = th[u]
    BY <1>0, <2>4 DEF FreeThread
  <2>6. ASSUME NEW n \in Nodes \ {cur}, rt[n].inflight # NoItem
        PROVE  \E u \in Threads : /\ th'[u].pc \in BeforeClear /\ th'[u].node = n
                                  /\ th'[u].item = rt[n].inflight
    <3>1. PICK u \in Threads : /\ th[u].pc \in BeforeClear /\ th[u].node = n
                               /\ th[u].item = rt[n].inflight
      BY <2>6 DEF Owned
    <3>2. u # t
      BY <2>4, <3>1 DEF Live, BeforeClear
    <3> QED BY <2>5, <3>1, <3>2
  <2>7. th'[t].pc \in BeforeClear
    BY <2>5 DEF BeforeClear
  <2> QED BY <2>1, <2>5, <2>6, <2>7 DEF Owned
<1>3. CASE SchedRecover
  <2>1. spc = "recover" /\ th' = th /\ Store(cur, RecoverStaleWorking(rt[cur]))
    BY <1>3 DEF SchedRecover, Update
  <2>2. cur \in Nodes
    BY <1>0, <2>1 DEF TypeOK, SchedulerOK
  <2>3. \A n \in Nodes : rt'[n].inflight = rt[n].inflight
    BY <1>0, <2>1, <2>2, StoreWrites, InflightKept DEF Writes
  <2> QED BY <2>1, <2>3, OwnedStays
<1>4. CASE spc # "submit" /\ UNCHANGED <<rt, th>>
  BY <1>4, OwnedStays
<1>5. \/ spc # "submit" /\ UNCHANGED <<rt, th>>
      \/ SchedRecover \/ (SchedDequeue /\ spc' = "submit") \/ SchedSubmit
  BY DEF Scheduler, SchedWait, SchedExit, SchedCleanup, SchedBatchEnd, SchedVisit,
         SchedCheckActive, SchedDequeue
<1> QED BY <1>1, <1>2, <1>3, <1>4, <1>5

LEMMA OwnedInductive ==
  ASSUME TaskInv, AllLiveAreTasks, OwnInv, NoStops, FinishedInv, Owned,
         Ops \cap {"edit", "stop", "delete"} = {}, [Next]_vars
  PROVE  Owned'
<1>0. TypeOK /\ "delete" \notin Ops
  BY DEF TaskInv
<1>1. CASE Scheduler
  BY <1>0, <1>1, SchedulerOwned
<1>2. ASSUME NEW t \in Threads, Executor(t) PROVE Owned'
  BY <1>0, <1>2, ExecutorOwned
<1>3. ASSUME NEW c \in Clients, ClientStep(c) \/ ClientRequest(c) PROVE Owned'
  <2>1. th' = th /\ picked' = picked
    BY <1>0, <1>3, ClientCalm
  <2>2. SameInflight /\ SameRunner
    BY <1>0, <1>3, RequestInflight, ClientStepInflight, ClientKeeps
  <2> QED BY <2>1, <2>2, OwnedStays DEF SameInflight, SameRunner
<1>4. CASE Restart
  <2>1. \A n \in Nodes : rt'[n].inflight = NoItem
    BY <1>4 DEF Restart, FreshRuntime
  <2> QED BY <2>1 DEF Owned
<1>5. CASE StatusCleanup \/ GraphDeleteBlocked \/ UNCHANGED vars
  <2>1. UNCHANGED <<rt, th, spc, cur, picked>>
    BY <1>5 DEF StatusCleanup, GraphDeleteBlocked, vars, batch, NoExec
  <2> QED BY <2>1, OwnedStays
<1> QED BY <1>1, <1>2, <1>3, <1>4, <1>5 DEF Next

LEMMA InitOwned ==
  ASSUME Init, NEW l
  PROVE  LevelInv(l) /\ NoStops /\ FinishedInv /\ Owned
<1>1. /\ \A n \in Nodes : rt[n] = FreshRuntime
      /\ \A t \in Threads : th[t] = FreeThread
      /\ \A c \in Clients : cl[c] = IdleClient
      /\ spc = "dead" /\ started = {} /\ finished = {}
  BY DEF Init
<1>2. \A t \in Threads : /\ th[t].snap = FreshRuntime /\ th[t].pc = "free"
                         /\ ~th[t].cancelled
  BY <1>1 DEF FreeThread
<1>3. \A c \in Clients : cl[c].pc = "none"
  BY <1>1 DEF IdleClient
<1>4. /\ \A n \in Nodes : \A r, d : ~Used(n, r, d)
      /\ \A c \in Clients : \A n, r : ~Emits(c, n, r)
  BY <1>1, <1>2, <1>3, FreshTraces DEF Used, Queued, Begun, Emits
<1>5. LevelInv(l)
  BY <1>4 DEF LevelInv
<1>6. NoStops
  BY <1>1, <1>2, <1>3 DEF NoStops, StoreCalm, FreshRuntime
<1>7. FinishedInv /\ Owned
  BY <1>1, <1>2 DEF FinishedInv, Live, Owned, FreshRuntime
<1> QED BY <1>5, <1>6, <1>7

\* For every graph whose routes lead from layer to layer and give each node
\* one source, and every number of threads, clients, traces and requests: an
\* inflight item has an owner.  The task table never swallows what
\* _run_scheduler_batch has dequeued, although an entry outlives its future
\* until the next cleanup, and no iteration ends with its item in flight, so
\* stale recovery never leaves a node to an owner that is gone.  Messages,
\* pauses, resumes, pops, failing iterations, status requests and restarts
\* are covered.  Left out is what
\* makes it false: a goal, a cycle or a repeated keyed request uses a trace
\* again on the same node; a stop or a deletion can be taken back before the
\* executor acts on it; saved settings, or the executor that a refused graph
\* deletion leaves behind, bring an old item back; and the state "working"
\* lets a node send an output twice (README, section 3).
THEOREM InflightHasOwner ==
  ASSUME OneSource, Layered, Keys = {},
         Ops \cap {"edit", "stop_runner", "stop", "delete"} = {},
         NoRoutes \/ "set_working" \notin Ops
  PROVE  Spec => []InflightOwned
<1>l. PICK l : Layering(l)
  BY DEF Layered
<1> DEFINE Inv == /\ TaskInv /\ AllLiveAreTasks /\ OwnInv /\ ShapeInv /\ TraceInv
                  /\ NoRoutes \/ HeldInv
                  /\ LevelInv(l) /\ NoStops /\ FinishedInv /\ Owned
<1>0. /\ "edit" \notin Ops /\ "stop_runner" \notin Ops
      /\ Ops \cap {"edit", "stop", "delete"} = {}
      /\ NoRoutes \/ ("stop" \notin Ops /\ "set_working" \notin Ops)
  OBVIOUS
<1>1. Init => Inv
  BY InitTasks, InitOwn, InitHeld, InitTraces, InitOwned
<1>2. Inv /\ [Next]_vars => Inv'
  <2> SUFFICES ASSUME Inv, [Next]_vars PROVE Inv'
    OBVIOUS
  <2>0. TypeOK
    BY DEF TaskInv
  <2>1. TaskInv' /\ AllLiveAreTasks' /\ OwnInv'
    BY <1>0, TasksInductive, OwnInductive
  <2>2. ShapeInv' /\ TraceStep
    BY <1>0, TracesInductive DEF HeldInv
  <2>3. NoRoutes' \/ HeldInv'
    <3>1. NoRoutes => NoRoutes'
      BY DEF NoRoutes
    <3>2. ~NoRoutes => HeldInv'
      BY <1>0, HeldInductive
    <3> QED BY <3>1, <3>2
  <2>4. LevelInv(l)'
    BY <1>l, <2>2, LevelStep
  <2>5. NoStops'
    BY <1>0, <2>0, StopsInductive
  <2>6. FinishedInv'
    BY <1>0, <1>l, FinishedInductive
  <2>7. Owned'
    BY <1>0, OwnedInductive
  <2> QED BY <2>1, <2>2, <2>3, <2>4, <2>5, <2>6, <2>7 DEF TraceStep
<1>3. Inv => InflightOwned
  BY DEF Owned, InflightOwned, Live, BeforeClear
<1> QED BY <1>1, <1>2, <1>3, PTL DEF Spec
=============================================================================
