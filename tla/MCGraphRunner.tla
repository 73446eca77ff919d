---------------------------- MODULE MCGraphRunner ----------------------------
(* Small graphs and symmetries for the runs of GraphRunner.                *)
EXTENDS GraphRunner, TLC

CONSTANTS A, B

NoLinks == [n \in Nodes |-> {}]
Chain   == [n \in Nodes |-> IF n = A THEN {B} ELSE {}]

\* Executor threads, API threads and the traces of emitted messages are
\* interchangeable; keys are not.
Symmetry == Permutations(Threads) \cup Permutations(Clients)
            \cup Permutations(Traces \ Keys) \cup Permutations(Nodes \ {A})

\* The loop of consume_mid_turn_user_inputs over the pending items.
RECURSIVE Loop(_, _)
Loop(s, left) ==
  IF s = << >> THEN << >>
  ELSE IF left > 0 /\ MidTurnInput(Head(s)) THEN Loop(Tail(s), left - 1)
  ELSE <<Head(s)>> \o Loop(Tail(s), left)

\* Remaining is what the loop leaves, for every queue of up to three items.
ASSUME RemainingIsLoop ==
  \A n \in 0..3 : \A s \in [1..n -> Item] : Remaining(s) = Loop(s, MidTurnLimit)
=============================================================================
