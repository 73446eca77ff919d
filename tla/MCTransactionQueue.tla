------------------------- MODULE MCTransactionQueue --------------------------
(* The nesting that the callers use: the cleanup of a temporary receiver   *)
(* runs config transactions inside its own (keys target, config), and      *)
(* update of NodeConfigService calls write for the same key.               *)
EXTENDS TransactionQueue

CONSTANTS target, config, cleanup1, mark1, write1, cleanup2, update3, write3

NestedKey == [x \in Tasks |-> IF x \in {cleanup1, cleanup2} THEN target
                              ELSE config]
NestedParent == [x \in Tasks |-> CASE x = mark1  -> cleanup1
                                   [] x = write1 -> mark1
                                   [] x = write3 -> update3
                                   [] OTHER      -> NoTask]

\* The callers nest in one order: config calls inside target calls.
ASSUME CallersNestInOrder == \E rank \in [Keys -> 1..2] : NestedBy(rank)
=============================================================================
