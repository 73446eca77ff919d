---------------------------- MODULE Transactions -----------------------------
(***************************************************************************)
(* What KeyedTransactionQueue promises its callers (NodeConfigService, the *)
(* node memory, the temporary-receiver cleanup): the transactions of one   *)
(* key happen one after the other, and only the calls a transaction makes  *)
(* itself happen inside it.                                                *)
(***************************************************************************)
CONSTANTS Tasks,   \* calls of KeyedTransactionQueue.run
          Keys,
          Key,     \* Key[x]: the key of call x
          Parent,  \* Parent[x]: the call whose func makes call x, or NoTask
          NoTask

VARIABLE status

\* The calls around x: the one that made it, if any, and the ones around that
\* one.  They are in every set that has a member's caller with the member.
CallerIn(x, S) == Parent[x] \in Tasks => Parent[x] \in S
Enclosing(x) ==
  {y \in Tasks : \A S \in SUBSET Tasks :
     CallerIn(x, S) /\ (\A z \in S : CallerIn(z, S)) => y \in S}

Init == status = [x \in Tasks |-> "new"]

Begin(x) ==
  /\ status[x] = "new"
  /\ \A y \in Tasks : status[y] = "open" /\ Key[y] = Key[x] => y \in Enclosing(x)
  /\ status' = [status EXCEPT ![x] = "open"]

End(x) ==
  /\ status[x] = "open"
  /\ \A y \in Tasks : status[y] = "open" => x \notin Enclosing(y)
  /\ status' = [status EXCEPT ![x] = "done"]

Next == \E x \in Tasks : Begin(x) \/ End(x)

Spec == Init /\ [][Next]_status
=============================================================================
