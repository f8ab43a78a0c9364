---------------------------- MODULE UpdateDelivery ----------------------------
(***************************************************************************)
(* What the webhook queue and its workers promise about an update, within  *)
(* one life of the process: it is taken over at most once, and once taken  *)
(* over it is brought to an end, handled or given up.  A restart forgets   *)
(* everything: the queue and the idempotency store live in memory.         *)
(***************************************************************************)
CONSTANT Updates

VARIABLE status

Init == status = [u \in Updates |-> "out"]

Accept(u) ==
  /\ status[u] = "out"
  /\ status' = [status EXCEPT ![u] = "queued"]

Handle(u) ==
  /\ status[u] = "queued"
  /\ status' = [status EXCEPT ![u] = "handled"]

GiveUp(u) ==
  /\ status[u] = "queued"
  /\ status' = [status EXCEPT ![u] = "dropped"]

Restart == status' = [u \in Updates |-> "out"]

Next ==
  \/ \E u \in Updates : Accept(u) \/ Handle(u) \/ GiveUp(u)
  \/ Restart

Fairness == \A u \in Updates : WF_status(Handle(u) \/ GiveUp(u))

Spec == Init /\ [][Next]_status /\ Fairness
=============================================================================
