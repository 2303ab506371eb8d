--------------------------- MODULE AdmissionClients --------------------------
(***************************************************************************)
(* The tool pool of resources.py under any callers: every thread asks for  *)
(* any cost at any time, may be cancelled or time out while it waits, and  *)
(* releases its lease when its tool ends, perhaps more than once.          *)
(***************************************************************************)
EXTENDS Admission

Init == PoolInit

Step(c) ==
  \/ \E cost \in Cost : Enter(c, cost)
  \/ Grant(c) \/ Leave(c) \/ Release(c)

Next == \E c \in Caller : Step(c)

Spec == Init /\ [][Next]_pool

\* Every tool ends, and a waiter that polls its place every 20 milliseconds
\* takes what it can get.  No caller is assumed to enter, give up or time out.
FairSpec ==
  /\ Spec
  /\ \A c \in Caller : WF_pool(Grant(c)) /\ WF_pool(Release(c))

-----------------------------------------------------------------------------
(* Properties. *)

\* No caller starves behind a cost that keeps not fitting: a waiter is served
\* or gives up, even when nothing ever times out.
EveryWaiterServed ==
  \A c \in Caller : claim[c].state = "waiting" ~> claim[c].state # "waiting"

=============================================================================
