----------------------------- MODULE PbftReplicas -----------------------------
(***************************************************************************)
(* The cluster: every server that was started runs the three groups of     *)
(* handlers of its event loop and its timer threads.  Clients are the      *)
(* environment: any request may reach any server at any time and any       *)
(* number of times (PbftClient models the client program itself).          *)
(***************************************************************************)
EXTENDS PbftOrdering, PbftCheckpoint, PbftViewChange

Step(i) == Ordering(i) \/ Checkpointing(i) \/ ViewChanging(i)

Next == \E i \in Server : Step(i)

Spec == Init /\ [][Next]_vars
=============================================================================
