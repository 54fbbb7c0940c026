------------------------------- MODULE MCSystem -------------------------------
(* Instances of PbftSystem for TLC: one client with two transfers. *)
EXTENDS PbftSystem

Request(s, r, amt, ts) == [sender |-> s, receiver |-> r, amount |-> amt, timestamp |-> ts]

\* The second transfer is not covered once the first is executed.
Script1 == [c \in {"A"} |-> <<Request("A", "B", 8, 1), Request("A", "C", 4, 2)>>]
Requests1 == {Script1["A"][1], Script1["A"][2]}
Anywhere  == Req \X Server
=============================================================================
