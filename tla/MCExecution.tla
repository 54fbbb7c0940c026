----------------------------- MODULE MCExecution -----------------------------
(* Instances of PbftExecution for TLC: the second transfer is covered, to  *)
(* the last unit, only after the first.                                     *)
EXTENDS PbftExecution

Transfer(s, r, amt) == [sender |-> s, receiver |-> r, amount |-> amt]

Transfers ==
    LET all == <<Transfer("A", "B", 4), Transfer("B", "A", 14), Transfer("C", "A", 2)>>
    IN  [s \in Seqs |-> all[s + 1]]
=============================================================================
