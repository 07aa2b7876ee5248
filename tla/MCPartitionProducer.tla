------------------------- MODULE MCPartitionProducer -------------------------
(* Instances of PartitionProducer for TLC: what may go wrong in each.      *)
EXTENDS PartitionProducer

LostAndBump  == {"disconnect", "bump"}
Stalls       == {"disconnect", "notenough", "bump", "timeout", "forget"}
=============================================================================
