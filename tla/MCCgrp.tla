------------------------------ MODULE MCCgrp -------------------------------
(* Instances of Cgrp for TLC: the members' configurations.                 *)
EXTENDS Cgrp

Plain == {[coop |-> FALSE, cb |-> FALSE], [coop |-> TRUE, cb |-> FALSE]}
CoopCb == {[coop |-> TRUE, cb |-> TRUE]}
All == [coop : BOOLEAN, cb : BOOLEAN]
AnyFault == FaultKinds
=============================================================================
