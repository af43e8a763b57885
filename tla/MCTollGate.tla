----------------------------- MODULE MCTollGate -----------------------------
(***************************************************************************)
(* Instances of TollGate: who drives where, with which plate.              *)
(***************************************************************************)
EXTENDS TollGate

(* Three vehicles, three plates: two meet in the lanes of gate 1.          *)
ThreePlates == [v \in Visits |-> v + 10]
ThreeWheels == [v \in Visits |-> IF v = 2 THEN 4 ELSE 2]
TwoAtGateOne == [v \in Visits |-> IF v = 3 THEN 2 ELSE 1]
=============================================================================
