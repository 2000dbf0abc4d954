--------------------------------- MODULE Clock ---------------------------------
(***************************************************************************)
(* The clock of the specifications that read Instant::now or               *)
(* SystemTime::now. It moves at any moment and stops at MaxTime, the bound *)
(* of an instance.                                                         *)
(***************************************************************************)
EXTENDS Integers

CONSTANT MaxTime

ASSUME ClockAssumption == MaxTime \in Nat

VARIABLE now

Time == 0..MaxTime

ClockTicks == now < MaxTime /\ now' = now + 1
=============================================================================
