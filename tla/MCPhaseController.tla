------------------------- MODULE MCPhaseController -------------------------
(***************************************************************************)
(* An instance of PhaseController for TLC: the events of the               *)
(* phase_detection sample that are decided in different ways (either       *)
(* sensor, timer and sensor, sensor or timer, timer alone), three of its   *)
(* timers, and its three threads.                                          *)
(***************************************************************************)
EXTENDS PhaseController

Events  == {"Boost", "Noseover", "GroundHit", "CamerasOff"}
Sources == {"IMU1", "Barom1", "NoseoverLockout", "FullFlightTimer", "ExtraCameraTimer"}

TimerEvents == <<
  [start |-> "Boost", event |-> "Noseover",  source |-> "NoseoverLockout"],
  [start |-> "Boost", event |-> "GroundHit", source |-> "FullFlightTimer"],
  [start |-> "GroundHit", event |-> "CamerasOff", source |-> "ExtraCameraTimer"] >>

Deciders == [
  Boost     |-> {S \in SUBSET Sources : "IMU1" \in S \/ "Barom1" \in S},
  Noseover  |-> {S \in SUBSET Sources : {"NoseoverLockout", "Barom1"} \subseteq S},
  GroundHit |-> {S \in SUBSET Sources : "Barom1" \in S \/ "FullFlightTimer" \in S},
  CamerasOff |-> {S \in SUBSET Sources : "ExtraCameraTimer" \in S} ]

Threads == {"imu_thread", "barom_thread", "main"}

SampleSubmits == [
  imu_thread   |-> {<<"IMU1", "Boost">>},
  barom_thread |-> {<<"Barom1", "Boost">>, <<"Barom1", "Noseover">>, <<"Barom1", "GroundHit">>},
  main         |-> {} ]

SampleWaits == [
  imu_thread   |-> {},
  barom_thread |-> {},
  main         |-> {"Noseover", "CamerasOff"} ]
=============================================================================
