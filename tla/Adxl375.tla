------------------------------ MODULE Adxl375 ------------------------------
(***************************************************************************)
(* The driver of the ADXL375 accelerometer (drivers/sensor/adxl375, on     *)
(* I2C) and CAccelerometer, which reads it.  The motion is numbered; one   *)
(* transfer reads the three axes.                                          *)
(***************************************************************************)
EXTENDS Naturals, Sequences

CONSTANTS MaxMotion, MaxFaults   (* bounds *)

VARIABLES
  motion, faults,
  pc,            (* the stage of init that is next, or "idle", "unready"    *)
  chip,          (* the registers that were written: [register |-> value]   *)
  sample,        (* data->sample, Zeros after a transfer that failed        *)
  acceleration, ok

vars == <<motion, faults, pc, chip, sample, acceleration, ok>>

Zeros == 0

(* adxl375_init, in order: the bus, the id, and three registers. *)
Stages == <<"bus", "id", "rate", "format", "mode">>

Init ==
  /\ motion = 1 /\ faults = 0 /\ pc = 1 /\ chip = {}
  /\ sample = Zeros /\ acceleration = Zeros /\ ok = FALSE

Move == motion < MaxMotion /\ motion' = motion + 1 /\ UNCHANGED <<faults, pc, chip, sample, acceleration, ok>>

Fault == faults < MaxFaults /\ faults' = faults + 1

Ready == pc = Len(Stages) + 1
Unready == 0

Initialize ==
  /\ pc \in DOMAIN Stages
  /\ \/ /\ pc' = pc + 1 /\ UNCHANGED faults
        /\ chip' = IF Stages[pc] \in {"rate", "format", "mode"} THEN chip \cup {Stages[pc]} ELSE chip
     \/ Fault /\ pc' = Unready /\ UNCHANGED chip
  /\ UNCHANGED <<motion, sample, acceleration, ok>>

(* A chip measures once it is told to. *)
Measured == IF "mode" \in chip THEN motion ELSE Zeros

(* adxl375_sample_fetch stores whatever is in its buffer, zeros when the   *)
(* transfer failed, and returns what the transfer did; CAccelerometer      *)
(* takes the sample over if that was 0.  A device that is not ready is not *)
(* asked.                                                                  *)
SampleFetch(failed) ==
  /\ IF failed THEN Fault ELSE UNCHANGED faults
  /\ sample' = IF failed THEN Zeros ELSE Measured

(* As if what the transfer returned were not looked at. *)
ConvertAlways(failed) == TRUE
Convert(failed) == ~failed

UpdateSensorValue ==
  /\ Ready
  /\ \E failed \in BOOLEAN :
       /\ SampleFetch(failed)
       /\ acceleration' = IF Convert(failed) THEN sample' ELSE acceleration
       /\ ok' = Convert(failed)
  /\ UNCHANGED <<motion, pc, chip>>

NotReady == pc = Unready /\ ok' = FALSE /\ UNCHANGED <<motion, faults, pc, chip, sample, acceleration>>

Next == Move \/ Initialize \/ UpdateSensorValue \/ NotReady

-----------------------------------------------------------------------------
(* The zeros that a failed transfer leaves in the driver look like free    *)
(* fall; they never reach the acceleration the detectors are given, and    *)
(* what does is never older than what they were given before.              *)
NeverZeroAgain == acceleration # Zeros => acceleration' >= acceleration
NoFalseFreeFall == [][NeverZeroAgain]_vars
=============================================================================
