------------------------------- MODULE Ms5611 -------------------------------
(***************************************************************************)
(* The driver of the MS5611 barometer (drivers/sensor/ms5611/ms5611.c),    *)
(* CBarometer, which reads it, and the chip as the driver uses it.  The    *)
(* weather is numbered, and a conversion is of the weather it was asked    *)
(* in; the compensated values are kept as what they are computed from.     *)
(* Every bus transaction may fail.  One thread fetches, another one may    *)
(* set the oversampling.                                                   *)
(***************************************************************************)
EXTENDS Naturals

CONSTANTS
  ResponseTime,  (* oversampling ratio -> how long its conversion takes     *)
  Freezing,      (* weathers in which the temperature is below zero         *)
  MaxWeather,    (* bound: changes of the weather                           *)
  MaxFaults,     (* bound: transactions that fail                           *)
  MaxSettings    (* bound: calls of attr_set                                *)

Ratios == DOMAIN ResponseTime
Default == CHOOSE r \in Ratios : \A s \in Ratios : ResponseTime[r] <= ResponseTime[s]
Quantities == {"temp", "press"}

VARIABLES
  weather, faults, settings,
  pc,            (* where the thread is: a stage of init or of the fetch    *)
  prom, memory,  (* the calibration: what was read, what the chip holds     *)
  osr,           (* quantity -> ratio                                       *)
  adc,           (* the chip's conversion: its weather and how long it takes *)
  slept,         (* how long the driver slept after asking for it           *)
  began,         (* the weather when the fetch began                        *)
  raw, meas,     (* the temperature of this fetch, and data->meas           *)
  barometerData, (* what CBarometer shows                                   *)
  ok             (* what UpdateSensorValue returned last                    *)

bus == <<faults, settings>>
chip == <<memory, adc>>
vars == <<weather, bus, pc, prom, osr, chip, slept, began, raw, meas, barometerData, ok>>

None == 0
Wrapped == MaxWeather + 1
Unread == [temp |-> None, press |-> <<None, None>>, prom |-> "blank"]

Init ==
  /\ weather = 1 /\ faults = 0 /\ settings = 0
  /\ pc = "reset" /\ prom = "blank" /\ memory \in {"good", "bad"}
  /\ osr = [q \in Quantities |-> Default]
  /\ adc = [weather |-> None, takes |-> 0] /\ slept = 0 /\ began = None
  /\ raw = None /\ meas = Unread /\ barometerData = Unread /\ ok = FALSE

Fault == faults < MaxFaults /\ faults' = faults + 1 /\ UNCHANGED settings

Weather ==
  /\ weather < MaxWeather /\ weather' = weather + 1
  /\ UNCHANGED <<bus, pc, prom, osr, chip, slept, began, raw, meas, barometerData, ok>>

-----------------------------------------------------------------------------
(* ms5611_init: reset the chip, read its calibration, read the checksum    *)
(* again and check it; after a failure the device is never ready.  The     *)
(* sum is that of the words which were read (ms5611_calculate_crc4).       *)

ChecksumIgnored(p) == TRUE
Checksum(p) == p = "good"

InitStage(stage, next) ==
  /\ pc = stage
  /\ \/ pc' = next /\ UNCHANGED bus
     \/ Fault /\ pc' = "unready"
  /\ UNCHANGED <<weather, osr, chip, slept, began, raw, meas, barometerData, ok>>

Reset == InitStage("reset", "prom") /\ UNCHANGED prom
FetchProm == InitStage("prom", "crc") /\ prom' = memory
CheckCoefCrc == InitStage("crc", IF Checksum(prom) THEN "idle" ELSE "unready") /\ UNCHANGED prom

(* ms5611_attr_set: the oversampling of one quantity or of both.  A ratio  *)
(* the chip has not got is refused.                                        *)
AttrSet ==
  /\ pc \notin {"reset", "prom", "crc", "unready"}
  /\ settings < MaxSettings /\ settings' = settings + 1 /\ UNCHANGED faults
  /\ \E qs \in {{"temp"}, {"press"}, Quantities}, r \in Ratios :
       osr' = [q \in Quantities |-> IF q \in qs THEN r ELSE osr[q]]
  /\ UNCHANGED <<weather, pc, prom, chip, slept, began, raw, meas, barometerData, ok>>

-----------------------------------------------------------------------------
(* CBarometer::UpdateSensorValue and ms5611_fetch_temp_and_press: first    *)
(* the temperature is converted, then the pressure.                        *)

(* A transaction that fails ends the fetch and changes no measurement.     *)
Fails ==
  /\ Fault /\ pc' = "idle" /\ ok' = FALSE
  /\ UNCHANGED <<weather, prom, osr, chip, slept, began, raw, meas, barometerData>>

(* The conversion is asked for with the command of the ratio ...           *)
Request(q) ==
  /\ pc = IF q = "temp" THEN "idle" ELSE "ask press"
  /\ \/ /\ adc' = [weather |-> weather, takes |-> ResponseTime[osr[q]]]
        /\ began' = IF q = "temp" THEN weather ELSE began
        /\ pc' = IF q = "temp" THEN "await temp" ELSE "await press"
        /\ UNCHANGED <<weather, bus, prom, osr, memory, slept, raw, meas, barometerData, ok>>
     \/ Fails

(* ... and the driver then sleeps for the response time of the ratio.      *)
Sleep(q) ==
  /\ pc = IF q = "temp" THEN "await temp" ELSE "await press"
  /\ slept' = ResponseTime[osr[q]]
  /\ pc' = IF q = "temp" THEN "read temp" ELSE "read press"
  /\ UNCHANGED <<weather, bus, prom, osr, chip, began, raw, meas, barometerData, ok>>

(* What the chip gives: nothing while it still converts.                   *)
Converted == IF slept >= adc.takes THEN adc.weather ELSE None

AcceptAny(value) == TRUE
Accept(value) == value # None

ReadTemp ==
  /\ pc = "read temp"
  /\ \/ /\ Accept(Converted)
        /\ raw' = Converted /\ pc' = "ask press"
        /\ UNCHANGED <<weather, bus, prom, osr, chip, slept, began, meas, barometerData, ok>>
     \/ /\ ~Accept(Converted)
        /\ pc' = "idle" /\ ok' = FALSE
        /\ UNCHANGED <<weather, bus, prom, osr, chip, slept, began, raw, meas, barometerData>>
     \/ Fails

(* The pressure is compensated with the temperature of the same fetch.     *)
Compensated == [temp |-> raw, press |-> <<Converted, raw>>, prom |-> prom]

(* ms5611_channel_get: the temperature is kept unsigned, so one below zero *)
(* comes out as a very large one.                                          *)
Shown(m) == [m EXCEPT !.temp = IF @ \in Freezing THEN Wrapped ELSE @]

UpdateSensorValue(m) == barometerData' = Shown(m) /\ ok' = TRUE /\ pc' = "idle"

ReadPress ==
  /\ pc = "read press"
  /\ \/ /\ Accept(Converted)
        /\ meas' = Compensated /\ UpdateSensorValue(Compensated)
        /\ UNCHANGED <<weather, bus, prom, osr, chip, slept, began, raw>>
     \/ /\ ~Accept(Converted)
        /\ pc' = "idle" /\ ok' = FALSE
        /\ UNCHANGED <<weather, bus, prom, osr, chip, slept, began, raw, meas, barometerData>>
     \/ Fails

(* A device that is not ready is not asked.                                *)
NotReady == pc = "unready" /\ ok' = FALSE /\ UNCHANGED <<weather, bus, pc, prom, osr, chip, slept, began, raw, meas, barometerData>>

Next == \/ Weather \/ Reset \/ FetchProm \/ CheckCoefCrc \/ AttrSet \/ ReadTemp \/ ReadPress \/ NotReady
        \/ \E q \in Quantities : Request(q) \/ Sleep(q)

-----------------------------------------------------------------------------
(* When UpdateSensorValue has returned true, pressure and temperature were *)
(* converted since it was called, even if the oversampling was changed     *)
(* while the chip converted and the driver slept too short for it.         *)
FreshWhenOk ==
  ok /\ pc = "idle" =>
    /\ barometerData.press[1] >= began
    /\ barometerData.temp # Wrapped => barometerData.temp >= began /\ barometerData.temp = barometerData.press[2]

(* Nothing is shown that was computed with a calibration which failed its  *)
(* check.                                                                  *)
Calibrated == barometerData = Unread \/ barometerData.prom = "good"
=============================================================================
