-------------------------- MODULE FlightDetection --------------------------
(***************************************************************************)
(* Flight phase detection of the sensor module: CSensingTenant::Run reads  *)
(* the sensors and calls CDetectionHandler::HandleData, which debounces    *)
(* what they say and submits events to the phase controller of flight.hpp, *)
(* whose timers interrupt it.                                              *)
(*                                                                         *)
(* The sensing thread is the only thread that uses the controller, so the  *)
(* controller's own steps are those of PhaseController and this module     *)
(* adds what happens between them.                                         *)
(***************************************************************************)
EXTENDS Naturals, FiniteSets

CONSTANTS
  TimestampMod,    (* 2^32                                                  *)
  BoostTime,       (* boostTimeThreshold                                    *)
  NoseoverTime,    (* noseoverTimeThreshold                                 *)
  GroundTime,      (* groundTimeThreshold                                   *)
  LockoutTime,     (* time of the NoseoverLockout timer                     *)
  FullFlightTime,  (* time of the GroundHit timer                           *)
  Velocities,      (* the barometric velocities that occur                  *)
  MaxPad,          (* bound: the latest time at which a run on the pad starts *)
  MaxRun           (* bound: the time a run takes                           *)

ASSUME DetectionAssumption ==
  /\ {TimestampMod, LockoutTime, FullFlightTime} \subseteq Nat \ {0}
  /\ {BoostTime, NoseoverTime, GroundTime} \subseteq Nat
  /\ Velocities \subseteq {"none", "up", "slow", "down"}
  /\ MaxPad \in Nat /\ MaxRun \in Nat

-----------------------------------------------------------------------------
(* flight.hpp: the events, the sources and what decides.                   *)

Events  == {"Boost", "NoseoverLockout", "Noseover", "GroundHit"}
Sources == {"LowGImu", "HighGImu", "BaromBMP", "BaromMS5611", "NoseoverLockoutTimer", "FullFlightTimer"}

numTimerEvents == 3

(* As if the last-resort timer started at noseover. *)
TimerEventsLate == <<
  [start |-> "Boost", event |-> "NoseoverLockout", source |-> "NoseoverLockoutTimer"],
  [start |-> "Noseover", event |-> "GroundHit",    source |-> "FullFlightTimer"],
  [start |-> "Boost", event |-> "Boost",           source |-> "LowGImu"] >>

(* The array has three elements and two initialisers: the third element is *)
(* zero, which reads as "Boost starts a timer of no time that reports      *)
(* Boost from LowGImu".                                                    *)
TimerEvents == <<
  [start |-> "Boost", event |-> "NoseoverLockout", source |-> "NoseoverLockoutTimer"],
  [start |-> "Boost", event |-> "GroundHit",       source |-> "FullFlightTimer"],
  [start |-> "Boost", event |-> "Boost",           source |-> "LowGImu"] >>

TimerTime == <<LockoutTime, FullFlightTime, 0>>

AnyOf(S) == {T \in SUBSET Sources : T \cap S # {}}
Deciders == [
  Boost           |-> AnyOf({"LowGImu", "HighGImu", "BaromBMP", "BaromMS5611"}),
  NoseoverLockout |-> AnyOf({"NoseoverLockoutTimer"}),
  Noseover        |-> AnyOf({"BaromBMP", "BaromMS5611"}),
  GroundHit       |-> AnyOf({"BaromBMP", "BaromMS5611", "FullFlightTimer"}) ]

sensing == "sensing"

(* The SubmitEvent calls of the detection handler. *)
HandlerSubmits == {"LowGImu", "HighGImu"} \X {"Boost"}
                    \cup {"BaromBMP", "BaromMS5611"} \X {"Noseover", "GroundHit"}

-----------------------------------------------------------------------------
VARIABLES
  sourceStates, eventStates, osEvents, timers, logged, confirmed,
  pc, call, awaited, submits,   (* of PhaseController                       *)
  now,                          (* k_uptime_get                             *)
  deadline,                     (* deadline[i]: when running timer i expires *)
  at,                           (* where HandleData is                      *)
  uptime,                       (* the timestamp of this run, 0 outside     *)
  reading,                      (* what the sensors said in this run        *)
  detectors,                    (* the six debouncers                       *)
  boost_detected_time,
  sensed                        (* <<device, source, event>> the handler    *)
                                (* submitted because of that device         *)

Controller == INSTANCE PhaseController WITH
  Event <- Events, Source <- Sources, num_timers <- numTimerEvents, timer_events <- TimerEvents,
  deciders <- Deciders, Thread <- {sensing}, MaySubmit <- [p \in {sensing} |-> HandlerSubmits],
  MayWait <- [p \in {sensing} |-> {}], MaxSubmits <- 0

D == INSTANCE Debouncer

controller == <<sourceStates, eventStates, osEvents, timers, logged, confirmed>>
handler == <<now, at, uptime, reading, detectors, boost_detected_time, sensed>>
vars == <<controller, pc, call, awaited, submits, deadline, handler>>

Timer == 1..numTimerEvents

(* Devices: the IMU and the accelerometer of the aliases, which            *)
(* sensor_module.overlay binds to these parts.                             *)
Imu == {"lsm6dsl", "adxl375"}
Barom == {"ms5611", "bmp388"}
Device == Imu \cup Barom

Detector == Imu \X {"Boost"} \cup Barom \X {"Noseover", "GroundHit"}
Duration(d) == CASE d[2] = "Boost" -> BoostTime
                 [] d[2] = "Noseover" -> NoseoverTime
                 [] d[2] = "GroundHit" -> GroundTime

BOOST_NOT_YET_HAPPENED == MaxPad + 1

(* A reading, as far as the thresholds tell readings apart: ok as returned *)
(* by UpdateSensorValue, over for |a|^2 > (5 g)^2, the velocity of a       *)
(* barometer fast upwards, slow (|v| < 10 ft/s), fast downwards, or none   *)
(* when FindSlope would have divided by zero.  A device that fails keeps   *)
(* its last value, which may be on either side.                            *)
Reading == [ok : [Device -> BOOLEAN], over : [Imu -> BOOLEAN], vel : [Barom -> Velocities \cup {"none"}]]
NoReading == [ok |-> [d \in Device |-> FALSE], over |-> [d \in Imu |-> FALSE], vel |-> [d \in Barom |-> "none"]]

Steps == {"idle", "boost_lsm6dsl", "boost_adxl375", "boost_time",
          "noseover", "noseover_ms5611", "noseover_bmp388",
          "ground", "ground_ms5611", "ground_bmp388", "return"}

TypeOK ==
  /\ Controller!TypeOK
  /\ now \in Nat /\ uptime \in Nat
  /\ deadline \in [Timer -> Nat]
  /\ at \in Steps
  /\ reading \in Reading
  /\ detectors \in [Detector -> D!CDebouncer]
  /\ boost_detected_time \in 0..BOOST_NOT_YET_HAPPENED
  /\ sensed \in SUBSET (Device \X HandlerSubmits)

Init ==
  /\ Controller!Init
  /\ now = 0 /\ uptime = 0
  /\ deadline = [i \in Timer |-> 0]
  /\ at = "idle"
  /\ reading = NoReading
  /\ detectors = [d \in Detector |-> D!Fresh]
  /\ boost_detected_time = BOOST_NOT_YET_HAPPENED
  /\ sensed = {}

HasEventOccured(e) == Controller!HasEventOccured(e)

ContinueCollecting == ~HasEventOccured("GroundHit")

(* The readings are chosen when the run first looks at them. *)
ImuReading   == {r \in Reading : r.vel = NoReading.vel /\ \A d \in Barom : ~r.ok[d]}
BaromReading == {r \in Reading : /\ r.over = NoReading.over /\ \A d \in Imu : ~r.ok[d]
                                 /\ \A d \in Barom : r.vel[d] \in Velocities}

(* The unsigned difference timestamp - boost_detected_time - boostTimeThreshold. *)
t_plus_ms == D!Minus(D!Stamp(uptime - boost_detected_time), D!Stamp(BoostTime))

Fed(event, t, passes) ==
  [d \in Detector |-> IF d[2] = event /\ passes[d[1]] # "none"
                      THEN D!Feed(detectors[d], t, passes[d[1]] = "yes") ELSE detectors[d]]
YesIf(P) == IF P THEN "yes" ELSE "no"

(* The handler goes on only when the SubmitEvent it called has returned. *)
Handle(from) == at = from /\ pc[sensing] = "idle"

-----------------------------------------------------------------------------
(* CSensingTenant::Run, up to the first test of HandleBoost.               *)
Run ==
  /\ Handle("idle")
  /\ ContinueCollecting
  /\ uptime' = now
  /\ \/ /\ ~HasEventOccured("Boost")
        /\ \E r \in ImuReading :
             /\ reading' = r
             /\ detectors' = Fed("Boost", D!Stamp(now), [d \in Imu |-> YesIf(r.over[d])])
        /\ at' = "boost_lsm6dsl"
     \/ /\ HasEventOccured("Boost")
        /\ reading' \in BaromReading
        /\ at' = "noseover"
        /\ UNCHANGED detectors
  /\ UNCHANGED <<controller, pc, call, awaited, submits, deadline, now,
                 boost_detected_time, sensed>>

(* if (detector.Passed() && ... && sensor ok) SubmitEvent(source, event); *)
SubmitIf(from, to, device, source, event, allowed) ==
  LET submit == D!Passed(detectors[<<device, event>>], Duration(<<device, event>>))
                  /\ allowed /\ reading.ok[device]
  IN  /\ Handle(from)
      /\ at' = to
      /\ \/ /\ submit
            /\ Controller!Submit(sensing, source, event)
            /\ sensed' = sensed \cup {<<device, <<source, event>>>>}
         \/ /\ ~submit
            /\ UNCHANGED <<controller, pc, call, awaited, sensed>>
      /\ UNCHANGED <<submits, deadline, now, uptime, reading, detectors, boost_detected_time>>

(* The rest of HandleBoost; the primary IMU reports as HighGImu. *)
BoostPrimary   == SubmitIf("boost_lsm6dsl", "boost_adxl375", "lsm6dsl", "HighGImu", "Boost", TRUE)
BoostSecondary == SubmitIf("boost_adxl375", "boost_time", "adxl375", "LowGImu", "Boost", TRUE)

(* As if the time of boost were not kept. *)
BoostDetectedForgets ==
  /\ Handle("boost_time")
  /\ \/ /\ HasEventOccured("Boost")
        /\ reading' \in BaromReading /\ uptime' = uptime
        /\ at' = "noseover"
     \/ /\ ~HasEventOccured("Boost")
        /\ reading' = NoReading /\ uptime' = 0
        /\ at' = "idle"
  /\ UNCHANGED <<controller, pc, call, awaited, submits, deadline, now, detectors,
                 boost_detected_time, sensed>>

(* The end of HandleBoost and the return of HandleData before boost. *)
BoostDetected ==
  /\ Handle("boost_time")
  /\ \/ /\ HasEventOccured("Boost")
        /\ boost_detected_time' = IF boost_detected_time = BOOST_NOT_YET_HAPPENED
                                  THEN uptime ELSE boost_detected_time
        /\ reading' \in BaromReading /\ uptime' = uptime
        /\ at' = "noseover"
     \/ /\ ~HasEventOccured("Boost")
        /\ reading' = NoReading /\ uptime' = 0
        /\ at' = "idle"
        /\ UNCHANGED boost_detected_time
  /\ UNCHANGED <<controller, pc, call, awaited, submits, deadline, now, detectors, sensed>>

(* HandleNoseover: velocities below the threshold, downwards too. *)
FeedNoseover ==
  /\ Handle("noseover")
  /\ \/ /\ ~HasEventOccured("Noseover")
        /\ detectors' = Fed("Noseover", t_plus_ms,
             [d \in Barom |-> IF reading.vel[d] = "none" THEN "none" ELSE YesIf(reading.vel[d] # "up")])
        /\ at' = "noseover_ms5611"
     \/ /\ HasEventOccured("Noseover")
        /\ at' = "ground"
        /\ UNCHANGED detectors
  /\ UNCHANGED <<controller, pc, call, awaited, submits, deadline, now, uptime, reading,
                 boost_detected_time, sensed>>

(* As if the lockout were not asked for. *)
NoseoverPrimaryUnlocked == SubmitIf("noseover_ms5611", "noseover_bmp388", "ms5611", "BaromMS5611", "Noseover", TRUE)

NoseoverPrimary   == SubmitIf("noseover_ms5611", "noseover_bmp388", "ms5611", "BaromMS5611", "Noseover",
                              HasEventOccured("NoseoverLockout"))
NoseoverSecondary == SubmitIf("noseover_bmp388", "ground", "bmp388", "BaromBMP", "Noseover",
                              HasEventOccured("NoseoverLockout"))

(* As if HandleData did not test for noseover before HandleGround. *)
FeedGroundEarly ==
  LET wanted == ~HasEventOccured("GroundHit")
  IN  /\ Handle("ground")
      /\ \/ /\ wanted
            /\ detectors' = Fed("GroundHit", t_plus_ms,
                 [d \in Barom |-> IF reading.vel[d] = "none" THEN "none" ELSE YesIf(reading.vel[d] = "slow")])
            /\ at' = "ground_ms5611"
            /\ UNCHANGED <<reading, uptime>>
         \/ /\ ~wanted
            /\ at' = "idle"
            /\ reading' = NoReading /\ uptime' = 0
            /\ UNCHANGED detectors
      /\ UNCHANGED <<controller, pc, call, awaited, submits, deadline, now,
                     boost_detected_time, sensed>>

(* HandleGround, or the end of HandleData. *)
FeedGround ==
  LET wanted == HasEventOccured("Noseover") /\ ~HasEventOccured("GroundHit")
  IN  /\ Handle("ground")
      /\ \/ /\ wanted
            /\ detectors' = Fed("GroundHit", t_plus_ms,
                 [d \in Barom |-> IF reading.vel[d] = "none" THEN "none" ELSE YesIf(reading.vel[d] = "slow")])
            /\ at' = "ground_ms5611"
            /\ UNCHANGED <<reading, uptime>>
         \/ /\ ~wanted
            /\ at' = "idle"
            /\ reading' = NoReading /\ uptime' = 0
            /\ UNCHANGED detectors
      /\ UNCHANGED <<controller, pc, call, awaited, submits, deadline, now,
                     boost_detected_time, sensed>>

GroundPrimary   == SubmitIf("ground_ms5611", "ground_bmp388", "ms5611", "BaromMS5611", "GroundHit", TRUE)
GroundSecondary == SubmitIf("ground_bmp388", "return", "bmp388", "BaromBMP", "GroundHit", TRUE)

(* HandleData returns. *)
Return ==
  /\ Handle("return")
  /\ at' = "idle"
  /\ reading' = NoReading /\ uptime' = 0
  /\ UNCHANGED <<controller, pc, call, awaited, submits, deadline, now, detectors,
                 boost_detected_time, sensed>>

HandlerStep == \/ Run \/ BoostPrimary \/ BoostSecondary \/ BoostDetected
               \/ FeedNoseover \/ NoseoverPrimary \/ NoseoverSecondary
               \/ FeedGround \/ GroundPrimary \/ GroundSecondary \/ Return

-----------------------------------------------------------------------------
(* The controller's steps, with the time at which its timers expire.       *)

Starts(i, event) == TimerEvents[i].start = event

ControllerStep ==
  /\ Controller!SubmitStep(sensing)
  /\ deadline' = [i \in Timer |->
       IF pc[sensing] = "start_timers" /\ i = call[sensing].i /\ Starts(i, call[sensing].event)
       THEN now + TimerTime[i] ELSE deadline[i]]
  /\ UNCHANGED <<submits, handler>>

TimerExpiry(i) ==
  /\ now >= deadline[i]
  /\ Controller!TimerExpiry(i)
  /\ deadline' = [j \in Timer |-> IF \E e \in eventStates' \ eventStates : Starts(j, e)
                                  THEN now + TimerTime[j] ELSE deadline[j]]
  /\ UNCHANGED <<submits, handler>>

(* A timer that is due interrupts before time goes on.  Time is bounded on *)
(* the pad by MaxPad, afterwards by the timers of the flight, and within a *)
(* run by MaxRun.                                                          *)
Tick ==
  /\ at # "idle" => now < uptime + MaxRun
  /\ \A i \in Timer : timers[i] = "running" => now < deadline[i]
  /\ \/ \E i \in Timer : timers[i] = "running"
     \/ now < MaxPad /\ \A i \in Timer : timers[i] = "stopped"
  /\ now' = now + 1
  /\ UNCHANGED <<controller, pc, call, awaited, submits, deadline, at, uptime, reading,
                 detectors, boost_detected_time, sensed>>

Next == HandlerStep \/ ControllerStep \/ (\E i \in Timer : TimerExpiry(i)) \/ Tick

Spec == Init /\ [][Next]_vars

(* The sensing task is scheduled, interrupts are taken, time passes. *)
Fairness == /\ WF_vars(HandlerStep) /\ WF_vars(ControllerStep) /\ WF_vars(Tick)
            /\ \A i \in Timer : WF_vars(TimerExpiry(i))
FairSpec == Spec /\ Fairness

-----------------------------------------------------------------------------
(* Properties.                                                             *)

(* Noseover is not believed before the lockout is over, however the timer  *)
(* interrupt falls into a run of the handler and whatever the barometers   *)
(* say during the burn (flight.hpp: "don't trust them until we've had time *)
(* to slowdown").                                                          *)
NoseoverRespectsLockout ==
  sourceStates["Noseover"] # {} =>
    /\ HasEventOccured("NoseoverLockout")
    /\ boost_detected_time # BOOST_NOT_YET_HAPPENED
    /\ now >= boost_detected_time + LockoutTime

(* The barometers end a flight only after noseover; before it only the     *)
(* full flight timer can. *)
GroundFollowsNoseover ==
  HasEventOccured("GroundHit") =>
    \/ HasEventOccured("Noseover")
    \/ /\ sourceStates["GroundHit"] = {"FullFlightTimer"}
       /\ now >= (IF boost_detected_time = BOOST_NOT_YET_HAPPENED THEN uptime ELSE boost_detected_time)
                   + FullFlightTime

(* So phases come in order, whatever devices and timers do.                *)
PhasesInOrder == NoseoverRespectsLockout /\ GroundFollowsNoseover

(* t_plus_ms is never computed from the mark for "no boost yet": whoever   *)
(* made boost occur, its time is known before the handler goes on.         *)
BoostTimeIsKnown ==
  at \in Steps \ {"idle", "boost_lsm6dsl", "boost_adxl375", "boost_time"} =>
    boost_detected_time <= uptime

(* A flight that has begun is over in bounded time even if no barometer    *)
(* ever says so (flight.hpp: "This stops us from overwriting flight data   *)
(* if we don't detect the end").                                           *)
FlightEnds == HasEventOccured("Boost") ~> HasEventOccured("GroundHit") /\ at = "idle"

(* What the flight log is documented to say: "Boost from IMU1" names the   *)
(* source that triggered the event.  A line that names a sensor is there   *)
(* only if the handler submitted for that sensor.                          *)
SensorLinesAreSensed ==
  \A l \in logged : l[2] \notin {"NoseoverLockoutTimer", "FullFlightTimer"} =>
    \E d \in Device : <<d, <<l[2], l[1]>>>> \in sensed
=============================================================================
