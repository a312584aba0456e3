----------------------------- MODULE MCDrivers -----------------------------
(***************************************************************************)
(* The drivers, and the parts of the library that stand alone (MCLibrary), *)
(* one at a time: which one runs is chosen at the start.  The variables of *)
(* two drivers that have the same name are one variable here, and those of *)
(* the others are Unused.                                                  *)
(***************************************************************************)
EXTENDS MCLibrary

CONSTANTS MaxTime, BeforeLaunch, Fraction, MaxWeather, MaxFaults, MaxSettings, MaxSetups, MaxReads, MaxLoad, MaxMotion,
  Channels, Inputs, Gains, Freezing, Modes

VARIABLES
  faults, pc, ok, sample, began, todo, chip,
  now, board, measuring, axes, event, woke, logged,
  header, lines, config, stage, packet, events,
  weather, settings, prom, memory, osr, adc, slept, raw, meas, barometerData,
  channel_map, shadow, adcdata, buffer, missed, hasty, spilled, setups, reads,
  mode, load, asked, data, shuntData,
  motion, acceleration

shared == <<faults, pc, ok, sample, began, todo, chip>>
replay == <<now, board, measuring, axes, event, woke, logged>>
ork == <<header, lines, config, stage, packet, events>>
barometer == <<weather, settings, prom, memory, osr, adc, slept, raw, meas, barometerData>>
converter == <<channel_map, shadow, adcdata, buffer, missed, hasty, spilled, setups, reads>>
shunt == <<mode, load, asked, data, shuntData>>
accelerometer == <<motion, acceleration>>
drivers == <<shared, replay, ork, barometer, converter, shunt, accelerometer>>
vars == <<library, drivers>>

PacketTime == (0 :> 1) @@ (1 :> 3) @@ (2 :> 4)
PacketData == (0 :> 1) @@ (1 :> 5) @@ (2 :> 7)
EventTime == (0 :> 0) @@ (1 :> 3) @@ (2 :> 6) @@ (3 :> 8)
Perfect == [broken |-> FALSE, period |-> 0, lag |-> 0, measurement |-> 0]
Broken == [Perfect EXCEPT !.broken = TRUE]
Slow == [Perfect EXCEPT !.period = 2, !.lag = 1, !.measurement = 1]
Board(i, b, m, g) ==
  [imu |-> i, barometer |-> b, magnetometer |-> m, gnss |-> g,
   vertical |-> "z", lateral |-> "x", vertical_invert |-> FALSE,
   rates |-> ("roll" :> "z") @@ ("pitch" :> "x") @@ ("yaw" :> "y"),
   inverts |-> ("roll" :> FALSE) @@ ("pitch" :> TRUE) @@ ("yaw" :> FALSE)]
Boards ==
  {Board(Perfect, Slow, Broken, Broken), Board(Broken, Broken, Slow, [Perfect EXCEPT !.period = 3]),
   [Board(Perfect, Broken, Slow, Broken) EXCEPT !.rates = ("roll" :> "x") @@ ("pitch" :> "y") @@ ("yaw" :> "z")]}

ResponseTime == (256 :> 1) @@ (1024 :> 3) @@ (4096 :> 9)

Column(name, unit) == [name |-> name, unit |-> unit]
Complete ==
  <<Column("Time", "s"), Column("Altitude", "m"), Column("Vertical acceleration", "m/s2"), Column("Total velocity", "m/s"),
    Column("Lateral acceleration", "m/s2"), Column("Lateral direction", "deg"), Column("Latitude", "deg"),
    Column("Longitude", "deg"), Column("Roll rate", "r/s"), Column("Pitch rate", "rpm"), Column("Yaw rate", "rad/s"),
    Column("Vertical orientation", "deg"), Column("Lateral orientation", "deg"), Column("Air temperature", "F"),
    Column("Air pressure", "mbar")>>
Reversed == [i \in DOMAIN Complete |-> Complete[Len(Complete) + 1 - i]]
Imperial == [i \in DOMAIN Complete |-> IF Complete[i].name = "Altitude" THEN Column("Altitude", "ft") ELSE Complete[i]]
Log == <<"data", "LAUNCH", "data", "ALTITUDE", "APOGEE", "data">>
Exports == {[header |-> h, lines |-> Log] : h \in {Complete, Reversed, Imperial, SubSeq(Complete, 1, 9)}}

R == INSTANCE OpenRocket
O == INSTANCE OrkConversion
B == INSTANCE Ms5611
C == INSTANCE Mcp356x
S == INSTANCE Ina260
A == INSTANCE Adxl375

ASSUME MCPacketsAssumption == R!PacketsAssumption
ASSUME MCEventsAssumption == R!EventsAssumption
ASSUME MCBoardsAssumption == R!BoardsAssumption
ASSUME MCChannelsAssumption == C!ChannelsAssumption

NoReplay ==
  /\ now = Unused /\ board = Unused /\ measuring = Unused /\ axes = Unused /\ event = Unused
  /\ woke = Unused /\ logged = Unused
NoOrk ==
  /\ header = Unused /\ lines = Unused /\ config = Unused /\ stage = Unused /\ packet = Unused
  /\ events = Unused
NoBarometer ==
  /\ weather = Unused /\ settings = Unused /\ prom = Unused /\ memory = Unused /\ osr = Unused
  /\ adc = Unused /\ slept = Unused /\ raw = Unused /\ meas = Unused /\ barometerData = Unused
NoConverter ==
  /\ channel_map = Unused /\ shadow = Unused /\ adcdata = Unused /\ buffer = Unused /\ missed = Unused
  /\ hasty = Unused /\ spilled = Unused /\ setups = Unused /\ reads = Unused
NoShunt ==
  /\ mode = Unused /\ load = Unused /\ asked = Unused /\ data = Unused /\ shuntData = Unused
NoAccelerometer ==
  /\ motion = Unused /\ acceleration = Unused

DriversInit ==
  \/ /\ subject = "replay" /\ R!Init
     /\ NoOrk /\ NoBarometer /\ NoConverter /\ NoShunt /\ NoAccelerometer
     /\ faults = Unused /\ pc = Unused /\ ok = Unused /\ began = Unused /\ todo = Unused /\ chip = Unused
  \/ /\ subject = "ork" /\ O!Init
     /\ NoReplay /\ NoBarometer /\ NoConverter /\ NoShunt /\ NoAccelerometer
     /\ faults = Unused /\ pc = Unused /\ ok = Unused /\ sample = Unused /\ began = Unused
     /\ todo = Unused /\ chip = Unused
  \/ /\ subject = "barometer" /\ B!Init
     /\ NoReplay /\ NoOrk /\ NoConverter /\ NoShunt /\ NoAccelerometer
     /\ sample = Unused /\ todo = Unused /\ chip = Unused
  \/ /\ subject = "converter" /\ C!Init
     /\ NoReplay /\ NoOrk /\ NoBarometer /\ NoShunt /\ NoAccelerometer
     /\ ok = Unused /\ sample = Unused /\ began = Unused
  \/ /\ subject = "shunt" /\ S!Init
     /\ NoReplay /\ NoOrk /\ NoBarometer /\ NoConverter /\ NoAccelerometer
     /\ sample = Unused /\ chip = Unused
  \/ /\ subject = "accelerometer" /\ A!Init
     /\ NoReplay /\ NoOrk /\ NoBarometer /\ NoConverter /\ NoShunt
     /\ began = Unused /\ todo = Unused
  \/ /\ subject \in Subjects
     /\ NoReplay /\ NoOrk /\ NoBarometer /\ NoConverter /\ NoShunt /\ NoAccelerometer
     /\ faults = Unused /\ pc = Unused /\ ok = Unused /\ sample = Unused /\ began = Unused
     /\ todo = Unused /\ chip = Unused

Init == DriversInit /\ LibraryInit

ReplayStep ==
  /\ subject = "replay" /\ R!Next
  /\ UNCHANGED <<library, ork, barometer, converter, shunt, accelerometer, faults, pc, ok, began, todo, chip>>
OrkStep ==
  /\ subject = "ork" /\ O!Next
  /\ UNCHANGED <<library, replay, barometer, converter, shunt, accelerometer, faults, pc, ok, sample, began, todo, chip>>
BarometerStep ==
  /\ subject = "barometer" /\ B!Next
  /\ UNCHANGED <<library, replay, ork, converter, shunt, accelerometer, sample, todo, chip>>
ConverterStep ==
  /\ subject = "converter" /\ C!Next
  /\ UNCHANGED <<library, replay, ork, barometer, shunt, accelerometer, ok, sample, began>>
ShuntStep ==
  /\ subject = "shunt" /\ S!Next
  /\ UNCHANGED <<library, replay, ork, barometer, converter, accelerometer, sample, chip>>
AccelerometerStep ==
  /\ subject = "accelerometer" /\ A!Next
  /\ UNCHANGED <<library, replay, ork, barometer, converter, shunt, began, todo>>

LibraryStep == LibraryNext /\ UNCHANGED drivers

Next == ReplayStep \/ OrkStep \/ BarometerStep \/ ConverterStep \/ ShuntStep \/ AccelerometerStep
        \/ LibraryStep

Spec == Init /\ [][Next]_vars

-----------------------------------------------------------------------------
(* A replay is of the flight: what sensors show, the axes they show it on, *)
(* and the events that are logged: OpenRocket.                             *)
ReplaysTheFlight ==
  subject = "replay" => R!ReplaysTheFlight /\ R!EveryRateShown /\ R!NeverAnnouncedEarly

(* Fields of a packet are in the order of the struct: OrkConversion.       *)
FieldsMeetMembers == subject = "ork" => O!FieldsMeetMembers

(* The barometer shows conversions of the fetch that succeeded, computed   *)
(* with a calibration that was checked: Ms5611.                            *)
FreshWhenOk == subject = "barometer" => B!FreshWhenOk /\ B!Calibrated

(* An analogue value was converted from its own inputs and is at its       *)
(* channel's place in the buffer, and the converter converts: Mcp356x.     *)
SampleOfItsInputs ==
  subject = "converter" => C!SampleOfItsInputs /\ C!BufferInOrder /\ C!KeepsConverting

(* What an update shows is one successful fetch: the shunt shows the       *)
(* registers of one (Ina260), the accelerometer no zeros of a transfer     *)
(* that failed (Adxl375).                                                  *)
UpdatesAreWhole ==
  [][ /\ subject = "shunt" => S!ShowsOneFetch
      /\ subject = "accelerometer" => A!NeverZeroAgain ]_vars
=============================================================================
