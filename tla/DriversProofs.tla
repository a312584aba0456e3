--------------------------- MODULE DriversProofs ---------------------------
(***************************************************************************)
(* Proofs about the drivers of the accelerometer, the power monitor, the   *)
(* barometer and the converter (Adxl375, Ina260, Ms5611 and Mcp356x), for  *)
(* any channels, inputs, gains and modes and any number of failing         *)
(* transfers, and about the simulated sensors (OpenRocket), for any        *)
(* packets, events and boards of its assumptions.  MCDrivers runs one of   *)
(* them at a time.                                                         *)
(***************************************************************************)
EXTENDS MCDrivers, WellFoundedInduction, TLAPS

-----------------------------------------------------------------------------
(* The accelerometer.                                                      *)

(* A chip that is ready was told to measure, and nothing that is shown is  *)
(* newer than the motion.                                                  *)
AccelerometerInv ==
  /\ motion \in Nat /\ pc \in 0..6 /\ acceleration \in 0..motion
  /\ pc = 6 => "mode" \in chip

(* The chip is asked for nothing before it is ready. *)
LEMMA AccelerometerStarts ==
  ASSUME A!Init
  PROVE  AccelerometerInv
  BY DEF A!Init, A!Zeros, AccelerometerInv

(* No step of the driver goes back to the zeros, or to an older motion. *)
LEMMA AccelerometerNext ==
  ASSUME AccelerometerInv, A!Next
  PROVE  AccelerometerInv' /\ A!NeverZeroAgain
<1>1. motion \in Nat /\ pc \in 0..6 /\ acceleration \in 0..motion /\ (pc = 6 => "mode" \in chip)
  BY DEF AccelerometerInv
<1>2. CASE A!Move
  BY <1>1, <1>2 DEF A!Move, AccelerometerInv, A!NeverZeroAgain
<1>3. CASE A!Initialize
  <2>1. pc \in 1..5 /\ (pc = 5 => A!Stages[pc] = "mode")
    BY <1>3 DEF A!Initialize, A!Stages
  <2>2. /\ pc' = pc + 1 \/ pc' = 0
        /\ pc' = 6 => "mode" \in chip'
    BY <1>3, <2>1 DEF A!Initialize, A!Unready
  <2> QED BY <1>1, <1>3, <2>1, <2>2 DEF A!Initialize, AccelerometerInv, A!NeverZeroAgain
<1>4. CASE A!UpdateSensorValue
  <2>1. pc = 6 /\ A!Measured = motion /\ UNCHANGED <<motion, pc, chip>>
    BY <1>1, <1>4 DEF A!UpdateSensorValue, A!Ready, A!Stages, A!Measured
  <2>2. acceleration' = motion \/ acceleration' = acceleration
    BY <1>4, <2>1 DEF A!UpdateSensorValue, A!SampleFetch, A!Convert
  <2> QED BY <1>1, <2>1, <2>2 DEF AccelerometerInv, A!NeverZeroAgain
<1>5. CASE A!NotReady
  BY <1>1, <1>5 DEF A!NotReady, AccelerometerInv, A!NeverZeroAgain
<1> QED BY <1>2, <1>3, <1>4, <1>5 DEF A!Next

-----------------------------------------------------------------------------
(* The power monitor.                                                      *)

Registers == <<"voltage", "power", "current">>

(* The registers that a fetch of all has read are of its time, in order.   *)
ReadInOrder ==
  \/ todo = Registers
  \/ todo = <<"power", "current">> /\ began <= data["voltage"]
  \/ todo = <<"current">> /\ began <= data["voltage"] /\ data["voltage"] <= data["power"]
  \/ /\ todo = <<>> /\ began <= data["voltage"]
     /\ data["voltage"] <= data["power"] /\ data["power"] <= data["current"]

ShuntInv ==
  /\ load \in Nat \ {0} /\ began \in 0..load
  /\ data \in [S!Names -> 0..load]
  /\ mode = "simulated" => began = 0 /\ pc = "idle"
  /\ pc = "read" => IF asked = "all" THEN ReadInOrder ELSE todo \in {<<asked>>, <<>>} /\ asked \in S!Names

(* The registers are zero before anything is read. *)
LEMMA ShuntStarts ==
  ASSUME S!Init
  PROVE  ShuntInv
<1>1. load = 1 /\ began = 0 /\ data = [r \in S!Names |-> 0] /\ pc # "read" /\ (mode = "simulated" => pc = "idle")
  BY DEF S!Init
<1> QED BY <1>1 DEF ShuntInv

(* What is shown was read in one fetch, in its order. *)
LEMMA ShuntNext ==
  ASSUME ShuntInv, S!Next
  PROVE  ShuntInv' /\ S!ShowsOneFetch
<1>1. /\ load \in Nat \ {0} /\ began \in 0..load /\ data \in [S!Names -> 0..load]
      /\ mode = "simulated" => began = 0 /\ pc = "idle"
  BY DEF ShuntInv
<1>2. CASE S!UpdateSimulated
  <2>1. began = 0 /\ shuntData' = [r \in S!Names |-> 1] /\ pc = "idle" /\ UNCHANGED <<mode, load, pc, todo, asked, data, began>>
    BY <1>1, <1>2 DEF S!UpdateSimulated, S!SimShunt
  <2> QED BY <1>1, <2>1 DEF ShuntInv, S!ShowsOneFetch, S!Names
<1>3. CASE S!Load
  <2>1. load' = load + 1 /\ UNCHANGED <<mode, pc, todo, asked, data, began, shuntData>>
    BY <1>3 DEF S!Load
  <2>2. data' \in [S!Names -> 0..load'] /\ began' \in 0..load' /\ load' \in Nat \ {0}
    BY <1>1, <2>1
  <2> QED BY <1>1, <2>1, <2>2 DEF ShuntInv, ReadInOrder, S!ShowsOneFetch
<1>4. CASE S!Initialize \/ S!Refuse
  <2>1. UNCHANGED <<mode, load, todo, asked, data, began, shuntData>> /\ (pc' = pc \/ (pc' # "read" /\ mode # "simulated"))
    BY <1>1, <1>4 DEF S!Initialize, S!Refuse
  <2> QED BY <1>1, <2>1 DEF ShuntInv, ReadInOrder, S!ShowsOneFetch
<1>5. CASE S!Fetch
  <2>1. /\ mode = "continuous" /\ pc' = "read" /\ began' = load /\ UNCHANGED <<mode, load, data, shuntData>>
        /\ asked' = "all" => todo' = Registers
        /\ asked' # "all" => todo' = <<asked'>> /\ asked' \in S!Names
    BY <1>5 DEF S!Fetch, S!Registers, Registers, S!Names
  <2>2. began' \in 0..load'
    BY <1>1, <2>1
  <2> QED BY <1>1, <2>1, <2>2 DEF ShuntInv, ReadInOrder, S!ShowsOneFetch
<1>6. CASE S!ReadRegister
  <2>1. /\ pc = "read" /\ todo # <<>> /\ todo' = Tail(todo) /\ data' = [data EXCEPT ![Head(todo)] = load]
        /\ UNCHANGED <<mode, load, pc, asked, began, shuntData>> /\ mode # "simulated"
    BY <1>1, <1>6 DEF S!ReadRegister
  <2>2. data' \in [S!Names -> 0..load']
    <3>1. load \in 0..load /\ load' = load
      BY <1>1, <2>1
    <3>2. PICK first : data' = [data EXCEPT ![first] = load]
      BY <2>1
    <3> QED BY <1>1, <3>1, <3>2
  <2>3. CASE asked = "all"
    <3>1. ReadInOrder /\ "voltage" \in S!Names /\ "power" \in S!Names /\ "current" \in S!Names
      BY <2>1, <2>3 DEF ShuntInv, S!Names
    <3>2. CASE todo = Registers
      <4>1. Head(todo) = "voltage" /\ Tail(todo) = <<"power", "current">>
        BY <3>2 DEF Registers
      <4> QED BY <1>1, <2>1, <2>2, <2>3, <3>1, <4>1 DEF ShuntInv, ReadInOrder, S!ShowsOneFetch
    <3>3. CASE todo = <<"power", "current">> /\ began <= data["voltage"]
      <4>1. Head(todo) = "power" /\ Tail(todo) = <<"current">> /\ data["voltage"] <= load
        BY <1>1, <3>1, <3>3
      <4> QED BY <1>1, <2>1, <2>2, <2>3, <3>1, <3>3, <4>1 DEF ShuntInv, ReadInOrder, S!ShowsOneFetch
    <3>4. CASE todo = <<"current">> /\ began <= data["voltage"] /\ data["voltage"] <= data["power"]
      <4>1. Head(todo) = "current" /\ Tail(todo) = <<>> /\ data["power"] <= load
        BY <1>1, <3>1, <3>4
      <4> QED BY <1>1, <2>1, <2>2, <2>3, <3>1, <3>4, <4>1 DEF ShuntInv, ReadInOrder, S!ShowsOneFetch
    <3> QED BY <2>1, <3>1, <3>2, <3>3, <3>4 DEF ReadInOrder
  <2>4. CASE asked # "all"
    <3>1. todo = <<asked>> /\ asked \in S!Names /\ Tail(<<asked>>) = <<>>
      BY <2>1, <2>4 DEF ShuntInv
    <3> QED BY <1>1, <2>1, <2>2, <2>4, <3>1 DEF ShuntInv, S!ShowsOneFetch
  <2> QED BY <2>3, <2>4
<1>7. CASE S!ReadFails
  <2>1. pc = "read" /\ pc' = "idle" /\ UNCHANGED <<mode, load, data, began, shuntData>>
    BY <1>7 DEF S!ReadFails, S!Return
  <2> QED BY <1>1, <2>1 DEF ShuntInv, S!ShowsOneFetch
<1>8. CASE S!Update
  <2>1. /\ pc = "read" /\ todo = <<>> /\ pc' = "idle" /\ UNCHANGED <<mode, load, todo, asked, data, began>>
        /\ IF asked = "all" THEN shuntData' = [r \in S!Names |-> data[r]] ELSE shuntData' = shuntData
    BY <1>8 DEF S!Update, S!ChannelGet
  <2>2. ASSUME asked = "all"
        PROVE  began <= data["voltage"] /\ data["voltage"] <= data["power"] /\ data["power"] <= data["current"]
    BY <2>1, <2>2 DEF ShuntInv, ReadInOrder, Registers
  <2>3. ShuntInv'
    BY <1>1, <2>1 DEF ShuntInv
  <2>4. S!ShowsOneFetch
    <3>1. SUFFICES ASSUME asked = "all" PROVE S!ShowsOneFetch
      BY <2>1 DEF S!ShowsOneFetch
    <3>2. /\ shuntData'["voltage"] = data["voltage"] /\ shuntData'["power"] = data["power"]
          /\ shuntData'["current"] = data["current"]
          /\ data["voltage"] \in Nat /\ data["power"] \in Nat /\ data["current"] \in Nat /\ began \in Nat
      BY <1>1, <2>1, <3>1 DEF S!Names
    <3> QED BY <2>2, <3>1, <3>2 DEF S!ShowsOneFetch, S!Names
  <2> QED BY <2>3, <2>4
<1> QED BY <1>2, <1>3, <1>4, <1>5, <1>6, <1>7, <1>8 DEF S!Next

-----------------------------------------------------------------------------
(* The barometer.                                                          *)

AwaitingTemp == {"await temp", "read temp"}
AwaitingPress == {"await press", "read press"}

(* A conversion that is waited for was asked for in this fetch, and the    *)
(* temperature it is compensated with was accepted in it.                  *)
FetchInOrder ==
  /\ pc \in AwaitingTemp => began <= adc.weather
  /\ pc \in AwaitingPress \cup {"ask press"} => began <= raw
  /\ pc \in AwaitingPress => began <= adc.weather

BarometerInv ==
  /\ weather \in Nat /\ began \in 0..weather /\ raw \in 0..weather
  /\ adc.weather \in 0..weather /\ ok \in BOOLEAN
  /\ pc \in {"reset", "prom", "crc", "unready"} => ~ok /\ barometerData = B!Unread
  /\ pc \notin {"reset", "prom", "crc", "unready"} => prom = "good"
  /\ FetchInOrder /\ B!FreshWhenOk /\ B!Calibrated

(* Nothing is shown before the chip is ready. *)
LEMMA BarometerStarts ==
  ASSUME B!Init
  PROVE  BarometerInv
<1>1. /\ weather = 1 /\ began = 0 /\ raw = 0 /\ adc.weather = 0 /\ ok = FALSE /\ ~ok
      /\ pc = "reset" /\ barometerData = B!Unread
  BY DEF B!Init, B!None
<1>2. FetchInOrder
  BY <1>1 DEF FetchInOrder, AwaitingTemp, AwaitingPress
<1>3. B!FreshWhenOk
  BY <1>1 DEF B!FreshWhenOk
<1>4. B!Calibrated
  BY <1>1 DEF B!Calibrated
<1>5. ok \in BOOLEAN
  BY <1>1
<1> QED BY <1>1, <1>2, <1>3, <1>4, <1>5 DEF BarometerInv

(* A transaction that fails is told of, and the fetch is over. *)
LEMMA FailureIsTold ==
  ASSUME BarometerInv, pc \notin {"reset", "prom", "crc", "unready"},
         UNCHANGED <<weather, prom, adc, began, raw, barometerData>>, pc' = "idle", ok' = FALSE
  PROVE  BarometerInv'
<1>1. FetchInOrder'
  BY DEF FetchInOrder, AwaitingTemp, AwaitingPress
<1>2. B!FreshWhenOk' /\ B!Calibrated'
  BY DEF BarometerInv, B!FreshWhenOk, B!Calibrated
<1> QED BY <1>1, <1>2 DEF BarometerInv

(* What the barometer shows is of the fetch that succeeded, and its        *)
(* calibration was checked.                                                *)
LEMMA BarometerNext ==
  ASSUME BarometerInv, B!Next
  PROVE  BarometerInv'
<1>1. /\ weather \in Nat /\ began \in 0..weather /\ raw \in 0..weather /\ adc.weather \in 0..weather
      /\ ok \in BOOLEAN /\ FetchInOrder /\ B!FreshWhenOk /\ B!Calibrated
      /\ pc \in {"reset", "prom", "crc", "unready"} => ~ok /\ barometerData = B!Unread
      /\ pc \notin {"reset", "prom", "crc", "unready"} => prom = "good"
  BY DEF BarometerInv
<1>2. CASE B!Weather
  <2>1. weather' = weather + 1 /\ UNCHANGED <<pc, prom, adc, began, raw, barometerData, ok>>
    BY <1>2 DEF B!Weather, B!chip
  <2>2. FetchInOrder'
    BY <1>1, <2>1 DEF FetchInOrder
  <2>3. B!FreshWhenOk' /\ B!Calibrated'
    BY <1>1, <2>1 DEF B!FreshWhenOk, B!Calibrated
  <2> QED BY <1>1, <2>1, <2>2, <2>3 DEF BarometerInv
<1>3. CASE B!Reset \/ B!FetchProm \/ B!CheckCoefCrc
  <2>1. /\ pc \in {"reset", "prom", "crc"} /\ pc' \in {"prom", "crc", "idle", "unready"}
        /\ pc' = "idle" => prom' = "good"
        /\ UNCHANGED <<weather, adc, began, raw, barometerData, ok>>
    BY <1>3 DEF B!Reset, B!FetchProm, B!CheckCoefCrc, B!InitStage, B!Checksum, B!chip
  <2>2. ~ok /\ ~ok' /\ barometerData = B!Unread
    BY <1>1, <2>1
  <2> QED BY <1>1, <2>1, <2>2 DEF BarometerInv, FetchInOrder, AwaitingTemp, AwaitingPress,
                                 B!FreshWhenOk, B!Calibrated
<1>4. CASE B!AttrSet \/ B!NotReady
  <2>1. /\ UNCHANGED <<weather, pc, prom, adc, began, raw, barometerData>>
        /\ ok' = ok \/ (pc = "unready" /\ ok' = FALSE)
    BY <1>4 DEF B!AttrSet, B!NotReady, B!chip, B!bus
  <2>2. FetchInOrder' /\ B!Calibrated'
    BY <1>1, <2>1 DEF FetchInOrder, B!Calibrated
  <2>3. B!FreshWhenOk'
    BY <1>1, <2>1 DEF B!FreshWhenOk
  <2>4. ok' \in BOOLEAN /\ (~ok => ~ok')
    <3>1. ok \in BOOLEAN /\ (ok' = ok \/ ok' = FALSE)
      BY <1>1, <2>1
    <3>2. CASE ok' = ok
      BY <3>1, <3>2
    <3>3. CASE ok' = FALSE
      BY <3>3
    <3> QED BY <3>1, <3>2, <3>3
  <2> QED BY <1>1, <2>1, <2>2, <2>3, <2>4 DEF BarometerInv
<1>5. ASSUME NEW q \in B!Quantities, B!Request(q)
      PROVE  BarometerInv'
  <2>1. pc = (IF q = "temp" THEN "idle" ELSE "ask press")
    BY <1>5 DEF B!Request
  <2>2. CASE B!Fails
    BY <2>1, <2>2, FailureIsTold DEF B!Fails, B!chip
  <2>3. CASE ~B!Fails
    <3>1. /\ adc' = [weather |-> weather, takes |-> ResponseTime[osr[q]]]
          /\ UNCHANGED <<weather, prom, raw, barometerData, ok>>
          /\ began' = IF q = "temp" THEN weather ELSE began
          /\ pc' = IF q = "temp" THEN "await temp" ELSE "await press"
      BY <1>5, <2>3, Zenon DEF B!Request
    <3>2. adc'.weather = weather
      BY <3>1
    <3>3. \/ pc' = "await temp" /\ began' = weather
          \/ pc = "ask press" /\ pc' = "await press" /\ began' = began
      BY <2>1, <3>1
    <3>9. raw' = raw /\ weather' = weather /\ (pc = "ask press" => began <= raw)
      BY <1>1, <3>1, Zenon DEF FetchInOrder
    <3>10. weather \in Nat /\ began \in 0..weather /\ raw \in 0..weather /\ weather \in 0..weather
      BY <1>1
    <3>4. FetchInOrder'
      <4>1. weather <= weather /\ began <= weather
        BY <3>10
      <4>2. CASE pc' = "await temp" /\ began' = weather
        BY <3>2, <4>1, <4>2 DEF FetchInOrder, AwaitingTemp, AwaitingPress
      <4>3. CASE pc = "ask press" /\ pc' = "await press" /\ began' = began
        BY <3>2, <3>9, <4>1, <4>3 DEF FetchInOrder, AwaitingTemp, AwaitingPress
      <4> QED BY <3>3, <4>2, <4>3
    <3>5. B!FreshWhenOk'
      BY <3>3 DEF B!FreshWhenOk
    <3>6. B!Calibrated'
      BY <1>1, <3>1 DEF B!Calibrated
    <3>7. prom' = "good" /\ pc' \notin {"reset", "prom", "crc", "unready"}
      BY <1>1, <2>1, <3>1, <3>3
    <3>8. /\ weather' \in Nat /\ began' \in 0..weather' /\ raw' \in 0..weather'
          /\ adc'.weather \in 0..weather'
      <4>1. weather' \in Nat
        BY <3>9, <3>10
      <4>2. raw' \in 0..weather'
        BY <3>9, <3>10
      <4>3. began' = weather \/ began' = began
        BY <3>3
      <4>4. began' \in 0..weather'
        BY <3>10, <4>1, <4>2, <4>3, <3>9
      <4>5. adc'.weather \in 0..weather'
        BY <3>2, <3>9, <3>10
      <4> QED BY <4>1, <4>2, <4>4, <4>5
    <3>11. ok' \in BOOLEAN
      BY <1>1, <3>1, Zenon
    <3> QED BY <3>4, <3>5, <3>6, <3>7, <3>8, <3>11 DEF BarometerInv
  <2> QED BY <2>2, <2>3
<1>6. ASSUME NEW q \in B!Quantities, B!Sleep(q)
      PROVE  BarometerInv'
  <2>1. /\ UNCHANGED <<weather, prom, adc, began, raw, barometerData, ok>>
        /\ \/ pc = "await temp" /\ pc' = "read temp"
           \/ pc = "await press" /\ pc' = "read press"
    BY <1>6 DEF B!Sleep, B!chip
  <2>2. FetchInOrder' /\ B!FreshWhenOk'
    BY <1>1, <2>1 DEF FetchInOrder, AwaitingTemp, AwaitingPress, B!FreshWhenOk
  <2> QED BY <1>1, <2>1, <2>2 DEF BarometerInv, B!Calibrated
<1>7. CASE B!ReadTemp
  <2>1. pc = "read temp"
    BY <1>7 DEF B!ReadTemp
  <2>2. CASE B!Accept(B!Converted) /\ raw' = B!Converted /\ pc' = "ask press"
             /\ UNCHANGED <<weather, prom, adc, began, barometerData, ok>>
    <3>1. raw' = adc.weather /\ began <= adc.weather
      BY <1>1, <2>1, <2>2 DEF B!Accept, B!Converted, FetchInOrder, AwaitingTemp
    <3>2. FetchInOrder' /\ B!FreshWhenOk'
      BY <2>2, <3>1 DEF FetchInOrder, AwaitingTemp, AwaitingPress, B!FreshWhenOk
    <3> QED BY <1>1, <2>1, <2>2, <3>1, <3>2 DEF BarometerInv, B!Calibrated
  <2>3. CASE pc' = "idle" /\ ok' = FALSE /\ UNCHANGED <<weather, prom, adc, began, raw, barometerData>>
    BY <2>1, <2>3, FailureIsTold
  <2> QED BY <1>7, <2>2, <2>3 DEF B!ReadTemp, B!Fails, B!chip
<1>8. CASE B!ReadPress
  <2>1. pc = "read press"
    BY <1>8 DEF B!ReadPress
  <2>2. CASE B!Accept(B!Converted) /\ B!UpdateSensorValue(B!Compensated)
             /\ UNCHANGED <<weather, prom, adc, began, raw>>
    <3>1. B!Converted = adc.weather /\ began <= adc.weather /\ began <= raw /\ prom = "good"
      BY <1>1, <2>1, <2>2 DEF B!Accept, B!Converted, FetchInOrder, AwaitingPress
    <3>2. /\ barometerData' = [temp |-> IF raw \in Freezing THEN B!Wrapped ELSE raw,
                               press |-> <<adc.weather, raw>>, prom |-> prom]
          /\ ok' = TRUE /\ pc' = "idle"
      BY <2>2, <3>1 DEF B!UpdateSensorValue, B!Compensated, B!Shown
    <3>3. /\ barometerData'.press[1] = adc.weather /\ barometerData'.press[2] = raw
          /\ barometerData'.prom = "good"
          /\ barometerData'.temp # B!Wrapped => barometerData'.temp = raw
      BY <3>1, <3>2
    <3>4. B!FreshWhenOk' /\ B!Calibrated'
      BY <2>2, <3>1, <3>3 DEF B!FreshWhenOk, B!Calibrated, B!Wrapped
    <3>5. FetchInOrder'
      BY <3>2 DEF FetchInOrder, AwaitingTemp, AwaitingPress
    <3> QED BY <1>1, <2>2, <3>1, <3>2, <3>4, <3>5 DEF BarometerInv
  <2>3. CASE pc' = "idle" /\ ok' = FALSE /\ UNCHANGED <<weather, prom, adc, began, raw, barometerData>>
    BY <2>1, <2>3, FailureIsTold
  <2> QED BY <1>8, <2>2, <2>3 DEF B!ReadPress, B!Fails, B!chip
<1> QED BY <1>2, <1>3, <1>4, <1>5, <1>6, <1>7, <1>8 DEF B!Next

-----------------------------------------------------------------------------
(* The converter.                                                          *)

WrittenRegisters == {"mode", "mux", "gain"}
ModeSet == {C!Stopped, "continuous", "overwritten"}
Entry == [mux : Inputs, gain : Gains]
Made == [mux : Inputs \cup {0, 1}, gain : Gains \cup {0, 1}]
Setting == [mode : ModeSet, mux : Inputs \cup {0, 1}, gain : Gains \cup {0, 1}]
Reading == [channel : Nat, asked : Made, got : Made, excused : BOOLEAN]

ConverterTypeOK ==
  /\ channel_map \in [Channels -> Entry \cup {C!Unset}] /\ faults \in Nat
  /\ shadow \in Setting /\ chip \in Setting /\ adcdata \in Made
  /\ pc \in {"off", "starting", "idle", "mode", "gain", "mux", "wait", "sample"}
  /\ todo \subseteq Channels /\ (pc \in {"off", "starting", "idle"} <=> todo = {})
  /\ \A c \in todo : channel_map[c] \in Entry
  /\ buffer \in Seq(Reading)
  /\ missed \subseteq WrittenRegisters /\ hasty \in BOOLEAN /\ spilled \in BOOLEAN

(* The driver's copy of the multiplexer is right if its last write was,    *)
(* and but for a wait, or one that was too short, the last conversion is   *)
(* of the inputs the chip stands at; the copy of the mode only changes     *)
(* when an entry lies over it.                                             *)
ShadowIsTrue ==
  /\ "mux" \notin missed /\ shadow.mux # 0 => chip.mux = shadow.mux
  /\ pc # "wait" => hasty \/ adcdata.mux = chip.mux
  /\ pc \in {"wait", "sample"} => C!Current.mux = shadow.mux
  /\ (pc # "off" /\ ~spilled) => shadow.mode = "continuous"
  /\ (pc # "off" /\ ~spilled /\ "mode" \notin missed) => chip.mode = "continuous"

(* What is still to be read comes after what was read.                     *)
LowestFirst == \A i \in DOMAIN buffer : \A c \in todo : buffer[i].channel < c

ConverterInv ==
  /\ ConverterTypeOK /\ ShadowIsTrue
  /\ LowestFirst /\ C!SampleOfItsInputs /\ C!BufferInOrder

(* Of the channels still to be read there is a first one. *)
LEMMA FirstChannel ==
  ASSUME C!ChannelsAssumption, todo \subseteq Channels, todo # {}
  PROVE  C!First(todo) \in todo /\ \A c \in todo : C!First(todo) <= c
<1>1. todo \in SUBSET Nat
  BY DEF C!ChannelsAssumption, C!MAX_CHANNELS
<1>2. PICK n \in todo : \A m \in todo : <<m, n>> \notin OpToRel(<, Nat)
  BY <1>1, WFMin, NatLessThanWellFounded, Zenon
<1>3. \A m \in todo : ~(m < n)
  BY <1>1, <1>2 DEF OpToRel
<1>4. n \in todo
  BY <1>2, Zenon
<1>5. \A m \in todo : n <= m
  BY <1>1, <1>3, <1>4
<1> QED BY <1>4, <1>5 DEF C!First, C!Min

(* A write of the mode leaves the multiplexer, and does not fail unseen.   *)
LEMMA ModeWritten ==
  ASSUME ConverterTypeOK, NEW v \in ModeSet, C!Written("mode", v)
  PROVE  /\ shadow' \in Setting /\ chip' \in Setting /\ missed' \subseteq WrittenRegisters /\ faults' \in Nat
         /\ shadow'.mux = shadow.mux /\ chip'.mux = chip.mux /\ ("mux" \in missed' <=> "mux" \in missed)
         /\ shadow'.mode = v /\ ("mode" \notin missed' => chip'.mode = v)
<1>1. shadow \in Setting /\ chip \in Setting /\ faults \in Nat /\ missed \subseteq WrittenRegisters
  BY DEF ConverterTypeOK
<1>2. /\ shadow' = [shadow EXCEPT !["mode"] = v]
      /\ \/ chip' = [chip EXCEPT !["mode"] = v] /\ missed' = missed \ {"mode"} /\ faults' = faults
         \/ chip' = chip /\ missed' = missed \cup {"mode"} /\ faults' = faults + 1
  BY DEF C!Written
<1>3. shadow' \in Setting /\ shadow'.mode = v /\ shadow'.mux = shadow.mux
  BY <1>1, <1>2 DEF Setting
<1>4. CASE chip' = [chip EXCEPT !["mode"] = v] /\ missed' = missed \ {"mode"} /\ faults' = faults
  <2>1. chip' \in Setting /\ chip'.mux = chip.mux /\ chip'.mode = v
    BY <1>1, <1>4 DEF Setting
  <2> QED BY <1>1, <1>3, <1>4, <2>1 DEF WrittenRegisters
<1>5. CASE chip' = chip /\ missed' = missed \cup {"mode"} /\ faults' = faults + 1
  BY <1>1, <1>3, <1>5 DEF WrittenRegisters
<1> QED BY <1>2, <1>4, <1>5

(* A write of the gain leaves the multiplexer and the mode.                *)
LEMMA GainWritten ==
  ASSUME ConverterTypeOK, NEW v \in Gains \cup {0, 1}, C!Written("gain", v)
  PROVE  /\ shadow' \in Setting /\ chip' \in Setting /\ missed' \subseteq WrittenRegisters /\ faults' \in Nat
         /\ shadow'.mux = shadow.mux /\ chip'.mux = chip.mux /\ ("mux" \in missed' <=> "mux" \in missed)
         /\ shadow'.mode = shadow.mode /\ chip'.mode = chip.mode /\ ("mode" \in missed' <=> "mode" \in missed)
<1>1. shadow \in Setting /\ chip \in Setting /\ faults \in Nat /\ missed \subseteq WrittenRegisters
  BY DEF ConverterTypeOK
<1>2. /\ shadow' = [shadow EXCEPT !["gain"] = v]
      /\ \/ chip' = [chip EXCEPT !["gain"] = v] /\ missed' = missed \ {"gain"} /\ faults' = faults
         \/ chip' = chip /\ missed' = missed \cup {"gain"} /\ faults' = faults + 1
  BY DEF C!Written
<1>3. shadow' \in Setting /\ shadow'.mode = shadow.mode /\ shadow'.mux = shadow.mux
  BY <1>1, <1>2 DEF Setting
<1>4. CASE chip' = [chip EXCEPT !["gain"] = v] /\ missed' = missed \ {"gain"} /\ faults' = faults
  <2>1. chip' \in Setting /\ chip'.mode = chip.mode /\ chip'.mux = chip.mux /\ chip'.gain = v
    BY <1>1, <1>4 DEF Setting
  <2> QED BY <1>1, <1>3, <1>4, <2>1 DEF WrittenRegisters
<1>5. CASE chip' = chip /\ missed' = missed \cup {"gain"} /\ faults' = faults + 1
  BY <1>1, <1>3, <1>5 DEF WrittenRegisters
<1> QED BY <1>2, <1>4, <1>5

(* A write of the multiplexer that does not fail sets it, and leaves the   *)
(* mode.                                                                   *)
LEMMA MuxWritten ==
  ASSUME ConverterTypeOK, NEW v \in Inputs, C!Written("mux", v)
  PROVE  /\ shadow' \in Setting /\ chip' \in Setting /\ missed' \subseteq WrittenRegisters /\ faults' \in Nat
         /\ shadow'.mux = v /\ ("mux" \notin missed' => chip'.mux = v)
         /\ shadow'.mode = shadow.mode /\ chip'.mode = chip.mode /\ ("mode" \in missed' <=> "mode" \in missed)
<1>1. shadow \in Setting /\ chip \in Setting /\ faults \in Nat /\ missed \subseteq WrittenRegisters
  BY DEF ConverterTypeOK
<1>2. /\ shadow' = [shadow EXCEPT !["mux"] = v]
      /\ \/ chip' = [chip EXCEPT !["mux"] = v] /\ missed' = missed \ {"mux"} /\ faults' = faults
         \/ chip' = chip /\ missed' = missed \cup {"mux"} /\ faults' = faults + 1
  BY DEF C!Written
<1>3. shadow' \in Setting /\ shadow'.mode = shadow.mode /\ shadow'.mux = v
  BY <1>1, <1>2 DEF Setting
<1>4. CASE chip' = [chip EXCEPT !["mux"] = v] /\ missed' = missed \ {"mux"} /\ faults' = faults
  <2>1. chip' \in Setting /\ chip'.mode = chip.mode /\ chip'.mux = v
    BY <1>1, <1>4 DEF Setting
  <2> QED BY <1>1, <1>3, <1>4, <2>1 DEF WrittenRegisters
<1>5. CASE chip' = chip /\ missed' = missed \cup {"mux"} /\ faults' = faults + 1
  BY <1>1, <1>3, <1>5 DEF WrittenRegisters
<1> QED BY <1>2, <1>4, <1>5

(* What is in the buffer stays in order as long as nothing is added. *)
LEMMA BufferKept ==
  ASSUME ConverterInv, buffer' = buffer, todo' \subseteq todo
  PROVE  LowestFirst' /\ C!SampleOfItsInputs' /\ C!BufferInOrder'
<1>1. LowestFirst /\ C!SampleOfItsInputs /\ C!BufferInOrder
  BY DEF ConverterInv
<1>2. LowestFirst'
  BY <1>1 DEF LowestFirst
<1>3. C!SampleOfItsInputs'
  BY <1>1 DEF C!SampleOfItsInputs
<1>4. C!BufferInOrder'
  BY <1>1 DEF C!BufferInOrder
<1> QED BY <1>2, <1>3, <1>4

(* Nothing is set up, and the copy is of a chip not written yet. *)
LEMMA ConverterStarts ==
  ASSUME C!Init
  PROVE  ConverterInv
<1>1. /\ channel_map = [c \in Channels |-> C!Unset] /\ adcdata = [mux |-> 1, gain |-> 1]
      /\ shadow = [mode |-> C!Stopped, mux |-> 0, gain |-> 0] /\ chip = [mode |-> C!Stopped, mux |-> 1, gain |-> 1]
      /\ missed = {} /\ hasty = FALSE /\ spilled = FALSE
  BY DEF C!Init, C!PowerOn
<1>2. pc = "off" /\ todo = {} /\ buffer = <<>> /\ faults = 0
  BY DEF C!Init
<1>3. ConverterTypeOK
  <2>1. shadow \in Setting /\ chip \in Setting /\ adcdata \in Made
    BY <1>1 DEF Setting, Made, ModeSet
  <2>2. channel_map \in [Channels -> Entry \cup {C!Unset}]
    BY <1>1
  <2>3. missed \subseteq WrittenRegisters /\ hasty \in BOOLEAN /\ spilled \in BOOLEAN
    BY <1>1
  <2> QED BY <1>2, <2>1, <2>2, <2>3 DEF ConverterTypeOK
<1>4. ShadowIsTrue
  BY <1>1, <1>2 DEF ShadowIsTrue
<1>5. LowestFirst /\ C!SampleOfItsInputs /\ C!BufferInOrder
  BY <1>2 DEF LowestFirst, C!SampleOfItsInputs, C!BufferInOrder
<1> QED BY <1>3, <1>4, <1>5 DEF ConverterInv

(* A new sample is of the inputs of its channel and comes last. *)
LEMMA SampleInOrder ==
  ASSUME C!ChannelsAssumption, ConverterInv, C!Sample
  PROVE  ConverterInv'
<1>1. ConverterTypeOK /\ LowestFirst /\ C!SampleOfItsInputs /\ C!BufferInOrder
  BY DEF ConverterInv
<1>2. /\ pc = "sample" /\ todo' = todo \ {C!First(todo)}
      /\ pc' = (IF todo' = {} THEN "idle" ELSE "mode")
      /\ UNCHANGED <<channel_map, shadow, chip, adcdata, missed, hasty, spilled, faults>>
  BY DEF C!Sample, C!count, C!history
<1>3. todo \subseteq Channels /\ todo # {} /\ Channels \subseteq Nat
  BY <1>1, <1>2 DEF ConverterTypeOK, C!ChannelsAssumption, C!MAX_CHANNELS
<1>4. C!First(todo) \in todo /\ \A c \in todo : C!First(todo) <= c
  BY <1>3, FirstChannel
<1>5. C!Current \in Entry /\ Entry \subseteq Made /\ C!Current.mux # 0
  <2>1. C!Current \in Entry
    BY <1>1, <1>4 DEF ConverterTypeOK, C!Current
  <2> QED BY <2>1 DEF Entry, Made, C!ChannelsAssumption
<1>6. PICK r : r = [channel |-> C!First(todo), asked |-> C!Current, got |-> adcdata,
                    excused |-> hasty \/ "mux" \in missed]
  OBVIOUS
<1>7. r \in Reading /\ buffer \in Seq(Reading) /\ buffer' = Append(buffer, r)
  <2>1. adcdata \in Made /\ C!First(todo) \in Nat /\ C!Current \in Made /\ (hasty \/ "mux" \in missed) \in BOOLEAN
    BY <1>1, <1>3, <1>4, <1>5 DEF ConverterTypeOK
  <2>2. r \in Reading
    BY <1>6, <2>1 DEF Reading
  <2> QED BY <1>1, <1>6, <2>2 DEF ConverterTypeOK, C!Sample
<1>8. r.channel = C!First(todo) /\ r.asked = C!Current /\ r.got = adcdata
      /\ (r.excused <=> hasty \/ "mux" \in missed)
  BY <1>6
<1>9. PICK n : n = Len(buffer)
  OBVIOUS
<1>10. /\ n \in Nat /\ DOMAIN buffer = 1..n /\ DOMAIN buffer' = 1..(n + 1) /\ buffer' \in Seq(Reading)
       /\ buffer'[n + 1] = r /\ \A i \in 1..n : buffer'[i] = buffer[i] /\ buffer[i].channel \in Nat
  <2>1. n \in Nat /\ DOMAIN buffer = 1..n
    BY <1>7, <1>9
  <2>2. /\ DOMAIN buffer' = 1..(n + 1) /\ buffer' \in Seq(Reading) /\ buffer'[n + 1] = r
        /\ \A i \in 1..n : buffer'[i] = buffer[i]
    BY <1>7, <1>9
  <2>3. \A i \in 1..n : buffer[i].channel \in Nat
    <3>1. \A i \in 1..n : buffer[i] \in Reading
      BY <1>7, <2>1
    <3>2. \A x \in Reading : x.channel \in Nat
      BY DEF Reading
    <3> QED BY <3>1, <3>2
  <2> QED BY <2>1, <2>2, <2>3
<1>11. \A c \in todo' : C!First(todo) < c
  <2>1. SUFFICES ASSUME NEW c \in todo' PROVE C!First(todo) < c
    OBVIOUS
  <2>2. c \in todo /\ c # C!First(todo)
    BY <1>2, <2>1
  <2>3. c \in Nat /\ C!First(todo) \in Nat /\ C!First(todo) <= c
    BY <1>3, <1>4, <2>2
  <2> QED BY <2>2, <2>3
<1>12. ConverterTypeOK'
  <2>1. /\ channel_map' \in [Channels -> Entry \cup {C!Unset}] /\ faults' \in Nat
        /\ shadow' \in Setting /\ chip' \in Setting /\ adcdata' \in Made
        /\ missed' \subseteq WrittenRegisters /\ hasty' \in BOOLEAN /\ spilled' \in BOOLEAN
    BY <1>1, <1>2 DEF ConverterTypeOK
  <2>2. /\ pc' \in {"off", "starting", "idle", "mode", "gain", "mux", "wait", "sample"}
        /\ todo' \subseteq Channels /\ (pc' \in {"off", "starting", "idle"} <=> todo' = {})
    BY <1>2, <1>3
  <2>3. \A c \in todo' : channel_map'[c] \in Entry
    BY <1>1, <1>2 DEF ConverterTypeOK
  <2> QED BY <1>10, <2>1, <2>2, <2>3 DEF ConverterTypeOK
<1>13. ShadowIsTrue'
  <2>1. pc' \in {"idle", "mode"}
    BY <1>2
  <2> QED BY <1>2, <2>1 DEF ConverterInv, ShadowIsTrue
<1>14. LowestFirst'
  <2>1. SUFFICES ASSUME NEW i \in 1..(n + 1), NEW c \in todo' PROVE buffer'[i].channel < c
    BY <1>10 DEF LowestFirst
  <2>2. CASE i = n + 1
    BY <1>8, <1>10, <1>11, <2>1, <2>2
  <2>3. CASE i # n + 1
    <3>1. i \in 1..n /\ c \in todo
      BY <1>2, <1>10, <2>1, <2>3
    <3>2. buffer[i].channel < c
      BY <1>1, <1>10, <3>1 DEF LowestFirst
    <3> QED BY <1>10, <3>1, <3>2
  <2> QED BY <2>2, <2>3
<1>15. C!SampleOfItsInputs'
  <2>1. SUFFICES ASSUME NEW i \in 1..(n + 1)
                 PROVE  buffer'[i].got.mux = buffer'[i].asked.mux \/ buffer'[i].excused
    BY <1>10 DEF C!SampleOfItsInputs
  <2>2. adcdata.mux = C!Current.mux \/ hasty \/ "mux" \in missed
    BY <1>2, <1>5 DEF ConverterInv, ShadowIsTrue
  <2>3. CASE i = n + 1
    BY <1>8, <1>10, <2>2, <2>3
  <2>4. CASE i # n + 1
    <3>1. i \in 1..n
      BY <1>10, <2>1, <2>4
    <3>2. buffer[i].got.mux = buffer[i].asked.mux \/ buffer[i].excused
      BY <1>1, <1>10, <3>1 DEF C!SampleOfItsInputs
    <3> QED BY <1>10, <3>1, <3>2
  <2> QED BY <2>3, <2>4
<1>16. C!BufferInOrder'
  <2>1. SUFFICES ASSUME NEW i \in 1..(n + 1), NEW j \in 1..(n + 1), i < j
                 PROVE  buffer'[i].channel < buffer'[j].channel
    BY <1>10 DEF C!BufferInOrder
  <2>2. i \in 1..n
    BY <1>10, <2>1
  <2>3. CASE j = n + 1
    <3>1. buffer[i].channel < C!First(todo)
      BY <1>1, <1>4, <1>10, <2>2 DEF LowestFirst
    <3> QED BY <1>8, <1>10, <2>2, <2>3, <3>1
  <2>4. CASE j # n + 1
    <3>1. j \in 1..n
      BY <1>10, <2>1, <2>4
    <3>2. buffer[i].channel < buffer[j].channel
      BY <1>1, <1>10, <2>1, <2>2, <3>1 DEF C!BufferInOrder
    <3> QED BY <1>10, <2>2, <3>1, <3>2
  <2> QED BY <2>3, <2>4
<1> QED BY <1>12, <1>13, <1>14, <1>15, <1>16 DEF ConverterInv

(* A write of the multiplexer is waited for, and the wait ends with a      *)
(* conversion of the inputs that were asked for, or was too short.         *)
LEMMA ConverterNext ==
  ASSUME C!ChannelsAssumption, ConverterInv, C!Next
  PROVE  ConverterInv'
<1>1. ConverterTypeOK /\ ShadowIsTrue
  BY DEF ConverterInv
<1>2. /\ channel_map \in [Channels -> Entry \cup {C!Unset}] /\ faults \in Nat
      /\ shadow \in Setting /\ chip \in Setting /\ adcdata \in Made
      /\ pc \in {"off", "starting", "idle", "mode", "gain", "mux", "wait", "sample"}
      /\ todo \subseteq Channels /\ (pc \in {"off", "starting", "idle"} <=> todo = {})
      /\ buffer \in Seq(Reading)
      /\ missed \subseteq WrittenRegisters /\ hasty \in BOOLEAN /\ spilled \in BOOLEAN
  BY <1>1 DEF ConverterTypeOK
<1>3. \A c \in todo : channel_map[c] \in Entry
  BY <1>1 DEF ConverterTypeOK
<1>4. todo # {} => C!Current \in Entry
  BY <1>2, <1>3, FirstChannel DEF C!Current
<1>5. \A e \in Entry : e.mux \in Inputs /\ e.gain \in Gains /\ e.mux # 0
  BY DEF Entry, C!ChannelsAssumption
<1>6. CASE C!Initialize
  <2>1. UNCHANGED <<channel_map, adcdata, todo, buffer, hasty, spilled>>
    BY <1>6 DEF C!Initialize
  <2>2. CASE pc = "off" /\ pc' = "starting" /\ C!Written("mode", "continuous")
    <3>1. /\ shadow' \in Setting /\ chip' \in Setting /\ missed' \subseteq WrittenRegisters /\ faults' \in Nat
          /\ shadow'.mux = shadow.mux /\ chip'.mux = chip.mux /\ ("mux" \in missed' <=> "mux" \in missed)
          /\ shadow'.mode = "continuous" /\ ("mode" \notin missed' => chip'.mode = "continuous")
      BY <1>1, <2>2, ModeWritten DEF ModeSet
    <3>2. ConverterTypeOK'
      BY <1>2, <1>3, <2>1, <2>2, <3>1 DEF ConverterTypeOK
    <3>3. ShadowIsTrue'
      BY <1>1, <2>1, <2>2, <3>1 DEF ShadowIsTrue
    <3> QED BY <2>1, <3>2, <3>3, BufferKept DEF ConverterInv
  <2>3. CASE pc = "starting" /\ pc' = "idle" /\ C!Written("gain", 0)
    <3>1. /\ shadow' \in Setting /\ chip' \in Setting /\ missed' \subseteq WrittenRegisters /\ faults' \in Nat
          /\ shadow'.mux = shadow.mux /\ chip'.mux = chip.mux /\ ("mux" \in missed' <=> "mux" \in missed)
          /\ shadow'.mode = shadow.mode /\ chip'.mode = chip.mode /\ ("mode" \in missed' <=> "mode" \in missed)
      BY <1>1, <2>3, GainWritten
    <3>2. ConverterTypeOK'
      BY <1>2, <1>3, <2>1, <2>3, <3>1 DEF ConverterTypeOK
    <3>3. ShadowIsTrue'
      BY <1>1, <2>1, <2>3, <3>1 DEF ShadowIsTrue
    <3> QED BY <2>1, <3>2, <3>3, BufferKept DEF ConverterInv
  <2> QED BY <1>6, <2>2, <2>3 DEF C!Initialize
<1>7. CASE C!ChannelSetup
  <2>1. pc = "idle" /\ UNCHANGED <<chip, adcdata, pc, todo, buffer, missed, hasty, faults>>
    BY <1>7 DEF C!ChannelSetup
  <2>2. \/ /\ \E c \in Channels \cup {C!MAX_CHANNELS}, entry \in Entry :
                channel_map' = [channel_map EXCEPT ![c] = entry]
           /\ UNCHANGED <<shadow, spilled>>
        \/ /\ shadow' = [shadow EXCEPT !.mode = "overwritten", !.gain = 0] /\ spilled' = TRUE
           /\ UNCHANGED channel_map
    BY <1>7 DEF C!ChannelSetup, Entry
  <2>3. channel_map' \in [Channels -> Entry \cup {C!Unset}]
    BY <1>2, <2>2
  <2>4. /\ shadow' \in Setting /\ shadow'.mux = shadow.mux /\ spilled' \in BOOLEAN
        /\ ~spilled' => ~spilled /\ shadow' = shadow
    BY <1>2, <2>2 DEF Setting, ModeSet
  <2>5. ConverterTypeOK'
    BY <1>2, <2>1, <2>3, <2>4 DEF ConverterTypeOK
  <2>6. ShadowIsTrue'
    BY <1>1, <2>1, <2>4 DEF ShadowIsTrue
  <2> QED BY <2>1, <2>5, <2>6, BufferKept DEF ConverterInv
<1>8. CASE C!Read
  <2>1. /\ pc = "idle" /\ pc' = "mode" /\ buffer' = <<>>
        /\ UNCHANGED <<channel_map, shadow, chip, adcdata, missed, hasty, spilled, faults>>
        /\ todo' # {} /\ todo' \subseteq {c \in Channels : channel_map[c] # C!Unset}
    BY <1>8 DEF C!Read, C!history
  <2>2. \A c \in todo' : channel_map[c] \in Entry
    BY <1>2, <2>1
  <2>3. ConverterTypeOK'
    BY <1>2, <2>1, <2>2 DEF ConverterTypeOK
  <2>4. ShadowIsTrue'
    BY <1>1, <2>1 DEF ShadowIsTrue
  <2>5. LowestFirst' /\ C!SampleOfItsInputs' /\ C!BufferInOrder'
    BY <2>1 DEF LowestFirst, C!SampleOfItsInputs, C!BufferInOrder
  <2> QED BY <2>3, <2>4, <2>5 DEF ConverterInv
<1>9. CASE C!WriteMode
  <2>1. /\ pc = "mode" /\ pc' = "gain" /\ C!Update("mode", C!ModeOf(shadow.mode))
        /\ UNCHANGED <<channel_map, adcdata, todo, buffer, hasty, spilled>>
    BY <1>9 DEF C!WriteMode, C!unwritten
  <2>2. CASE C!ModeOf(shadow.mode) # shadow.mode
    <3>1. C!ModeOf(shadow.mode) \in ModeSet /\ spilled
      <4>1. C!ModeOf(shadow.mode) = C!Stopped
        BY <2>2 DEF C!ModeOf
      <4>2. shadow.mode # "continuous"
        BY <2>2 DEF C!ModeOf
      <4> QED BY <1>1, <1>2, <2>1, <4>1, <4>2 DEF ModeSet, ShadowIsTrue
    <3>2. C!Written("mode", C!ModeOf(shadow.mode))
      BY <2>1, <2>2 DEF C!Update
    <3>3. /\ shadow' \in Setting /\ chip' \in Setting /\ missed' \subseteq WrittenRegisters /\ faults' \in Nat
          /\ shadow'.mux = shadow.mux /\ chip'.mux = chip.mux /\ ("mux" \in missed' <=> "mux" \in missed)
      BY <1>1, <3>1, <3>2, ModeWritten
    <3>4. ConverterTypeOK'
      BY <1>2, <1>3, <2>1, <3>3 DEF ConverterTypeOK
    <3>5. ShadowIsTrue'
      BY <1>1, <2>1, <3>1, <3>3 DEF ShadowIsTrue
    <3> QED BY <2>1, <3>4, <3>5, BufferKept DEF ConverterInv
  <2>3. CASE C!ModeOf(shadow.mode) = shadow.mode
    <3>1. UNCHANGED <<shadow, chip, missed, faults>>
      BY <2>1, <2>3 DEF C!Update
    <3>2. ConverterTypeOK'
      BY <1>2, <1>3, <2>1, <3>1 DEF ConverterTypeOK
    <3>3. ShadowIsTrue'
      BY <1>1, <2>1, <3>1 DEF ShadowIsTrue
    <3> QED BY <2>1, <3>2, <3>3, BufferKept DEF ConverterInv
  <2> QED BY <2>2, <2>3
<1>10. CASE C!WriteGain
  <2>1. /\ pc = "gain" /\ pc' = "mux" /\ C!Update("gain", C!Current.gain)
        /\ UNCHANGED <<channel_map, adcdata, todo, buffer, hasty, spilled>>
    BY <1>10 DEF C!WriteGain, C!unwritten
  <2>2. C!Current.gain \in Gains
    BY <1>2, <1>4, <1>5, <2>1
  <2>3. /\ shadow' \in Setting /\ chip' \in Setting /\ missed' \subseteq WrittenRegisters /\ faults' \in Nat
        /\ shadow'.mux = shadow.mux /\ chip'.mux = chip.mux /\ ("mux" \in missed' <=> "mux" \in missed)
        /\ shadow'.mode = shadow.mode /\ chip'.mode = chip.mode /\ ("mode" \in missed' <=> "mode" \in missed)
    <3>1. CASE C!Current.gain # shadow.gain
      <4>1. C!Written("gain", C!Current.gain)
        BY <2>1, <3>1 DEF C!Update
      <4> QED BY <1>1, <2>2, <4>1, GainWritten
    <3>2. CASE C!Current.gain = shadow.gain
      <4>1. UNCHANGED <<shadow, chip, missed, faults>>
        BY <2>1, <3>2 DEF C!Update
      <4> QED BY <1>2, <4>1
    <3> QED BY <3>1, <3>2
  <2>4. ConverterTypeOK'
    BY <1>2, <1>3, <2>1, <2>3 DEF ConverterTypeOK
  <2>5. ShadowIsTrue'
    BY <1>1, <2>1, <2>3 DEF ShadowIsTrue
  <2> QED BY <2>1, <2>4, <2>5, BufferKept DEF ConverterInv
<1>11. CASE C!WriteMux
  <2>1. /\ pc = "mux" /\ pc' = (IF C!Current.mux # shadow.mux THEN "wait" ELSE "sample")
        /\ C!Update("mux", C!Current.mux) /\ UNCHANGED <<channel_map, adcdata, todo, buffer, hasty, spilled>>
    BY <1>11 DEF C!WriteMux, C!Wait, C!unwritten
  <2>2. C!Current.mux \in Inputs /\ C!Current.mux # 0 /\ C!Current' = C!Current
    BY <1>2, <1>4, <1>5, <2>1 DEF C!Current
  <2>3. CASE C!Current.mux # shadow.mux
    <3>1. C!Written("mux", C!Current.mux)
      BY <2>1, <2>3 DEF C!Update
    <3>2. /\ shadow' \in Setting /\ chip' \in Setting /\ missed' \subseteq WrittenRegisters /\ faults' \in Nat
          /\ shadow'.mux = C!Current.mux /\ ("mux" \notin missed' => chip'.mux = C!Current.mux)
          /\ shadow'.mode = shadow.mode /\ chip'.mode = chip.mode /\ ("mode" \in missed' <=> "mode" \in missed)
      BY <1>1, <2>2, <3>1, MuxWritten
    <3>3. ConverterTypeOK'
      BY <1>2, <1>3, <2>1, <3>2 DEF ConverterTypeOK
    <3>4. ShadowIsTrue'
      BY <1>1, <2>1, <2>2, <2>3, <3>2 DEF ShadowIsTrue
    <3> QED BY <2>1, <3>3, <3>4, BufferKept DEF ConverterInv
  <2>4. CASE C!Current.mux = shadow.mux
    <3>1. UNCHANGED <<shadow, chip, missed, faults>>
      BY <2>1, <2>4 DEF C!Update
    <3>2. ConverterTypeOK'
      BY <1>2, <1>3, <2>1, <3>1 DEF ConverterTypeOK
    <3>3. ShadowIsTrue'
      BY <1>1, <2>1, <2>2, <2>4, <3>1 DEF ShadowIsTrue
    <3> QED BY <2>1, <3>2, <3>3, BufferKept DEF ConverterInv
  <2> QED BY <2>3, <2>4
<1>12. CASE C!Convert
  <2>1. /\ adcdata' = [mux |-> chip.mux, gain |-> chip.gain] /\ hasty' = FALSE
        /\ UNCHANGED <<channel_map, shadow, chip, pc, todo, buffer, missed, spilled, faults>>
    BY <1>12 DEF C!Convert, C!count
  <2>2. adcdata' \in Made /\ adcdata'.mux = chip.mux
    BY <1>2, <2>1 DEF Made, Setting
  <2>3. ConverterTypeOK' /\ C!Current' = C!Current
    BY <1>2, <1>3, <2>1, <2>2 DEF ConverterTypeOK, C!Current
  <2>4. ShadowIsTrue'
    BY <1>1, <2>1, <2>2, <2>3 DEF ShadowIsTrue
  <2> QED BY <2>1, <2>3, <2>4, BufferKept DEF ConverterInv
<1>13. CASE C!WaitForResult
  <2>1. /\ pc = "wait" /\ pc' = "sample" /\ hasty' = (adcdata.mux # chip.mux)
        /\ UNCHANGED <<channel_map, shadow, chip, adcdata, todo, buffer, missed, spilled, faults>>
    BY <1>13 DEF C!WaitForResult, C!count
  <2>2. ConverterTypeOK' /\ C!Current' = C!Current
    BY <1>2, <1>3, <2>1 DEF ConverterTypeOK, C!Current
  <2>3. ShadowIsTrue'
    BY <1>1, <2>1, <2>2 DEF ShadowIsTrue
  <2> QED BY <2>1, <2>2, <2>3, BufferKept DEF ConverterInv
<1>14. CASE C!Sample
  BY <1>14, SampleInOrder
<1>15. CASE C!SampleFails
  <2>1. /\ pc = "sample" /\ faults' = faults + 1 /\ pc' = "idle" /\ todo' = {}
        /\ UNCHANGED <<channel_map, shadow, chip, adcdata, buffer, missed, hasty, spilled>>
    BY <1>15 DEF C!SampleFails, C!history
  <2>2. ConverterTypeOK'
    BY <1>2, <2>1 DEF ConverterTypeOK
  <2>3. ShadowIsTrue'
    BY <1>1, <2>1 DEF ShadowIsTrue
  <2> QED BY <2>1, <2>2, <2>3, BufferKept DEF ConverterInv
<1> QED BY <1>6, <1>7, <1>8, <1>9, <1>10, <1>11, <1>12, <1>13, <1>14, <1>15 DEF C!Next

-----------------------------------------------------------------------------
(* The replay.                                                             *)

(* A set of numbers that has one has a first one. *)
LEMMA LeastOf ==
  ASSUME NEW set, set \subseteq Nat, set # {}
  PROVE  \E n \in set : \A m \in set : n <= m
<1>1. PICK n \in set : \A m \in set : <<m, n>> \notin OpToRel(<, Nat)
  BY WFMin, NatLessThanWellFounded, Zenon
<1>2. \A m \in set : ~(m < n)
  BY <1>1 DEF OpToRel
<1>3. n \in set
  BY <1>1, Zenon
<1>4. \A m \in set : n <= m
  BY <1>2, <1>3
<1> QED BY <1>3, <1>4

(* Packets are in the order of their times. *)
LEMMA PacketsInOrder ==
  ASSUME R!PacketsAssumption, NEW i \in 0..(R!Size - 1), NEW j \in 0..(R!Size - 1), i < j
  PROVE  PacketTime[i] < PacketTime[j]
<1>1. /\ R!Size \in Nat /\ PacketTime \in [0..(R!Size - 1) -> Int]
      /\ \A k \in 0..(R!Size - 2) : PacketTime[k] < PacketTime[k + 1]
  BY DEF R!PacketsAssumption
<1> DEFINE late == {k \in 0..(R!Size - 1) : i < k /\ ~(PacketTime[i] < PacketTime[k])}
<1>2. SUFFICES ASSUME j \in late PROVE FALSE
  OBVIOUS
<1>3. late \subseteq Nat /\ late # {}
  <2>1. 0..(R!Size - 1) \subseteq Nat
    BY <1>1
  <2> QED BY <1>2, <2>1
<1>4. PICK k \in late : \A m \in late : k <= m
  <2> HIDE DEF late
  <2> QED BY <1>3, LeastOf
<1>5. k - 1 \in 0..(R!Size - 2) /\ k - 1 \in 0..(R!Size - 1) /\ (k - 1) + 1 = k /\ i <= k - 1 /\ k \in 0..(R!Size - 1)
  BY <1>1, <1>4
<1>6. PacketTime[k - 1] < PacketTime[k]
  BY <1>1, <1>5
<1>7. PacketTime[i] \in Int /\ PacketTime[k - 1] \in Int /\ PacketTime[k] \in Int
  BY <1>1, <1>5
<1>8. CASE i = k - 1
  BY <1>4, <1>6, <1>8
<1>9. CASE i < k - 1
  <2>1. k - 1 \notin late
    BY <1>1, <1>4, <1>5
  <2>2. PacketTime[i] < PacketTime[k - 1]
    BY <1>5, <1>9, <2>1
  <2> QED BY <1>4, <1>6, <1>7, <2>2
<1> QED BY <1>1, <1>5, <1>8, <1>9

(* A division that comes out comes out wherever the product is divided. *)
LEMMA Divides ==
  ASSUME NEW w \in Nat \ {0}, NEW d \in Int, d % w = 0, NEW p \in Int
  PROVE  (d * p) \div w = p * (d \div w)
<1>1. PICK q \in Int : q = d \div w
  BY SMT
<1>2. d = w * q
  BY <1>1, SMT
<1>3. PICK k \in Int : k = p * q
  BY <1>1
<1>4. d * p = w * k
  <2>1. (w * q) * p = w * (p * q)
    BY <1>1, SMT
  <2> QED BY <1>2, <1>3, <2>1
<1>5. PICK n \in Int : n = d * p
  OBVIOUS
<1>6. PICK m \in Int, r \in Int : m = n \div w /\ n = w * m + r /\ 0 <= r /\ r < w
  <2>1. /\ n \div w \in Int /\ n % w \in Int /\ n = w * (n \div w) + (n % w)
        /\ 0 <= n % w /\ n % w < w
    BY SMT
  <2> QED BY <2>1
<1>7. PICK e \in Int : e = k - m
  BY <1>3, <1>6
<1>8. w * e = r
  <2>1. w * e = w * k - w * m
    BY <1>3, <1>6, <1>7, SMT
  <2>2. w * k \in Int /\ w * m \in Int
    BY <1>3, <1>6
  <2> QED BY <1>4, <1>5, <1>6, <2>1, <2>2
<1>9. e = 0
  <2>1. e >= 1 => w * e >= w
    BY <1>7, SMT
  <2>2. e <= -1 => w * e <= -w
    BY <1>7, SMT
  <2> QED BY <1>6, <1>7, <1>8, <2>1, <2>2
<1> QED BY <1>1, <1>3, <1>5, <1>6, <1>7, <1>9

(* Half way between two packets or at one of them, the interpolation is    *)
(* the one of the flight.                                                  *)
LEMMA Interpolates ==
  ASSUME R!PacketsAssumption, NEW i \in 0..(R!Size - 2), NEW t \in Int
  PROVE  /\ R!Lerp(PacketData[i], PacketData[i + 1], t - PacketTime[i], PacketTime[i + 1] - PacketTime[i]) =
              PacketData[i] + (t - PacketTime[i]) * ((PacketData[i + 1] - PacketData[i]) \div (PacketTime[i + 1] - PacketTime[i]))
         /\ t = PacketTime[i + 1] =>
              PacketData[i] + (t - PacketTime[i]) * ((PacketData[i + 1] - PacketData[i]) \div (PacketTime[i + 1] - PacketTime[i]))
                = PacketData[i + 1]
<1>1. /\ R!Size \in Nat /\ PacketTime \in [0..(R!Size - 1) -> Int] /\ PacketData \in [0..(R!Size - 1) -> Int]
      /\ PacketTime[i] < PacketTime[i + 1]
      /\ (PacketData[i + 1] - PacketData[i]) % (PacketTime[i + 1] - PacketTime[i]) = 0
  BY DEF R!PacketsAssumption
<1>2. i \in 0..(R!Size - 1) /\ i + 1 \in 0..(R!Size - 1)
  BY <1>1
<1>3. PacketTime[i] \in Int /\ PacketTime[i + 1] \in Int /\ PacketData[i] \in Int /\ PacketData[i + 1] \in Int
  BY <1>1, <1>2
<1>4. PICK w \in Nat \ {0}, d \in Int, p \in Int :
        w = PacketTime[i + 1] - PacketTime[i] /\ d = PacketData[i + 1] - PacketData[i] /\ p = t - PacketTime[i]
  <2>1. PacketTime[i + 1] - PacketTime[i] \in Nat \ {0}
    BY <1>1, <1>3
  <2>2. PacketData[i + 1] - PacketData[i] \in Int /\ t - PacketTime[i] \in Int
    BY <1>3
  <2> QED BY <2>1, <2>2
<1>5. d % w = 0
  BY <1>1, <1>4
<1>6. (d * p) \div w = p * (d \div w)
  BY <1>5, Divides
<1>7. R!Lerp(PacketData[i], PacketData[i + 1], t - PacketTime[i], PacketTime[i + 1] - PacketTime[i]) =
        PacketData[i] + p * (d \div w)
  BY <1>4, <1>6 DEF R!Lerp
<1>8. w * (d \div w) = d
  BY <1>5, SMT
<1>9. t = PacketTime[i + 1] => p = w
  BY <1>4
<1>10. PacketData[i] + d = PacketData[i + 1]
  BY <1>3, <1>4
<1> QED BY <1>4, <1>7, <1>8, <1>9, <1>10

(* The search and the interpolation replay the flight.                     *)
LEMMA ReplayIsFlight ==
  ASSUME R!PacketsAssumption, NEW t \in Int
  PROVE  R!Replay(t) = R!Flight(t)
<1>1. /\ R!Size \in Nat /\ R!Size >= 2 /\ PacketTime \in [0..(R!Size - 1) -> Int]
      /\ PacketData \in [0..(R!Size - 1) -> Int]
  BY DEF R!PacketsAssumption
<1>2. PICK last : last = R!Size - 1
  OBVIOUS
<1>3. /\ last \in Nat /\ last >= 1 /\ 0 \in 0..last /\ last \in 0..last /\ R!Size - 2 = last - 1 /\ last = R!Size - 1
      /\ \A i \in 0..last : PacketTime[i] \in Int
  BY <1>1, <1>2
<1>4. \A i, j \in 0..last : i < j => PacketTime[i] < PacketTime[j]
  BY <1>2, PacketsInOrder
<1> DEFINE Line(i) == PacketData[i] + (t - PacketTime[i]) *
                        ((PacketData[i + 1] - PacketData[i]) \div (PacketTime[i + 1] - PacketTime[i]))
<1>5. ASSUME NEW i \in 0..(last - 1), PacketTime[i] <= t, t < PacketTime[i + 1]
      PROVE  R!Flight(t) = Line(i)
  <2>1. \A k \in 0..(last - 1) : k \in 0..last /\ k + 1 \in 0..last
    BY <1>3
  <2>2. \A k \in 0..(last - 1) : PacketTime[k] <= t /\ t < PacketTime[k + 1] => k = i
    <3>1. SUFFICES ASSUME NEW k \in 0..(last - 1), PacketTime[k] <= t, t < PacketTime[k + 1] PROVE k = i
      OBVIOUS
    <3>2. k \in Int /\ i \in Int /\ k \in 0..last /\ i \in 0..last /\ k + 1 \in 0..last /\ i + 1 \in 0..last
      BY <1>3, <1>5, <2>1, <3>1
    <3>3. /\ PacketTime[k] \in Int /\ PacketTime[i] \in Int /\ PacketTime[k + 1] \in Int /\ PacketTime[i + 1] \in Int
      BY <1>3, <3>2
    <3>4. CASE k < i
      <4>1. k + 1 = i \/ k + 1 < i
        BY <3>2, <3>4
      <4>2. PacketTime[k + 1] <= PacketTime[i]
        BY <1>4, <3>2, <3>3, <4>1
      <4> QED BY <1>5, <3>1, <3>3, <4>2
    <3>5. CASE i < k
      <4>1. i + 1 = k \/ i + 1 < k
        BY <3>2, <3>5
      <4>2. PacketTime[i + 1] <= PacketTime[k]
        BY <1>4, <3>2, <3>3, <4>1
      <4> QED BY <1>5, <3>1, <3>3, <4>2
    <3> QED BY <3>2, <3>4, <3>5
  <2>3. (CHOOSE k \in 0..(last - 1) : PacketTime[k] <= t /\ t < PacketTime[k + 1]) = i
    BY <1>5, <2>2
  <2>4. i \in 0..last /\ i + 1 \in 0..last /\ 0 <= i /\ i + 1 <= last /\ i \in Int
    BY <1>3, <1>5, <2>1
  <2>5. PacketTime[i + 1] <= PacketTime[last]
    BY <1>3, <1>4, <2>4
  <2>6. PacketTime[0] <= PacketTime[i]
    BY <1>3, <1>4, <2>4
  <2>7. ~(t >= PacketTime[last])
    BY <1>3, <1>5, <2>4, <2>5
  <2>8. CASE t <= PacketTime[0]
    <3>1. t = PacketTime[i] /\ PacketTime[0] = PacketTime[i]
      BY <1>3, <1>5, <2>4, <2>6, <2>8
    <3>2. i = 0
      BY <1>3, <1>4, <2>4, <3>1
    <3>3. R!Flight(t) = PacketData[0]
      BY <2>8 DEF R!Flight
    <3>4. PacketData[0] \in Int /\ PacketData[1] \in Int /\ PacketTime[0] \in Int /\ PacketTime[1] \in Int
      BY <1>1, <1>3
    <3>5. PacketTime[1] - PacketTime[0] \in Nat \ {0}
      BY <1>5, <3>1, <3>2, <3>4
    <3>6. (PacketData[1] - PacketData[0]) \div (PacketTime[1] - PacketTime[0]) \in Int
      BY <3>4, <3>5, SMT
    <3>7. t - PacketTime[0] = 0
      BY <3>1, <3>2, <3>4
    <3> QED BY <3>2, <3>3, <3>4, <3>6, <3>7
  <2>9. CASE ~(t <= PacketTime[0])
    BY <1>3, <2>3, <2>7, <2>9 DEF R!Flight
  <2> QED BY <2>8, <2>9
<1>6. CASE t < PacketTime[0]
  BY <1>3, <1>6 DEF R!Replay, R!BoundingPackets, R!Flight
<1>7. CASE ~(t < PacketTime[0]) /\ R!Within(t) = {}
  <2>1. ~(t <= PacketTime[last])
    <3>1. last - 1 \in 0..(last - 1) /\ (last - 1) + 1 = last
      BY <1>3
    <3> QED BY <1>3, <1>7, <3>1 DEF R!Within, R!last_lower_index
  <2>2. PacketTime[0] < PacketTime[last]
    BY <1>3, <1>4
  <2>3. ~(t <= PacketTime[0]) /\ t >= PacketTime[last]
    BY <1>3, <2>1, <2>2
  <2>4. R!Flight(t) = PacketData[last]
    BY <1>3, <2>3 DEF R!Flight
  <2>5. R!BoundingPackets(t) = [lo |-> R!Size, hi |-> R!Size]
    BY <1>7 DEF R!BoundingPackets
  <2>6. R!Size # 0
    BY <1>1
  <2> QED BY <1>3, <2>4, <2>5, <2>6 DEF R!Replay
<1>8. CASE ~(t < PacketTime[0]) /\ R!Within(t) # {}
  <2>1. R!Within(t) = {i \in 0..(last - 1) : t <= PacketTime[i + 1]}
    BY <1>3 DEF R!Within, R!last_lower_index
  <2>2. R!Within(t) \subseteq Nat
    BY <1>3, <2>1
  <2>3. PICK i \in R!Within(t) : \A m \in R!Within(t) : i <= m
    BY <1>8, <2>2, LeastOf
  <2>4. R!Min(R!Within(t)) = i
    <3>1. \A m \in R!Within(t) : (\A k \in R!Within(t) : m <= k) => m = i
      BY <2>2, <2>3
    <3> QED BY <2>3, <3>1 DEF R!Min
  <2>5. i \in 0..(last - 1) /\ t <= PacketTime[i + 1] /\ i \in Nat /\ i \in 0..last /\ i + 1 \in 0..last
        /\ i < last /\ i \in 0..(R!Size - 2)
    BY <1>3, <2>1, <2>3
  <2>6. PacketTime[i] <= t
    <3>1. CASE i = 0
      BY <1>3, <1>8, <3>1
    <3>2. CASE i > 0
      <4>1. i - 1 \in 0..(last - 1) /\ (i - 1) + 1 = i /\ ~(i <= i - 1)
        BY <1>3, <2>5, <3>2
      <4>2. ~(t <= PacketTime[(i - 1) + 1])
        BY <2>1, <2>3, <4>1
      <4> QED BY <1>3, <2>5, <4>1, <4>2
    <3> QED BY <2>5, <3>1, <3>2
  <2>7. R!BoundingPackets(t) = [lo |-> i, hi |-> i + 1]
    BY <1>8, <2>4 DEF R!BoundingPackets
  <2>8. R!Replay(t) = R!Lerp(PacketData[i], PacketData[i + 1], t - PacketTime[i], PacketTime[i + 1] - PacketTime[i])
    <3>1. i + 1 # 0 /\ i # R!Size
      BY <1>3, <2>5
    <3> QED BY <2>7, <3>1 DEF R!Replay
  <2>9. R!Replay(t) = Line(i) /\ (t = PacketTime[i + 1] => Line(i) = PacketData[i + 1])
    BY <2>5, <2>8, Interpolates
  <2>10. CASE t < PacketTime[i + 1]
    BY <1>5, <2>5, <2>6, <2>9, <2>10
  <2>11. CASE t = PacketTime[i + 1] /\ i + 1 < last
    <3>1. PICK n \in Nat : n = i + 1
      BY <2>5
    <3>2. n \in 0..(last - 1) /\ n \in 0..last /\ n + 1 \in 0..last
      BY <1>3, <2>5, <2>11, <3>1
    <3>3. PacketTime[n] <= t /\ t < PacketTime[n + 1]
      BY <1>3, <1>4, <2>11, <3>1, <3>2
    <3>4. R!Flight(t) = Line(n)
      BY <1>5, <3>2, <3>3
    <3>5. Line(n) = PacketData[n]
      <4>1. PacketTime[n] \in Int /\ PacketTime[n + 1] \in Int /\ PacketData[n] \in Int /\ PacketData[n + 1] \in Int
        BY <1>1, <1>3, <3>2
      <4>2. PacketTime[n + 1] - PacketTime[n] \in Nat \ {0}
        BY <3>3, <4>1
      <4>3. PICK w \in Nat \ {0}, d \in Int : w = PacketTime[n + 1] - PacketTime[n] /\ d = PacketData[n + 1] - PacketData[n]
        BY <4>1, <4>2
      <4>4. d \div w \in Int
        BY SMT
      <4>5. t - PacketTime[n] = 0
        BY <2>11, <3>1, <4>1
      <4>6. PacketData[n] + 0 * (d \div w) = PacketData[n]
        BY <4>1, <4>4
      <4> QED BY <4>3, <4>5, <4>6
    <3> QED BY <2>9, <2>11, <3>1, <3>4, <3>5
  <2>12. CASE t = PacketTime[i + 1] /\ i + 1 = last
    <3>1. PacketTime[0] < PacketTime[last]
      BY <1>3, <1>4
    <3>2. ~(t <= PacketTime[0]) /\ t >= PacketTime[last]
      BY <1>3, <2>12, <3>1
    <3>3. R!Flight(t) = PacketData[last]
      BY <1>3, <3>2 DEF R!Flight
    <3> QED BY <2>9, <2>12, <3>3
  <2>13. t < PacketTime[i + 1] \/ t = PacketTime[i + 1]
    BY <1>3, <2>5
  <2>14. i + 1 < last \/ i + 1 = last
    BY <1>3, <2>5
  <2> QED BY <2>10, <2>11, <2>12, <2>13, <2>14
<1> QED BY <1>6, <1>7, <1>8

(* The thread of the events wakes from one event to the next.              *)
EventsInOrder ==
  /\ event \in Nat /\ logged \in Seq(Nat) /\ Len(logged) = event
  /\ woke = (IF event = 0 THEN BeforeLaunch ELSE logged[event])
  /\ R!NeverAnnouncedEarly

ReplayInv ==
  /\ now \in Nat /\ board \in Boards /\ DOMAIN sample = R!Sensors
  /\ EventsInOrder /\ R!ReplaysTheFlight /\ R!EveryRateShown

(* Before the first sample nothing has been shown or logged. *)
LEMMA ReplayStarts ==
  ASSUME R!Init
  PROVE  ReplayInv
<1>1. /\ now = 0 /\ board \in Boards /\ sample = [s \in R!Sensors |-> R!None] /\ event = 0
      /\ woke = BeforeLaunch /\ logged = <<>>
  BY DEF R!Init
<1>2. EventsInOrder
  BY <1>1 DEF EventsInOrder, R!NeverAnnouncedEarly
<1>3. R!ReplaysTheFlight
  BY <1>1 DEF R!ReplaysTheFlight
<1>4. R!EveryRateShown
  BY <1>1 DEF R!EveryRateShown, R!Sensors
<1> QED BY <1>1, <1>2, <1>3, <1>4 DEF ReplayInv

(* A sample shows the flight one lag before it was made, or less than a    *)
(* period earlier.                                                         *)
LEMMA SampleIsOfTheFlight ==
  ASSUME R!PacketsAssumption, R!EventsAssumption, R!BoardsAssumption, now \in Nat, board \in Boards, NEW s \in R!Sensors
  PROVE  \E early \in 0..(IF board[s].period = 0 THEN 0 ELSE board[s].period - 1) :
           R!Replay(R!Time(s)) = R!Flight(now - early - board[s].lag - BeforeLaunch)
<1>1. board[s].period \in Nat /\ board[s].lag \in Nat /\ BeforeLaunch \in Nat
  BY DEF R!BoardsAssumption, R!EventsAssumption
<1>2. PICK p \in Nat, l \in Nat : p = board[s].period /\ l = board[s].lag
  BY <1>1
<1>3. CASE p = 0
  <2>1. R!Time(s) = now - 0 - l - BeforeLaunch /\ now - 0 - l - BeforeLaunch \in Int
    BY <1>1, <1>2, <1>3 DEF R!Time
  <2>2. R!Replay(R!Time(s)) = R!Flight(now - 0 - l - BeforeLaunch)
    BY <2>1, ReplayIsFlight
  <2> QED BY <1>2, <1>3, <2>2
<1>4. CASE p # 0
  <2>1. PICK early \in Nat : early = now % p
    BY <1>4, SMT
  <2>2. /\ now = p * (now \div p) + early /\ early < p /\ (now \div p) * p = p * (now \div p) /\ now \div p \in Int
    BY <1>4, <2>1, SMT
  <2>3. (now \div p) * p \in Int
    BY <2>2
  <2>4. (now \div p) * p = now - early
    BY <2>2, <2>3
  <2>5. R!Time(s) = now - early - l - BeforeLaunch /\ now - early - l - BeforeLaunch \in Int
    BY <1>1, <1>2, <1>4, <2>4 DEF R!Time
  <2>6. R!Replay(R!Time(s)) = R!Flight(now - early - l - BeforeLaunch)
    BY <2>5, ReplayIsFlight
  <2>7. early \in 0..(p - 1)
    BY <2>2
  <2> QED BY <1>2, <1>4, <2>6, <2>7
<1> QED BY <1>3, <1>4

(* With a rate for each axis each rate is on an axis. *)
LEMMA RatesOnAxes ==
  ASSUME R!BoardsAssumption, board \in Boards
  PROVE  {R!Gyro(a)[2] : a \in R!Axes} = R!Rates
<1>1. PICK x, y, z : x = board.rates["roll"] /\ y = board.rates["pitch"] /\ z = board.rates["yaw"]
  OBVIOUS
<1>2. {x, y, z} = R!Axes /\ R!Rates = {"roll", "pitch", "yaw"}
  BY <1>1 DEF R!BoardsAssumption, R!Rates
<1>3. x # y /\ x # z /\ y # z
  <2>1. {x, y, z} = {"x", "y", "z"}
    BY <1>2 DEF R!Axes
  <2> QED BY <2>1
<1>4. R!Gyro(x)[2] = "roll"
  BY <1>1 DEF R!Gyro, R!Signed
<1>5. R!Gyro(y)[2] = "pitch"
  BY <1>1, <1>3 DEF R!Gyro, R!Signed
<1>6. R!Gyro(z)[2] = "yaw"
  BY <1>1, <1>3 DEF R!Gyro, R!Signed
<1> QED BY <1>2, <1>4, <1>5, <1>6

(* Sums of a number of sleeps. *)
LEMMA Products ==
  ASSUME NEW f \in Nat, NEW a \in Int
  PROVE  f * a \in Int
  OBVIOUS

LEMMA TimesSum ==
  ASSUME NEW f \in Nat, NEW a \in Int, NEW b \in Int
  PROVE  f * (a + b) = f * a + f * b
  OBVIOUS

LEMMA TimesOneMore ==
  ASSUME NEW f \in Nat, NEW a \in Int
  PROVE  f * (a + 1) = f * a + f
  OBVIOUS

LEMMA TimesGrow ==
  ASSUME NEW f \in Nat, NEW a \in Int, NEW b \in Int, a <= b
  PROVE  f * a <= f * b
<1>1. b - a \in Nat
  OBVIOUS
<1>2. f * (b - a) \in Nat
  BY <1>1
<1>3. f * b = f * a + f * (b - a)
  BY <1>1, TimesSum
<1> QED BY <1>2, <1>3

(* A sleep is less than a millisecond shorter than it should be. *)
LEMMA MillisecondsLose ==
  ASSUME Fraction \in Nat \ {0}, NEW d \in Int
  PROVE  R!Milliseconds(d) \in Int /\ Fraction * R!Milliseconds(d) > d - Fraction
<1>1. CASE d >= 0
  <2>1. R!Milliseconds(d) = d \div Fraction
    BY <1>1 DEF R!Milliseconds
  <2>2. d \div Fraction \in Int /\ d % Fraction \in 0..(Fraction - 1) /\ d = Fraction * (d \div Fraction) + (d % Fraction)
    OBVIOUS
  <2> QED BY <2>1, <2>2
<1>2. CASE d < 0
  <2>1. R!Milliseconds(d) = -((-d) \div Fraction)
    BY <1>2 DEF R!Milliseconds
  <2>2. PICK e \in Nat : e = -d
    BY <1>2
  <2>3. e \div Fraction \in Int /\ e % Fraction \in Nat /\ e = Fraction * (e \div Fraction) + (e % Fraction)
    BY <2>2
  <2>4. PICK q \in Int : q = e \div Fraction
    BY <2>3
  <2>5. Fraction * (-q) = -(Fraction * q) /\ Fraction * q \in Int
    BY <2>4
  <2>6. Fraction * q <= e
    BY <2>3, <2>4, <2>5
  <2>7. R!Milliseconds(d) = -q
    BY <2>1, <2>2, <2>4
  <2> QED BY <2>2, <2>4, <2>5, <2>6, <2>7
<1> QED BY <1>1, <1>2

(* Every step of the replay replays the flight. *)
LEMMA ReplayNext ==
  ASSUME R!PacketsAssumption, R!EventsAssumption, R!BoardsAssumption, ReplayInv, R!Next
  PROVE  ReplayInv'
<1>1. /\ now \in Nat /\ board \in Boards /\ DOMAIN sample = R!Sensors
      /\ EventsInOrder /\ R!ReplaysTheFlight /\ R!EveryRateShown
  BY DEF ReplayInv
<1>2. ASSUME UNCHANGED <<board, sample, axes>>
      PROVE  R!ReplaysTheFlight' /\ R!EveryRateShown'
  BY <1>1, <1>2 DEF R!ReplaysTheFlight, R!EveryRateShown
<1>3. ASSUME UNCHANGED <<event, woke, logged>>
      PROVE  EventsInOrder'
  BY <1>1, <1>3 DEF EventsInOrder, R!NeverAnnouncedEarly
<1>4. ASSUME NEW s \in R!Sensors, sample' = R!Sampled(s) \/ sample' = sample,
             UNCHANGED <<now, board, event, woke, logged>>, R!EveryRateShown'
      PROVE  ReplayInv'
  <2>1. DOMAIN sample' = R!Sensors
    BY <1>1, <1>4 DEF R!Sampled
  <2>2. R!ReplaysTheFlight'
    <3>1. SUFFICES ASSUME NEW r \in R!Sensors, sample'[r] # R!None
                   PROVE  \E early \in 0..(IF board[r].period = 0 THEN 0 ELSE board[r].period - 1) :
                            sample'[r].value = R!Flight(sample'[r].made - early - board[r].lag - BeforeLaunch)
      BY <1>4 DEF R!ReplaysTheFlight
    <3>2. CASE sample'[r] = sample[r]
      BY <1>1, <3>1, <3>2 DEF R!ReplaysTheFlight
    <3>3. CASE sample'[r] # sample[r]
      <4>1. r = s /\ sample'[r] = [value |-> R!Replay(R!Time(s)), made |-> now]
        BY <1>1, <1>4, <3>3 DEF R!Sampled
      <4>2. sample'[r].value = R!Replay(R!Time(r)) /\ sample'[r].made = now
        BY <4>1
      <4> QED BY <1>1, <4>2, SampleIsOfTheFlight
    <3> QED BY <3>2, <3>3
  <2>3. EventsInOrder'
    BY <1>3, <1>4
  <2> QED BY <1>1, <1>4, <2>1, <2>2, <2>3 DEF ReplayInv
<1>5. CASE R!Tick
  BY <1>1, <1>2, <1>3, <1>5 DEF R!Tick, ReplayInv
<1>6. CASE R!LogEvent
  <2>1. PICK n : n = R!Cardinality(DOMAIN EventTime)
    OBVIOUS
  <2>2. /\ event < n - 1 /\ now >= woke + R!Sleep(event)
        /\ event' = event + 1 /\ woke' = now /\ logged' = Append(logged, now)
        /\ UNCHANGED <<now, board, measuring, sample, axes>>
    BY <1>6, <2>1 DEF R!LogEvent
  <2>3. EventTime \in [0..(n - 1) -> Int] /\ BeforeLaunch \in Nat /\ Fraction \in Nat \ {0} /\ n \in Int
    BY <2>1 DEF R!EventsAssumption
  <2>4. /\ event \in Nat /\ logged \in Seq(Nat) /\ Len(logged) = event
        /\ woke = (IF event = 0 THEN BeforeLaunch ELSE logged[event])
        /\ \A i \in DOMAIN logged : Fraction * (logged[i] - BeforeLaunch + i) > EventTime[i - 1]
    BY <1>1 DEF EventsInOrder, R!NeverAnnouncedEarly
  <2>5. /\ logged' \in Seq(Nat) /\ Len(logged') = event + 1 /\ DOMAIN logged' = 1..(event + 1)
        /\ logged'[event + 1] = now /\ \A i \in 1..event : logged'[i] = logged[i]
    <3>1. now \in Nat
      BY <1>1
    <3> QED BY <2>2, <2>4, <3>1
  <2>6. Fraction * (now - BeforeLaunch + (event + 1)) > EventTime[event]
    <3>1. EventTime[event] \in Int /\ now \in Nat
      BY <1>1, <2>2, <2>3, <2>4
    <3>2. CASE event = 0
      <4>1. now >= BeforeLaunch + R!Milliseconds(EventTime[0]) /\ EventTime[0] \in Int
        BY <2>2, <2>4, <3>1, <3>2 DEF R!Sleep
      <4>2. Fraction * (now - BeforeLaunch + 1) > 0 + EventTime[0]
        <5>1. /\ R!Milliseconds(EventTime[0]) \in Int
              /\ Fraction * R!Milliseconds(EventTime[0]) > EventTime[0] - Fraction
          BY <2>3, <4>1, MillisecondsLose
        <5>2. now - BeforeLaunch \in Int /\ now - BeforeLaunch >= R!Milliseconds(EventTime[0])
          BY <2>3, <3>1, <4>1, <5>1
        <5>3. Fraction * (now - BeforeLaunch) >= Fraction * R!Milliseconds(EventTime[0])
          BY <2>3, <5>1, <5>2, TimesGrow
        <5>4. Fraction * (now - BeforeLaunch + 1) = Fraction * (now - BeforeLaunch) + Fraction
          BY <2>3, <5>2, TimesOneMore
        <5> QED BY <2>3, <4>1, <5>1, <5>2, <5>3, <5>4, Products
      <4> QED BY <2>3, <3>1, <3>2, <4>1, <4>2
    <3>3. CASE event # 0
      <4>1. event \in DOMAIN logged /\ logged[event] \in Nat /\ event - 1 \in 0..(n - 1)
        BY <2>2, <2>3, <2>4, <3>3
      <4>2. EventTime[event - 1] \in Int
        BY <2>3, <4>1
      <4>3. PICK d \in Int : d = EventTime[event] - EventTime[event - 1]
        BY <3>1, <4>2
      <4>4. R!Milliseconds(d) \in Int /\ Fraction * R!Milliseconds(d) > d - Fraction
        BY <2>3, MillisecondsLose
      <4>5. now >= logged[event] + R!Milliseconds(d)
        BY <2>2, <2>4, <3>3, <4>3 DEF R!Sleep
      <4>6. PICK a \in Int, b \in Int : a = logged[event] - BeforeLaunch + event /\ b = now - BeforeLaunch + event
        BY <2>3, <2>4, <3>1, <4>1
      <4>7. Fraction * a > EventTime[event - 1]
        BY <2>4, <4>1, <4>6
      <4>8. b >= a + R!Milliseconds(d)
        <5>1. now \in Int /\ logged[event] \in Int /\ event \in Int /\ BeforeLaunch \in Int
          BY <2>3, <2>4, <3>1, <4>1
        <5> QED BY <4>4, <4>5, <4>6, <5>1
      <4>9. Fraction * b >= Fraction * a + Fraction * R!Milliseconds(d)
        BY <2>3, <4>4, <4>8, TimesGrow, TimesSum
      <4>10. Fraction * (b + 1) = Fraction * b + Fraction
        BY <2>3, TimesOneMore
      <4>11. Fraction * (b + 1) > EventTime[event]
        <5>1. Fraction * a \in Int /\ Fraction * b \in Int /\ Fraction * R!Milliseconds(d) \in Int
          BY <2>3, <4>4, Products
        <5> QED BY <2>3, <3>1, <4>2, <4>3, <4>4, <4>7, <4>9, <4>10, <5>1
      <4>12. now - BeforeLaunch + (event + 1) = b + 1
        BY <2>3, <2>4, <3>1, <4>6
      <4> QED BY <4>11, <4>12
    <3> QED BY <3>2, <3>3
  <2>7. ASSUME NEW i \in 1..(event + 1)
        PROVE  Fraction * (logged'[i] - BeforeLaunch + i) > EventTime[i - 1]
    <3>1. CASE i = event + 1
      <4>1. i - 1 = event
        BY <2>4, <3>1
      <4> QED BY <2>5, <2>6, <3>1, <4>1
    <3>2. CASE i \in 1..event
      <4>1. i \in DOMAIN logged /\ logged'[i] = logged[i]
        BY <2>4, <2>5, <3>2
      <4> QED BY <2>4, <4>1
    <3> QED BY <2>4, <3>1, <3>2
  <2>8. EventsInOrder'
    BY <2>2, <2>4, <2>5, <2>7 DEF EventsInOrder, R!NeverAnnouncedEarly
  <2> QED BY <1>1, <1>2, <2>2, <2>8 DEF ReplayInv
<1>7. CASE R!FetchImu
  <2>1. /\ sample' = R!Sampled("imu") /\ axes'.gyro = [a \in R!Axes |-> R!Gyro(a)]
        /\ UNCHANGED <<now, board, event, woke, logged>>
    BY <1>7 DEF R!FetchImu, R!Wakes
  <2>2. {axes'.gyro[a][2] : a \in R!Axes} = R!Rates
    <3>1. \A a \in R!Axes : axes'.gyro[a][2] = R!Gyro(a)[2]
      BY <2>1
    <3> QED BY <1>1, <3>1, RatesOnAxes
  <2>3. R!EveryRateShown'
    BY <2>2 DEF R!EveryRateShown
  <2>4. "imu" \in R!Sensors
    BY DEF R!Sensors
  <2> QED BY <1>4, <2>1, <2>3, <2>4
<1>8. ASSUME NEW s \in {"barometer", "magnetometer", "gnss"}, sample' = R!Sampled(s) \/ sample' = sample,
             UNCHANGED <<now, board, event, woke, logged, axes>>
      PROVE  ReplayInv'
  <2>1. s \in R!Sensors /\ s # "imu" /\ "imu" \in R!Sensors
    BY <1>8 DEF R!Sensors
  <2>2. sample'["imu"] = sample["imu"]
    BY <1>1, <1>8, <2>1 DEF R!Sampled
  <2>3. R!EveryRateShown'
    BY <1>1, <1>8, <2>2 DEF R!EveryRateShown
  <2> QED BY <1>4, <1>8, <2>1, <2>3
<1>9. CASE R!FetchBarometer
  BY <1>8, <1>9 DEF R!FetchBarometer, R!Wakes
<1>10. CASE R!FetchMagnetometer
  BY <1>8, <1>10 DEF R!FetchMagnetometer, R!Wakes
<1>11. CASE R!PublishFix
  BY <1>8, <1>11 DEF R!PublishFix, R!Wakes
<1>12. CASE \E s \in R!Sensors : R!Begin(s)
  BY <1>1, <1>2, <1>3, <1>12 DEF R!Begin, ReplayInv
<1> QED BY <1>5, <1>6, <1>7, <1>9, <1>10, <1>11, <1>12 DEF R!Next

-----------------------------------------------------------------------------
(* The five together.                                                      *)

Inv ==
  /\ subject = "barometer" => BarometerInv
  /\ subject = "converter" => ConverterInv
  /\ subject = "shunt" => ShuntInv
  /\ subject = "accelerometer" => AccelerometerInv
  /\ subject = "replay" => ReplayInv

(* Whichever driver runs, what it keeps is in order after each of its      *)
(* steps.                                                                  *)
LEMMA InvNext == Inv /\ [Next]_vars => Inv'
<1>1. SUFFICES ASSUME Inv, [Next]_vars PROVE Inv'
  OBVIOUS
<1>2. CASE BarometerStep
  BY <1>1, <1>2, BarometerNext DEF Inv, BarometerStep, library
<1>3. CASE ConverterStep
  BY <1>1, <1>3, ConverterNext, MCChannelsAssumption DEF Inv, ConverterStep, library
<1>4. CASE ShuntStep
  BY <1>1, <1>4, ShuntNext DEF Inv, ShuntStep, library
<1>5. CASE AccelerometerStep
  BY <1>1, <1>5, AccelerometerNext DEF Inv, AccelerometerStep, library
<1>6. CASE OrkStep
  BY <1>1, <1>6 DEF Inv, OrkStep, library
<1>7. CASE ReplayStep
  BY <1>1, <1>7, ReplayNext, MCPacketsAssumption, MCEventsAssumption, MCBoardsAssumption DEF Inv, ReplayStep, library
<1>8. CASE UNCHANGED <<subject, drivers>>
  <2>1. /\ UNCHANGED <<subject, faults, pc, ok, began, todo, chip>>
        /\ UNCHANGED <<weather, prom, adc, raw, barometerData>>
        /\ UNCHANGED <<channel_map, shadow, adcdata, buffer, missed, hasty, spilled>>
        /\ UNCHANGED <<mode, load, asked, data, motion, acceleration>>
    BY <1>8 DEF drivers, shared, barometer, converter, shunt, accelerometer
  <2>2. BarometerInv => BarometerInv'
    <3>1. SUFFICES ASSUME BarometerInv PROVE BarometerInv'
      OBVIOUS
    <3>2. FetchInOrder'
      BY <2>1, <3>1 DEF BarometerInv, FetchInOrder
    <3>3. B!FreshWhenOk' /\ B!Calibrated'
      BY <2>1, <3>1 DEF BarometerInv, B!FreshWhenOk, B!Calibrated
    <3> QED BY <2>1, <3>1, <3>2, <3>3 DEF BarometerInv
  <2>3. ConverterInv => ConverterInv'
    <3>1. SUFFICES ASSUME ConverterInv PROVE ConverterInv'
      OBVIOUS
    <3>2. ConverterTypeOK' /\ C!Current' = C!Current
      BY <2>1, <3>1 DEF ConverterInv, ConverterTypeOK, C!Current
    <3>3. ShadowIsTrue'
      BY <2>1, <3>1, <3>2 DEF ConverterInv, ShadowIsTrue
    <3> QED BY <2>1, <3>1, <3>2, <3>3, BufferKept DEF ConverterInv
  <2>4. ShuntInv => ShuntInv'
    BY <2>1 DEF ShuntInv, ReadInOrder
  <2>5. AccelerometerInv => AccelerometerInv'
    BY <2>1 DEF AccelerometerInv
  <2>6. UNCHANGED <<now, board, sample, axes, event, woke, logged>>
    BY <1>8 DEF drivers, shared, replay
  <2>7. ReplayInv => ReplayInv'
    BY <2>6 DEF ReplayInv, EventsInOrder, R!NeverAnnouncedEarly, R!ReplaysTheFlight, R!EveryRateShown
  <2> QED BY <1>1, <2>1, <2>2, <2>3, <2>4, <2>5, <2>7 DEF Inv
<1>9. CASE LibraryStep
  BY <1>8, <1>9 DEF LibraryStep, LibraryNext, DebouncerStep, HorusStep, RtosStep, WindowStep
<1>10. CASE UNCHANGED vars
  BY <1>8, <1>10 DEF vars, library
<1> QED BY <1>1, <1>2, <1>3, <1>4, <1>5, <1>6, <1>7, <1>9, <1>10 DEF Next

(* Of the driver that runs the inductive invariant always holds.           *)
THEOREM Invariance == Spec => []Inv
<1>1. Init => Inv
  <2>1. SUFFICES ASSUME Init PROVE Inv
    OBVIOUS
  <2>2. CASE subject = "barometer" /\ B!Init
    BY <2>2, BarometerStarts DEF Inv
  <2>3. CASE subject = "converter" /\ C!Init
    BY <2>3, ConverterStarts DEF Inv
  <2>4. CASE subject = "shunt" /\ S!Init
    BY <2>4, ShuntStarts DEF Inv
  <2>5. CASE subject = "accelerometer" /\ A!Init
    BY <2>5, AccelerometerStarts DEF Inv
  <2>6. CASE subject = "replay" /\ R!Init
    BY <2>6, ReplayStarts DEF Inv
  <2>7. CASE subject = "ork" \/ subject \in Subjects
    BY <2>7 DEF Inv, Subjects
  <2> QED BY <2>1, <2>2, <2>3, <2>4, <2>5, <2>6, <2>7 DEF Init, DriversInit
<1> QED BY <1>1, InvNext, PTL DEF Spec

(* A simulated sensor shows the flight of one lag before, or less than a   *)
(* period earlier, every rate is on an axis, and an event is announced     *)
(* less than a millisecond for every sleep before its moment               *)
(* (or_find_bounding_packets, or_lerp, or_get_time,                        *)
(* or_event_thread_handler).                                               *)
THEOREM ReplaysTheFlightHolds == Spec => []ReplaysTheFlight
<1>1. Inv => ReplaysTheFlight
  BY DEF Inv, ReplaysTheFlight, ReplayInv, EventsInOrder
<1> QED BY <1>1, Invariance, PTL

(* The barometer shows conversions of the fetch that succeeded, with a     *)
(* calibration that was checked (ms5611_sample_fetch, ms5611_channel_get). *)
THEOREM FreshWhenOkHolds == Spec => []FreshWhenOk
<1>1. Inv => FreshWhenOk
  BY DEF Inv, FreshWhenOk, BarometerInv
<1> QED BY <1>1, Invariance, PTL

(* A value was converted from the inputs of its channel unless the wait    *)
(* was too short or the last write of the multiplexer failed; the buffer   *)
(* is in the order of the channels; and the converter goes on converting   *)
(* unless it could not be started or channel 8 was set up                  *)
(* (mcp356x_init, mcp356x_channel_setup, mcp356x_read_channel).            *)
THEOREM SampleOfItsInputsHolds == Spec => []SampleOfItsInputs
<1>1. Inv => SampleOfItsInputs
  BY DEF Inv, SampleOfItsInputs, ConverterInv, ShadowIsTrue, C!KeepsConverting
<1> QED BY <1>1, Invariance, PTL

(* What the power monitor newly shows was read in one fetch, in its order, *)
(* and the accelerometer never goes back to older values or to zeros       *)
(* (ina260_sample_fetch, adxl375_sample_fetch).                            *)
THEOREM UpdatesAreWholeHolds == Spec => UpdatesAreWhole
<1>1. Inv /\ [Next]_vars =>
        [ /\ subject = "shunt" => S!ShowsOneFetch
          /\ subject = "accelerometer" => A!NeverZeroAgain ]_vars
  <2>1. SUFFICES ASSUME Inv, Next
                 PROVE  /\ subject = "shunt" => S!ShowsOneFetch
                        /\ subject = "accelerometer" => A!NeverZeroAgain
    OBVIOUS
  <2>2. CASE ShuntStep
    BY <2>1, <2>2, ShuntNext DEF Inv, ShuntStep, library
  <2>3. CASE AccelerometerStep
    BY <2>1, <2>3, AccelerometerNext DEF Inv, AccelerometerStep, library
  <2>4. CASE ReplayStep \/ OrkStep \/ BarometerStep \/ ConverterStep
    BY <2>4 DEF ReplayStep, OrkStep, BarometerStep, ConverterStep
  <2>5. CASE LibraryStep
    BY <2>5 DEF LibraryStep, LibraryNext, DebouncerStep, HorusStep, RtosStep, WindowStep
  <2> QED BY <2>1, <2>2, <2>3, <2>4, <2>5 DEF Next
<1> QED BY <1>1, Invariance, PTL DEF Spec, UpdatesAreWhole
=============================================================================
