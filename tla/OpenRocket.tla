----------------------------- MODULE OpenRocket -----------------------------
(***************************************************************************)
(* The simulated sensors (drivers/sensor/openrocket), which replay a       *)
(* flight exported from OpenRocket: IMU, barometer and magnetometer when   *)
(* they are asked, the GNSS and the event log by threads of their own.     *)
(*                                                                         *)
(* A packet holds one number for all its columns; the noise is left out.   *)
(* The packets are so that the interpolation comes out whole.              *)
(***************************************************************************)
EXTENDS Integers, Sequences, FiniteSets, FiniteSetsExt

CONSTANTS
  PacketTime,    (* or_packets[i].time_s, increasing                        *)
  PacketData,    (* what packet i says                                      *)
  EventTime,     (* or_events[i].time_s, in parts of a millisecond          *)
  Fraction,      (* how many parts a millisecond has                        *)
  BeforeLaunch,  (* CONFIG_OPENROCKET_MS_BEFORE_LAUNCH                      *)
  Boards,        (* device trees: or_common_params of every sensor, and of  *)
                 (* or_imu_config vertical, lateral, vertical_invert, rates *)
                 (* and inverts                                             *)
  MaxTime        (* bound: how long the program runs                        *)

Sensors == {"imu", "barometer", "magnetometer", "gnss"}
Size == Cardinality(DOMAIN PacketTime)
Axes == {"x", "y", "z"}
Rates == {"roll", "pitch", "yaw"}

PacketsAssumption ==
  /\ Size \in Nat /\ Size >= 2
  /\ PacketTime \in [0..(Size - 1) -> Int] /\ PacketData \in [0..(Size - 1) -> Int]
  /\ \A i \in 0..(Size - 2) :
       /\ PacketTime[i] < PacketTime[i + 1]
       /\ (PacketData[i + 1] - PacketData[i]) % (PacketTime[i + 1] - PacketTime[i]) = 0

(* There is an event: of none, or_events_size - 1 would be the largest      *)
(* unsigned number, and the thread would read on behind them.               *)
EventsAssumption ==
  /\ BeforeLaunch \in Nat /\ Fraction \in Nat \ {0} /\ Cardinality(DOMAIN EventTime) \in Nat \ {0}
  /\ EventTime \in [0..(Cardinality(DOMAIN EventTime) - 1) -> Int]

(* The lags and periods are unsigned; every overlay maps a rate to each    *)
(* axis.                                                                   *)
BoardsAssumption ==
  \A b \in Boards :
    /\ \A s \in Sensors : b[s].period \in Nat /\ b[s].lag \in Nat
    /\ {b.rates[r] : r \in Rates} = Axes

VARIABLES
  now,           (* the uptime                                              *)
  board,         (* the device tree the program was built for              *)
  measuring,     (* sensor -> when its measurement is over, or Idle         *)
  sample,        (* sensor -> the data it holds or last published, with the *)
                 (* time of its making, or None                             *)
  axes,          (* the axes of the IMU: what each one shows                *)
  event, woke,   (* or_event_thread_handler: i and when it last slept       *)
  logged         (* the times at which events were logged                   *)

vars == <<now, board, measuring, sample, axes, event, woke, logged>>

Idle == -1
None == [value |-> -1, made |-> 0]
Nothing == <<0, "none">>

Init ==
  /\ now = 0
  /\ board \in Boards
  /\ measuring = [s \in Sensors |-> Idle]
  /\ sample = [s \in Sensors |-> None]
  /\ axes = [accel |-> [a \in Axes |-> Nothing], gyro |-> [a \in Axes |-> Nothing]]
  /\ event = 0 /\ woke = BeforeLaunch /\ logged = <<>>

-----------------------------------------------------------------------------
(* The library that all sensors share.                                     *)

(* As if the lag were added. *)
TimeAhead(s) == now + board[s].lag - BeforeLaunch
Time(s) ==
  (IF board[s].period = 0 THEN now ELSE (now \div board[s].period) * board[s].period)
    - board[s].lag - BeforeLaunch

(* or_find_bounding_packets: the packets around a time, both 0 before the  *)
(* simulation and both Size after it.  No caller moves last_lower_index.   *)
last_lower_index == 0

Within(t) == {i \in last_lower_index..(Size - 2) : t <= PacketTime[i + 1]}
BoundingPackets(t) ==
  IF t < PacketTime[0] THEN [lo |-> 0, hi |-> 0]
  ELSE IF Within(t) = {} THEN [lo |-> Size, hi |-> Size]
  ELSE [lo |-> Min(Within(t)), hi |-> Min(Within(t)) + 1]

Lerp(a, b, part, whole) == a + ((b - a) * part) \div whole

Replay(t) ==
  LET at == BoundingPackets(t) IN
  IF at.hi = 0 THEN PacketData[0]
  ELSE IF at.lo = Size THEN PacketData[Size - 1]
  ELSE Lerp(PacketData[at.lo], PacketData[at.hi], t - PacketTime[at.lo], PacketTime[at.hi] - PacketTime[at.lo])

-----------------------------------------------------------------------------
(* The IMU: which axis shows what, with its sign.  An axis shows the first *)
(* of the quantities that are mapped to it; yaw is inverted with pitch.    *)

Accel(axis) ==
  IF board.vertical = axis THEN <<IF board.vertical_invert THEN 1 ELSE -1, "vertical">>
  ELSE IF board.lateral = axis THEN <<1, "lateral">>
  ELSE Nothing

Inverted(rate) == board.inverts[IF rate = "roll" THEN "roll" ELSE "pitch"]
Signed(rate) == <<IF Inverted(rate) THEN -1 ELSE 1, rate>>

(* As if the test for pitch were made with the axis of yaw. *)
GyroTwice(axis) ==
  IF board.rates["roll"] = axis THEN Signed("roll")
  ELSE IF board.rates["yaw"] = axis THEN Signed("pitch")
  ELSE IF board.rates["yaw"] = axis THEN Signed("yaw")
  ELSE Nothing
Gyro(axis) ==
  IF board.rates["roll"] = axis THEN Signed("roll")
  ELSE IF board.rates["pitch"] = axis THEN Signed("pitch")
  ELSE IF board.rates["yaw"] = axis THEN Signed("yaw")
  ELSE Nothing

-----------------------------------------------------------------------------
Tick ==
  /\ now < MaxTime /\ now' = now + 1
  /\ UNCHANGED <<board, measuring, sample, axes, event, woke, logged>>

(* A broken sensor has failed to initialise, and says so ever after.       *)
Works(s) == ~board[s].broken

(* A fetch sleeps for the time a measurement takes, the GNSS thread for    *)
(* its period.                                                             *)
Begin(s) ==
  /\ measuring[s] = Idle /\ Works(s)
  /\ measuring' = [measuring EXCEPT ![s] = now + IF s = "gnss" THEN board[s].period ELSE board[s].measurement]
  /\ UNCHANGED <<now, board, sample, axes, event, woke, logged>>

Sampled(s) == [sample EXCEPT ![s] = [value |-> Replay(Time(s)), made |-> now]]
Wakes(s) ==
  /\ measuring[s] # Idle /\ now >= measuring[s]
  /\ measuring' = [measuring EXCEPT ![s] = Idle]
  /\ UNCHANGED <<now, board, event, woke, logged>>

FetchImu ==
  /\ Wakes("imu") /\ sample' = Sampled("imu")
  /\ axes' = [accel |-> [a \in Axes |-> Accel(a)], gyro |-> [a \in Axes |-> Gyro(a)]]
FetchBarometer == Wakes("barometer") /\ sample' = Sampled("barometer") /\ UNCHANGED axes
FetchMagnetometer == Wakes("magnetometer") /\ sample' = Sampled("magnetometer") /\ UNCHANGED axes

(* A round of the thread does without its fix if the clock cannot be read. *)
PublishFix == Wakes("gnss") /\ sample' \in {sample, Sampled("gnss")} /\ UNCHANGED axes

(* or_event_thread_handler starts at the launch, sleeps from one event to  *)
(* the next, for the whole milliseconds of it, and leaves the last one out. *)
Milliseconds(t) == IF t < 0 THEN -((-t) \div Fraction) ELSE t \div Fraction
SleepShort(i) == Milliseconds(IF i = 0 THEN EventTime[0] ELSE (EventTime[i] - EventTime[i - 1]) \div 2)
Sleep(i) == Milliseconds(IF i = 0 THEN EventTime[0] ELSE EventTime[i] - EventTime[i - 1])

LogEvent ==
  /\ event < Cardinality(DOMAIN EventTime) - 1
  /\ now >= woke + Sleep(event)
  /\ event' = event + 1 /\ woke' = now /\ logged' = Append(logged, now)
  /\ UNCHANGED <<now, board, measuring, sample, axes>>

Next == Tick \/ LogEvent \/ FetchImu \/ FetchBarometer \/ FetchMagnetometer \/ PublishFix \/ \E s \in Sensors : Begin(s)

-----------------------------------------------------------------------------
(* What the flight was at a time, told without the program's search.       *)
Flight(t) ==
  IF t <= PacketTime[0] THEN PacketData[0]
  ELSE IF t >= PacketTime[Size - 1] THEN PacketData[Size - 1]
  ELSE LET i == CHOOSE i \in 0..(Size - 2) : PacketTime[i] <= t /\ t < PacketTime[i + 1] IN
       PacketData[i] + (t - PacketTime[i]) * ((PacketData[i + 1] - PacketData[i]) \div (PacketTime[i + 1] - PacketTime[i]))

(* What a simulated sensor shows is the flight as it was one lag before    *)
(* the sample was made, or less than a sampling period before that: the    *)
(* search for the packets, the rounding and the interpolation agree.       *)
ReplaysTheFlight ==
  \A s \in Sensors : sample[s] # None =>
    \E early \in 0..(IF board[s].period = 0 THEN 0 ELSE board[s].period - 1) :
      sample[s].value = Flight(sample[s].made - early - board[s].lag - BeforeLaunch)

(* Every rate of the flight is on one axis of the gyroscope, whatever the  *)
(* device tree maps it to.                                                 *)
EveryRateShown ==
  sample["imu"] # None => {axes.gyro[a][2] : a \in Axes} = Rates

(* The event log announces an event less than a millisecond for every     *)
(* sleep up to it before its moment of the flight: what the sleeps lose    *)
(* adds up, and no more than that.                                         *)
NeverAnnouncedEarly ==
  \A i \in DOMAIN logged : Fraction * (logged[i] - BeforeLaunch + i) > EventTime[i - 1]
=============================================================================
