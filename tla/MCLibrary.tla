----------------------------- MODULE MCLibrary -----------------------------
(***************************************************************************)
(* Parts of the library that stand alone, one at a time: which one runs is *)
(* chosen at the start, and the variables of the others are Unused.  When  *)
(* it is none of them, all are, and nothing happens here: MCDrivers goes   *)
(* on with the drivers.                                                    *)
(***************************************************************************)
EXTENDS Integers, Sequences, FiniteSets, TLC

CONSTANTS TimestampMod, Duration, Gaps, MaxFeedTime, Tasks, MaxTurns, len, Steps, Values, MaxFed

VARIABLES subject,
  debouncer, clock, since,
  sent, air, noise, got, link,
  step, task, tenant, stopped, exiting, thread, stack, frees, drops, ready, turns,
  underlying, oldest_index, total, fed

feed == <<debouncer, clock, since>>
radio == <<sent, air, noise, got, link>>
rtos == <<step, task, tenant, stopped, exiting, thread, stack, frees, drops, ready, turns>>
window == <<underlying, oldest_index, total, fed>>
library == <<subject, feed, radio, rtos, window>>

TwoTasks == <<2, 1>>

SamplePacket == [i \in 1..30 |-> CASE i = 1 -> {0, 2} [] i = 16 -> {0, 3, 4, 5} [] i = 17 -> {4, 5} [] OTHER -> {}]
Contents == {<<>>, <<{0, 3, 5}>>, <<{}, 0..7>>, [i \in 1..30 |-> {b \in 0..7 : (i * b) % 3 = 1}], SamplePacket}
Noises(n) ==
  IF n > 100 THEN {first..(first + 19) : first \in 0..(n - 20)}
  ELSE IF n > 40 THEN {{i} : i \in 0..(n - 1)}
  ELSE {{i, j, k} : i, j, k \in 0..(n - 1)}

D == INSTANCE DebouncerFeed WITH now <- clock, MaxTime <- MaxFeedTime
H == INSTANCE HorusLink WITH pc <- link
RT == INSTANCE Rtos
W == INSTANCE RollingSum WITH Gaps <- Steps

ASSUME MCFeedAssumption == D!TimestampAssumption /\ D!FeedAssumption
ASSUME MCTasksAssumption == RT!TasksAssumption
ASSUME MCWindowAssumption == W!WindowAssumption

Unused == "unused"

NoFeed == debouncer = Unused /\ clock = Unused /\ since = Unused
NoRadio == sent = Unused /\ air = Unused /\ noise = Unused /\ got = Unused /\ link = Unused
NoRtos ==
  /\ step = Unused /\ task = Unused /\ tenant = Unused /\ stopped = Unused /\ exiting = Unused
  /\ thread = Unused /\ stack = Unused /\ frees = Unused /\ drops = Unused /\ ready = Unused /\ turns = Unused
NoWindow == underlying = Unused /\ oldest_index = Unused /\ total = Unused /\ fed = Unused

Subjects == {"debouncer", "horus", "rtos", "window"}

LibraryInit ==
  \/ subject = "debouncer" /\ D!Init /\ NoRadio /\ NoRtos /\ NoWindow
  \/ subject = "horus" /\ H!Init /\ NoFeed /\ NoRtos /\ NoWindow
  \/ subject = "rtos" /\ RT!Init /\ NoFeed /\ NoRadio /\ NoWindow
  \/ subject = "window" /\ W!Init /\ NoFeed /\ NoRadio /\ NoRtos
  \/ subject \notin Subjects /\ NoFeed /\ NoRadio /\ NoRtos /\ NoWindow

DebouncerStep == subject = "debouncer" /\ D!Next /\ UNCHANGED <<subject, radio, rtos, window>>
HorusStep == subject = "horus" /\ H!Next /\ UNCHANGED <<subject, feed, rtos, window>>
RtosStep == subject = "rtos" /\ RT!Next /\ UNCHANGED <<subject, feed, radio, window>>
WindowStep == subject = "window" /\ W!Next /\ UNCHANGED <<subject, feed, radio, rtos>>

LibraryNext == DebouncerStep \/ HorusStep \/ RtosStep \/ WindowStep

-----------------------------------------------------------------------------
(* A debouncer does not pass before its duration: DebouncerFeed.           *)
NeverEarly == subject = "debouncer" => D!NeverEarly

(* A debouncer passes after its duration, but for the mark: DebouncerFeed. *)
PassesUnlessMarked == subject = "debouncer" => D!PassesUnlessMarked

(* A packet is decoded to what was sent although three bits are wrong, or  *)
(* a burst is, and carries the checksum it is said to: HorusLink.          *)
DecodedAsSent == subject = "horus" => H!CorrectsThree /\ H!SurvivesBursts /\ H!ChecksumIsCcitt

(* Tenants do not run before their task has started them up, and a task is *)
(* destroyed once unless it was stopped before: Rtos.                      *)
TasksLiveOnce == subject = "rtos" => RT!ReadyBeforeRun /\ RT!FreedOnce

(* The rolling sum is that of the latest samples, and the line fit finds   *)
(* the slope of the line they are on: RollingSum.                          *)
FitsTheLatest == subject = "window" => W!WindowIsLatest /\ W!SlopeOfLine
=============================================================================
