----------------------------- MODULE MCStorage -----------------------------
(***************************************************************************)
(* What is kept on flash, one program at a time: which one runs is chosen  *)
(* at the start.  Variables of the same name are one variable here, and    *)
(* those of the programs that do not run are Unused.                       *)
(***************************************************************************)
EXTENDS Integers, Sequences, FiniteSets, TLC

CONSTANTS MaxBoots, MaxFaults, num_packets, MaxPackets, MaxNames, MaxLines, Size, MaxSamples,
  BufferSize, Threshold, Readings, MaxReadings, MaxBelow,
  Files, LooksFirst, Pack, QueueSize, MaxRecords, MaxFlights, MaxWriteFaults

VARIABLES subject,
  disk, boots, faults, cache, pos, pc,
  program, exists, count, counted, unanswered,
  mode, opened, written, before, missed, packets,
  files, name, part, line, inside, broken, lines,
  wpos, sample,
  thread, buffer, index, accel_running_sum, battery, count_below, unsaved, read, atLaunch,
  main, boost_detected, flight_cancelled, saved,
  flight_over, cam, reader, readings, queue, control, storage, opened_files, contents,
  power, writeFaults, lost, backlog

counter == <<program, exists, count, counted>>
logger == <<mode, opened, written, before, missed, packets>>
log == <<files, name, part, line, inside, broken, lines>>
frames == <<wpos, sample>>
detection == <<thread, buffer, index, accel_running_sum, battery, count_below, unsaved, read, atLaunch>>
payload == <<main, boost_detected, flight_cancelled, saved>>
recording == <<flight_over, cam, reader, readings, queue, control, storage, opened_files, contents,
               power, writeFaults, lost, backlog>>
reefer == <<detection, payload, recording>>
backplane == <<disk, boots, faults, cache, pos, pc, unanswered, counter, logger, log, frames>>
vars == <<subject, backplane, reefer>>

TwoAndThree == ("detect" :> 2) @@ ("flight" :> 3)

(* The reefer's buffers of two readings, and packs of two of the ADC's. *)
TwoOfEach   == ("accel" :> 2) @@ ("altitude" :> 2)
OneOfEach   == ("accel" :> 1) @@ ("altitude" :> 1)
OneSlow     == ("accel" :> {1, 2}) @@ ("altitude" :> {0, 2})
FastThenAdc == <<"fast", "adc">>
TwoOfAdc    == ("fast" :> 1) @@ ("adc" :> 2)
TwoOfFast   == ("fast" :> 2) @@ ("adc" :> 1)

B == INSTANCE BootCount
D == INSTANCE DataLogger
F == INSTANCE FlightLog
S == INSTANCE SensorLog
L == INSTANCE BoostDetect WITH Size <- BufferSize
G == INSTANCE GrimReefer WITH MaxBoots <- MaxFlights, opened <- opened_files

ASSUME MCReadingsAssumption == L!ReadingsAssumption
ASSUME MCLoggerAssumption == D!LoggerAssumption
ASSUME MCNamesAssumption == F!NamesAssumption
ASSUME MCSizeAssumption == S!SizeAssumption
ASSUME MCPackAssumption == G!PackAssumption

Unused == "unused"

NoCounter == program = Unused /\ exists = Unused /\ count = Unused /\ counted = Unused
NoLogger == mode = Unused /\ opened = Unused /\ written = Unused /\ before = Unused /\ missed = Unused /\ packets = Unused
NoLog == /\ files = Unused /\ name = Unused /\ part = Unused /\ line = Unused /\ inside = Unused
         /\ broken = Unused /\ lines = Unused
NoFrames == wpos = Unused /\ sample = Unused

NoDetection == /\ thread = Unused /\ buffer = Unused /\ index = Unused /\ accel_running_sum = Unused
               /\ battery = Unused /\ count_below = Unused /\ unsaved = Unused /\ read = Unused /\ atLaunch = Unused
NoPayload == main = Unused /\ boost_detected = Unused /\ flight_cancelled = Unused /\ saved = Unused
NoRecording == /\ flight_over = Unused /\ cam = Unused /\ reader = Unused /\ readings = Unused
               /\ queue = Unused /\ control = Unused /\ storage = Unused /\ opened_files = Unused
               /\ contents = Unused /\ power = Unused /\ writeFaults = Unused /\ lost = Unused /\ backlog = Unused
NoReefer == NoDetection /\ NoPayload /\ NoRecording
NoBackplane == /\ disk = Unused /\ boots = Unused /\ faults = Unused /\ cache = Unused /\ pos = Unused
               /\ pc = Unused /\ unanswered = Unused /\ NoCounter /\ NoLogger /\ NoLog /\ NoFrames

Init ==
  \/ subject = "counter" /\ B!Init /\ NoLogger /\ NoLog /\ NoFrames /\ NoReefer
  \/ subject = "logger" /\ D!Init /\ NoCounter /\ NoLog /\ NoFrames /\ pc = Unused /\ unanswered = Unused /\ NoReefer
  \/ subject = "log" /\ F!Init /\ NoCounter /\ NoLogger /\ NoFrames /\ pc = Unused /\ cache = Unused /\ pos = Unused /\ NoReefer
  \/ subject = "frames" /\ S!Init /\ NoCounter /\ NoLogger /\ NoLog /\ pos = Unused /\ unanswered = Unused /\ NoReefer
  \/ subject = "detection" /\ L!Init /\ NoRecording /\ NoBackplane
  \/ subject = "recording" /\ G!Init /\ NoDetection /\ NoBackplane

CounterStep == subject = "counter" /\ B!Next /\ UNCHANGED <<subject, logger, log, frames, reefer>>
LoggerStep == subject = "logger" /\ D!Next /\ UNCHANGED <<subject, pc, unanswered, counter, log, frames, reefer>>
LogStep == subject = "log" /\ F!Next /\ UNCHANGED <<subject, pc, cache, pos, counter, logger, frames, reefer>>
FramesStep == subject = "frames" /\ S!Next /\ UNCHANGED <<subject, pos, unanswered, counter, logger, log, reefer>>
DetectionStep == subject = "detection" /\ L!Next /\ UNCHANGED <<subject, recording, backplane>>
RecordingStep == subject = "recording" /\ G!Next /\ UNCHANGED <<subject, detection, backplane>>

Next == CounterStep \/ LoggerStep \/ LogStep \/ FramesStep \/ DetectionStep \/ RecordingStep

Spec == Init /\ [][Next]_vars

(* The main thread and the storage thread of the reefer are scheduled. *)
MainStep == subject = "recording" /\ G!MainStep /\ UNCHANGED <<subject, detection, backplane>>
StorageStep == subject = "recording" /\ G!StorageStep /\ UNCHANGED <<subject, detection, backplane>>
FairSpec == Spec /\ WF_vars(MainStep) /\ WF_vars(StorageStep)

-----------------------------------------------------------------------------
(* The boot count is that of the boots that finished it: BootCount.        *)
CountsClosedBoots == subject = "counter" => B!CountsClosedBoots

(* Every place of the file has the packet it should, and where a failed    *)
(* seek has shifted them the newest packets are there: DataLogger.         *)
NewOverOld == subject = "logger" => D!NewOverOld

(* A flight's log is not written over by the next flight, and the parts of *)
(* its lines are in order around the interrupts: FlightLog.                *)
LogsKeptWhole == subject = "log" => F!OldLogsKept /\ F!LinesInOrder

(* No sample is lost between the two buffers, and what is left on the disk *)
(* are whole laps: SensorLog.                                              *)
FramesLeftWhole == subject = "frames" => S!PicksUp /\ S!WholeLaps

(* A launch is detected when there is one, and only then, and the readings *)
(* that led to it are in each file that could be saved: BoostDetect.       *)
LaunchIsSaved == subject = "detection" => L!BoostIffLaunched /\ L!LaunchIsSaved

(* No record of a flight is unaccounted for, from its reading to the files *)
(* that several flights left behind: GrimReefer.                           *)
RecordsAccountedFor ==
  subject = "recording" => G!RecordsAccountedFor /\ G!NewestFirst

(* All that was queued when the flight was over is in the files, as        *)
(* data_storage.h:42 has it: GrimReefer.                                   *)
FinishSavesAll == subject = "recording" => G!FinishSavesAll

(* A flight that has begun ends with its files closed, but for one that is *)
(* cancelled as it begins: GrimReefer.                                     *)
RecordingEnds == G!RecordingEnds
=============================================================================
