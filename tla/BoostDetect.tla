---------------------------- MODULE BoostDetect ----------------------------
(***************************************************************************)
(* Launch detection of the grim reefer payload (.retired/app_grim_reefer,  *)
(* boost_detect.c): two threads read a sensor each into a ring buffer and  *)
(* look for a launch, a third watches the battery, the main thread waits   *)
(* for either detector and then saves both buffers, and the shell may      *)
(* cancel the flight at any time.  Accelerations are along the axis that   *)
(* is up (IMU_BOOST_DETECTION_MODE_AXIS) and their sum is exact.           *)
(***************************************************************************)
EXTENDS Integers, Sequences, FiniteSets

CONSTANTS
  Size,          (* readings in a detector's buffer                          *)
  Threshold,     (* what a detector's measure must exceed                    *)
  Readings,      (* what a detector may read                                 *)
  MaxReadings,   (* bound: readings of one detector                          *)
  MaxBelow       (* low voltages that are tolerated: 4                       *)

Detector == {"accel", "altitude"}

ReadingsAssumption ==
  /\ Size \in [Detector -> Nat \ {0}] /\ Threshold \in [Detector -> Nat]
  /\ Readings \in [Detector -> SUBSET Int]
  /\ {MaxReadings, MaxBelow} \subseteq Nat

VARIABLES
  thread,           (* what each detector's thread is doing                  *)
  buffer, index,    (* accel_buffer and altitude_buffer, and where they are  *)
  accel_running_sum,
  boost_detected, flight_cancelled,
  battery, count_below,
  main,             (* where the main thread is, or whose buffer it saves    *)
  saved,            (* the slots of each buffer that are in its file         *)
  unsaved,          (* the buffers whose file could not be written           *)
  read,             (* every reading of each detector, in order              *)
  atLaunch          (* how many of them had been taken at the detection      *)

vars == <<thread, buffer, index, accel_running_sum, boost_detected, flight_cancelled,
          battery, count_below, main, saved, unsaved, read, atLaunch>>

(* A slot names its reading by its place in read; the timestamp of a slot   *)
(* that has never been written is zero.                                     *)
Slots(d) == 0..(Size[d] - 1)
Value(d, slot) == IF slot = 0 THEN 0 ELSE read[d][slot]

Init ==
  /\ thread = [d \in Detector |-> "waiting"]
  /\ buffer = [d \in Detector |-> [i \in Slots(d) |-> 0]]
  /\ index = [d \in Detector |-> 0] /\ accel_running_sum = 0
  /\ boost_detected = FALSE /\ flight_cancelled = FALSE
  /\ battery = "waiting" /\ count_below = 0
  /\ main = "checking" /\ saved = [d \in Detector |-> <<>>] /\ unsaved = {}
  /\ read = [d \in Detector |-> <<>>] /\ atLaunch = [d \in Detector |-> 0]

-----------------------------------------------------------------------------
(* The period of a detector is over, or its timer was stopped: it leaves if *)
(* there is nothing left to detect, and begins to read its sensor if not.   *)
LeavesIfCancelled(d) == flight_cancelled
Leaves(d) == boost_detected \/ flight_cancelled

Wake(d) ==
  /\ thread[d] = "waiting"
  /\ thread' = [thread EXCEPT ![d] = IF Leaves(d) THEN "left" ELSE "reading"]
  /\ UNCHANGED <<buffer, index, accel_running_sum, boost_detected, flight_cancelled,
                 battery, count_below, main, saved, unsaved, read, atLaunch>>

(* What is measured when v replaces the oldest reading: the sum of the      *)
(* buffer, or the distance from the oldest altitude if there is one.        *)
MeasuredFromAny(d, oldest, v) ==
  IF d = "accel" THEN accel_running_sum - Value(d, oldest) + v
  ELSE IF v > Value(d, oldest) THEN v - Value(d, oldest) ELSE Value(d, oldest) - v

Measured(d, oldest, v) ==
  IF d = "accel" THEN accel_running_sum - Value(d, oldest) + v
  ELSE IF oldest = 0 THEN 0
  ELSE IF v > Value(d, oldest) THEN v - Value(d, oldest) ELSE Value(d, oldest) - v

(* The average of the accelerations is of the whole buffer, full or not.    *)
Limit(d) == IF d = "accel" THEN Threshold[d] * Size[d] ELSE Threshold[d]

Read(d) ==
  /\ thread[d] = "reading" /\ Len(read[d]) < MaxReadings
  /\ \E v \in Readings[d] :
       LET oldest == buffer[d][index[d]]
           detected == Measured(d, oldest, v) > Limit(d)
       IN  /\ read' = [read EXCEPT ![d] = Append(@, v)]
           /\ buffer' = [buffer EXCEPT ![d][index[d]] = Len(read[d]) + 1]
           /\ index' = [index EXCEPT ![d] = (@ + 1) % Size[d]]
           /\ accel_running_sum' =
                IF d = "accel" THEN Measured(d, oldest, v) ELSE accel_running_sum
           /\ boost_detected' = (boost_detected \/ detected)
           /\ atLaunch' = IF detected /\ ~boost_detected
                        THEN [e \in Detector |-> Len(read'[e])] ELSE atLaunch
           /\ thread' = [thread EXCEPT ![d] = IF detected THEN "left" ELSE "waiting"]
  /\ UNCHANGED <<flight_cancelled, battery, count_below, main, saved, unsaved>>

(* battery_read_task: it looks whether to go on before it waits, so that    *)
(* the timer being stopped makes it read once more; low voltages count for  *)
(* good, whatever is read between them.                                     *)
ReadBattery ==
  /\ battery = "waiting"
  /\ \E low \in BOOLEAN : count_below' = IF low THEN count_below + 1 ELSE count_below
  /\ battery' = CASE count_below' > MaxBelow -> "told"
                   [] count_below' <= MaxBelow /\ (boost_detected \/ flight_cancelled) -> "left"
                   [] OTHER -> "waiting"
  /\ UNCHANGED <<thread, buffer, index, accel_running_sum, boost_detected, flight_cancelled,
                 main, saved, unsaved, read, atLaunch>>

(* grim nogo, from the shell.                                               *)
Cancel ==
  /\ ~flight_cancelled /\ flight_cancelled' = TRUE
  /\ UNCHANGED <<thread, buffer, index, accel_running_sum, boost_detected,
                 battery, count_below, main, saved, unsaved, read, atLaunch>>

-----------------------------------------------------------------------------
(* The main loop on the pad: whether the flight was cancelled, and then,    *)
(* in a step of its own, whether it has begun.                              *)
Check ==
  /\ main = "checking"
  /\ main' = IF flight_cancelled THEN "over" ELSE "on pad"
  /\ UNCHANGED <<thread, buffer, index, accel_running_sum, boost_detected, flight_cancelled,
                 battery, count_below, saved, unsaved, read, atLaunch>>

PadRun ==
  /\ main = "on pad"
  /\ main' = IF boost_detected THEN "accel" ELSE "checking"
  /\ UNCHANGED <<thread, buffer, index, accel_running_sum, boost_detected, flight_cancelled,
                 battery, count_below, saved, unsaved, read, atLaunch>>

(* save_boost_data copies the buffers to their files, the accelerations     *)
(* first, slot by slot under the feet of a detector that is still reading:  *)
(* of the slot that is being written, any mixture may be copied.            *)
Torn == -1
AfterSaving(d) == IF d = "accel" THEN "altitude" ELSE "flying"

SaveSlot ==
  /\ main \in Detector /\ Len(saved[main]) < Size[main]
  /\ LET i == Len(saved[main])
         racing == thread[main] = "reading" /\ index[main] = i
     IN  \E slot \in {buffer[main][i]} \cup (IF racing THEN {Torn} ELSE {}) :
           saved' = [saved EXCEPT ![main] = Append(@, slot)]
  /\ UNCHANGED <<thread, buffer, index, accel_running_sum, boost_detected, flight_cancelled,
                 battery, count_below, main, unsaved, read, atLaunch>>

SaveClose ==
  /\ main \in Detector /\ Len(saved[main]) = Size[main]
  /\ main' = AfterSaving(main)
  /\ UNCHANGED <<thread, buffer, index, accel_running_sum, boost_detected, flight_cancelled,
                 battery, count_below, saved, unsaved, read, atLaunch>>

(* The file is not opened, written or closed: it stays what it was, nobody  *)
(* is told, and save_boost_data goes on.                                    *)
AfterFailureDone(d) == "flying"
AfterFailure(d) == AfterSaving(d)

SaveFails ==
  /\ main \in Detector
  /\ saved' = [saved EXCEPT ![main] = <<>>] /\ unsaved' = unsaved \cup {main}
  /\ main' = AfterFailure(main)
  /\ UNCHANGED <<thread, buffer, index, accel_running_sum, boost_detected, flight_cancelled,
                 battery, count_below, read, atLaunch>>

Next ==
  \/ \E d \in Detector : Wake(d) \/ Read(d)
  \/ ReadBattery \/ Cancel
  \/ Check \/ PadRun \/ SaveSlot \/ SaveClose \/ SaveFails

Spec == Init /\ [][Next]_vars

-----------------------------------------------------------------------------
(* A launch is detected exactly when the accelerations of a buffer's length *)
(* add up to more than the limit, or an altitude is far from the one a      *)
(* buffer's length before it (the two *_boost_reading_task).                *)
First(d, n) == IF n > Size[d] THEN n - Size[d] ELSE 0
Sum(values, first, n) ==
  LET sum[k \in 0..n] == IF k <= first THEN 0 ELSE sum[k - 1] + values[k]
  IN  sum[n]
Launches(d, n) ==
  IF d = "accel" THEN Sum(read[d], First(d, n), n) > Threshold[d] * Size[d]
  ELSE /\ n > Size[d]
       /\ \/ read[d][n] - read[d][n - Size[d]] > Threshold[d]
          \/ read[d][n - Size[d]] - read[d][n] > Threshold[d]

BoostIffLaunched ==
  boost_detected <=> \E d \in Detector : \E n \in 1..Len(read[d]) : Launches(d, n)

(* A file saved at launch has the readings that led to it, all but the      *)
(* oldest of a buffer, whatever the other detector still reads while it is  *)
(* written, and whether or not the other file could be (save_boost_data).   *)
LaunchIsSaved ==
  main = "flying" =>
    \A d \in Detector \ unsaved : \A n \in 1..atLaunch[d] :
      n > atLaunch[d] - Size[d] + 1 => \E i \in DOMAIN saved[d] : saved[d][i] = n
=============================================================================
