---------------------------- MODULE GrimReefer -----------------------------
(***************************************************************************)
(* The grim reefer payload (.retired/app_grim_reefer) from power-on to the *)
(* end of a flight: the main thread and its state machine, the threads     *)
(* that read sensors once the flight has begun, the thread that stores     *)
(* what they read, and the cameras, over power cycles.  When a             *)
(* launch is detected is in BoostDetect; here it is at any time.  How long *)
(* sleeps and timers take is not modelled: they end at any time.           *)
(***************************************************************************)
EXTENDS Integers, Sequences, FiniteSets, Functions

CONSTANTS
  Files,         (* fast, slow and adc, as they are opened and closed        *)
  LooksFirst,    (* those that test flight_over before they wait             *)
  Pack,          (* Pack[r]: readings to a record; ten for the ADC           *)
  QueueSize,     (* STORAGE_QUEUE_SIZE                                       *)
  MaxRecords,    (* bound: records of each thread in a flight                *)
  MaxBoots,      (* bound: times the power comes on                          *)
  MaxWriteFaults (* bound: failing calls of the file system                  *)

(* Each reading thread has a queue and a file of its own. *)
Reader == Range(Files)

PackAssumption == Pack \in [Reader -> Nat \ {0}]

VARIABLES
  main,                              (* where the main thread is             *)
  boost_detected, flight_cancelled, flight_over,
  cam,                               (* the camera pin                       *)
  reader, readings,                  (* each reading thread, and its count   *)
  queue, control,                    (* the message queues                   *)
  storage,                           (* where the storage thread is          *)
  opened, contents,                  (* its files, and what is written       *)
  saved,                             (* the files as a power cycle finds them *)
  power, writeFaults,                (* boots and faults so far              *)
  lost,                              (* records of no queue and no file      *)
  backlog                            (* the queues when storage is to finish *)

flags == <<boost_detected, flight_cancelled, flight_over>>
reading == <<reader, readings>>
queues == <<queue, control>>
storing == <<storage, opened, contents, saved>>
bounds == <<power, writeFaults>>
vars == <<main, flags, cam, reading, queues, storing, bounds, lost, backlog>>

Nothing == [r \in Reader |-> <<>>]
NoneYet == [r \in Reader |-> 0]

Init ==
  /\ main = "setup" /\ cam = "unset"
  /\ boost_detected = FALSE /\ flight_cancelled = FALSE /\ flight_over = FALSE
  /\ reader = [r \in Reader |-> "asleep"] /\ readings = NoneYet
  /\ queue = Nothing /\ control = <<>>
  /\ storage = "waiting" /\ opened = <<>> /\ contents = Nothing
  /\ lost = NoneYet /\ backlog = Nothing
  /\ saved = Nothing /\ power = 1 /\ writeFaults = 0

-----------------------------------------------------------------------------
(* The main thread.                                                        *)

SetCam(to) == cam' = IF cam = "unset" THEN cam ELSE to

(* gpio_init reports an error and goes on.  The pins come up active and   *)
(* are cleared together at the end: if the buzzer's, the last, fails, the   *)
(* cameras stay on; if one before the cameras' does, they stay without pin. *)
Setup ==
  /\ main = "setup" /\ main' = "begin storage"
  /\ cam' \in {"unset", "on", "off"}
  /\ control' = <<"BEGIN_STORAGE">>
  /\ UNCHANGED <<flags, reading, queue, storing, bounds, lost, backlog>>

start_data_storage_thread ==
  /\ main = "begin storage" /\ storage # "waiting"
  /\ main' = "pad check"
  /\ UNCHANGED <<flags, cam, reading, queues, storing, bounds, lost, backlog>>

(* The loop tests for a cancelled flight before it runs a state, that of    *)
(* the flight too, and then leaves without the exit of the state it is in.  *)
Terminate == main' = "over" /\ SetCam("off")

Check ==
  /\ main \in {"pad check", "flight check"}
  /\ \/ flight_cancelled /\ Terminate
     \/ /\ ~flight_cancelled /\ UNCHANGED cam
        /\ main' = IF main = "pad check" THEN "pad run" ELSE "in flight"
  /\ UNCHANGED <<flags, reading, queues, storing, bounds, lost, backlog>>

(* flight_state_entry wakes the reading threads and starts their timers.    *)
PadRun ==
  /\ main = "pad run"
  /\ \/ /\ boost_detected
        /\ main' = "flight check" /\ SetCam("on")
        /\ reader' = [r \in Reader |-> "waiting"]
     \/ /\ ~boost_detected
        /\ main' = "pad check"
        /\ UNCHANGED <<cam, reader>>
  /\ UNCHANGED <<flags, readings, queues, storing, bounds, lost, backlog>>

(* The flight's time is over; main sleeps while the threads should leave.   *)
FlightOver ==
  /\ main = "in flight" /\ main' = "stopping" /\ flight_over' = TRUE
  /\ UNCHANGED <<boost_detected, flight_cancelled, cam, reading, queues, storing, bounds, lost, backlog>>

(* stop_data_reading and the entry of the landed state.                     *)
finish_data_storage ==
  /\ main = "stopping" /\ main' = "finishing"
  /\ control' = Append(control, "FINISH_STORAGE")
  /\ backlog' = queue
  /\ UNCHANGED <<flags, cam, reading, queue, storing, bounds, lost>>

LandedEntered ==
  /\ main = "finishing" /\ main' = "landed"
  /\ UNCHANGED <<flags, cam, reading, queues, storing, bounds, lost, backlog>>

(* Cancelled, or the cameras' extra time is over.                           *)
LandedOver ==
  /\ main = "landed" /\ Terminate
  /\ UNCHANGED <<flags, reading, queues, storing, bounds, lost, backlog>>

MainStep == \/ Setup \/ start_data_storage_thread \/ Check \/ PadRun
            \/ FlightOver \/ finish_data_storage \/ LandedEntered \/ LandedOver

(* The detectors of BoostDetect, while the main thread waits for them, and  *)
(* the shell.                                                               *)
Detect ==
  /\ main \in {"pad check", "pad run"} /\ ~boost_detected /\ boost_detected' = TRUE
  /\ UNCHANGED <<main, flight_cancelled, flight_over, cam, reading, queues, storing, bounds, lost, backlog>>

Nogo ==
  /\ ~flight_cancelled /\ flight_cancelled' = TRUE
  /\ UNCHANGED <<main, boost_detected, flight_over, cam, reading, queues, storing, bounds, lost, backlog>>

-----------------------------------------------------------------------------
(* The reading threads.  A period is over, or the timer was stopped.        *)
Wake(r) ==
  /\ reader[r] = "waiting"
  /\ reader' = [reader EXCEPT ![r] = IF r \notin LooksFirst /\ flight_over THEN "left" ELSE "reading"]
  /\ UNCHANGED <<main, flags, cam, readings, queues, storing, bounds, lost, backlog>>

FullPackEarly(r, n) == (n + 1) % Pack[r] = 0
FullPack(r, n) == n % Pack[r] = 0

(* k_msgq_put with K_NO_WAIT: a record that finds the queue full is lost.   *)
Read(r) ==
  /\ reader[r] = "reading" /\ readings[r] < MaxRecords[r] * Pack[r]
  /\ readings' = [readings EXCEPT ![r] = @ + 1]
  /\ LET full == FullPack(r, readings'[r])
         record == [boot |-> power, n |-> readings'[r] \div Pack[r]]
         fits == Len(queue[r]) < QueueSize
     IN  /\ queue' = IF full /\ fits THEN [queue EXCEPT ![r] = Append(@, record)] ELSE queue
         /\ lost' = IF full /\ ~fits THEN [lost EXCEPT ![r] = @ + 1] ELSE lost
  /\ reader' = [reader EXCEPT ![r] = IF r \in LooksFirst /\ flight_over THEN "left" ELSE "waiting"]
  /\ UNCHANGED <<main, flags, cam, control, storing, bounds, backlog>>

-----------------------------------------------------------------------------
(* The storage thread.                                                     *)

Fault == writeFaults < MaxWriteFaults /\ writeFaults' = writeFaults + 1

Open ==
  /\ storage = "waiting" /\ control # <<>>
  /\ control' = Tail(control)
  /\ \/ storage' = "polling" /\ opened' = Files /\ UNCHANGED writeFaults
     \/ storage' = "failed" /\ Fault /\ UNCHANGED opened
  /\ UNCHANGED <<main, flags, cam, reading, queue, contents, saved, power, lost, backlog>>

(* One round of the loop: one record of every queue that has one, and then  *)
(* the order to finish - which may not come first, nor go unpolled.         *)
Taken == {r \in Reader : queue[r] # <<>>}

PollsData == Taken # {}
Polls == Taken # {} \/ control # <<>>

Store ==
  /\ storage = "polling" /\ Polls
  /\ queue' = [r \in Reader |-> IF r \in Taken THEN Tail(queue[r]) ELSE queue[r]]
  /\ \E failing \in {{}} \cup {{r} : r \in Taken} :
       /\ contents' = [r \in Reader |-> IF r \in Taken \ failing
                                        THEN Append(contents[r], Head(queue[r])) ELSE contents[r]]
       /\ lost' = [r \in Reader |-> IF r \in failing THEN lost[r] + 1 ELSE lost[r]]
       /\ IF failing = {} THEN UNCHANGED writeFaults ELSE Fault
  /\ storage' = IF control = <<>> THEN "polling" ELSE "closing"
  /\ control' = <<>>
  /\ UNCHANGED <<main, flags, cam, reading, opened, saved, power, backlog>>

(* The files are opened without FS_O_TRUNC or FS_O_APPEND, and only what is *)
(* closed outlives the power: the new records replace as many old ones.     *)
AppendedTo(old, new) == old \o new
WrittenOver(old, new) == new \o SubSeq(old, Len(new) + 1, Len(old))

Close ==
  /\ storage = "closing"
  /\ LET r == Head(opened) IN
       \/ /\ saved' = [saved EXCEPT ![r] = WrittenOver(@, contents[r])]
          /\ UNCHANGED writeFaults
       \/ Fault /\ UNCHANGED saved
  /\ opened' = Tail(opened)
  /\ storage' = IF opened' = <<>> THEN "done" ELSE "closing"
  /\ UNCHANGED <<main, flags, cam, reading, queues, contents, power, lost, backlog>>

StorageStep == Open \/ Store \/ Close

(* Everything in memory is lost, and what was written to open files. *)
PowerCycle ==
  /\ power < MaxBoots /\ power' = power + 1
  /\ main' = "setup" /\ cam' = "unset"
  /\ boost_detected' = FALSE /\ flight_cancelled' = FALSE /\ flight_over' = FALSE
  /\ reader' = [r \in Reader |-> "asleep"] /\ readings' = NoneYet
  /\ queue' = Nothing /\ control' = <<>>
  /\ storage' = "waiting" /\ opened' = <<>> /\ contents' = Nothing
  /\ lost' = NoneYet /\ backlog' = Nothing
  /\ UNCHANGED <<saved, writeFaults>>

Next ==
  \/ MainStep \/ Detect \/ Nogo
  \/ \E r \in Reader : Wake(r) \/ Read(r)
  \/ StorageStep \/ PowerCycle

Spec == Init /\ [][Next]_vars
FairSpec == Spec /\ WF_vars(MainStep) /\ WF_vars(StorageStep)

-----------------------------------------------------------------------------
(* Every record of a flight is in its file, in its queue, or was lost to a  *)
(* full queue or a failing write, and the order is that of the readings.    *)
RecordsAccountedFor ==
  \A r \in Reader :
    LET here == contents[r] \o queue[r]
    IN  /\ Len(here) + lost[r] = readings[r] \div Pack[r]
        /\ \A i, j \in DOMAIN here : i < j => here[i].n < here[j].n

(* What finish_data_storage promises (data_storage.h:42, "save everything   *)
(* to disk"): every record that was queued when it was called is in its     *)
(* file, if no call failed.                                                 *)
FinishSavesAll ==
  storage = "done" /\ writeFaults = 0 =>
    \A r \in Reader : Range(backlog[r]) \subseteq Range(saved[r])

(* A file begins with the latest flight that was closed and goes on with    *)
(* what that flight did not reach of the flights before it, each in order   *)
(* (OPEN_OR_FAIL, fs_close); a flight that lost its power leaves no trace.  *)
NewestFirst ==
  \A r \in Reader : \A i, j \in DOMAIN saved[r] :
    i < j => \/ saved[r][i].boot > saved[r][j].boot
             \/ saved[r][i].boot = saved[r][j].boot /\ saved[r][i].n < saved[r][j].n

(* A flight that is under way ends with the files closed and the cameras    *)
(* off, whenever it is cancelled; one that is cancelled before the loop has *)
(* come to it has the cameras off, but its files are never closed; unless   *)
(* the power goes off and it is set up again (main, landed_state_run).      *)
RecordingEnds ==
  /\ main = "in flight"
       ~> \/ main = "setup"
          \/ main = "over" /\ cam # "on" /\ storage \in {"done", "failed"}
  /\ main = "flight check"
       ~> \/ main \in {"setup", "in flight"}
          \/ main = "over" /\ cam # "on" /\ flight_cancelled
=============================================================================
