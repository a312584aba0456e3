----------------------------- MODULE SensorLog -----------------------------
(***************************************************************************)
(* The frame files of launch_core_classic (lib/.../os/fs.c: l_fs_init,     *)
(* l_fs_write) and the two that the sensor_log sample keeps: it writes     *)
(* samples to a circular file until the field is large or the time is up,  *)
(* and then to one that is written once.  A file is only synchronised      *)
(* where the next frame would not fit, and is never closed.                *)
(***************************************************************************)
EXTENDS Naturals, Sequences

CONSTANTS
  Size,          (* file -> the frames it takes: 100 and 300                *)
  MaxSamples, MaxBoots, MaxFaults   (* bounds                               *)

LogFiles == {"detect", "flight"}
SizeAssumption == Size \in [LogFiles -> Nat \ {0}]
Mode(file) == IF file = "detect" THEN "SLOG_CIRC" ELSE "SLOG_ONCE"

VARIABLES
  disk, cache,   (* file -> its frames, synchronised and as written         *)
  wpos,          (* file -> where its next frame goes                       *)
  pc,            (* "init", "detect", "flight", "over"                      *)
  sample,        (* samples read from the magnetometer since power on       *)
  boots, faults

vars == <<disk, cache, wpos, pc, sample, boots, faults>>

Empty == [f \in LogFiles |-> <<>>]

Init ==
  /\ disk = Empty /\ cache = Empty /\ wpos = [f \in LogFiles |-> 0]
  /\ pc = "init" /\ sample = 0 /\ boots = 1 /\ faults = 0

Fails == faults < MaxFaults /\ faults' = faults + 1
Frame == [boot |-> boots, time |-> sample + 1]

(* l_fs_init of the two, each of which opens its file without emptying it. *)
Open ==
  /\ pc = "init"
  /\ \/ pc' = "detect" /\ UNCHANGED faults
     \/ pc' = "over" /\ Fails
  /\ UNCHANGED <<disk, cache, wpos, sample, boots>>

-----------------------------------------------------------------------------
FullEarly(file) == wpos[file] + 2 > Size[file]
Full(file) == wpos[file] + 1 > Size[file]

(* l_fs_write: synchronise where the file is full, and wrap around.  The   *)
(* result of fs_sync is ignored: the disk may have been left as it was.    *)
Synced(file) ==
  \/ disk' = disk
  \/ Full(file) /\ disk' = [disk EXCEPT ![file] = cache[file]]
Start(file) == IF Full(file) THEN 0 ELSE wpos[file]

Put(file, frame) ==
  LET at == Start(file) IN
  /\ cache' = [cache EXCEPT ![file] =
       IF at < Len(@) THEN [@ EXCEPT ![at + 1] = frame] ELSE Append(@, frame)]
  /\ wpos' = [wpos EXCEPT ![file] = at + 1] /\ UNCHANGED faults

(* The seek or the write fails after the wrap.                             *)
PutFails(file) == Fails /\ wpos' = [wpos EXCEPT ![file] = Start(file)] /\ UNCHANGED cache

Read == sample < MaxSamples /\ sample' = sample + 1

(* As if the field were looked at before the sample is written. *)
DetectLooksFirst ==
  /\ pc = "detect" /\ Read
  /\ \/ Synced("detect") /\ Put("detect", Frame) /\ pc' = "detect"
     \/ Fails /\ pc' = "over" /\ UNCHANGED <<disk, cache, wpos>>
     \/ pc' = "flight" /\ UNCHANGED <<disk, cache, wpos, faults>>
  /\ UNCHANGED boots

(* One turn of the first loop: the field of the sample may be large.       *)
Detect ==
  /\ pc = "detect" /\ Read
  /\ \/ Synced("detect") /\ Put("detect", Frame) /\ pc' \in {"detect", "flight"}
     \/ Synced("detect") /\ PutFails("detect") /\ pc' = "over"
     \/ Fails /\ pc' = "over" /\ UNCHANGED <<disk, cache, wpos>>
  /\ UNCHANGED boots

TimeIsUp == pc = "detect" /\ pc' = "flight" /\ UNCHANGED <<disk, cache, wpos, sample, boots, faults>>

(* One turn of the second, which ends where the file is full.              *)
Flight ==
  /\ pc = "flight" /\ Read
  /\ \/ Fails /\ pc' = "over" /\ UNCHANGED <<disk, cache, wpos>>
     \/ Full("flight") /\ Synced("flight") /\ pc' = "over" /\ UNCHANGED <<cache, wpos, faults>>
     \/ ~Full("flight") /\ Synced("flight") /\ Put("flight", Frame) /\ UNCHANGED pc
     \/ ~Full("flight") /\ Synced("flight") /\ PutFails("flight") /\ pc' = "over"
  /\ UNCHANGED boots

(* The power goes off and on: what was not synchronised is gone.           *)
Boot ==
  /\ boots < MaxBoots /\ boots' = boots + 1
  /\ cache' = disk /\ wpos' = [f \in LogFiles |-> 0] /\ pc' = "init" /\ sample' = 0
  /\ UNCHANGED <<disk, faults>>

Next == Open \/ Detect \/ TimeIsUp \/ Flight \/ Boot

-----------------------------------------------------------------------------
Now(file) == {i \in DOMAIN cache[file] : cache[file][i].boot = boots}
Newest(file) == {cache[file][i].time : i \in Now(file)}

(* The flight buffer's times pick up where those of the detection buffer   *)
(* end, and neither has a gap: together they are the latest samples of     *)
(* this boot, without those that the circular file has overwritten.        *)
PicksUp ==
  LET seen == Newest("detect") \cup Newest("flight") IN
  /\ pc = "flight" => sample \in seen \/ sample = 0
  /\ \A t \in Newest("flight") : \A u \in Newest("detect") : u < t
  /\ \A t, u \in seen : \A v \in t..u : v \in seen

(* What is left on the disk is whole: as many frames as the file takes,    *)
(* all of one boot and one after the other, whenever the power goes off.   *)
WholeLaps ==
  \A f \in LogFiles :
    \/ disk[f] = <<>>
    \/ /\ Len(disk[f]) = Size[f]
       /\ \A i \in 1..(Size[f] - 1) :
            disk[f][i + 1] = [disk[f][i] EXCEPT !.time = @ + 1]
=============================================================================
