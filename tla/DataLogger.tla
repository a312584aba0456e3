----------------------------- MODULE DataLogger -----------------------------
(***************************************************************************)
(* detail::datalogger (lib/f_core/os/c_datalogger.cpp) in its three modes. *)
(* The file is a sequence of packets.  A start opens it at its beginning   *)
(* without emptying it; LittleFS keeps what was written when it is closed. *)
(***************************************************************************)
EXTENDS Naturals, Sequences

CONSTANTS
  num_packets,
  MaxPackets, MaxBoots, MaxFaults   (* bounds                               *)

LoggerAssumption == num_packets \in Nat \ {0}

VARIABLES
  mode, opened,
  disk, cache, pos,
  written,       (* the packets whose write succeeded since the start       *)
  before,        (* the file at the start                                   *)
  missed,        (* how often since the start a packet was written behind   *)
                 (* the end of a circular file, fs_seek having failed       *)
  packets, boots, faults

vars == <<mode, opened, disk, cache, pos, written, before, missed, packets, boots, faults>>

Init ==
  /\ mode \in {"Growing", "FixedSize", "Circular"} /\ opened \in BOOLEAN
  /\ disk = <<>> /\ cache = <<>> /\ pos = 0 /\ written = <<>> /\ before = <<>>
  /\ missed = 0 /\ packets = 0 /\ boots = 1 /\ faults = 0

(* fs_write at the position of the file. *)
Stored(at, packet) ==
  /\ cache' = IF at < Len(cache) THEN [cache EXCEPT ![at + 1] = packet] ELSE Append(cache, packet)
  /\ pos' = at + 1 /\ written' = Append(written, packet)

Fault == faults < MaxFaults /\ faults' = faults + 1
Failed(at) == Fault /\ pos' = at /\ UNCHANGED <<cache, written, missed>>

OneTooMany(index) == index > num_packets
AtEnd(index) == index >= num_packets

(* A circular file begins again when it is full; nobody looks whether the  *)
(* fs_seek that takes it there succeeds, and it may without the fs_write.  *)
WriteCircular ==
  \/ ~AtEnd(pos) /\ Stored(pos, packets') /\ UNCHANGED <<missed, faults>>
  \/ AtEnd(pos) /\ Stored(0, packets') /\ UNCHANGED <<missed, faults>>
  \/ AtEnd(pos) /\ Stored(pos, packets') /\ missed' = missed + 1 /\ Fault
  \/ AtEnd(pos) /\ Failed(0)

(* datalogger::write.  A file of fixed size takes no more when it is full  *)
(* (and says so with a positive number).                                   *)
Write ==
  /\ packets < MaxPackets /\ packets' = packets + 1
  /\ IF ~opened THEN UNCHANGED <<cache, pos, written, missed, faults>>
     ELSE \/ Failed(pos)
          \/ mode = "Growing" /\ Stored(pos, packets') /\ UNCHANGED <<missed, faults>>
          \/ mode = "FixedSize" /\ ~AtEnd(pos) /\ Stored(pos, packets') /\ UNCHANGED <<missed, faults>>
          \/ mode = "FixedSize" /\ AtEnd(pos) /\ UNCHANGED <<cache, pos, written, missed, faults>>
          \/ mode = "Circular" /\ WriteCircular
  /\ UNCHANGED <<mode, opened, disk, before, boots>>

Close ==
  /\ opened /\ opened' = FALSE /\ disk' = cache
  /\ UNCHANGED <<mode, cache, pos, written, before, missed, packets, boots, faults>>

(* The power goes off, and the constructor opens the file or fails to.     *)
Start ==
  /\ boots < MaxBoots /\ boots' = boots + 1 /\ opened' \in BOOLEAN
  /\ cache' = disk /\ before' = disk /\ pos' = 0 /\ written' = <<>> /\ missed' = 0
  /\ UNCHANGED <<mode, disk, packets, faults>>

Next == Write \/ Close \/ Start

-----------------------------------------------------------------------------
(* A file keeps the size that was asked for, over failures and restarts; a *)
(* circular one grows by a packet with every fs_seek that fails.           *)
SizeKept ==
  /\ mode = "FixedSize" => Len(cache) <= num_packets
  /\ mode = "Circular" =>
       Len(cache) <= missed + (IF Len(before) > num_packets THEN Len(before) ELSE num_packets)

(* Where packet j of a run belongs. *)
Place(j) == IF mode = "Circular" THEN ((j - 1) % num_packets) + 1 ELSE j

(* The file is, place by place, the last packet of this run that belongs   *)
(* there, and where there is none what was there at the start.             *)
EachInItsPlace ==
  \A i \in DOMAIN cache :
    LET here == {j \in DOMAIN written : Place(j) = i} IN
    cache[i] = IF here = {} THEN before[i] ELSE written[CHOOSE j \in here : \A k \in here : k <= j]

(* The newest packets are there, as many as were asked for, even where a   *)
(* fs_seek that failed has shifted them.                                   *)
NewestKept ==
  mode = "Circular" =>
    \A j \in DOMAIN written :
      j + num_packets > Len(written) => \E i \in DOMAIN cache : cache[i] = written[j]

NewOverOld == SizeKept /\ NewestKept /\ (missed = 0 => EachInItsPlace)
=============================================================================
