----------------------------- MODULE BootCount -----------------------------
(***************************************************************************)
(* The boot counters: l_fs_boot_count_check of launch_core_classic, and    *)
(* increment_int32 of the littlefs and sensor_log samples.  Each opens a   *)
(* file, reads its first word, and writes it back one higher.  LittleFS    *)
(* keeps what was written when the file is closed; the power may go off at *)
(* any step.                                                               *)
(***************************************************************************)
EXTENDS Integers, Sequences

CONSTANTS MaxBoots, MaxFaults   (* bounds *)

VARIABLES
  program,       (* "classic", or "sample"                                  *)
  exists, disk,  (* whether the file is there, and its words                *)
  cache, pos,    (* the open file: its words and the position               *)
  count, pc,
  boots, faults,
  unanswered,    (* whether fs_stat failed in this boot                     *)
  counted        (* how often a new count was written and the file closed,  *)
                 (* since the last time that was done unanswered            *)

vars == <<program, exists, disk, cache, pos, count, pc, boots, faults, unanswered, counted>>

(* The samples count from -1, which makes the first boot number 0.         *)
First == IF program = "classic" THEN 0 ELSE -1

(* The samples do not ask whether the file is there.                       *)
Start == IF program = "classic" THEN "stat" ELSE "create"

Init ==
  /\ program \in {"classic", "sample"}
  /\ exists = FALSE /\ disk = <<>> /\ cache = <<>> /\ pos = 0
  /\ count = First /\ pc = Start /\ boots = 1 /\ faults = 0
  /\ unanswered = FALSE /\ counted = 0

Fails == faults < MaxFaults /\ faults' = faults + 1
Works == UNCHANGED faults

(* After an error the classic one returns at once, the samples close.      *)
GivesUp == Fails /\ pc' = IF program = "classic" THEN "done" ELSE "close"

PutWord(words, at, word) == IF at < Len(words) THEN [words EXCEPT ![at + 1] = word] ELSE Append(words, word)

(* l_fs_boot_count_check takes every error of fs_stat for a missing file.  *)
Stat ==
  /\ pc = "stat"
  /\ \/ Works /\ pc' = (IF exists THEN "open" ELSE "create") /\ UNCHANGED unanswered
     \/ Fails /\ pc' = "create" /\ unanswered' = TRUE
  /\ UNCHANGED <<program, exists, disk, cache, pos, count, boots, counted>>

(* A file that is created is there from now on, with what it has.          *)
Open ==
  /\ pc \in {"open", "create"}
  /\ \/ /\ Works /\ exists' = TRUE /\ cache' = disk /\ pos' = 0
        /\ pc' = IF program = "classic" /\ pc = "create" THEN "zero" ELSE "read"
     \/ Fails /\ pc' = "done" /\ UNCHANGED <<exists, cache, pos>>
  /\ UNCHANGED <<program, disk, count, boots, unanswered, counted>>

WriteZero ==
  /\ pc = "zero"
  /\ \/ Works /\ cache' = PutWord(cache, pos, count) /\ pos' = pos + 1 /\ pc' = "read"
     \/ GivesUp /\ UNCHANGED <<cache, pos>>
  /\ UNCHANGED <<program, exists, disk, count, boots, unanswered, counted>>

(* At the end of the file nothing is read, and count stays what it was.    *)
Read ==
  /\ pc = "read"
  /\ \/ /\ Works /\ pc' = "seek"
        /\ count' = (IF pos < Len(cache) THEN cache[pos + 1] ELSE count) + 1
        /\ pos' = IF pos < Len(cache) THEN pos + 1 ELSE pos
     \/ GivesUp /\ UNCHANGED <<count, pos>>
  /\ UNCHANGED <<program, exists, disk, cache, boots, unanswered, counted>>

(* As if the position were left where it is. *)
SeekNowhere == pos
SeekStart == 0

Seek ==
  /\ pc = "seek"
  /\ \/ Works /\ pos' = SeekStart /\ pc' = "write"
     \/ GivesUp /\ UNCHANGED pos
  /\ UNCHANGED <<program, exists, disk, cache, count, boots, unanswered, counted>>

Write ==
  /\ pc = "write"
  /\ \/ Works /\ cache' = PutWord(cache, pos, count) /\ pos' = pos + 1 /\ pc' = "close"
     \/ GivesUp /\ UNCHANGED <<cache, pos>>
  /\ UNCHANGED <<program, exists, disk, count, boots, unanswered, counted>>

Close ==
  /\ pc = "close" /\ pc' = "done"
  /\ \/ /\ Works /\ disk' = cache
        /\ counted' = IF unanswered THEN 1 ELSE IF cache # disk THEN counted + 1 ELSE counted
     \/ Fails /\ UNCHANGED <<disk, counted>>
  /\ UNCHANGED <<program, exists, cache, pos, count, boots, unanswered>>

(* The power goes off and on again, at any point.                          *)
Boot ==
  /\ boots < MaxBoots /\ boots' = boots + 1
  /\ pc' = Start /\ count' = First /\ cache' = <<>> /\ pos' = 0 /\ unanswered' = FALSE
  /\ UNCHANGED <<program, exists, disk, faults, counted>>

Next == Stat \/ Open \/ WriteZero \/ Read \/ Seek \/ Write \/ Close \/ Boot

-----------------------------------------------------------------------------
(* What the file holds is how often it was written and closed since the    *)
(* last time fs_stat gave no answer: no boot is counted twice, none that   *)
(* was cut short or failed spoils the count or leaves a second word        *)
(* behind, and one without an answer starts it again only if it is closed. *)
CountsClosedBoots ==
  disk = IF counted = 0 THEN <<>> ELSE <<First + counted>>
=============================================================================
