----------------------------- MODULE FlightLog -----------------------------
(***************************************************************************)
(* The flight log (lib/f_core/os/flight_log.cpp) and the choice of its     *)
(* name by the sensor and the deployment module.  A line is three writes;  *)
(* the phase controller logs from the sensing thread and, when a timer     *)
(* expires, from the interrupt, which is over before the thread goes on    *)
(* and which LittleFS's mutex does not keep out: it may fall between two   *)
(* writes of the thread or into one.  Nothing synchronises the file but    *)
(* the end of the program: when the power goes off the file is there, and  *)
(* empty.                                                                  *)
(***************************************************************************)
EXTENDS Naturals, Sequences

CONSTANTS
  MaxNames,      (* 100                                                     *)
  MaxLines, MaxBoots, MaxFaults   (* bounds                                 *)

NamesAssumption == MaxNames \in Nat \ {0}

Names == 0..(MaxNames - 1)
Writers == {"thread", "timer"}

(* The parts of a line: its timestamp, its message and its newline.        *)
Newline == 3

VARIABLES
  files,         (* name -> what is written to it, for the names that exist *)
  disk,          (* the same, as it is on the disk                          *)
  name,          (* the open log, or NoName                                 *)
  unanswered,    (* the names taken because the file system did not answer  *)
  part,          (* writer -> the part of its line it writes next           *)
  line,          (* writer -> its line                                      *)
  inside,        (* whether the thread is in a write, alone or disturbed    *)
  broken,        (* the lines cut by an error, an interrupt or the end      *)
  lines, boots, faults

writing == <<part, line, inside, broken, lines>>
vars == <<files, disk, name, unanswered, writing, boots, faults>>

NoName == MaxNames

Init ==
  /\ files = <<>> /\ disk = <<>> /\ name = NoName /\ unanswered = {}
  /\ part = [w \in Writers |-> 1] /\ line = [w \in Writers |-> 0]
  /\ inside = "no" /\ broken = {} /\ lines = 0 /\ boots = 1 /\ faults = 0

-----------------------------------------------------------------------------
(* generateFlightLogPath: the first name that is not there; after all      *)
(* hundred the last one, and when the file system does not answer the one  *)
(* that was asked for.                                                     *)
FirstOf(taken) == IF Names \subseteq taken THEN 0 ELSE CHOOSE n \in Names \ taken : \A m \in Names \ taken : n <= m
FreeName(taken) ==
  IF Names \subseteq taken THEN MaxNames - 1 ELSE CHOOSE n \in Names \ taken : \A m \in Names \ taken : n <= m

(* The name, and the constructor's open (FS_O_CREATE | FS_O_APPEND).       *)
Opened(n) ==
  /\ name' = n
  /\ files' = [f \in DOMAIN files \cup {n} |-> IF f \in DOMAIN files THEN files[f] ELSE <<>>]
  /\ disk' = [f \in DOMAIN files' |-> IF f \in DOMAIN disk THEN disk[f] ELSE <<>>]

Open ==
  /\ name = NoName
  /\ \/ Opened(FreeName(DOMAIN files)) /\ UNCHANGED <<unanswered, faults>>
     \/ /\ faults < MaxFaults /\ faults' = faults + 1
        /\ \E n \in Names : (\A m \in Names : m < n => m \in DOMAIN files) /\ Opened(n) /\ unanswered' = unanswered \cup {n}
  /\ UNCHANGED <<writing, boots>>

-----------------------------------------------------------------------------
(* CFlightLog::Write, part by part.                                        *)

(* Each line has a number, the last one given so far. *)
Begins(w) ==
  /\ name # NoName /\ (part[w] = 1 => lines < MaxLines)
  /\ lines' = IF part[w] = 1 THEN lines + 1 ELSE lines
  /\ line' = IF part[w] = 1 THEN [line EXCEPT ![w] = lines'] ELSE line

(* As if the file were opened without FS_O_APPEND. *)
WrittenOver(l, e) ==
  LET at == Len(SelectSeq(l, LAMBDA x : x.boot = e.boot)) + 1
  IN  IF at <= Len(l) THEN [l EXCEPT ![at] = e] ELSE Append(l, e)
Appended(l, e) == Append(l, e)

Wrote(w) ==
  files' = [files EXCEPT ![name] =
              Appended(@, [by |-> w, line |-> line'[w], part |-> part[w], boot |-> boots])]
Advances(w) == part' = [part EXCEPT ![w] = IF @ = Newline THEN 1 ELSE @ + 1]
Stops(w) == part' = [part EXCEPT ![w] = 1]

(* An error ends the line.  Of two writes, one inside the other, all, some *)
(* or nothing is in the file, and either may end with an error.            *)
Ends(w, disturbed) ==
  \/ ~disturbed /\ Wrote(w) /\ Advances(w) /\ UNCHANGED <<broken, faults>>
  \/ /\ broken' = broken \cup {line'[w]}
     /\ Wrote(w) \/ UNCHANGED files
     /\ \/ ~disturbed /\ faults < MaxFaults /\ faults' = faults + 1 /\ Stops(w)
        \/ disturbed /\ UNCHANGED faults /\ (Stops(w) \/ Advances(w))

(* As if the timer's work were done by a thread. *)
AnyoneWaits == TRUE
TimerIsDone == part["timer"] = 1

Enter ==
  /\ inside = "no" /\ TimerIsDone /\ Begins("thread") /\ inside' = "alone"
  /\ UNCHANGED <<files, disk, name, unanswered, part, broken, boots, faults>>

Leave ==
  /\ inside # "no" /\ TimerIsDone /\ inside' = "no"
  /\ UNCHANGED <<line, lines>> /\ Ends("thread", inside = "disturbed")
  /\ UNCHANGED <<disk, name, unanswered, boots>>

TimerWrites ==
  /\ Begins("timer") /\ Ends("timer", inside # "no")
  /\ inside' = IF inside = "no" THEN "no" ELSE "disturbed"
  /\ UNCHANGED <<disk, name, unanswered, boots>>

(* The program ends, which may cut a line short, or the power goes off.    *)
IsOver ==
  /\ boots < MaxBoots /\ boots' = boots + 1 /\ name' = NoName
  /\ part' = [w \in Writers |-> 1] /\ inside' = "no"
  /\ broken' = broken \cup {line[w] : w \in {v \in Writers : part[v] # 1}}
  /\ UNCHANGED <<unanswered, line, lines, faults>>

Close == name # NoName /\ inside = "no" /\ TimerIsDone /\ disk' = files /\ UNCHANGED files /\ IsOver

PowerOff == files' = disk /\ UNCHANGED disk /\ IsOver

Next == Open \/ Enter \/ Leave \/ TimerWrites \/ Close \/ PowerOff

-----------------------------------------------------------------------------
(* A log of an earlier flight is left as it is: only the last name, and    *)
(* one the file system did not answer for, ever take two flights, and what *)
(* was closed there stays in front of what the later one writes.           *)
OldLogsKept ==
  /\ \A n \in DOMAIN files \ (unanswered \cup {MaxNames - 1}) :
       \A i, j \in DOMAIN files[n] : files[n][i].boot = files[n][j].boot
  /\ \A n \in DOMAIN files :
       /\ \A i \in DOMAIN disk[n] : i \in DOMAIN files[n] /\ files[n][i] = disk[n][i]
       /\ \A i, j \in DOMAIN files[n] : i < j => files[n][i].boot <= files[n][j].boot

(* The parts of a line follow each other in the file.  None is missing if  *)
(* no write of the line failed, interrupted another or was interrupted,    *)
(* and the line is not being written.  A line of the timer is in one piece.*)
Unfinished(k) == \E w \in Writers : part[w] # 1 /\ line[w] = k
LinesInOrder ==
  \A n \in DOMAIN files : \A j \in DOMAIN files[n] :
    LET this == files[n][j]
        ofThis == {i \in DOMAIN files[n] : files[n][i].line = this.line}
    IN  /\ \A i \in ofThis : i < j => files[n][i].part < this.part
        /\ this.line \notin broken =>
             /\ \A p \in 1..this.part : \E i \in ofThis : files[n][i].part = p
             /\ Unfinished(this.line) \/ \E i \in ofThis : files[n][i].part = Newline
        /\ this.by = "timer" =>
             \A i \in ofThis : \A k \in DOMAIN files[n] : i <= k /\ k <= j => k \in ofThis
=============================================================================
