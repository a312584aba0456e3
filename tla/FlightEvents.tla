---------------------------- MODULE FlightEvents ----------------------------
(***************************************************************************)
(* What a phase controller promises to the rest of a flight computer: an   *)
(* event of the flight occurs at most once, it never un-occurs, it occurs  *)
(* only when its decision function accepts the sources that reported it,   *)
(* and a timer reports only after the event that starts it.                *)
(***************************************************************************)
CONSTANTS
  Event,         (* the events of a flight (EventID)                        *)
  Source,        (* the mechanisms that detect events (SourceID)            *)
  Timer,         (* indices of the timer-triggered events                   *)
  timer_events,  (* Timer -> [start, event, source]                         *)
  deciders,      (* Event -> the sets of sources its decider accepts        *)
  Reports        (* the <<source, event>> pairs that threads may report     *)

VARIABLES
  reported,      (* Event -> sources that reported it                       *)
  occured        (* the events that have occured                            *)

vars == <<reported, occured>>

Init == /\ reported = [e \in Event |-> {}]
        /\ occured = {}

(* A source reports an event, which may be what makes it occur. *)
Report(s, e) ==
  /\ reported' = [reported EXCEPT ![e] = @ \cup {s}]
  /\ \/ occured' = occured
     \/ /\ reported[e] \cup {s} \in deciders[e]
        /\ occured' = occured \cup {e}

ThreadReport == \E r \in Reports : Report(r[1], r[2])

TimerReport(t) == /\ timer_events[t].start \in occured
                  /\ Report(timer_events[t].source, timer_events[t].event)

(* The reports gathered so far are found to be enough. *)
Agree(e) == /\ reported[e] \in deciders[e]
            /\ occured' = occured \cup {e}
            /\ UNCHANGED reported

Next == \/ ThreadReport
        \/ \E t \in Timer : TimerReport(t)
        \/ \E e \in Event : Agree(e)

Spec == Init /\ [][Next]_vars
=============================================================================
