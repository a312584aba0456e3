----------------------------- MODULE Debouncer -----------------------------
(***************************************************************************)
(* CDebouncer (include/f_core/utils/debouncer.hpp): whether a value has    *)
(* been on the right side of a threshold for longer than a duration.       *)
(* Timestamps are unsigned and their difference wraps; the largest one     *)
(* doubles as the mark for "no sample has passed".                         *)
(***************************************************************************)
EXTENDS Naturals

CONSTANT TimestampMod   (* 2^32 for the uint32_t of the source              *)

TimestampAssumption == TimestampMod \in Nat \ {0}

Timestamp  == 0..(TimestampMod - 1)
NOT_PASSED == TimestampMod - 1

CDebouncer == [firstTimePassed : Timestamp, lastTimePassed : Timestamp]

Fresh == [firstTimePassed |-> NOT_PASSED, lastTimePassed |-> NOT_PASSED]

(* As if differences saturated. *)
MinusSaturated(a, b) == IF a >= b THEN a - b ELSE 0

(* The timestamp the program sees at time t, and the wrapping difference. *)
Stamp(t) == t % TimestampMod
Minus(a, b) == (a + TimestampMod - b) % TimestampMod

(* Feed(t, new_value), where passes says whether passesOne(new_value). *)
Feed(d, t, passes) ==
  IF ~passes THEN Fresh
  ELSE [firstTimePassed |-> IF d.firstTimePassed = NOT_PASSED THEN t ELSE d.firstTimePassed,
        lastTimePassed  |-> t]

(* As if the comparison were >=. *)
PassedAtDuration(d, duration) ==
  /\ d.firstTimePassed # NOT_PASSED
  /\ d.lastTimePassed # NOT_PASSED
  /\ Minus(d.lastTimePassed, d.firstTimePassed) >= duration

Passed(d, duration) ==
  /\ d.firstTimePassed # NOT_PASSED
  /\ d.lastTimePassed # NOT_PASSED
  /\ Minus(d.lastTimePassed, d.firstTimePassed) > duration
=============================================================================
