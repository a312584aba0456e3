--------------------------- MODULE DebouncerFeed ---------------------------
(***************************************************************************)
(* A debouncer that is fed samples at growing times.  since remembers the  *)
(* real time of the first of the samples that have passed without a        *)
(* failing one between them, which the debouncer has to infer from wrapped *)
(* timestamps.                                                             *)
(***************************************************************************)
EXTENDS Debouncer

CONSTANTS
  Duration,      (* the duration the debouncer is built with                *)
  Gaps,          (* times that may pass between samples                     *)
  MaxTime        (* bound: the last time a sample is fed                    *)

FeedAssumption == Duration \in Nat /\ Gaps \in SUBSET Nat /\ MaxTime \in Nat

VARIABLES
  debouncer,     (* the object                                              *)
  now,           (* time of the last sample                                 *)
  since          (* time at which the current run of passing samples began, *)
                 (* None when the last sample did not pass                  *)

vars == <<debouncer, now, since>>

None == MaxTime + 1

TypeOK == /\ debouncer \in CDebouncer
          /\ now \in 0..MaxTime
          /\ since \in 0..None

Init == debouncer = Fresh /\ now = 0 /\ since = None

Sample(gap, passes) ==
  /\ now + gap <= MaxTime
  /\ now' = now + gap
  /\ debouncer' = Feed(debouncer, Stamp(now'), passes)
  /\ since' = IF ~passes THEN None ELSE IF since = None THEN now' ELSE since

Next == \E gap \in Gaps, passes \in BOOLEAN : Sample(gap, passes)

Spec == Init /\ [][Next]_vars

(* A debouncer never passes early: if it says so, every sample of more     *)
(* than the last Duration has passed, wherever the timestamps wrapped and  *)
(* whichever of them happened to equal the mark.                           *)
NeverEarly == Passed(debouncer, Duration) => since # None /\ now - since > Duration

(* What the debouncer's test asserts (app/tests/utils/main.cpp) - once the *)
(* value has been over for the duration, the debouncer passes - but for    *)
(* the mark: it passes unless the last sample or the first one of the run  *)
(* carried it, or the run outlasts the timestamps.                         *)
PassesUnlessMarked ==
  /\ since # None
  /\ now - since > Duration
  /\ now - since < TimestampMod
  /\ Stamp(now) # NOT_PASSED
  /\ Stamp(since) # NOT_PASSED
  => Passed(debouncer, Duration)
=============================================================================
