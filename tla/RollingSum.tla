----------------------------- MODULE RollingSum -----------------------------
(***************************************************************************)
(* CRollingSum over a CCircularBuffer, and FindSlope, the line fit that    *)
(* tells the velocity (include/f_core/utils).  Numbers are integers here,  *)
(* so that the slope is a fraction and what rounding does is left out.     *)
(***************************************************************************)
EXTENDS Integers, Sequences

CONSTANTS
  len,           (* the window                                              *)
  Gaps, Values,  (* the x from one sample to the next, and the y            *)
  MaxFed         (* bound                                                   *)

WindowAssumption ==
  /\ len \in Nat \ {0} /\ MaxFed \in Nat
  /\ Gaps \subseteq Int /\ Values \subseteq Int

VARIABLES
  underlying, oldest_index,   (* the circular buffer                        *)
  total,         (* the rolling sum                                         *)
  fed            (* the samples since the last Fill, as x and y             *)

vars == <<underlying, oldest_index, total, fed>>

Sample(x, y) == [x |-> x, y |-> y, xx |-> x * x, xy |-> x * y]
Plus(a, b) == [f \in DOMAIN a |-> a[f] + b[f]]
Minus(a, b) == [f \in DOMAIN a |-> a[f] - b[f]]
Zero == Sample(0, 0)

(* Fill adds up the samples, all of which are the same.                    *)
Filled(s) == underlying' = [i \in 0..(len - 1) |-> s] /\ total' = [f \in DOMAIN s |-> len * s[f]]

Init ==
  /\ underlying = [i \in 0..(len - 1) |-> Zero] /\ total = Zero
  /\ oldest_index = 0 /\ fed = <<>>

Fill ==
  /\ fed # <<>> /\ fed' = <<>>
  /\ \E y \in Values : Filled(Sample(0, y))
  /\ UNCHANGED oldest_index

(* As if the newest sample were taken for the oldest. *)
PreviousIndex == (oldest_index + len - 1) % len
OldestIndex == oldest_index

Feed ==
  /\ Len(fed) < MaxFed
  /\ \E gap \in Gaps, y \in Values :
       LET new == Sample((IF fed = <<>> THEN 0 ELSE fed[Len(fed)].x) + gap, y) IN
       /\ total' = Plus(Minus(total, underlying[OldestIndex]), new)
       /\ underlying' = [underlying EXCEPT ![oldest_index] = new]
       /\ fed' = Append(fed, new)
  /\ oldest_index' = (oldest_index + 1) % len

Next == Fill \/ Feed

At(index) == underlying[(oldest_index + index) % len]

(* FindSlope: the slope is Rise over Run, or none when Run is 0.           *)
Swapped == total.xy * total.x - total.y * total.xx
Rise == len * total.xy - total.x * total.y
Run == len * total.xx - total.x * total.x

-----------------------------------------------------------------------------
SumOf(samples) ==
  LET sum[i \in 0..Len(samples)] == IF i = 0 THEN Zero ELSE Plus(sum[i - 1], samples[i])
  IN  sum[Len(samples)]

(* Once the window is full its sum and its order are those of the last     *)
(* samples fed, however often it went round or was filled before.          *)
WindowIsLatest ==
  Len(fed) >= len =>
    LET last == SubSeq(fed, Len(fed) - len + 1, Len(fed))
    IN total = SumOf(last) /\ \A i \in 1..len : At(i - 1) = last[i]

(* When the latest samples are on a line, the fit finds its slope, and     *)
(* finds none only when they are all at the same x.                        *)
SlopeOfLine ==
  Len(fed) >= len =>
    LET last == SubSeq(fed, Len(fed) - len + 1, Len(fed)) IN
    /\ Run = 0 <=> \A i \in 1..len : last[i].x = last[1].x
    /\ \A dx \in 1..2, dy \in -3..3 :
         (\A i \in 1..len : dx * (last[i].y - last[1].y) = dy * (last[i].x - last[1].x))
           => Rise * dx = Run * dy
=============================================================================
