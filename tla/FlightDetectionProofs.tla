----------------------- MODULE FlightDetectionProofs -----------------------
(***************************************************************************)
(* That the phases of a flight come in order, proved for any times of the  *)
(* timers and the debouncers, any timestamps and any readings.             *)
(*                                                                         *)
(* The handler calls SubmitEvent for one event at each of its places, so   *)
(* boost can only be dispatched in a run that began on the pad, at a time  *)
(* the handler still has; what the timers and barometers report later is   *)
(* later than that by what the timers were set to.                         *)
(***************************************************************************)
EXTENDS FlightDetection, Integers, TLAPS

(* The time of the run in which boost was dispatched, whether the handler  *)
(* has stored it or is about to.                                           *)
FlightStart == IF boost_detected_time = BOOST_NOT_YET_HAPPENED THEN uptime ELSE boost_detected_time

Began == HasEventOccured("Boost")

(* Where a call of SubmitEvent for an event may still be running.          *)
CallPlaces ==
  ({"boost_adxl375", "boost_time"} \X {"Boost"}) \cup ({"noseover_bmp388", "ground"} \X {"Noseover"})
    \cup ({"ground_bmp388", "return"} \X {"GroundHit"})

CallInPlace ==
  pc[sensing] # "idle" =>
    /\ pc[sensing] \in Controller!InSubmit
    /\ <<at, call[sensing].event>> \in CallPlaces
    /\ call[sensing].source \in sourceStates[call[sensing].event]
    /\ pc[sensing] \in {"post", "start_timers"} => HasEventOccured(call[sensing].event)

(* Boost is dispatched in a run that began on the pad, and the handler has *)
(* its time when it goes on.                                               *)
BoostSteps == {"boost_lsm6dsl", "boost_adxl375", "boost_time"}

PadThenFlight ==
  /\ at # "idle" => uptime <= now
  /\ ~Began => now <= MaxPad /\ boost_detected_time = BOOST_NOT_YET_HAPPENED
  /\ at \in BoostSteps => uptime <= MaxPad /\ boost_detected_time = BOOST_NOT_YET_HAPPENED
  /\ at \in Steps \ (BoostSteps \cup {"idle"}) => Began /\ boost_detected_time <= uptime
  /\ boost_detected_time # BOOST_NOT_YET_HAPPENED => boost_detected_time <= now
  /\ Began /\ boost_detected_time = BOOST_NOT_YET_HAPPENED => at \in BoostSteps

(* The timers, and what they reported, are as late as they were set to.    *)
TimersLate ==
  /\ \A i \in Timer : timers[i] # "stopped" => Began /\ deadline[i] >= FlightStart + TimerTime[i]
  /\ HasEventOccured("NoseoverLockout") => Began /\ now >= FlightStart + LockoutTime
  /\ "FullFlightTimer" \in sourceStates["GroundHit"] => Began /\ now >= FlightStart + FullFlightTime

(* What the barometers reported, and what it took.                         *)
ReportsInOrder ==
  /\ \A e \in eventStates : sourceStates[e] # {}
  /\ sourceStates["Noseover"] # {} =>
       HasEventOccured("NoseoverLockout") /\ boost_detected_time # BOOST_NOT_YET_HAPPENED
  /\ sourceStates["GroundHit"] \subseteq {"FullFlightTimer"} \/ HasEventOccured("Noseover")
  /\ at \in {"ground_ms5611", "ground_bmp388", "return"} => HasEventOccured("Noseover")

Inv == TypeOK /\ CallInPlace /\ PadThenFlight /\ TimersLate /\ ReportsInOrder

-----------------------------------------------------------------------------
(* The constants of flight.hpp.                                            *)

LEMMA TimersOfFlight ==
  /\ Timer = {1, 2, 3} /\ Controller!Timer = {1, 2, 3}
  /\ \A i \in Timer :
       /\ TimerEvents[i].start = "Boost" /\ TimerTime[i] \in Nat
       /\ TimerEvents[i].event \in Events /\ TimerEvents[i].source \in Sources
  /\ TimerEvents[1].event = "NoseoverLockout" /\ TimerEvents[1].source = "NoseoverLockoutTimer"
  /\ TimerEvents[2].event = "GroundHit" /\ TimerEvents[2].source = "FullFlightTimer"
  /\ TimerEvents[3].event = "Boost" /\ TimerEvents[3].source = "LowGImu"
  /\ TimerTime[1] = LockoutTime /\ TimerTime[2] = FullFlightTime
<1>1. Timer = {1, 2, 3} /\ Controller!Timer = {1, 2, 3}
  BY DEF Timer, numTimerEvents, Controller!Timer
<1>2. TimerTime[1] = LockoutTime /\ TimerTime[2] = FullFlightTime /\ TimerTime[3] = 0
  BY DEF TimerTime
<1>3. LockoutTime \in Nat /\ FullFlightTime \in Nat
  BY DetectionAssumption
<1>4. /\ TimerEvents[1].start = "Boost" /\ TimerEvents[2].start = "Boost" /\ TimerEvents[3].start = "Boost"
      /\ TimerEvents[1].event = "NoseoverLockout" /\ TimerEvents[1].source = "NoseoverLockoutTimer"
      /\ TimerEvents[2].event = "GroundHit" /\ TimerEvents[2].source = "FullFlightTimer"
      /\ TimerEvents[3].event = "Boost" /\ TimerEvents[3].source = "LowGImu"
  BY DEF TimerEvents
<1>5. QED
  BY <1>1, <1>2, <1>3, <1>4 DEF Events, Sources

(* What a decision function is asked of.                                   *)
LEMMA CallTypes ==
  /\ Controller!NoCall \in Controller!Call
  /\ \A e \in Events, s \in Sources : [Controller!NoCall EXCEPT !.event = e, !.source = s] \in Controller!Call
  /\ \A c \in Controller!Call, b \in BOOLEAN :
       [c EXCEPT !.agreed = b] \in Controller!Call /\ [c EXCEPT !.last_state = b] \in Controller!Call
  /\ \A c \in Controller!Call, i \in 1..4 : [c EXCEPT !.i = i] \in Controller!Call
<1>1. Controller!NoCall \in Controller!Call
  <2>1. (CHOOSE e \in Events : TRUE) \in Events
    BY DEF Events
  <2>2. (CHOOSE s \in Sources : TRUE) \in Sources
    BY DEF Sources
  <2>3. 1 \in 1..(numTimerEvents + 1)
    BY DEF numTimerEvents
  <2>4. QED
    BY <2>1, <2>2, <2>3 DEF Controller!NoCall, Controller!Call
<1>2. ASSUME NEW c \in Controller!Call, NEW e \in Events, NEW s \in Sources
      PROVE  [c EXCEPT !.event = e, !.source = s] \in Controller!Call
  BY DEF Controller!Call
<1>3. ASSUME NEW c \in Controller!Call, NEW b \in BOOLEAN
      PROVE  [c EXCEPT !.agreed = b] \in Controller!Call /\ [c EXCEPT !.last_state = b] \in Controller!Call
  BY DEF Controller!Call
<1>4. ASSUME NEW c \in Controller!Call, NEW i \in 1..4
      PROVE  [c EXCEPT !.i = i] \in Controller!Call
  BY DEF Controller!Call, numTimerEvents
<1>5. QED
  BY <1>1, <1>2, <1>3, <1>4

(* A step inside SubmitEvent: only a dispatch lets an event occur, and     *)
(* only the timers of boost are started, after it was dispatched.          *)
LEMMA SubmitSteps ==
  ASSUME TypeOK, CallInPlace, ControllerStep
  PROVE  /\ Controller!TypeOK' /\ deadline' \in [Timer -> Nat]
         /\ pc[sensing] # "idle" /\ sourceStates' = sourceStates
         /\ pc'[sensing] # "idle" =>
              /\ pc'[sensing] \in Controller!InSubmit
              /\ call'[sensing].event = call[sensing].event /\ call'[sensing].source = call[sensing].source
         /\ pc'[sensing] \in {"post", "start_timers"} => call[sensing].event \in eventStates'
         /\ eventStates' \in {eventStates, eventStates \cup {call[sensing].event}}
         /\ \A i \in Timer :
              \/ timers'[i] = timers[i] /\ deadline'[i] = deadline[i]
              \/ /\ call[sensing].event = "Boost" /\ "Boost" \in eventStates /\ eventStates' = eventStates
                 /\ deadline'[i] = now + TimerTime[i]
<1> DEFINE c == call[sensing]
<1>t. /\ sourceStates \in [Events -> SUBSET Sources] /\ eventStates \in SUBSET Events /\ osEvents \in SUBSET Events
      /\ timers \in [Timer -> {"stopped", "running", "expired"}] /\ logged \in SUBSET (Events \X Sources)
      /\ confirmed \in [Events -> Nat] /\ pc \in [{sensing} -> {"idle"} \cup Controller!InSubmit \cup Controller!InWait]
      /\ call \in [{sensing} -> Controller!Call] /\ awaited \in [{sensing} -> SUBSET Events]
      /\ submits \in [{sensing} -> 0..0]
      /\ now \in Nat /\ deadline \in [Timer -> Nat]
  BY DEF TypeOK, Controller!TypeOK, Timer, Controller!Timer
<1>c. c \in Controller!Call /\ c.event \in Events /\ c.source \in Sources
  BY <1>t DEF Controller!Call
<1>d. deadline' \in [Timer -> Nat]
  <2>1. deadline' = [i \in Timer |-> IF pc[sensing] = "start_timers" /\ i = c.i /\ Starts(i, c.event)
                                     THEN now + TimerTime[i] ELSE deadline[i]]
    BY DEF ControllerStep
  <2>2. QED
    BY <1>t, <2>1, TimersOfFlight
<1>o. awaited' = awaited /\ submits' = submits /\ sourceStates' = sourceStates
  BY DEF ControllerStep, Controller!SubmitStep, Controller!Decide, Controller!Check, Controller!Dispatch, Controller!Post,
         Controller!StartTimer, Controller!TimersStarted, Controller!LogSourceEvent, Controller!LogEventConfirmed,
         Controller!controller
<1>e. ASSUME pc[sensing] # "start_timers" \/ ~(c.i \in Timer /\ Starts(c.i, c.event)) PROVE deadline' = deadline
  BY <1>t, <1>e DEF ControllerStep
<1>p. pc'[sensing] # "idle" => pc'[sensing] \in Controller!InSubmit
  BY <1>t DEF ControllerStep, Controller!SubmitStep, Controller!Decide, Controller!Check, Controller!Dispatch, Controller!Post,
         Controller!StartTimer, Controller!TimersStarted, Controller!LogSourceEvent, Controller!LogEventConfirmed,
         Controller!Goto, Controller!InSubmit
<1>q. pc' \in [{sensing} -> {"idle"} \cup Controller!InSubmit \cup Controller!InWait] /\ pc[sensing] # "idle"
  BY <1>t DEF ControllerStep, Controller!SubmitStep, Controller!Decide, Controller!Check, Controller!Dispatch, Controller!Post,
         Controller!StartTimer, Controller!TimersStarted, Controller!LogSourceEvent, Controller!LogEventConfirmed,
         Controller!Goto, Controller!InSubmit
<1> DEFINE Result ==
             /\ call' \in [{sensing} -> Controller!Call]
             /\ eventStates' \in SUBSET Events /\ osEvents' \in SUBSET Events
             /\ timers' \in [Timer -> {"stopped", "running", "expired"}] /\ logged' \in SUBSET (Events \X Sources)
             /\ confirmed' \in [Events -> Nat]
             /\ pc'[sensing] # "idle" => call'[sensing].event = c.event /\ call'[sensing].source = c.source
             /\ pc'[sensing] \in {"post", "start_timers"} => c.event \in eventStates'
             /\ eventStates' \in {eventStates, eventStates \cup {c.event}}
             /\ \A i \in Timer :
                  \/ timers'[i] = timers[i] /\ deadline'[i] = deadline[i]
                  \/ /\ c.event = "Boost" /\ "Boost" \in eventStates /\ eventStates' = eventStates
                     /\ deadline'[i] = now + TimerTime[i]
<1>1. ASSUME Controller!Decide(sensing) PROVE Result
  <2>1. PICK b \in BOOLEAN : call' = [call EXCEPT ![sensing].agreed = b]
    <3> DEFINE agreed == sourceStates[c.event] \in Deciders[c.event]
    <3>1. agreed \in BOOLEAN
      OBVIOUS
    <3>2. QED
      BY <1>1, <3>1, Zenon DEF Controller!Decide
  <2>2. call'[sensing] = [c EXCEPT !.agreed = b] /\ call' \in [{sensing} -> Controller!Call]
    BY <1>t, <1>c, <2>1, CallTypes
  <2>3. pc'[sensing] \notin {"post", "start_timers"} /\ pc[sensing] = "decide"
    BY <1>1, <1>t DEF Controller!Decide, Controller!Goto
  <2>4. UNCHANGED <<eventStates, osEvents, timers, logged, confirmed>> /\ deadline' = deadline
    BY <1>1, <1>e, <2>3 DEF Controller!Decide, Controller!controller
  <2>5. QED
    BY <1>t, <1>c, <2>2, <2>3, <2>4 DEF Controller!Call
<1>2. ASSUME Controller!Check(sensing) PROVE Result
  <2>1. PICK b \in BOOLEAN : call' = [call EXCEPT ![sensing].last_state = b]
    <3> DEFINE last == Controller!HasEventOccured(c.event)
    <3>1. last \in BOOLEAN
      BY DEF Controller!HasEventOccured
    <3>2. QED
      BY <1>2, <3>1, Zenon DEF Controller!Check
  <2>2. call'[sensing] = [c EXCEPT !.last_state = b] /\ call' \in [{sensing} -> Controller!Call]
    BY <1>t, <1>c, <2>1, CallTypes
  <2>3. pc'[sensing] \notin {"post", "start_timers"} /\ pc[sensing] = "check"
    BY <1>2, <1>t DEF Controller!Check, Controller!Goto
  <2>4. UNCHANGED <<eventStates, osEvents, timers, logged, confirmed>> /\ deadline' = deadline
    BY <1>2, <1>e, <2>3 DEF Controller!Check, Controller!controller
  <2>5. QED
    BY <1>t, <1>c, <2>2, <2>3, <2>4 DEF Controller!Call
<1>3. ASSUME Controller!Dispatch(sensing) PROVE Result
  <2>1. /\ eventStates' = eventStates \cup {c.event} /\ pc[sensing] = "dispatch"
        /\ UNCHANGED <<osEvents, timers, logged, confirmed, call>>
    BY <1>3 DEF Controller!Dispatch, Controller!Goto
  <2>2. deadline' = deadline
    BY <1>e, <2>1
  <2>3. QED
    BY <1>t, <1>c, <2>1, <2>2
<1>4. ASSUME Controller!Post(sensing) PROVE Result
  <2>1. /\ osEvents' = osEvents \cup {c.event} /\ pc[sensing] = "post"
        /\ UNCHANGED <<eventStates, timers, logged, confirmed, call>>
    BY <1>4 DEF Controller!Post, Controller!Goto
  <2>2. deadline' = deadline
    BY <1>e, <2>1
  <2>3. c.event \in eventStates
    BY <2>1 DEF CallInPlace, HasEventOccured, Controller!HasEventOccured
  <2>4. QED
    BY <1>t, <1>c, <2>1, <2>2, <2>3
<1>5. ASSUME Controller!StartTimer(sensing) PROVE Result
  <2>1. /\ c.i <= 3 /\ pc[sensing] = "start_timers"
        /\ timers' = IF TimerEvents[c.i].start = c.event THEN [timers EXCEPT ![c.i] = "running"] ELSE timers
        /\ call' = [call EXCEPT ![sensing].i = c.i + 1]
        /\ UNCHANGED <<eventStates, osEvents, logged, confirmed>>
    BY <1>5 DEF Controller!StartTimer, Controller!Goto, numTimerEvents
  <2>2. c.i \in Timer /\ c.i + 1 \in 1..4
    BY <1>c, <2>1, TimersOfFlight DEF Controller!Call, numTimerEvents
  <2>3. call'[sensing] = [c EXCEPT !.i = c.i + 1] /\ call' \in [{sensing} -> Controller!Call]
    BY <1>t, <1>c, <2>1, <2>2, CallTypes
  <2>4. c.event \in eventStates
    BY <2>1 DEF CallInPlace, HasEventOccured, Controller!HasEventOccured
  <2>5. TimerEvents[c.i].start = "Boost"
    BY <2>2, TimersOfFlight
  <2>6. ASSUME NEW i \in Timer
        PROVE  \/ timers'[i] = timers[i] /\ deadline'[i] = deadline[i]
               \/ /\ c.event = "Boost" /\ "Boost" \in eventStates /\ eventStates' = eventStates
                  /\ deadline'[i] = now + TimerTime[i]
    <3>1. CASE i = c.i /\ c.event = "Boost"
      BY <2>1, <2>4, <2>5, <3>1 DEF ControllerStep, Starts
    <3>2. CASE ~(i = c.i /\ c.event = "Boost")
      BY <1>t, <2>1, <2>5, <3>2 DEF ControllerStep, Starts
    <3>3. QED
      BY <3>1, <3>2
  <2>7. timers' \in [Timer -> {"stopped", "running", "expired"}]
    BY <1>t, <2>1
  <2>8. QED
    BY <1>t, <1>c, <2>1, <2>3, <2>4, <2>6, <2>7 DEF Controller!Call
<1>6. ASSUME Controller!TimersStarted(sensing) PROVE Result
  <2>1. /\ c.i > 3 /\ pc'[sensing] = "log_source"
        /\ UNCHANGED <<eventStates, osEvents, timers, logged, confirmed, call>>
    BY <1>6, <1>t DEF Controller!TimersStarted, Controller!Goto, Controller!controller, numTimerEvents
  <2>2. c.i \notin Timer
    BY <2>1, TimersOfFlight
  <2>3. deadline' = deadline
    BY <1>e, <2>2
  <2>4. QED
    BY <1>t, <1>c, <2>1, <2>3
<1>7. ASSUME Controller!LogSourceEvent(sensing) PROVE Result
  <2>1. /\ pc[sensing] = "log_source" /\ pc'[sensing] = (IF c.agreed THEN "log_confirmed" ELSE "idle")
        /\ logged' = logged \cup {<<c.event, c.source>>}
        /\ call' = (IF c.agreed THEN call ELSE [call EXCEPT ![sensing] = Controller!NoCall])
        /\ UNCHANGED <<eventStates, osEvents, timers, confirmed>>
    BY <1>7, <1>t DEF Controller!LogSourceEvent, Controller!Goto
  <2>2. deadline' = deadline
    BY <1>e, <2>1
  <2>3. call' \in [{sensing} -> Controller!Call]
    BY <1>t, <2>1, CallTypes
  <2>4. QED
    BY <1>t, <1>c, <2>1, <2>2, <2>3
<1>8. ASSUME Controller!LogEventConfirmed(sensing) PROVE Result
  <2>1. /\ pc[sensing] = "log_confirmed" /\ pc'[sensing] = "idle"
        /\ confirmed' = (IF c.last_state THEN confirmed ELSE [confirmed EXCEPT ![c.event] = @ + 1])
        /\ call' = [call EXCEPT ![sensing] = Controller!NoCall]
        /\ UNCHANGED <<eventStates, osEvents, timers, logged>>
    BY <1>8, <1>t DEF Controller!LogEventConfirmed, Controller!Goto
  <2>2. deadline' = deadline
    BY <1>e, <2>1
  <2>3. call' \in [{sensing} -> Controller!Call] /\ confirmed' \in [Events -> Nat]
    <3>1. [confirmed EXCEPT ![c.event] = @ + 1] \in [Events -> Nat]
      BY <1>t, <1>c
    <3>2. QED
      BY <1>t, <2>1, <3>1, CallTypes
  <2>4. QED
    BY <1>t, <1>c, <2>1, <2>2, <2>3
<1>9. Result
  BY <1>1, <1>2, <1>3, <1>4, <1>5, <1>6, <1>7, <1>8 DEF ControllerStep, Controller!SubmitStep
<1>10. Controller!TypeOK'
  BY <1>t, <1>o, <1>q, <1>9 DEF Controller!TypeOK, Timer, Controller!Timer
<1>11. QED
  BY <1>d, <1>o, <1>p, <1>q, <1>9, <1>10

(* The interrupt of a timer: it runs since boost, so it starts none again. *)
LEMMA TimerSteps ==
  ASSUME TypeOK, TimersLate, NEW i \in Timer, TimerExpiry(i)
  PROVE  /\ Controller!TypeOK' /\ UNCHANGED <<deadline, pc, call>>
         /\ Began /\ timers[i] = "running" /\ now >= deadline[i]
         /\ sourceStates' = [sourceStates EXCEPT ![TimerEvents[i].event] = @ \cup {TimerEvents[i].source}]
         /\ eventStates' \in {eventStates, eventStates \cup {TimerEvents[i].event}}
         /\ \A j \in Timer : timers'[j] # "stopped" => timers[j] # "stopped"
<1> DEFINE e == TimerEvents[i].event
           s == TimerEvents[i].source
           agreed == sourceStates[e] \cup {s} \in Deciders[e]
           dispatched == agreed /\ e \notin eventStates
<1>t. /\ sourceStates \in [Events -> SUBSET Sources] /\ eventStates \in SUBSET Events /\ osEvents \in SUBSET Events
      /\ timers \in [Timer -> {"stopped", "running", "expired"}] /\ logged \in SUBSET (Events \X Sources)
      /\ confirmed \in [Events -> Nat] /\ deadline \in [Timer -> Nat]
  BY DEF TypeOK, Controller!TypeOK, Timer, Controller!Timer
<1>e. e \in Events /\ s \in Sources /\ \A j \in Timer : TimerEvents[j].start = "Boost"
  BY TimersOfFlight
<1>1. /\ timers[i] = "running"
      /\ sourceStates' = [sourceStates EXCEPT ![e] = @ \cup {s}]
      /\ eventStates' = IF dispatched THEN eventStates \cup {e} ELSE eventStates
      /\ osEvents' = IF dispatched THEN osEvents \cup {e} ELSE osEvents
      /\ timers' = [j \in Controller!Timer |->
                      IF dispatched /\ TimerEvents[j].start = e THEN "running"
                      ELSE IF j = i THEN "expired" ELSE timers[j]]
      /\ logged' = logged \cup {<<e, s>>}
      /\ confirmed' = IF dispatched THEN [confirmed EXCEPT ![e] = @ + 1] ELSE confirmed
      /\ UNCHANGED <<pc, call, awaited, submits>> /\ now >= deadline[i]
      /\ deadline' = [j \in Timer |-> IF \E f \in eventStates' \ eventStates : Starts(j, f)
                                      THEN now + TimerTime[j] ELSE deadline[j]]
  BY DEF TimerExpiry, Controller!TimerExpiry, Controller!HasEventOccured
<1> HIDE DEF agreed
<1>2. Began /\ "Boost" \in eventStates
  BY <1>1 DEF TimersLate, Began, HasEventOccured, Controller!HasEventOccured
<1>3. deadline' = deadline
  <2>1. \A j \in Timer : ~\E f \in eventStates' \ eventStates : Starts(j, f)
    BY <1>e, <1>1, <1>2 DEF Starts
  <2>2. QED
    BY <1>t, <1>1, <2>1
<1>4. eventStates' \in {eventStates, eventStates \cup {e}}
  BY <1>1
<1>5. \A j \in Timer : timers'[j] # "stopped" => timers[j] # "stopped"
  BY <1>e, <1>1, <1>2, TimersOfFlight
<1>6. timers' \in [Controller!Timer -> {"stopped", "running", "expired"}]
  BY <1>t, <1>1, TimersOfFlight
<1>7. confirmed' \in [Events -> Nat]
  <2>1. [confirmed EXCEPT ![e] = @ + 1] \in [Events -> Nat]
    BY <1>t, <1>e
  <2>2. QED
    BY <1>t, <1>1, <2>1
<1>8. sourceStates' \in [Events -> SUBSET Sources] /\ logged' \in SUBSET (Events \X Sources)
  BY <1>t, <1>e, <1>1
<1>9. eventStates' \in SUBSET Events /\ osEvents' \in SUBSET Events
  BY <1>t, <1>e, <1>1
<1>10. Controller!TypeOK'
  BY <1>1, <1>6, <1>7, <1>8, <1>9 DEF TypeOK, Controller!TypeOK
<1>11. QED
  BY <1>1, <1>2, <1>3, <1>4, <1>5, <1>10

(* What the handler may submit at each place, and where it goes on.        *)
Places == {
  [from |-> "boost_lsm6dsl", to |-> "boost_adxl375", device |-> "lsm6dsl", source |-> "HighGImu", event |-> "Boost"],
  [from |-> "boost_adxl375", to |-> "boost_time", device |-> "adxl375", source |-> "LowGImu", event |-> "Boost"],
  [from |-> "noseover_ms5611", to |-> "noseover_bmp388", device |-> "ms5611", source |-> "BaromMS5611", event |-> "Noseover"],
  [from |-> "noseover_bmp388", to |-> "ground", device |-> "bmp388", source |-> "BaromBMP", event |-> "Noseover"],
  [from |-> "ground_ms5611", to |-> "ground_bmp388", device |-> "ms5611", source |-> "BaromMS5611", event |-> "GroundHit"],
  [from |-> "ground_bmp388", to |-> "return", device |-> "bmp388", source |-> "BaromBMP", event |-> "GroundHit"] }

LEMMA PlacesKnown ==
  ASSUME NEW p \in Places
  PROVE  /\ p.device \in Device /\ p.source \in Sources /\ p.event \in Events /\ p.to \in Steps
         /\ <<p.source, p.event>> \in HandlerSubmits /\ <<p.to, p.event>> \in CallPlaces
         /\ (p.from \in BoostSteps <=> p.to \in BoostSteps) /\ p.from \in Steps \ {"idle"} /\ p.to # "idle"
         /\ p.event = "Noseover" \/ p.event = "GroundHit" => p.from \notin BoostSteps
         /\ p.event = "GroundHit" \/ p.to \in {"ground_ms5611", "ground_bmp388", "return"} =>
              p.from \in {"ground_ms5611", "ground_bmp388"}
<1>1. p.device \in Device /\ p.source \in Sources /\ p.event \in Events /\ p.to \in Steps
  BY DEF Places, Device, Imu, Barom, Sources, Events, Steps
<1>2. <<p.source, p.event>> \in HandlerSubmits
  BY DEF Places, HandlerSubmits
<1>3. <<p.to, p.event>> \in CallPlaces
  BY DEF Places, CallPlaces
<1>4. /\ (p.from \in BoostSteps <=> p.to \in BoostSteps) /\ p.from \in Steps \ {"idle"} /\ p.to # "idle"
      /\ p.event = "Noseover" \/ p.event = "GroundHit" => p.from \notin BoostSteps
      /\ p.event = "GroundHit" \/ p.to \in {"ground_ms5611", "ground_bmp388", "return"} =>
           p.from \in {"ground_ms5611", "ground_bmp388"}
  BY DEF Places, BoostSteps, Steps
<1>5. QED
  BY <1>1, <1>2, <1>3, <1>4

(* The handler submits, or goes on without.                                *)
Submitted(p, allowed) ==
  /\ at = p.from /\ at' = p.to /\ pc[sensing] = "idle"
  /\ Controller!TypeOK' /\ sensed' \in SUBSET (Device \X HandlerSubmits)
  /\ UNCHANGED <<eventStates, timers, deadline, now, uptime, reading, detectors, boost_detected_time>>
  /\ \/ UNCHANGED <<pc, call, sourceStates>>
     \/ /\ allowed /\ pc'[sensing] = "decide"
        /\ call'[sensing].event = p.event /\ call'[sensing].source = p.source
        /\ sourceStates' = [sourceStates EXCEPT ![p.event] = @ \cup {p.source}]

LEMMA SubmitsOrNot ==
  ASSUME TypeOK, NEW p \in Places, NEW allowed \in BOOLEAN,
         SubmitIf(p.from, p.to, p.device, p.source, p.event, allowed)
  PROVE  Submitted(p, allowed)
<1>t. /\ sourceStates \in [Events -> SUBSET Sources]
      /\ pc \in [{sensing} -> {"idle"} \cup Controller!InSubmit \cup Controller!InWait]
      /\ call \in [{sensing} -> Controller!Call]
      /\ sensed \in SUBSET (Device \X HandlerSubmits)
  BY DEF TypeOK, Controller!TypeOK
<1>p. p.device \in Device /\ p.source \in Sources /\ p.event \in Events /\ <<p.source, p.event>> \in HandlerSubmits
  BY PlacesKnown
<1>1. /\ at = p.from /\ at' = p.to /\ pc[sensing] = "idle"
      /\ UNCHANGED <<submits, deadline, now, uptime, reading, detectors, boost_detected_time>>
  BY DEF SubmitIf, Handle
<1>2. CASE UNCHANGED <<controller, pc, call, awaited, sensed>>
  BY <1>t, <1>1, <1>2 DEF Submitted, controller, TypeOK, Controller!TypeOK
<1>3. CASE /\ allowed /\ Controller!Submit(sensing, p.source, p.event)
           /\ sensed' = sensed \cup {<<p.device, <<p.source, p.event>>>>}
  <2>1. /\ pc' = [pc EXCEPT ![sensing] = "decide"]
        /\ call' = [call EXCEPT ![sensing] = [Controller!NoCall EXCEPT !.event = p.event, !.source = p.source]]
        /\ sourceStates' = [sourceStates EXCEPT ![p.event] = @ \cup {p.source}]
        /\ UNCHANGED <<eventStates, osEvents, timers, logged, confirmed, awaited>>
    BY <1>3 DEF Controller!Submit, Controller!Goto
  <2>2. PICK c \in Controller!Call : c = [Controller!NoCall EXCEPT !.event = p.event, !.source = p.source]
    BY <1>p, CallTypes
  <2>3. c.event = p.event /\ c.source = p.source
    BY <2>2, CallTypes DEF Controller!Call
  <2>4. call' \in [{sensing} -> Controller!Call] /\ call'[sensing] = c
    BY <1>t, <2>1, <2>2
  <2>5. pc' \in [{sensing} -> {"idle"} \cup Controller!InSubmit \cup Controller!InWait] /\ pc'[sensing] = "decide"
    BY <1>t, <2>1 DEF Controller!InSubmit
  <2>6. sourceStates' \in [Events -> SUBSET Sources]
    BY <1>t, <1>p, <2>1
  <2>7. sensed' \in SUBSET (Device \X HandlerSubmits)
    BY <1>t, <1>p, <1>3
  <2>8. Controller!TypeOK'
    BY <1>1, <2>1, <2>4, <2>5, <2>6 DEF TypeOK, Controller!TypeOK
  <2>9. QED
    BY <1>1, <1>3, <2>1, <2>3, <2>4, <2>5, <2>7, <2>8 DEF Submitted
<1>4. QED
  BY <1>2, <1>3 DEF SubmitIf

-----------------------------------------------------------------------------
(* The invariant, step by step.                                            *)

(* The times and the clock are numbers, and an event has a name.           *)
LEMMA Numbers ==
  ASSUME TypeOK
  PROVE  /\ now \in Nat /\ uptime \in Nat /\ boost_detected_time \in Nat /\ FlightStart \in Nat
         /\ MaxPad \in Nat /\ LockoutTime \in Nat /\ FullFlightTime \in Nat
         /\ deadline \in [Timer -> Nat] /\ at \in Steps
         /\ sourceStates \in [Events -> SUBSET Sources] /\ eventStates \in SUBSET Events
         /\ \A i \in Timer : TimerTime[i] \in Nat
<1>1. MaxPad \in Nat /\ LockoutTime \in Nat /\ FullFlightTime \in Nat
  BY DetectionAssumption
<1>2. now \in Nat /\ uptime \in Nat /\ boost_detected_time \in Nat
  BY <1>1 DEF TypeOK, BOOST_NOT_YET_HAPPENED
<1>3. QED
  BY <1>1, <1>2, TimersOfFlight DEF TypeOK, Controller!TypeOK, FlightStart

(* When boost occurs the handler still is where it has the time of it.     *)
LEMMA InSubmitStep ==
  ASSUME Inv, ControllerStep
  PROVE  Inv'
<1>t. TypeOK /\ CallInPlace /\ PadThenFlight /\ TimersLate /\ ReportsInOrder
  BY DEF Inv
<1> DEFINE e == call[sensing].event
<1>1. UNCHANGED handler
  BY DEF ControllerStep
<1>2. <<at, e>> \in CallPlaces /\ pc[sensing] # "idle" /\ call[sensing].source \in sourceStates[e]
  BY <1>t, SubmitSteps DEF CallInPlace
<1>3. /\ e \in {"Boost", "Noseover", "GroundHit"}
      /\ e = "Boost" => at \in BoostSteps
  BY <1>2 DEF CallPlaces, BoostSteps
<1>4. sourceStates' = sourceStates /\ eventStates' \in {eventStates, eventStates \cup {e}}
  BY <1>t, SubmitSteps
<1>5. /\ Began => Began'
      /\ Began' /\ ~Began => at \in BoostSteps
      /\ \A f \in {"NoseoverLockout", "Noseover"} : HasEventOccured(f) => HasEventOccured(f)'
      /\ HasEventOccured("NoseoverLockout")' => HasEventOccured("NoseoverLockout")
  BY <1>3, <1>4 DEF Began, HasEventOccured, Controller!HasEventOccured
<1>6. TypeOK'
  BY <1>t, <1>1, SubmitSteps DEF TypeOK, handler
<1>7. CallInPlace'
  <2>1. /\ pc'[sensing] # "idle" =>
              /\ pc'[sensing] \in Controller!InSubmit
              /\ call'[sensing].event = e /\ call'[sensing].source = call[sensing].source
        /\ pc'[sensing] \in {"post", "start_timers"} => e \in eventStates'
    BY <1>t, SubmitSteps
  <2>2. at' = at
    BY <1>1 DEF handler
  <2>3. QED
    BY <1>2, <1>4, <2>1, <2>2 DEF CallInPlace, HasEventOccured, Controller!HasEventOccured
<1>8. PadThenFlight'
  <2>1. UNCHANGED <<now, at, uptime, boost_detected_time>>
    BY <1>1 DEF handler
  <2>2. /\ at # "idle" => uptime <= now
        /\ ~Began => now <= MaxPad /\ boost_detected_time = BOOST_NOT_YET_HAPPENED
        /\ at \in BoostSteps => uptime <= MaxPad /\ boost_detected_time = BOOST_NOT_YET_HAPPENED
        /\ at \in Steps \ (BoostSteps \cup {"idle"}) => Began /\ boost_detected_time <= uptime
        /\ boost_detected_time # BOOST_NOT_YET_HAPPENED => boost_detected_time <= now
        /\ Began /\ boost_detected_time = BOOST_NOT_YET_HAPPENED => at \in BoostSteps
    BY <1>t DEF PadThenFlight
  <2>3. Began' /\ boost_detected_time = BOOST_NOT_YET_HAPPENED => at \in BoostSteps
    BY <1>5, <2>2
  <2>4. QED
    BY <1>5, <2>1, <2>2, <2>3 DEF PadThenFlight
<1>9. TimersLate'
  <2>1. FlightStart' = FlightStart /\ now' = now
    BY <1>1 DEF FlightStart, handler
  <2>2. ASSUME NEW i \in Timer, timers'[i] # "stopped"
        PROVE  Began' /\ deadline'[i] >= FlightStart + TimerTime[i]
    <3>1. CASE timers'[i] = timers[i] /\ deadline'[i] = deadline[i]
      BY <1>t, <1>5, <2>2, <3>1 DEF TimersLate
    <3>2. CASE /\ e = "Boost" /\ "Boost" \in eventStates /\ eventStates' = eventStates
               /\ deadline'[i] = now + TimerTime[i]
      <4>1. FlightStart <= now
        BY <1>t, <1>3, <3>2 DEF PadThenFlight, FlightStart, BoostSteps
      <4>2. now + TimerTime[i] >= FlightStart + TimerTime[i]
        BY <1>t, <4>1, Numbers
      <4>3. QED
        BY <3>2, <4>2 DEF Began, HasEventOccured, Controller!HasEventOccured
    <3>3. QED
      BY <1>t, <3>1, <3>2, SubmitSteps
  <2>3. QED
    BY <1>t, <1>4, <1>5, <2>1, <2>2 DEF TimersLate
<1>10. ReportsInOrder'
  <2>1. \A f \in eventStates' : sourceStates'[f] # {}
    BY <1>t, <1>2, <1>4 DEF ReportsInOrder
  <2>2. UNCHANGED <<at, boost_detected_time>>
    BY <1>1 DEF handler
  <2>3. QED
    BY <1>t, <1>4, <1>5, <2>1, <2>2 DEF ReportsInOrder
<1>11. QED
  BY <1>6, <1>7, <1>8, <1>9, <1>10 DEF Inv

(* The handler submits noseover behind the lockout, and the end of the     *)
(* flight behind noseover.                                                 *)
LEMMA SubmitInv ==
  ASSUME Inv, NEW p \in Places, NEW allowed \in BOOLEAN, Submitted(p, allowed),
         p.event = "Noseover" /\ allowed => HasEventOccured("NoseoverLockout")
  PROVE  Inv'
<1>t. TypeOK /\ CallInPlace /\ PadThenFlight /\ TimersLate /\ ReportsInOrder
  BY DEF Inv
<1>1. /\ at = p.from /\ at' = p.to /\ pc[sensing] = "idle"
      /\ UNCHANGED <<eventStates, timers, deadline, now, uptime, reading, detectors, boost_detected_time>>
  BY DEF Submitted
<1>2. \A f \in Events : HasEventOccured(f)' = HasEventOccured(f)
  BY <1>1 DEF HasEventOccured, Controller!HasEventOccured
<1>3. Began' = Began
  BY <1>2 DEF Began, Events
<1>4. TypeOK'
  <2>1. at' \in Steps
    BY <1>1, PlacesKnown
  <2>2. QED
    BY <1>t, <1>1, <2>1 DEF TypeOK, Submitted
<1>5. CallInPlace'
  <2>1. CASE UNCHANGED <<pc, call, sourceStates>>
    BY <1>1, <2>1 DEF CallInPlace
  <2>2. CASE /\ allowed /\ pc'[sensing] = "decide"
             /\ call'[sensing].event = p.event /\ call'[sensing].source = p.source
             /\ sourceStates' = [sourceStates EXCEPT ![p.event] = @ \cup {p.source}]
    <3>1. p.source \in sourceStates'[p.event]
      BY <1>t, <2>2, Numbers, PlacesKnown
    <3>2. <<p.to, p.event>> \in CallPlaces
      BY PlacesKnown
    <3>3. QED
      BY <1>1, <2>2, <3>1, <3>2 DEF CallInPlace, Controller!InSubmit
  <2>3. QED
    BY <2>1, <2>2 DEF Submitted
<1>6. PadThenFlight'
  BY <1>t, <1>1, <1>3, PlacesKnown DEF PadThenFlight
<1>7. /\ \A f \in Events : sourceStates[f] \subseteq sourceStates'[f]
      /\ \A f \in Events : sourceStates'[f] = sourceStates[f]
           \/ (allowed /\ f = p.event /\ sourceStates'[f] = sourceStates[f] \cup {p.source})
  BY <1>t, Numbers DEF Submitted
<1>8. TimersLate'
  <2>1. FlightStart' = FlightStart
    BY <1>1 DEF FlightStart
  <2>2. "FullFlightTimer" \in sourceStates'["GroundHit"] => "FullFlightTimer" \in sourceStates["GroundHit"]
    <3>1. p.source # "FullFlightTimer"
      BY DEF Places
    <3>2. QED
      BY <1>7, <3>1 DEF Events
  <2>3. HasEventOccured("NoseoverLockout")' = HasEventOccured("NoseoverLockout")
    BY <1>2 DEF Events
  <2>4. QED
    BY <1>t, <1>1, <1>3, <2>1, <2>2, <2>3 DEF TimersLate
<1>9. ReportsInOrder'
  <2>1. \A f \in eventStates' : sourceStates'[f] # {}
    BY <1>t, <1>1, <1>7, Numbers DEF ReportsInOrder
  <2>2. sourceStates'["Noseover"] # {} =>
          HasEventOccured("NoseoverLockout") /\ boost_detected_time # BOOST_NOT_YET_HAPPENED
    <3>1. CASE sourceStates'["Noseover"] = sourceStates["Noseover"]
      BY <1>t, <3>1 DEF ReportsInOrder
    <3>2. CASE allowed /\ p.event = "Noseover"
      <4>1. at \in Steps \ (BoostSteps \cup {"idle"})
        BY <1>1, <3>2, PlacesKnown
      <4>2. QED
        BY <1>t, <3>2, <4>1 DEF PadThenFlight
    <3>3. QED
      BY <1>7, <3>1, <3>2 DEF Events
  <2>3. sourceStates'["GroundHit"] \subseteq {"FullFlightTimer"} \/ HasEventOccured("Noseover")
    <3>1. CASE sourceStates'["GroundHit"] = sourceStates["GroundHit"]
      BY <1>t, <3>1 DEF ReportsInOrder
    <3>2. CASE p.event = "GroundHit"
      BY <1>t, <1>1, <3>2, PlacesKnown DEF ReportsInOrder
    <3>3. QED
      BY <1>7, <3>1, <3>2 DEF Events
  <2>4. at' \in {"ground_ms5611", "ground_bmp388", "return"} => HasEventOccured("Noseover")
    BY <1>t, <1>1, PlacesKnown DEF ReportsInOrder
  <2>5. HasEventOccured("NoseoverLockout")' = HasEventOccured("NoseoverLockout")
        /\ HasEventOccured("Noseover")' = HasEventOccured("Noseover")
    BY <1>2 DEF Events
  <2>6. QED
    BY <1>1, <2>1, <2>2, <2>3, <2>4, <2>5 DEF ReportsInOrder
<1>10. QED
  BY <1>4, <1>5, <1>6, <1>8, <1>9 DEF Inv

(* A timer reports no earlier than it was set to, and nothing but what it  *)
(* is the timer of.                                                        *)
LEMMA TimerInv ==
  ASSUME Inv, NEW i \in Timer, TimerExpiry(i)
  PROVE  Inv'
<1>t. TypeOK /\ CallInPlace /\ PadThenFlight /\ TimersLate /\ ReportsInOrder
  BY DEF Inv
<1> DEFINE e == TimerEvents[i].event
           s == TimerEvents[i].source
<1>1. UNCHANGED <<handler, deadline, pc, call>>
  BY <1>t, TimerSteps DEF TimerExpiry
<1>2. /\ Began /\ timers[i] = "running" /\ now >= deadline[i]
      /\ sourceStates' = [sourceStates EXCEPT ![e] = @ \cup {s}]
      /\ eventStates' \in {eventStates, eventStates \cup {e}}
      /\ \A j \in Timer : timers'[j] # "stopped" => timers[j] # "stopped"
  BY <1>t, TimerSteps
<1>3. /\ e \in {"NoseoverLockout", "GroundHit", "Boost"} /\ e \in Events /\ s \in Sources
      /\ e = "NoseoverLockout" => TimerTime[i] = LockoutTime
      /\ e = "GroundHit" => TimerTime[i] = FullFlightTime /\ s = "FullFlightTimer"
  BY TimersOfFlight DEF Events, Sources
<1>4. /\ \A f \in Events : sourceStates[f] \subseteq sourceStates'[f]
      /\ \A f \in Events : f # e => sourceStates'[f] = sourceStates[f]
      /\ sourceStates'[e] = sourceStates[e] \cup {s}
  BY <1>t, <1>2, <1>3, Numbers
<1>5. /\ Began' = Began /\ FlightStart' = FlightStart /\ now' = now
      /\ \A f \in {"NoseoverLockout", "Noseover"} : HasEventOccured(f) => HasEventOccured(f)'
      /\ HasEventOccured("NoseoverLockout")' => HasEventOccured("NoseoverLockout") \/ e = "NoseoverLockout"
  BY <1>1, <1>2, <1>3 DEF Began, FlightStart, handler, HasEventOccured, Controller!HasEventOccured
<1>6. now >= FlightStart + TimerTime[i]
  <2>1. deadline[i] >= FlightStart + TimerTime[i]
    BY <1>t, <1>2 DEF TimersLate
  <2>2. QED
    BY <1>t, <1>2, <2>1, Numbers
<1>7. TypeOK'
  BY <1>t, <1>1, TimerSteps DEF TypeOK, handler
<1>8. CallInPlace'
  <2>1. CASE pc[sensing] = "idle"
    BY <1>1, <2>1 DEF CallInPlace
  <2>2. CASE pc[sensing] # "idle"
    <3>1. call[sensing].event \in Events
      BY <1>t, <2>2 DEF CallInPlace, CallPlaces, Events
    <3>2. call[sensing].source \in sourceStates'[call[sensing].event]
      BY <1>t, <1>4, <2>2, <3>1 DEF CallInPlace
    <3>3. QED
      BY <1>t, <1>1, <1>2, <3>2 DEF CallInPlace, handler, HasEventOccured, Controller!HasEventOccured
  <2>3. QED
    BY <2>1, <2>2
<1>9. PadThenFlight'
  BY <1>t, <1>1, <1>5 DEF PadThenFlight, handler
<1>10. TimersLate'
  <2>1. HasEventOccured("NoseoverLockout")' => now >= FlightStart + LockoutTime
    BY <1>t, <1>3, <1>5, <1>6 DEF TimersLate
  <2>2. "FullFlightTimer" \in sourceStates'["GroundHit"] => now >= FlightStart + FullFlightTime
    BY <1>t, <1>3, <1>4, <1>6 DEF TimersLate, Events
  <2>3. QED
    BY <1>t, <1>1, <1>2, <1>5, <2>1, <2>2 DEF TimersLate
<1>11. ReportsInOrder'
  <2>1. \A f \in eventStates' : sourceStates'[f] # {}
    BY <1>t, <1>2, <1>3, <1>4, Numbers DEF ReportsInOrder
  <2>2. sourceStates'["Noseover"] = sourceStates["Noseover"]
    BY <1>3, <1>4 DEF Events
  <2>3. sourceStates'["GroundHit"] \subseteq {"FullFlightTimer"} \/ HasEventOccured("Noseover")
    BY <1>t, <1>3, <1>4 DEF ReportsInOrder, Events
  <2>4. UNCHANGED <<at, boost_detected_time>>
    BY <1>1 DEF handler
  <2>5. QED
    BY <1>t, <1>5, <2>1, <2>2, <2>3, <2>4 DEF ReportsInOrder
<1>12. QED
  BY <1>7, <1>8, <1>9, <1>10, <1>11 DEF Inv

(* A step of the handler or of time that leaves the controller alone.      *)
LEMMA QuietStep ==
  ASSUME Inv, UNCHANGED <<controller, pc, call, awaited, submits, deadline>>,
         pc[sensing] = "idle" \/ at' = at, now' \in Nat, now' >= now,
         Began => FlightStart' = FlightStart,
         boost_detected_time # BOOST_NOT_YET_HAPPENED => boost_detected_time' # BOOST_NOT_YET_HAPPENED,
         at' \in {"ground_ms5611", "ground_bmp388", "return"} => HasEventOccured("Noseover")
  PROVE  Controller!TypeOK' /\ CallInPlace' /\ TimersLate' /\ ReportsInOrder' /\ Began' = Began
<1>t. TypeOK /\ CallInPlace /\ TimersLate /\ ReportsInOrder
  BY DEF Inv
<1>1. UNCHANGED <<sourceStates, eventStates, osEvents, timers, logged, confirmed>>
  BY DEF controller
<1>2. \A f \in Events : HasEventOccured(f)' = HasEventOccured(f)
  BY <1>1 DEF HasEventOccured, Controller!HasEventOccured
<1>3. Began' = Began
  BY <1>2 DEF Began, Events
<1>4. Controller!TypeOK'
  BY <1>t, <1>1 DEF TypeOK, Controller!TypeOK
<1>5. CallInPlace'
  BY <1>t, <1>1 DEF CallInPlace, HasEventOccured, Controller!HasEventOccured
<1>6. TimersLate'
  <2>1. ASSUME NEW i \in Timer, timers'[i] # "stopped"
        PROVE  Began' /\ deadline'[i] >= FlightStart' + TimerTime[i]
    BY <1>t, <1>1, <1>3, <2>1 DEF TimersLate
  <2>2. HasEventOccured("NoseoverLockout")' => Began' /\ now' >= FlightStart' + LockoutTime
    <3>1. SUFFICES ASSUME HasEventOccured("NoseoverLockout") PROVE Began /\ now' >= FlightStart' + LockoutTime
      BY <1>2, <1>3 DEF Events
    <3>2. Began /\ now >= FlightStart + LockoutTime
      BY <1>t, <3>1 DEF TimersLate
    <3>3. QED
      BY <1>t, <3>2, Numbers
  <2>3. "FullFlightTimer" \in sourceStates'["GroundHit"] => Began' /\ now' >= FlightStart' + FullFlightTime
    <3>1. SUFFICES ASSUME "FullFlightTimer" \in sourceStates["GroundHit"] PROVE Began /\ now' >= FlightStart' + FullFlightTime
      BY <1>1, <1>3
    <3>2. Began /\ now >= FlightStart + FullFlightTime
      BY <1>t, <3>1 DEF TimersLate
    <3>3. QED
      BY <1>t, <3>2, Numbers
  <2>4. QED
    BY <2>1, <2>2, <2>3 DEF TimersLate
<1>7. ReportsInOrder'
  <2>1. /\ HasEventOccured("NoseoverLockout")' = HasEventOccured("NoseoverLockout")
        /\ HasEventOccured("Noseover")' = HasEventOccured("Noseover")
    BY <1>2 DEF Events
  <2>2. QED
    BY <1>t, <1>1, <2>1 DEF ReportsInOrder
<1>8. QED
  BY <1>3, <1>4, <1>5, <1>6, <1>7

(* Timestamps are of the width they are of, and so are their differences.  *)
LEMMA StampType ==
  /\ \A t \in Nat : D!Stamp(t) \in D!Timestamp
  /\ \A a \in D!Timestamp, b \in D!Timestamp : D!Minus(a, b) \in D!Timestamp
<1>1. TimestampMod \in Nat \ {0}
  BY DetectionAssumption
<1>2. \A t \in Nat : D!Stamp(t) \in D!Timestamp
  BY <1>1, SMT DEF D!Stamp, D!Timestamp
<1>3. \A a \in D!Timestamp, b \in D!Timestamp : D!Minus(a, b) \in D!Timestamp
  <2>1. SUFFICES ASSUME NEW a \in D!Timestamp, NEW b \in D!Timestamp PROVE D!Minus(a, b) \in D!Timestamp
    OBVIOUS
  <2>2. a + TimestampMod - b \in Nat
    BY <1>1 DEF D!Timestamp
  <2>3. QED
    BY <1>1, <2>2, SMT DEF D!Minus, D!Timestamp
<1>4. QED
  BY <1>2, <1>3

(* Every detector is fed, or none but those of an event.                   *)
LEMMA FedType ==
  ASSUME TypeOK, NEW event, NEW t \in D!Timestamp, NEW passes
  PROVE  Fed(event, t, passes) \in [Detector -> D!CDebouncer]
<1>1. TimestampMod \in Nat \ {0}
  BY DetectionAssumption
<1>2. ASSUME NEW d \in D!CDebouncer, NEW b \in BOOLEAN PROVE D!Feed(d, t, b) \in D!CDebouncer
  BY <1>1 DEF D!Feed, D!Fresh, D!CDebouncer, D!Timestamp, D!NOT_PASSED
<1>3. ASSUME NEW d \in Detector PROVE D!Feed(detectors[d], t, passes[d[1]] = "yes") \in D!CDebouncer
  <2>1. detectors[d] \in D!CDebouncer
    BY DEF TypeOK
  <2>2. QED
    BY <1>2, <2>1
<1>4. QED
  BY <1>3 DEF Fed, TypeOK

(* The readings of the IMUs and of the barometers are readings.            *)
LEMMA ReadingTypes ==
  NoReading \in Reading /\ ImuReading \subseteq Reading /\ BaromReading \subseteq Reading
BY DEF NoReading, Reading, ImuReading, BaromReading

(* A run begins on the pad, with no time of boost, or in a flight that has *)
(* one.                                                                    *)
LEMMA RunInv ==
  ASSUME Inv, Run PROVE Inv'
<1>t. TypeOK /\ PadThenFlight
  BY DEF Inv
<1>1. /\ at = "idle" /\ pc[sensing] = "idle" /\ uptime' = now
      /\ UNCHANGED <<controller, pc, call, awaited, submits, deadline, now, boost_detected_time, sensed>>
  BY DEF Run, Handle
<1>2. \/ ~Began /\ at' = "boost_lsm6dsl" /\ reading' \in ImuReading
         /\ \E passes : detectors' = Fed("Boost", D!Stamp(now), passes)
      \/ Began /\ at' = "noseover" /\ reading' \in BaromReading /\ detectors' = detectors
  BY DEF Run, Began
<1>3. /\ "idle" \notin BoostSteps /\ "boost_lsm6dsl" \in BoostSteps
      /\ "noseover" \in Steps \ (BoostSteps \cup {"idle"})
  BY DEF BoostSteps, Steps
<1>4. /\ ~Began => now <= MaxPad /\ boost_detected_time = BOOST_NOT_YET_HAPPENED
      /\ Began => boost_detected_time # BOOST_NOT_YET_HAPPENED
      /\ boost_detected_time # BOOST_NOT_YET_HAPPENED => boost_detected_time <= now
  BY <1>t, <1>1, <1>3 DEF PadThenFlight
<1>5. now \in Nat /\ now' = now /\ now' >= now /\ boost_detected_time' = boost_detected_time
  BY <1>t, <1>1, Numbers
<1>6. Began => FlightStart' = FlightStart
  BY <1>4, <1>5 DEF FlightStart
<1>7. at' \notin {"ground_ms5611", "ground_bmp388", "return"}
  BY <1>2
<1>8. Controller!TypeOK' /\ CallInPlace' /\ TimersLate' /\ ReportsInOrder' /\ Began' = Began
  BY <1>1, <1>5, <1>6, <1>7, QuietStep
<1>9. TypeOK'
  <2>1. detectors' \in [Detector -> D!CDebouncer]
    BY <1>t, <1>2, <1>5, StampType, FedType DEF TypeOK
  <2>2. reading' \in Reading /\ at' \in Steps
    BY <1>2, ReadingTypes DEF Steps
  <2>3. QED
    BY <1>t, <1>1, <1>8, <2>1, <2>2 DEF TypeOK
<1>10. PadThenFlight'
  <2>1. CASE ~Began /\ at' = "boost_lsm6dsl"
    BY <1>1, <1>3, <1>4, <1>5, <1>8, <2>1 DEF PadThenFlight
  <2>2. CASE Began /\ at' = "noseover"
    BY <1>1, <1>3, <1>4, <1>5, <1>8, <2>2 DEF PadThenFlight
  <2>3. QED
    BY <1>2, <2>1, <2>2
<1>11. QED
  BY <1>8, <1>9, <1>10 DEF Inv

(* The time of boost is that of the run in which it was dispatched.        *)
LEMMA BoostDetectedInv ==
  ASSUME Inv, BoostDetected PROVE Inv'
<1>t. TypeOK /\ PadThenFlight
  BY DEF Inv
<1>1. /\ at = "boost_time" /\ pc[sensing] = "idle"
      /\ UNCHANGED <<controller, pc, call, awaited, submits, deadline, now, detectors, sensed>>
  BY DEF BoostDetected, Handle
<1>2. /\ "boost_time" \in BoostSteps /\ "boost_time" # "idle" /\ "idle" \notin BoostSteps
      /\ "noseover" \in Steps \ (BoostSteps \cup {"idle"})
  BY DEF BoostSteps, Steps
<1>3. uptime <= MaxPad /\ uptime <= now /\ boost_detected_time = BOOST_NOT_YET_HAPPENED
  BY <1>t, <1>1, <1>2 DEF PadThenFlight
<1>4. \/ /\ Began /\ at' = "noseover" /\ reading' \in BaromReading /\ uptime' = uptime
         /\ boost_detected_time' = uptime
      \/ /\ ~Began /\ at' = "idle" /\ reading' = NoReading /\ uptime' = 0
         /\ boost_detected_time' = boost_detected_time
  BY <1>3 DEF BoostDetected, Began
<1>5. /\ now \in Nat /\ now' = now /\ now' >= now /\ uptime \in Nat /\ MaxPad \in Nat
      /\ uptime # BOOST_NOT_YET_HAPPENED /\ uptime \in 0..BOOST_NOT_YET_HAPPENED
  BY <1>t, <1>1, <1>3, Numbers DEF BOOST_NOT_YET_HAPPENED
<1>6. Began => FlightStart' = FlightStart
  BY <1>3, <1>4, <1>5 DEF FlightStart
<1>7. at' \notin {"ground_ms5611", "ground_bmp388", "return"}
  BY <1>4
<1>8. Controller!TypeOK' /\ CallInPlace' /\ TimersLate' /\ ReportsInOrder' /\ Began' = Began
  BY <1>1, <1>3, <1>5, <1>6, <1>7, QuietStep
<1>9. TypeOK'
  <2>1. reading' \in Reading /\ at' \in Steps /\ uptime' \in Nat /\ boost_detected_time' \in 0..BOOST_NOT_YET_HAPPENED
    BY <1>t, <1>4, <1>5, ReadingTypes DEF Steps, TypeOK
  <2>2. QED
    BY <1>t, <1>1, <1>8, <2>1 DEF TypeOK
<1>10. PadThenFlight'
  <2>1. CASE Began /\ at' = "noseover" /\ uptime' = uptime /\ boost_detected_time' = uptime
    BY <1>2, <1>3, <1>5, <1>8, <2>1 DEF PadThenFlight
  <2>2. CASE ~Began /\ at' = "idle" /\ uptime' = 0 /\ boost_detected_time' = boost_detected_time
    BY <1>t, <1>2, <1>3, <1>5, <1>8, <2>2 DEF PadThenFlight
  <2>3. QED
    BY <1>4, <2>1, <2>2
<1>11. QED
  BY <1>8, <1>9, <1>10 DEF Inv

(* The rest of a run in flight: the time of boost is known.                *)
LEMMA FlightInv ==
  ASSUME Inv, FeedNoseover \/ FeedGround \/ Return PROVE Inv'
<1>t. TypeOK /\ PadThenFlight
  BY DEF Inv
<1>1. /\ at \in {"noseover", "ground", "return"} /\ pc[sensing] = "idle"
      /\ UNCHANGED <<controller, pc, call, awaited, submits, deadline, now, boost_detected_time, sensed>>
  BY DEF FeedNoseover, FeedGround, Return, Handle
<1>2. /\ "idle" \notin BoostSteps
      /\ \A a \in {"noseover", "ground", "return", "noseover_ms5611", "ground_ms5611"} :
           a \in Steps \ (BoostSteps \cup {"idle"})
  BY DEF BoostSteps, Steps
<1>3. /\ Began /\ boost_detected_time <= uptime /\ uptime <= now
      /\ boost_detected_time # BOOST_NOT_YET_HAPPENED
  <2>1. at \in Steps \ (BoostSteps \cup {"idle"})
    BY <1>1, <1>2
  <2>2. QED
    BY <1>t, <2>1 DEF PadThenFlight
<1>4. /\ now \in Nat /\ now' = now /\ now' >= now /\ boost_detected_time' = boost_detected_time
      /\ boost_detected_time <= now
  BY <1>t, <1>1, <1>3, Numbers
<1>5. FlightStart' = FlightStart
  BY <1>3, <1>4 DEF FlightStart
<1>6. /\ \/ at' \in {"noseover_ms5611", "ground", "ground_ms5611"} /\ UNCHANGED <<reading, uptime>>
         \/ at' = "idle" /\ reading' = NoReading /\ uptime' = 0
      /\ at' = "ground_ms5611" => HasEventOccured("Noseover")
  BY DEF FeedNoseover, FeedGround, Return
<1>7. at' \in {"ground_ms5611", "ground_bmp388", "return"} => HasEventOccured("Noseover")
  BY <1>6
<1>8. Controller!TypeOK' /\ CallInPlace' /\ TimersLate' /\ ReportsInOrder' /\ Began' = Began
  BY <1>1, <1>3, <1>4, <1>5, <1>7, QuietStep
<1>9. TypeOK'
  <2>1. t_plus_ms \in D!Timestamp
    <3>1. uptime - boost_detected_time \in Nat /\ BoostTime \in Nat
      BY <1>t, <1>3, Numbers, DetectionAssumption
    <3>2. QED
      BY <3>1, StampType DEF t_plus_ms
  <2>2. detectors' \in [Detector -> D!CDebouncer]
    <3>1. detectors' = detectors \/ \E event, passes : detectors' = Fed(event, t_plus_ms, passes)
      BY DEF FeedNoseover, FeedGround, Return
    <3>2. QED
      BY <1>t, <2>1, <3>1, FedType DEF TypeOK
  <2>3. reading' \in Reading /\ at' \in Steps /\ uptime' \in Nat
    BY <1>t, <1>6, ReadingTypes DEF Steps, TypeOK
  <2>4. QED
    BY <1>t, <1>1, <1>8, <2>2, <2>3 DEF TypeOK
<1>10. PadThenFlight'
  <2>1. CASE at' \in {"noseover_ms5611", "ground", "ground_ms5611"} /\ uptime' = uptime
    <3>1. at' \in Steps \ (BoostSteps \cup {"idle"})
      BY <1>2, <2>1
    <3>2. QED
      BY <1>3, <1>4, <1>8, <2>1, <3>1 DEF PadThenFlight
  <2>2. CASE at' = "idle" /\ uptime' = 0
    BY <1>2, <1>3, <1>4, <1>8, <2>2 DEF PadThenFlight
  <2>3. QED
    BY <1>6, <2>1, <2>2
<1>11. QED
  BY <1>8, <1>9, <1>10 DEF Inv

(* Time only goes on beyond the pad when a timer runs.                     *)
LEMMA TickInv ==
  ASSUME Inv, Tick PROVE Inv'
<1>t. TypeOK /\ PadThenFlight /\ TimersLate /\ ReportsInOrder
  BY DEF Inv
<1>1. /\ now' = now + 1
      /\ UNCHANGED <<controller, pc, call, awaited, submits, deadline, at, uptime, reading,
                     detectors, boost_detected_time, sensed>>
  BY DEF Tick
<1>2. now \in Nat /\ now' \in Nat /\ now' >= now /\ uptime \in Nat /\ boost_detected_time \in Nat /\ MaxPad \in Nat
  BY <1>t, <1>1, Numbers
<1>3. FlightStart' = FlightStart
  BY <1>1 DEF FlightStart
<1>4. at' \in {"ground_ms5611", "ground_bmp388", "return"} => HasEventOccured("Noseover")
  BY <1>t, <1>1 DEF ReportsInOrder
<1>5. Controller!TypeOK' /\ CallInPlace' /\ TimersLate' /\ ReportsInOrder' /\ Began' = Began
  BY <1>1, <1>2, <1>3, <1>4, QuietStep
<1>6. TypeOK'
  BY <1>t, <1>1, <1>2, <1>5 DEF TypeOK
<1>7. ~Began => now < MaxPad
  BY <1>t DEF Tick, TimersLate
<1>8. PadThenFlight'
  <2>1. at # "idle" => uptime <= now'
    BY <1>t, <1>1, <1>2 DEF PadThenFlight
  <2>2. boost_detected_time # BOOST_NOT_YET_HAPPENED => boost_detected_time <= now'
    BY <1>t, <1>1, <1>2 DEF PadThenFlight
  <2>3. ~Began => now' <= MaxPad
    BY <1>1, <1>2, <1>7
  <2>4. QED
    BY <1>t, <1>1, <1>5, <2>1, <2>2, <2>3 DEF PadThenFlight
<1>9. QED
  BY <1>5, <1>6, <1>8 DEF Inv

(* Each place of the handler from which it calls SubmitEvent.              *)
LEMMA SubmitPlaces ==
  ASSUME Inv, \/ BoostPrimary \/ BoostSecondary \/ NoseoverPrimary \/ NoseoverSecondary
              \/ GroundPrimary \/ GroundSecondary
  PROVE  Inv'
<1>t. TypeOK
  BY DEF Inv
<1>1. PICK p \in Places, allowed \in BOOLEAN :
        /\ SubmitIf(p.from, p.to, p.device, p.source, p.event, allowed)
        /\ p.event = "Noseover" /\ allowed => HasEventOccured("NoseoverLockout")
  <2>0. HasEventOccured("NoseoverLockout") \in BOOLEAN
    BY DEF HasEventOccured, Controller!HasEventOccured
  <2> DEFINE Known(p, allowed) ==
               /\ SubmitIf(p.from, p.to, p.device, p.source, p.event, allowed)
               /\ p.event = "Noseover" /\ allowed => HasEventOccured("NoseoverLockout")
  <2>1. ASSUME BoostPrimary PROVE \E p \in Places, allowed \in BOOLEAN : Known(p, allowed)
    <3> DEFINE q == [from |-> "boost_lsm6dsl", to |-> "boost_adxl375", device |-> "lsm6dsl",
                     source |-> "HighGImu", event |-> "Boost"]
    <3>1. q \in Places /\ Known(q, TRUE)
      BY <2>1 DEF Places, BoostPrimary
    <3>2. QED
      BY <3>1
  <2>2. ASSUME BoostSecondary PROVE \E p \in Places, allowed \in BOOLEAN : Known(p, allowed)
    <3> DEFINE q == [from |-> "boost_adxl375", to |-> "boost_time", device |-> "adxl375",
                     source |-> "LowGImu", event |-> "Boost"]
    <3>1. q \in Places /\ Known(q, TRUE)
      BY <2>2 DEF Places, BoostSecondary
    <3>2. QED
      BY <3>1
  <2>3. ASSUME NoseoverPrimary PROVE \E p \in Places, allowed \in BOOLEAN : Known(p, allowed)
    <3> DEFINE q == [from |-> "noseover_ms5611", to |-> "noseover_bmp388", device |-> "ms5611",
                     source |-> "BaromMS5611", event |-> "Noseover"]
    <3>1. q \in Places /\ Known(q, HasEventOccured("NoseoverLockout"))
      BY <2>3 DEF Places, NoseoverPrimary
    <3>2. QED
      BY <2>0, <3>1
  <2>4. ASSUME NoseoverSecondary PROVE \E p \in Places, allowed \in BOOLEAN : Known(p, allowed)
    <3> DEFINE q == [from |-> "noseover_bmp388", to |-> "ground", device |-> "bmp388",
                     source |-> "BaromBMP", event |-> "Noseover"]
    <3>1. q \in Places /\ Known(q, HasEventOccured("NoseoverLockout"))
      BY <2>4 DEF Places, NoseoverSecondary
    <3>2. QED
      BY <2>0, <3>1
  <2>5. ASSUME GroundPrimary PROVE \E p \in Places, allowed \in BOOLEAN : Known(p, allowed)
    <3> DEFINE q == [from |-> "ground_ms5611", to |-> "ground_bmp388", device |-> "ms5611",
                     source |-> "BaromMS5611", event |-> "GroundHit"]
    <3>1. q \in Places /\ Known(q, TRUE)
      BY <2>5 DEF Places, GroundPrimary
    <3>2. QED
      BY <3>1
  <2>6. ASSUME GroundSecondary PROVE \E p \in Places, allowed \in BOOLEAN : Known(p, allowed)
    <3> DEFINE q == [from |-> "ground_bmp388", to |-> "return", device |-> "bmp388",
                     source |-> "BaromBMP", event |-> "GroundHit"]
    <3>1. q \in Places /\ Known(q, TRUE)
      BY <2>6 DEF Places, GroundSecondary
    <3>2. QED
      BY <3>1
  <2>7. QED
    BY <2>1, <2>2, <2>3, <2>4, <2>5, <2>6
<1>2. Submitted(p, allowed)
  BY <1>t, <1>1, SubmitsOrNot
<1>3. QED
  BY <1>1, <1>2, SubmitInv

-----------------------------------------------------------------------------
(* What holds of every state.                                              *)

(* On the pad nothing has been reported, and no timer runs.                *)
LEMMA InitInv == Init => Inv
<1> SUFFICES ASSUME Init PROVE Inv
  OBVIOUS
<1>0. MaxPad \in Nat /\ TimestampMod \in Nat \ {0}
  BY DetectionAssumption
<1>1. /\ sourceStates = [e \in Events |-> {}] /\ eventStates = {} /\ osEvents = {} /\ logged = {}
      /\ timers = [i \in Controller!Timer |-> "stopped"] /\ confirmed = [e \in Events |-> 0]
      /\ pc = [p \in {sensing} |-> "idle"] /\ call = [p \in {sensing} |-> Controller!NoCall]
      /\ awaited = [p \in {sensing} |-> {}] /\ submits = [p \in {sensing} |-> 0]
  BY DEF Init, Controller!Init
<1>2. /\ now = 0 /\ uptime = 0 /\ deadline = [i \in Timer |-> 0] /\ at = "idle" /\ reading = NoReading
      /\ detectors = [d \in Detector |-> D!Fresh] /\ boost_detected_time = BOOST_NOT_YET_HAPPENED /\ sensed = {}
  BY DEF Init
<1>3. Controller!TypeOK
  <2>1. /\ sourceStates \in [Events -> SUBSET Sources] /\ eventStates \in SUBSET Events /\ osEvents \in SUBSET Events
        /\ timers \in [Controller!Timer -> {"stopped", "running", "expired"}] /\ logged \in SUBSET (Events \X Sources)
        /\ confirmed \in [Events -> Nat]
    BY <1>1
  <2>2. /\ pc \in [{sensing} -> {"idle"} \cup Controller!InSubmit \cup Controller!InWait]
        /\ call \in [{sensing} -> Controller!Call]
    BY <1>1, CallTypes
  <2>3. awaited \in [{sensing} -> SUBSET Events] /\ submits \in [{sensing} -> 0..0]
    BY <1>1
  <2>4. QED
    BY <2>1, <2>2, <2>3 DEF Controller!TypeOK
<1>4. D!Fresh \in D!CDebouncer
  BY <1>0 DEF D!Fresh, D!CDebouncer, D!NOT_PASSED, D!Timestamp
<1>5. TypeOK
  <2>1. BOOST_NOT_YET_HAPPENED \in 0..BOOST_NOT_YET_HAPPENED /\ "idle" \in Steps
    BY <1>0 DEF BOOST_NOT_YET_HAPPENED, Steps
  <2>2. QED
    BY <1>2, <1>3, <1>4, <2>1, ReadingTypes DEF TypeOK
<1>6. \A e : ~HasEventOccured(e)
  BY <1>1 DEF HasEventOccured, Controller!HasEventOccured
<1>7. CallInPlace
  BY <1>1 DEF CallInPlace
<1>8. PadThenFlight
  BY <1>0, <1>2, <1>6 DEF PadThenFlight, Began, BoostSteps
<1>9. TimersLate
  BY <1>1, <1>6, TimersOfFlight DEF TimersLate, Events
<1>10. ReportsInOrder
  BY <1>1, <1>2 DEF ReportsInOrder, Events
<1>11. QED
  BY <1>5, <1>7, <1>8, <1>9, <1>10 DEF Inv

LEMMA StepInv == Inv /\ [Next]_vars => Inv'
<1> SUFFICES ASSUME Inv, [Next]_vars PROVE Inv'
  OBVIOUS
<1>1. CASE UNCHANGED vars
  <2>1. /\ UNCHANGED <<controller, pc, call, awaited, submits, deadline>>
        /\ UNCHANGED <<now, at, uptime, reading, detectors, boost_detected_time, sensed>>
    BY <1>1 DEF vars, handler
  <2>2. now \in Nat /\ now' \in Nat /\ now' >= now
    BY <2>1, Numbers DEF Inv
  <2>3. FlightStart' = FlightStart
    BY <2>1 DEF FlightStart
  <2>4. at' \in {"ground_ms5611", "ground_bmp388", "return"} => HasEventOccured("Noseover")
    BY <2>1 DEF Inv, ReportsInOrder
  <2>5. Controller!TypeOK' /\ CallInPlace' /\ TimersLate' /\ ReportsInOrder' /\ Began' = Began
    BY <2>1, <2>2, <2>3, <2>4, QuietStep
  <2>6. TypeOK'
    BY <2>1, <2>5 DEF Inv, TypeOK
  <2>7. PadThenFlight'
    BY <2>1, <2>5 DEF Inv, PadThenFlight
  <2>8. QED
    BY <2>5, <2>6, <2>7 DEF Inv
<1>2. CASE HandlerStep
  BY <1>2, RunInv, SubmitPlaces, BoostDetectedInv, FlightInv DEF HandlerStep
<1>3. QED
  BY <1>1, <1>2, InSubmitStep, TimerInv, TickInv DEF Next

(* The handler submits an event from its own places only, boost is         *)
(* dispatched in a run whose time is known, and timers are as late as they *)
(* were set to.                                                            *)
THEOREM Invariance == Spec => []Inv
<1>1. QED
  BY InitInv, StepInv, PTL DEF Spec

(* The handler, the detectors and the controller keep their types.         *)
THEOREM TypeCorrect == Spec => []TypeOK
<1>1. Inv => TypeOK
  BY DEF Inv
<1>2. QED
  BY <1>1, Invariance, PTL

(* Noseover is not believed before the lockout is over, and the barometers *)
(* end a flight only after noseover (HandleNoseover, HandleGround and the  *)
(* timer events of flight.hpp), whatever the sensors say and whenever the  *)
(* timers interrupt.                                                       *)
THEOREM PhasesInOrderHolds == Spec => []PhasesInOrder
<1>1. Inv => PhasesInOrder
  <2> SUFFICES ASSUME Inv PROVE NoseoverRespectsLockout /\ GroundFollowsNoseover
    BY DEF PhasesInOrder
  <2>t. TypeOK /\ TimersLate /\ ReportsInOrder
    BY DEF Inv
  <2>1. NoseoverRespectsLockout
    <3>1. SUFFICES ASSUME sourceStates["Noseover"] # {}
                   PROVE  /\ HasEventOccured("NoseoverLockout")
                          /\ boost_detected_time # BOOST_NOT_YET_HAPPENED
                          /\ now >= boost_detected_time + LockoutTime
      BY DEF NoseoverRespectsLockout
    <3>2. HasEventOccured("NoseoverLockout") /\ boost_detected_time # BOOST_NOT_YET_HAPPENED
      BY <2>t, <3>1 DEF ReportsInOrder
    <3>3. QED
      BY <2>t, <3>2 DEF TimersLate, FlightStart
  <2>2. GroundFollowsNoseover
    <3>1. SUFFICES ASSUME HasEventOccured("GroundHit"), ~HasEventOccured("Noseover")
                   PROVE  /\ sourceStates["GroundHit"] = {"FullFlightTimer"}
                          /\ now >= FlightStart + FullFlightTime
      BY DEF GroundFollowsNoseover, FlightStart
    <3>2. sourceStates["GroundHit"] # {}
      BY <2>t, <3>1 DEF ReportsInOrder, HasEventOccured, Controller!HasEventOccured
    <3>3. sourceStates["GroundHit"] = {"FullFlightTimer"}
      BY <2>t, <3>1, <3>2 DEF ReportsInOrder
    <3>4. QED
      BY <2>t, <3>3 DEF TimersLate
  <2>3. QED
    BY <2>1, <2>2
<1>2. QED
  BY <1>1, Invariance, PTL

(* t_plus_ms is computed from a time of boost that is there and not later  *)
(* than the run (the end of HandleBoost).                                  *)
THEOREM BoostTimeIsKnownHolds == Spec => []BoostTimeIsKnown
<1>1. Inv => BoostTimeIsKnown
  BY DEF Inv, PadThenFlight, BoostTimeIsKnown, BoostSteps
<1>2. QED
  BY <1>1, Invariance, PTL

=============================================================================
