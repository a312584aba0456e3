----------------------- MODULE PhaseControllerProofs -----------------------
(***************************************************************************)
(* Theorems about CPhaseController, for any events, sources, timers,       *)
(* decision functions and threads that satisfy the assumptions of          *)
(* PhaseController.                                                        *)
(***************************************************************************)
EXTENDS PhaseController, TLAPS

-----------------------------------------------------------------------------
(* The state keeps its type.                                               *)

(* The locals a call starts with are locals of a call. *)
LEMMA NoCallType ==
  /\ NoCall \in Call
  /\ NoCall.i = 1 /\ NoCall.agreed = FALSE /\ NoCall.last_state = FALSE
  BY ControllerAssumption, SMT DEF NoCall, Call, Timer

(* A call of event e by source s starts with these locals. *)
LEMMA NewCallType ==
  ASSUME NEW e \in Event, NEW s \in Source
  PROVE  [NoCall EXCEPT !.event = e, !.source = s] \in Call
  BY NoCallType DEF Call

(* The locals of a WaitUntilEvent call are locals of a call.               *)
LEMMA WaitCallType ==
  ASSUME NEW e \in Event
  PROVE  [NoCall EXCEPT !.event = e] \in Call
  BY NoCallType DEF Call

(* Recording the answer of a decider, or the state found, keeps a call a   *)
(* call.                                                                   *)
LEMMA CallFlags ==
  ASSUME NEW c \in Call, NEW b \in BOOLEAN
  PROVE  [c EXCEPT !.agreed = b] \in Call /\ [c EXCEPT !.last_state = b] \in Call
  BY DEF Call

(* Each step of a thread inside SubmitEvent keeps every variable of its    *)
(* type.                                                                   *)
LEMMA SubmitStepType ==
  ASSUME TypeOK, NEW p \in Thread, SubmitStep(p), UNCHANGED submits
  PROVE  TypeOK'
<1> USE DEF TypeOK, InSubmit, InWait, controller
<1>1. CASE Decide(p)
  <2>1. PICK b \in BOOLEAN : call' = [call EXCEPT ![p] = [call[p] EXCEPT !.agreed = b]]
    <3> DEFINE agreed == sourceStates[call[p].event] \in deciders[call[p].event]
    <3>1. agreed \in BOOLEAN
      OBVIOUS
    <3> QED BY <1>1, <3>1, Zenon DEF Decide
  <2>2. call' \in [Thread -> Call]
    BY <2>1, CallFlags
  <2> QED BY <1>1, <2>2 DEF Decide, Goto
<1>2. CASE Check(p)
  <2>1. PICK b \in BOOLEAN : call' = [call EXCEPT ![p] = [call[p] EXCEPT !.last_state = b]]
    <3> DEFINE last == HasEventOccured(call[p].event)
    <3>1. last \in BOOLEAN
      BY DEF HasEventOccured
    <3> QED BY <1>2, <3>1, Zenon DEF Check
  <2>2. call' \in [Thread -> Call]
    BY <2>1, CallFlags
  <2> QED BY <1>2, <2>2 DEF Check, Goto
<1>3. CASE Dispatch(p)
  BY <1>3 DEF Dispatch, Goto, Call
<1>4. CASE Post(p)
  BY <1>4 DEF Post, Goto, Call
<1>5. CASE StartTimer(p)
  <2>1. call[p].i \in Timer /\ call[p].i + 1 \in 1..(num_timers + 1)
    BY <1>5, ControllerAssumption DEF StartTimer, Timer, Call
  <2>2. call' \in [Thread -> Call]
    BY <1>5, <2>1 DEF StartTimer, Call
  <2>3. timers' \in [Timer -> {"stopped", "running", "expired"}]
    BY <1>5 DEF StartTimer
  <2> QED BY <1>5, <2>2, <2>3 DEF StartTimer, Goto
<1>6. CASE TimersStarted(p)
  BY <1>6 DEF TimersStarted, Goto
<1>7. CASE LogSourceEvent(p)
  <2>1. call' \in [Thread -> Call]
    BY <1>7, NoCallType DEF LogSourceEvent
  <2> QED BY <1>7, <2>1 DEF LogSourceEvent, Goto, Call
<1>8. CASE LogEventConfirmed(p)
  <2>1. call' \in [Thread -> Call]
    BY <1>8, NoCallType DEF LogEventConfirmed
  <2>2. confirmed' \in [Event -> Nat]
    BY <1>8 DEF LogEventConfirmed, Call
  <2> QED BY <1>8, <2>1, <2>2 DEF LogEventConfirmed, Goto
<1> QED
  BY <1>1, <1>2, <1>3, <1>4, <1>5, <1>6, <1>7, <1>8 DEF SubmitStep

(* Every step of threads and timers keeps the types.                       *)
LEMMA TypeStep == TypeOK /\ [Next]_vars => TypeOK'
<1> SUFFICES ASSUME TypeOK, [Next]_vars PROVE TypeOK'
  OBVIOUS
<1> USE DEF TypeOK, InSubmit, InWait, controller
<1>1. ASSUME NEW p \in Thread, SubmitEvent(p) PROVE TypeOK'
  <2>1. PICK r \in MaySubmit[p] : Submit(p, r[1], r[2])
    BY <1>1 DEF SubmitEvent
  <2>2. r[1] \in Source /\ r[2] \in Event
    BY ControllerAssumption
  <2>3. call' \in [Thread -> Call]
    BY <2>1, <2>2, NewCallType DEF Submit
  <2>4. submits' \in [Thread -> 0..MaxSubmits]
    BY <1>1, ControllerAssumption DEF SubmitEvent
  <2> QED BY <2>1, <2>2, <2>3, <2>4 DEF Submit, Goto
<1>2. ASSUME NEW p \in Thread, Wait(p) PROVE TypeOK'
  <2>1. PICK e \in MayWait[p] \ awaited[p], where \in InWait : WaitUntilEvent(p, e, where)
    BY <1>2 DEF Wait
  <2>2. e \in Event
    BY ControllerAssumption
  <2>3. call' \in [Thread -> Call]
    BY <2>1, <2>2, WaitCallType DEF WaitUntilEvent
  <2> QED BY <1>2, <2>1, <2>3 DEF WaitUntilEvent, Goto, Wait
<1>3. ASSUME NEW p \in Thread, SubmitStep(p), UNCHANGED submits PROVE TypeOK'
  BY <1>3, SubmitStepType
<1>4. ASSUME NEW p \in Thread, EventArrived(p), UNCHANGED submits PROVE TypeOK'
  BY <1>4, NoCallType DEF EventArrived, Goto, Call
<1>5. ASSUME NEW p \in Thread, WaitTimedOut(p), UNCHANGED submits PROVE TypeOK'
  BY <1>5, NoCallType DEF WaitTimedOut, Goto
<1>6. ASSUME NEW i \in Timer, Expire(i) PROVE TypeOK'
  <2>1. timer_events[i].event \in Event /\ timer_events[i].source \in Source
    BY ControllerAssumption
  <2>2. confirmed' \in [Event -> Nat]
    BY <1>6, <2>1 DEF Expire, TimerExpiry
  <2>3. timers' \in [Timer -> {"stopped", "running", "expired"}]
    BY <1>6 DEF Expire, TimerExpiry
  <2> QED BY <1>6, <2>1, <2>2, <2>3 DEF Expire, TimerExpiry
<1>7. CASE UNCHANGED vars
  BY <1>7 DEF vars
<1> QED
  BY <1>1, <1>2, <1>3, <1>4, <1>5, <1>6, <1>7 DEF Next, Return

(* Every variable of the controller and of its callers keeps its type, for *)
(* every set of events, sources, timers and threads.                       *)
THEOREM TypeCorrect == Spec => []TypeOK
<1>1. Init => TypeOK
  BY ControllerAssumption, NoCallType DEF Init, TypeOK
<1> QED BY <1>1, TypeStep, PTL DEF Spec

-----------------------------------------------------------------------------
(* Reports, events, bits and started timers only accumulate.               *)

(* Sources stay marked, an event that occurred stays so, its bit is never  *)
(* cleared, and no timer is stopped again.                                 *)
LEMMA Accumulates ==
  ASSUME TypeOK, [Next]_vars
  PROVE  /\ \A e \in Event : sourceStates[e] \subseteq sourceStates'[e]
         /\ eventStates \subseteq eventStates'
         /\ osEvents \subseteq osEvents'
         /\ \A i \in Timer : timers[i] # "stopped" => timers'[i] # "stopped"
<1> DEFINE Grows == /\ \A e \in Event : sourceStates[e] \subseteq sourceStates'[e]
                    /\ eventStates \subseteq eventStates'
                    /\ osEvents \subseteq osEvents'
                    /\ \A i \in Timer : timers[i] # "stopped" => timers'[i] # "stopped"
<1> USE DEF TypeOK, controller
<1>1. ASSUME NEW p \in Thread, SubmitEvent(p) PROVE Grows
  BY <1>1 DEF SubmitEvent, Submit
<1>2. ASSUME NEW p \in Thread, Wait(p) PROVE Grows
  BY <1>2 DEF Wait, WaitUntilEvent
<1>3. ASSUME NEW p \in Thread, SubmitStep(p) PROVE Grows
  BY <1>3 DEF SubmitStep, Decide, Check, Dispatch, Post, StartTimer, TimersStarted,
              LogSourceEvent, LogEventConfirmed
<1>4. ASSUME NEW p \in Thread, EventArrived(p) PROVE Grows
  BY <1>4 DEF EventArrived
<1>5. ASSUME NEW p \in Thread, WaitTimedOut(p) PROVE Grows
  BY <1>5 DEF WaitTimedOut
<1>6. ASSUME NEW i \in Timer, Expire(i) PROVE Grows
  BY <1>6 DEF Expire, TimerExpiry
<1>7. CASE UNCHANGED vars
  BY <1>7 DEF vars
<1> QED
  BY <1>1, <1>2, <1>3, <1>4, <1>5, <1>6, <1>7 DEF Next, Return

(* A decision function that agreed goes on agreeing. *)
LEMMA AgreementStands ==
  ASSUME TypeOK, [Next]_vars, NEW e \in Event, sourceStates[e] \in deciders[e]
  PROVE  sourceStates'[e] \in deciders[e]
<1>1. sourceStates[e] \subseteq sourceStates'[e]
  BY Accumulates
<1>2. sourceStates[e] \in SUBSET Source /\ sourceStates'[e] \in SUBSET Source
  BY TypeStep DEF TypeOK
<1> QED BY <1>1, <1>2, DecidersAssumption

-----------------------------------------------------------------------------
(* What holds at each step of a call.                                      *)

(* The steps of other threads and of timers leave a call as it was. *)
LEMMA CallUndisturbed ==
  ASSUME TypeOK, [Next]_vars, NEW p \in Thread, CallOK(p), pc'[p] = pc[p], call'[p] = call[p]
  PROVE  CallOK(p)'
<1>1. call[p].event \in Event
  BY DEF TypeOK, Call
<1>2. eventStates \subseteq eventStates' /\ osEvents \subseteq osEvents'
  BY Accumulates
<1>3. call[p].agreed => sourceStates'[call[p].event] \in deciders[call[p].event]
  BY <1>1, AgreementStands DEF CallOK
<1> QED BY <1>2, <1>3 DEF CallOK

(* A thread's own step inside SubmitEvent takes its call from what holds   *)
(* at one access to what holds at the next.                                *)
LEMMA CallStepOfThread ==
  ASSUME TypeOK, [Next]_vars, NEW p \in Thread, CallOK(p), SubmitStep(p)
  PROVE  CallOK(p)'
<1> USE DEF Goto, InSubmit
<1>0. call[p] \in Call /\ call[p].event \in Event
  BY DEF TypeOK, Call
<1>a. call[p].agreed => sourceStates'[call[p].event] \in deciders[call[p].event]
  BY <1>0, AgreementStands DEF CallOK
<1>b. eventStates \subseteq eventStates' /\ osEvents \subseteq osEvents'
  BY Accumulates
<1>n. NoCall.i = 1 /\ NoCall.agreed = FALSE /\ NoCall.last_state = FALSE
  BY NoCallType
<1> USE DEF TypeOK, controller
<1>1. CASE Decide(p)
  <2> DEFINE agreed == sourceStates[call[p].event] \in deciders[call[p].event]
  <2>1. call'[p] = [call[p] EXCEPT !.agreed = agreed]
    BY <1>1, Zenon DEF Decide
  <2>2. /\ call'[p].event = call[p].event /\ call'[p].source = call[p].source
        /\ call'[p].i = call[p].i /\ call'[p].last_state = call[p].last_state
    BY <2>1, <1>0, Zenon DEF Call
  <2>3. call'[p].agreed <=> agreed
    BY <2>1, <1>0, Zenon DEF Call
  <2> QED BY <1>1, <2>2, <2>3 DEF Decide, CallOK
<1>2. CASE Check(p)
  BY <1>2, <1>0, <1>a DEF Check, CallOK, HasEventOccured, Call
<1>3. CASE Dispatch(p)
  BY <1>3, <1>0, <1>a DEF Dispatch, CallOK, Call
<1>4. CASE Post(p)
  BY <1>4, <1>0, <1>a DEF Post, CallOK, Call
<1>5. CASE StartTimer(p)
  BY <1>5, <1>0, <1>a DEF StartTimer, CallOK, Call
<1>6. CASE TimersStarted(p)
  BY <1>6, <1>0, <1>a DEF TimersStarted, CallOK, Call
<1>7. CASE LogSourceEvent(p)
  BY <1>7, <1>0, <1>a, <1>n DEF LogSourceEvent, CallOK, Call
<1>8. CASE LogEventConfirmed(p)
  BY <1>8, <1>0, <1>n DEF LogEventConfirmed, CallOK, Call
<1> QED
  BY <1>1, <1>2, <1>3, <1>4, <1>5, <1>6, <1>7, <1>8 DEF SubmitStep

(* Only the thread that acts changes its call. *)
LEMMA OthersCalls ==
  ASSUME TypeOK, NEW p \in Thread, NEW q \in Thread, q # p,
         SubmitEvent(p) \/ Wait(p) \/ Return(p)
  PROVE  pc'[q] = pc[q] /\ call'[q] = call[q] /\ awaited'[q] = awaited[q]
<1> USE DEF TypeOK, Goto
<1>1. CASE SubmitEvent(p)
  BY <1>1, ZenonT(40) DEF SubmitEvent, Submit
<1>2. CASE Wait(p)
  BY <1>2 DEF Wait, WaitUntilEvent
<1>3. CASE SubmitStep(p)
  BY <1>3 DEF SubmitStep, Decide, Check, Dispatch, Post, StartTimer, TimersStarted,
              LogSourceEvent, LogEventConfirmed
<1>4. CASE EventArrived(p)
  BY <1>4 DEF EventArrived
<1>5. CASE WaitTimedOut(p)
  BY <1>5 DEF WaitTimedOut
<1> QED
  BY <1>1, <1>2, <1>3, <1>4, <1>5 DEF Return

(* Every step keeps what is known at each access of every call.            *)
LEMMA CallStep ==
  ASSUME TypeOK, [Next]_vars, CallInv
  PROVE  CallInv'
<1> SUFFICES ASSUME NEW q \in Thread PROVE CallOK(q)'
  BY DEF CallInv
<1>0. CallOK(q)
  BY DEF CallInv
<1>n. NoCall.i = 1 /\ NoCall.agreed = FALSE /\ NoCall.last_state = FALSE
  BY NoCallType
<1>1. ASSUME NEW p \in Thread, SubmitEvent(p) \/ Wait(p) \/ Return(p), q # p PROVE CallOK(q)'
  BY <1>0, <1>1, OthersCalls, CallUndisturbed
<1>2. CASE SubmitEvent(q)
  <2>1. PICK r \in MaySubmit[q] : Submit(q, r[1], r[2])
    BY <1>2 DEF SubmitEvent
  <2>2. r \in Source \X Event
    BY ControllerAssumption
  <2>3. /\ call'[q].event = r[2] /\ call'[q].source = r[1]
        /\ call'[q].i = 1 /\ call'[q].agreed = FALSE
    BY <2>1, <2>2, <1>n, NoCallType DEF Submit, TypeOK, Call
  <2>4. pc'[q] = "decide"
    BY <2>1 DEF Submit, Goto, TypeOK
  <2>5. <<r[1], r[2]>> \in MaySubmit[q]
    BY <2>2
  <2> QED BY <2>3, <2>4, <2>5 DEF CallOK, InSubmit
<1>3. CASE Wait(q)
  <2>1. PICK e \in MayWait[q] \ awaited[q], where \in InWait : WaitUntilEvent(q, e, where)
    BY <1>3 DEF Wait
  <2>2. call'[q].agreed = FALSE
    BY <2>1, <1>n, NoCallType DEF WaitUntilEvent, TypeOK, Call
  <2>3. pc'[q] \in InWait
    BY <2>1 DEF WaitUntilEvent, Goto, TypeOK
  <2> QED BY <2>2, <2>3 DEF CallOK, InSubmit, InWait
<1>4. CASE SubmitStep(q)
  BY <1>0, <1>4, CallStepOfThread
<1>5. CASE EventArrived(q) \/ WaitTimedOut(q)
  <2>1. call'[q].agreed = FALSE /\ pc'[q] = "idle"
    BY <1>5, <1>n DEF EventArrived, WaitTimedOut, Goto, TypeOK
  <2> QED BY <2>1 DEF CallOK, InSubmit
<1>6. ASSUME NEW i \in Timer, Expire(i) PROVE CallOK(q)'
  BY <1>0, <1>6, CallUndisturbed DEF Expire, TimerExpiry
<1>7. CASE UNCHANGED vars
  BY <1>0, <1>7, CallUndisturbed DEF vars
<1> QED
  BY <1>1, <1>2, <1>3, <1>4, <1>5, <1>6, <1>7 DEF Next, Return

-----------------------------------------------------------------------------
(* Agreement is not lost.                                                  *)

(* Thread p is on its way to make e occur. *)
Deciding(p, e) == call[p].event = e /\ pc[p] \in {"decide", "check", "dispatch"}

(* Every step keeps an agreement from being lost: whoever marks last is on *)
(* its way to the decision.                                                *)
LEMMA AgreementStep ==
  ASSUME TypeOK, [Next]_vars, CallInv, AgreementNotLost
  PROVE  AgreementNotLost'
<1> SUFFICES ASSUME NEW e \in Event, sourceStates'[e] \in deciders[e], e \notin eventStates'
             PROVE  \E p \in Thread : Deciding(p, e)'
  BY DEF AgreementNotLost, Deciding
<1> USE DEF TypeOK, Goto, controller
<1>0. e \notin eventStates
  BY Accumulates
<1>1. ASSUME sourceStates'[e] = sourceStates[e]
      PROVE  \E q \in Thread : Deciding(q, e)
  BY <1>0, <1>1 DEF AgreementNotLost, Deciding
<1>2. ASSUME NEW p \in Thread, SubmitEvent(p) PROVE \E q \in Thread : Deciding(q, e)'
  <2>1. PICK r \in MaySubmit[p] : Submit(p, r[1], r[2])
    BY <1>2 DEF SubmitEvent
  <2>2. r \in Source \X Event
    BY ControllerAssumption
  <2>3. pc'[p] = "decide" /\ call'[p].event = r[2]
    BY <2>1, <2>2, NoCallType DEF Submit, Call
  <2>4. CASE r[2] = e
    BY <2>3, <2>4 DEF Deciding
  <2>5. CASE r[2] # e
    <3>1. sourceStates'[e] = sourceStates[e]
      BY <2>1, <2>5 DEF Submit
    <3>2. PICK q \in Thread : Deciding(q, e)
      BY <3>1, <1>1
    <3>3. q # p
      BY <3>2, <2>1 DEF Submit, Deciding
    <3> QED BY <3>2, <3>3, <1>2, OthersCalls DEF Deciding
  <2> QED BY <2>4, <2>5
<1>3. ASSUME NEW p \in Thread, SubmitStep(p), UNCHANGED submits PROVE \E q \in Thread : Deciding(q, e)'
  <2>1. sourceStates'[e] = sourceStates[e]
    BY <1>3 DEF SubmitStep, Decide, Check, Dispatch, Post, StartTimer, TimersStarted,
                LogSourceEvent, LogEventConfirmed
  <2>2. PICK q \in Thread : Deciding(q, e)
    BY <2>1, <1>1
  <2>3. CASE q # p
    BY <2>2, <2>3, <1>3, OthersCalls DEF Deciding, Return
  <2>4. CASE q = p
    <3>1. CASE Decide(p)
      <4>1. sourceStates[call[p].event] \in deciders[call[p].event]
        BY <2>1, <2>2, <2>4 DEF Deciding
      <4>2. pc'[p] = "check"
        BY <3>1, <4>1 DEF Decide
      <4>3. call'[p].event = call[p].event
        BY <3>1, ZenonT(40) DEF Decide, Call
      <4> QED BY <4>2, <4>3, <2>2, <2>4 DEF Deciding
    <3>2. CASE Check(p)
      <4>1. pc'[p] = "dispatch"
        BY <3>2, <1>0, <2>2, <2>4 DEF Check, HasEventOccured, Deciding
      <4>3. call'[p].event = call[p].event
        BY <3>2, ZenonT(40) DEF Check, Call
      <4> QED BY <4>1, <4>3, <2>2, <2>4 DEF Deciding
    <3>3. CASE Dispatch(p)
      BY <3>3, <2>2, <2>4 DEF Dispatch, Deciding
    <3>4. CASE ~(Decide(p) \/ Check(p) \/ Dispatch(p))
      BY <3>4, <1>3, <2>2, <2>4
         DEF SubmitStep, Post, StartTimer, TimersStarted, LogSourceEvent, LogEventConfirmed, Deciding
    <3> QED BY <3>1, <3>2, <3>3, <3>4
  <2> QED BY <2>3, <2>4
<1>4. ASSUME NEW p \in Thread, Wait(p) \/ EventArrived(p) \/ WaitTimedOut(p),
             SubmitEvent(p) \/ Wait(p) \/ Return(p)
      PROVE  \E q \in Thread : Deciding(q, e)'
  <2>1. sourceStates'[e] = sourceStates[e] /\ pc[p] \notin {"decide", "check", "dispatch"}
    BY <1>4 DEF Wait, WaitUntilEvent, EventArrived, WaitTimedOut, InWait
  <2>2. PICK q \in Thread : Deciding(q, e)
    BY <2>1, <1>1
  <2> QED BY <2>1, <2>2, <1>4, OthersCalls DEF Deciding
<1>5. ASSUME NEW i \in Timer, Expire(i) PROVE \E q \in Thread : Deciding(q, e)'
  <2>1. CASE timer_events[i].event = e
    BY <1>5, <2>1 DEF Expire, TimerExpiry, HasEventOccured
  <2>2. CASE timer_events[i].event # e
    BY <1>5, <2>2, <1>1 DEF Expire, TimerExpiry, Deciding
  <2> QED BY <2>1, <2>2
<1>6. CASE UNCHANGED vars
  BY <1>6, <1>1 DEF vars, Deciding
<1> QED
  BY <1>2, <1>3, <1>4, <1>5, <1>6 DEF Next, Return

-----------------------------------------------------------------------------
(* Nothing is announced that did not happen.                               *)

(* Every step announces only events whose decider agreed.                  *)
LEMMA AnnouncedStep ==
  ASSUME TypeOK, [Next]_vars, CallInv, AnnouncedIsJustified
  PROVE  AnnouncedIsJustified'
<1> USE DEF TypeOK, Goto, controller
<1>0. /\ \A e \in Event : sourceStates[e] \in deciders[e] => sourceStates'[e] \in deciders[e]
      /\ osEvents \subseteq osEvents'
  BY AgreementStands, Accumulates
<1>1. \A e \in eventStates' : sourceStates'[e] \in deciders[e]
  <2>1. CASE eventStates' = eventStates
    BY <2>1, <1>0 DEF AnnouncedIsJustified
  <2>2. ASSUME NEW p \in Thread, Dispatch(p) PROVE \A e \in eventStates' : sourceStates'[e] \in deciders[e]
    <3>1. call[p].event \in Event /\ sourceStates[call[p].event] \in deciders[call[p].event]
      BY <2>2 DEF Dispatch, CallInv, CallOK, Call
    <3> QED BY <3>1, <2>2, <1>0 DEF Dispatch, AnnouncedIsJustified
  <2>3. ASSUME NEW i \in Timer, Expire(i) PROVE \A e \in eventStates' : sourceStates'[e] \in deciders[e]
    <3> DEFINE d == timer_events[i].event
    <3>1. d \in Event
      BY ControllerAssumption
    <3>2. sourceStates'[d] = sourceStates[d] \cup {timer_events[i].source}
      BY <2>3, <3>1 DEF Expire, TimerExpiry
    <3>3. \/ eventStates' = eventStates
          \/ eventStates' = eventStates \cup {d} /\ sourceStates'[d] \in deciders[d]
      BY <2>3, <3>2 DEF Expire, TimerExpiry
    <3> QED BY <3>3, <1>0 DEF AnnouncedIsJustified
  <2> QED BY <2>1, <2>2, <2>3 DEF Next, vars, SubmitEvent, Submit, Wait, WaitUntilEvent, Return,
             SubmitStep, Decide, Check, Post, StartTimer, TimersStarted, LogSourceEvent,
             LogEventConfirmed, EventArrived, WaitTimedOut
<1>2. osEvents' \subseteq eventStates'
  <2>1. CASE osEvents' = osEvents
    BY <2>1, Accumulates DEF AnnouncedIsJustified
  <2>2. ASSUME NEW p \in Thread, Post(p) PROVE osEvents' \subseteq eventStates'
    BY <2>2, Accumulates DEF Post, CallInv, CallOK, AnnouncedIsJustified
  <2>3. ASSUME NEW i \in Timer, Expire(i) PROVE osEvents' \subseteq eventStates'
    BY <2>3 DEF Expire, TimerExpiry, AnnouncedIsJustified
  <2> QED BY <2>1, <2>2, <2>3 DEF Next, vars, SubmitEvent, Submit, Wait, WaitUntilEvent, Return,
             SubmitStep, Decide, Check, Dispatch, StartTimer, TimersStarted, LogSourceEvent,
             LogEventConfirmed, EventArrived, WaitTimedOut
<1>3. \A p \in Thread : awaited'[p] \subseteq osEvents'
  <2>1. CASE awaited' = awaited
    BY <2>1, <1>0 DEF AnnouncedIsJustified
  <2>2. ASSUME NEW p \in Thread, EventArrived(p) PROVE \A q \in Thread : awaited'[q] \subseteq osEvents'
    BY <2>2 DEF EventArrived, AnnouncedIsJustified
  <2> QED BY <2>1, <2>2 DEF Next, vars, SubmitEvent, Submit, Wait, WaitUntilEvent, Return,
             SubmitStep, Decide, Check, Dispatch, Post, StartTimer, TimersStarted, LogSourceEvent,
             LogEventConfirmed, WaitTimedOut, Expire, TimerExpiry
<1>4. \A e \in Event : confirmed'[e] > 0 => e \in osEvents'
  <2>1. CASE confirmed' = confirmed
    BY <2>1, <1>0 DEF AnnouncedIsJustified
  <2>2. ASSUME NEW p \in Thread, LogEventConfirmed(p), confirmed' # confirmed
        PROVE  \A e \in Event : confirmed'[e] > 0 => e \in osEvents'
    <3>1. call[p].event \in Event /\ call[p].event \in osEvents
      BY <2>2 DEF LogEventConfirmed, CallInv, CallOK, Call
    <3> QED BY <2>2, <3>1 DEF LogEventConfirmed, AnnouncedIsJustified
  <2>3. ASSUME NEW i \in Timer, Expire(i) PROVE \A e \in Event : confirmed'[e] > 0 => e \in osEvents'
    <3>1. timer_events[i].event \in Event
      BY ControllerAssumption
    <3> QED BY <2>3, <3>1 DEF Expire, TimerExpiry, AnnouncedIsJustified
  <2> QED BY <2>1, <2>2, <2>3 DEF Next, vars, SubmitEvent, Submit, Wait, WaitUntilEvent, Return,
             SubmitStep, Decide, Check, Dispatch, Post, StartTimer, TimersStarted, LogSourceEvent,
             EventArrived, WaitTimedOut
<1> QED BY <1>1, <1>2, <1>3, <1>4 DEF AnnouncedIsJustified

-----------------------------------------------------------------------------
(* Timers follow events.                                                   *)

(* Thread p will still start timer i for the event it dispatched. *)
Ahead(p, i) == /\ call[p].event = timer_events[i].start
               /\ \/ pc[p] = "post"
                  \/ pc[p] = "start_timers" /\ call[p].i <= i

(* Every step leaves the timers of an event that occurred started, or      *)
(* ahead of a thread in SubmitEvent's loop.                                *)
LEMMA TimersStep ==
  ASSUME TypeOK, [Next]_vars, CallInv, TimersInv
  PROVE  TimersInv'
<1> USE DEF TypeOK, Goto, controller
<1> SUFFICES ASSUME NEW t \in Timer
             PROVE  LET e == timer_events[t].start
                    IN  /\ timers'[t] # "stopped" => e \in eventStates'
                        /\ timers'[t] = "stopped" /\ e \in eventStates' => \E p \in Thread : Ahead(p, t)'
  BY DEF TimersInv, Ahead
<1> DEFINE e == timer_events[t].start
<1>0. e \in Event /\ t \in Nat /\ 1 <= t /\ t <= num_timers
  BY ControllerAssumption DEF Timer
<1>1. timers'[t] # "stopped" => e \in eventStates'
  <2>1. CASE timers'[t] = timers[t]
    BY <2>1, Accumulates DEF TimersInv
  <2>2. ASSUME NEW p \in Thread, StartTimer(p), timers'[t] # timers[t] PROVE e \in eventStates'
    BY <2>2 DEF StartTimer, CallInv, CallOK
  <2>3. ASSUME NEW i \in Timer, Expire(i), timers'[t] # timers[t] PROVE e \in eventStates'
    BY <2>3 DEF Expire, TimerExpiry, TimersInv
  <2> QED BY <2>1, <2>2, <2>3 DEF Next, vars, SubmitEvent, Submit, Wait, WaitUntilEvent, Return,
             SubmitStep, Decide, Check, Dispatch, Post, TimersStarted, LogSourceEvent,
             LogEventConfirmed, EventArrived, WaitTimedOut
<1>2. ASSUME timers'[t] = "stopped", e \in eventStates' PROVE \E p \in Thread : Ahead(p, t)'
  <2>0. timers[t] = "stopped"
    BY <1>2, Accumulates
  <2>1. ASSUME e \in eventStates PROVE \E p \in Thread : Ahead(p, t)
    BY <2>0, <2>1 DEF TimersInv, Ahead
  <2>2. ASSUME NEW p \in Thread, NEW q \in Thread, q # p, Ahead(q, t),
               SubmitEvent(p) \/ Wait(p) \/ Return(p)
        PROVE  Ahead(q, t)'
    BY <2>2, OthersCalls DEF Ahead
  <2>3. ASSUME NEW p \in Thread, SubmitEvent(p) \/ Wait(p) \/ EventArrived(p) \/ WaitTimedOut(p),
               SubmitEvent(p) \/ Wait(p) \/ Return(p)
        PROVE  \E q \in Thread : Ahead(q, t)'
    <3>1. eventStates' = eventStates /\ pc[p] \notin {"post", "start_timers"}
      BY <2>3 DEF SubmitEvent, Submit, Wait, WaitUntilEvent, EventArrived, WaitTimedOut, InWait
    <3>2. PICK q \in Thread : Ahead(q, t)
      BY <3>1, <1>2, <2>1
    <3> QED BY <3>1, <3>2, <2>2, <2>3 DEF Ahead
  <2>4. ASSUME NEW p \in Thread, Dispatch(p), Return(p) PROVE \E q \in Thread : Ahead(q, t)'
    <3>1. CASE e \in eventStates
      <4>1. PICK q \in Thread : Ahead(q, t)
        BY <3>1, <2>1
      <4>2. q # p
        BY <4>1, <2>4 DEF Dispatch, Ahead
      <4> QED BY <4>1, <4>2, <2>2, <2>4
    <3>2. CASE e \notin eventStates
      BY <3>2, <1>2, <2>4 DEF Dispatch, Ahead
    <3> QED BY <3>1, <3>2
  <2>5. ASSUME NEW p \in Thread, SubmitStep(p), ~Dispatch(p), Return(p) PROVE \E q \in Thread : Ahead(q, t)'
    <3>1. eventStates' = eventStates
      BY <2>5 DEF SubmitStep, Decide, Check, Post, StartTimer, TimersStarted, LogSourceEvent, LogEventConfirmed
    <3>2. PICK q \in Thread : Ahead(q, t)
      BY <3>1, <1>2, <2>1
    <3>3. CASE q # p
      BY <3>2, <3>3, <2>2, <2>5
    <3>4. CASE q = p
      <4>1. CASE Post(p)
        BY <4>1, <3>2, <3>4, <1>0 DEF Post, Ahead, CallInv, CallOK
      <4>2. CASE StartTimer(p)
        <5>1. call[p].i \in Nat /\ call[p].i <= t /\ call[p].event = e
          BY <4>2, <3>2, <3>4 DEF StartTimer, Ahead, Call
        <5>2. call[p].i # t
          BY <4>2, <5>1, <1>2 DEF StartTimer
        <5>3. /\ call'[p].i = call[p].i + 1 /\ call'[p].event = call[p].event
              /\ pc'[p] = "start_timers"
          BY <4>2 DEF StartTimer, Call
        <5> QED BY <5>1, <5>2, <5>3, <1>0, SMTT(30) DEF Ahead
      <4>3. CASE TimersStarted(p)
        BY <4>3, <3>2, <3>4, <1>0, ControllerAssumption DEF TimersStarted, Ahead, Call
      <4>4. CASE ~(Post(p) \/ StartTimer(p) \/ TimersStarted(p))
        BY <4>4, <2>5, <3>2, <3>4
           DEF SubmitStep, Decide, Check, LogSourceEvent, LogEventConfirmed, Ahead
      <4> QED BY <4>1, <4>2, <4>3, <4>4
    <3> QED BY <3>3, <3>4
  <2>6. ASSUME NEW i \in Timer, Expire(i) PROVE \E q \in Thread : Ahead(q, t)'
    BY <2>6, <1>2, <2>1 DEF Expire, TimerExpiry, Ahead
  <2>7. CASE UNCHANGED vars
    BY <2>7, <1>2, <2>1 DEF vars, Ahead
  <2> QED BY <2>3, <2>4, <2>5, <2>6, <2>7 DEF Next, Return
<1> QED BY <1>1, <1>2

-----------------------------------------------------------------------------
(* An event with a single submitter is confirmed once.                     *)

(* Every step keeps an event with a single submitter from being confirmed  *)
(* twice.                                                                  *)
LEMMA ExclusiveStep ==
  ASSUME TypeOK, [Next]_vars, CallInv, AnnouncedIsJustified, ExclusiveInv
  PROVE  ExclusiveInv'
<1> USE DEF TypeOK, Goto, controller
<1> SUFFICES ASSUME NEW e \in Event, Exclusive(e)
             PROVE  /\ confirmed'[e] <= 1
                    /\ \A p \in Thread : Confirming(p, e)' =>
                         /\ confirmed'[e] = 0
                         /\ pc'[p] = "dispatch" => e \notin eventStates'
  BY DEF ExclusiveInv, Exclusive, Submitters, TimerSubmits
<1> DEFINE Due(p) == Confirming(p, e) => confirmed[e] = 0 /\ (pc[p] = "dispatch" => e \notin eventStates)
<1>0. confirmed[e] \in Nat /\ confirmed[e] <= 1 /\ \A p \in Thread : Due(p)
  BY DEF ExclusiveInv
(* A thread that confirms e is the only one, and no timer submits e. *)
<1>1. ASSUME NEW p \in Thread, call[p].event = e, pc[p] \in InSubmit
      PROVE  /\ ~TimerSubmits(e)
             /\ \A q \in Thread : call[q].event = e /\ pc[q] \in InSubmit => q = p
  <2>1. ASSUME NEW q \in Thread, call[q].event = e, pc[q] \in InSubmit PROVE q \in Submitters(e)
    BY <2>1 DEF CallInv, CallOK, Submitters, Call
  <2> QED BY <1>1, <2>1 DEF Exclusive
<1>2. ASSUME NEW p \in Thread, SubmitEvent(p) \/ Wait(p) \/ EventArrived(p) \/ WaitTimedOut(p),
             SubmitEvent(p) \/ Wait(p) \/ Return(p), NEW q \in Thread
      PROVE  confirmed' = confirmed /\ Due(q)'
  <2>1. confirmed' = confirmed /\ eventStates' = eventStates
    BY <1>2 DEF SubmitEvent, Submit, Wait, WaitUntilEvent, EventArrived, WaitTimedOut
  <2>2. CASE q # p
    BY <2>1, <2>2, <1>0, <1>2, OthersCalls DEF Confirming
  <2>3. pc'[p] \in {"decide", "idle", "wait_forever", "wait_timeout"}
    BY <1>2 DEF SubmitEvent, Submit, Wait, WaitUntilEvent, EventArrived, WaitTimedOut, InWait
  <2> QED BY <2>1, <2>2, <2>3 DEF Confirming
<1>3. ASSUME NEW p \in Thread, SubmitStep(p), Return(p), ~LogEventConfirmed(p), NEW q \in Thread
      PROVE  confirmed' = confirmed /\ Due(q)'
  <2>1. confirmed' = confirmed
    BY <1>3 DEF SubmitStep, Decide, Check, Dispatch, Post, StartTimer, TimersStarted, LogSourceEvent
  <2>2. CASE q # p
    <3>1. CASE Dispatch(p)
      <4>1. CASE call[p].event = e
        <5>1. ~(call[q].event = e /\ pc[q] \in InSubmit)
          BY <3>1, <4>1, <2>2, <1>1 DEF Dispatch, InSubmit
        <5> QED BY <5>1, <2>1, <2>2, <1>3, OthersCalls DEF Confirming, InSubmit
      <4>2. CASE call[p].event # e
        <5>1. e \notin eventStates => e \notin eventStates'
          BY <3>1, <4>2 DEF Dispatch
        <5> QED BY <5>1, <2>1, <2>2, <1>0, <1>3, OthersCalls DEF Confirming
      <4> QED BY <4>1, <4>2
    <3>2. CASE ~Dispatch(p)
      <4>1. eventStates' = eventStates
        BY <3>2, <1>3 DEF SubmitStep, Decide, Check, Post, StartTimer, TimersStarted, LogSourceEvent
      <4> QED BY <4>1, <2>1, <2>2, <1>0, <1>3, OthersCalls DEF Confirming
    <3> QED BY <3>1, <3>2
  <2>3. CASE q = p
    <3>1. CASE Decide(p)
      <4>1. pc'[p] \in {"check", "log_source"}
        BY <3>1 DEF Decide
      <4>2. pc'[p] = "log_source" => ~call'[p].agreed
        BY <3>1, Zenon DEF Decide, Call
      <4> QED BY <4>1, <4>2, <2>1, <2>3 DEF Confirming
    <3>2. CASE Check(p)
      <4>1. CASE e \in eventStates
        BY <4>1, <3>2, <2>3 DEF Check, HasEventOccured, Confirming, Call
      <4>2. CASE e \notin eventStates
        <5>1. confirmed[e] = 0
          BY <4>2, <1>0 DEF AnnouncedIsJustified
        <5> QED BY <5>1, <4>2, <2>1, <2>3, <3>2 DEF Check
      <4> QED BY <4>1, <4>2
    <3>3. CASE Dispatch(p)
      <4>1. Confirming(p, e)' => Confirming(p, e)
        BY <3>3 DEF Dispatch, Confirming
      <4>2. pc'[p] = "post"
        BY <3>3 DEF Dispatch
      <4> QED BY <4>1, <4>2, <2>1, <2>3, <1>0
    <3>4. CASE Post(p) \/ StartTimer(p) \/ TimersStarted(p) \/ LogSourceEvent(p)
      <4>1. Confirming(p, e)' => Confirming(p, e)
        BY <3>4, NoCallType DEF Post, StartTimer, TimersStarted, LogSourceEvent, Confirming, Call
      <4>2. pc'[p] # "dispatch"
        BY <3>4 DEF Post, StartTimer, TimersStarted, LogSourceEvent
      <4> QED BY <4>1, <4>2, <2>1, <2>3, <1>0
    <3> QED BY <1>3, <3>1, <3>2, <3>3, <3>4 DEF SubmitStep
  <2> QED BY <2>1, <2>2, <2>3
<1>4. ASSUME NEW p \in Thread, LogEventConfirmed(p), Return(p)
      PROVE  /\ confirmed'[e] <= 1
             /\ \A q \in Thread : Due(q)'
  <2>1. eventStates' = eventStates /\ pc'[p] = "idle"
    BY <1>4 DEF LogEventConfirmed
  <2>2. CASE Confirming(p, e)
    <3>1. confirmed'[e] = 1
      BY <2>2, <1>0, <1>4 DEF LogEventConfirmed, Confirming
    <3>2. ASSUME NEW q \in Thread, q # p PROVE ~Confirming(q, e)'
      <4>1. ~Confirming(q, e)
        BY <2>2, <3>2, <1>1 DEF Confirming, InSubmit
      <4> QED BY <4>1, <3>2, <1>4, OthersCalls DEF Confirming
    <3>3. ~Confirming(p, e)'
      BY <2>1 DEF Confirming
    <3> QED BY <3>1, <3>2, <3>3
  <2>3. CASE ~Confirming(p, e)
    <3>1. confirmed'[e] = confirmed[e]
      BY <2>3, <1>4 DEF LogEventConfirmed, Confirming, CallInv, CallOK
    <3>2. ASSUME NEW q \in Thread PROVE Due(q)'
      BY <2>1, <3>1, <1>0, <1>4, OthersCalls DEF Confirming
    <3> QED BY <3>1, <3>2, <1>0
  <2> QED BY <2>2, <2>3
<1>5. ASSUME NEW i \in Timer, Expire(i)
      PROVE  /\ confirmed'[e] <= 1
             /\ \A q \in Thread : Due(q)'
  <2> DEFINE d == timer_events[i].event
  <2>0. d \in Event
    BY ControllerAssumption
  <2>1. CASE d # e
    <3>1. confirmed'[e] = confirmed[e] /\ (e \notin eventStates => e \notin eventStates')
      BY <2>0, <2>1, <1>5 DEF Expire, TimerExpiry
    <3>2. pc' = pc /\ call' = call
      BY <1>5 DEF Expire, TimerExpiry
    <3> QED BY <3>1, <3>2, <1>0 DEF Confirming
  <2>2. CASE d = e
    <3>1. TimerSubmits(e)
      BY <2>2 DEF TimerSubmits
    <3>2. ASSUME NEW q \in Thread PROVE ~Confirming(q, e)'
      BY <3>1, <1>1, <1>5 DEF Confirming, InSubmit, Expire, TimerExpiry
    <3>3. confirmed'[e] <= 1
      <4>1. e \notin eventStates => confirmed[e] = 0
        BY <1>0 DEF AnnouncedIsJustified
      <4> QED BY <4>1, <2>2, <1>0, <1>5 DEF Expire, TimerExpiry, HasEventOccured
    <3> QED BY <3>2, <3>3
  <2> QED BY <2>1, <2>2
<1>6. CASE UNCHANGED vars
  BY <1>6, <1>0 DEF vars, Confirming
<1>7. /\ confirmed'[e] <= 1
      /\ \A q \in Thread : Due(q)'
  BY <1>0, <1>2, <1>3, <1>4, <1>5, <1>6 DEF Next, Return
<1> QED BY <1>7

-----------------------------------------------------------------------------
(* The theorems.                                                           *)

(* The constructor establishes the inductive invariant.                    *)
LEMMA Initially == Init => IInv
<1> SUFFICES ASSUME Init PROVE IInv
  OBVIOUS
<1>1. TypeOK
  BY ControllerAssumption, NoCallType DEF Init, TypeOK
<1>2. CallInv
  BY NoCallType DEF Init, CallInv, CallOK, InSubmit
<1>3. AgreementNotLost
  BY DecidersAssumption DEF Init, AgreementNotLost
<1>4. AnnouncedIsJustified
  BY DEF Init, AnnouncedIsJustified
<1>5. TimersInv
  BY DEF Init, TimersInv
<1>6. ExclusiveInv
  BY DEF Init, ExclusiveInv, Confirming
<1> QED BY <1>1, <1>2, <1>3, <1>4, <1>5, <1>6 DEF IInv

(* The inductive invariant that the safety properties follow from. *)
THEOREM Invariance == Spec => []IInv
<1>1. IInv /\ [Next]_vars => IInv'
  BY TypeStep, CallStep, AgreementStep, AnnouncedStep, TimersStep, ExclusiveStep DEF IInv
<1> QED BY Initially, <1>1, PTL DEF Spec

(* SubmitEvent marks before it decides, so of all the sources whose        *)
(* reports together satisfy a decider the last one to mark sees them all.  *)
THEOREM AgreementIsNotLost == Spec => []AgreementNotLost
<1>1. IInv => AgreementNotLost
  BY DEF IInv
<1> QED BY Invariance, <1>1, PTL

(* HasEventOccured, WaitUntilEvent and the flight log tell the truth: they *)
(* name only events that the decision function accepted.                   *)
THEOREM OnlyTheJustifiedIsAnnounced == Spec => []AnnouncedIsJustified
<1>1. IInv => AnnouncedIsJustified
  BY DEF IInv
<1> QED BY Invariance, <1>1, PTL

(* The loop of k_timer_start in SubmitEvent: no timer runs before its      *)
(* start event, none is left stopped by a finished dispatch.               *)
THEOREM TimersFollow == Spec => []TimersFollowEvents
<1>1. IInv => TimersFollowEvents
  BY DEF IInv, TimersInv, TimersFollowEvents, Dispatching
<1> QED BY Invariance, <1>1, PTL

(* The test of last_state in SubmitEvent suffices when a single context    *)
(* submits an event.                                                       *)
THEOREM ExclusiveConfirmedOnce == Spec => []ConfirmedOnce
<1>1. IInv => ConfirmedOnce
  BY DEF IInv, ExclusiveInv, ConfirmedOnce
<1> QED BY Invariance, <1>1, PTL

(* Every step of the controller is a step its users may rely on, or none   *)
(* they can see: the lock-free SubmitEvent implements FlightEvents.        *)
THEOREM ControllerKeepsPromise == Spec => KeepsPromise
<1>1. Init => Promise!Init
  BY DEF Init, Promise!Init
<1>2. ASSUME IInv, [Next]_vars PROVE [Promise!Next]_(Promise!vars)
  <2> USE DEF Promise!vars, controller, TypeOK
  <2>0. TypeOK
    BY <1>2 DEF IInv
  <2>1. ASSUME NEW p \in Thread, SubmitEvent(p) PROVE Promise!Next
    <3>1. PICK r \in MaySubmit[p] : Submit(p, r[1], r[2])
      BY <2>1 DEF SubmitEvent
    <3> DEFINE s == r[1]
               e == r[2]
    <3>a. sourceStates' = [sourceStates EXCEPT ![e] = @ \cup {s}] /\ eventStates' = eventStates
      BY <3>1 DEF Submit
    <3>2. Promise!Report(s, e)
      BY <3>a, Zenon DEF Promise!Report
    <3>3. r \in UNION {MaySubmit[q] : q \in Thread}
      OBVIOUS
    <3> QED BY <3>2, <3>3 DEF Promise!Next, Promise!ThreadReport
  <2>2. ASSUME NEW p \in Thread, Dispatch(p) PROVE Promise!Next
    <3>1. call[p].event \in Event /\ sourceStates[call[p].event] \in deciders[call[p].event]
      BY <1>2, <2>0, <2>2 DEF Dispatch, Goto, IInv, CallInv, CallOK, Call
    <3>a. sourceStates' = sourceStates /\ eventStates' = eventStates \cup {call[p].event}
      BY <2>2 DEF Dispatch
    <3>2. Promise!Agree(call[p].event)
      BY <3>1, <3>a, Zenon DEF Promise!Agree
    <3>3. \E e \in Event : Promise!Agree(e)
      BY <3>1, <3>2
    <3> QED BY <3>3 DEF Promise!Next
  <2>3. ASSUME NEW i \in Timer, Expire(i) PROVE Promise!Next
    <3> DEFINE s == timer_events[i].source
               e == timer_events[i].event
    <3>1. timer_events[i].start \in eventStates
      BY <1>2, <2>3 DEF IInv, TimersInv, Expire, TimerExpiry
    <3>2. /\ sourceStates' = [sourceStates EXCEPT ![e] = @ \cup {s}]
          /\ \/ eventStates' = eventStates
             \/ sourceStates[e] \cup {s} \in deciders[e] /\ eventStates' = eventStates \cup {e}
      BY <2>3 DEF Expire, TimerExpiry
    <3>3. Promise!Report(s, e)
      BY <3>2 DEF Promise!Report
    <3> QED BY <3>1, <3>3 DEF Promise!Next, Promise!TimerReport
  <2> QED BY <1>2, <2>1, <2>2, <2>3 DEF Next, vars, Wait, WaitUntilEvent, Return, SubmitStep,
          Decide, Check, Post, StartTimer, TimersStarted, LogSourceEvent, LogEventConfirmed,
          EventArrived, WaitTimedOut
<1>3. IInv /\ [Next]_vars => [Promise!Next]_(Promise!vars)
  BY <1>2
<1> QED BY <1>1, <1>3, Invariance, PTL DEF Spec, KeepsPromise, Promise!Spec
=============================================================================
