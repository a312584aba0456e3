-------------------------- MODULE PhaseController --------------------------
(***************************************************************************)
(* CPhaseController (include/f_core/flight/c_phase_controller.h): sources  *)
(* tell the controller that they saw an event, a decision function per     *)
(* event combines them, an event that is agreed is dispatched once: it is  *)
(* posted to the threads that wait for it and it starts the timers that    *)
(* will report later events.                                               *)
(*                                                                         *)
(* The controller takes no lock.  A thread inside SubmitEvent can be       *)
(* preempted between any two of its accesses, by another thread or by the  *)
(* expiry of a k_timer, so its steps are separate actions.  The expiry     *)
(* callback runs SubmitEvent in interrupt context: no thread of the single *)
(* core runs before it returns, so it is one action.                       *)
(***************************************************************************)
EXTENDS Naturals, FiniteSets

CONSTANTS
  Event,         (* EventID                                                 *)
  Source,        (* SourceID                                                *)
  num_timers,    (* length of the timer_events array                        *)
  timer_events,  (* timer_events[i] = [start, event, source], i in Timer    *)
  deciders,      (* deciders[e]: the sets of sources on which the decision  *)
                 (* function of e returns true                              *)
  Thread,        (* the threads that use the controller                     *)
  MaySubmit,     (* MaySubmit[p]: the <<source, event>> pairs p submits     *)
  MayWait,       (* MayWait[p]: the events p waits for                      *)
  MaxSubmits     (* bound: SubmitEvent calls a thread makes in a run        *)

Timer == 1..num_timers

ASSUME ControllerAssumption ==
  /\ Event # {} /\ Source # {}
  /\ num_timers \in Nat
  /\ timer_events \in [Timer -> [start : Event, event : Event, source : Source]]
  /\ deciders \in [Event -> SUBSET SUBSET Source]
  /\ MaySubmit \in [Thread -> SUBSET (Source \X Event)]
  /\ MayWait \in [Thread -> SUBSET Event]
  /\ MaxSubmits \in Nat

(* No decision function of the repository agrees before a source reports,  *)
(* and none of them is made to disagree by one more report.                *)
ASSUME DecidersAssumption ==
  \A e \in Event :
    /\ {} \notin deciders[e]
    /\ \A S, T \in SUBSET Source : S \in deciders[e] /\ S \subseteq T => T \in deciders[e]

VARIABLES
  sourceStates,  (* sourceStates[e]: the sources that reported e            *)
  eventStates,   (* the events whose decision function has agreed           *)
  osEvents,      (* the bits of the k_event                                 *)
  timers,        (* timers[i]: stopped (never started), running, expired    *)
  logged,        (* the <<event, source>> pairs with an "X from S" line     *)
  confirmed,     (* confirmed[e]: number of "X confirmed" lines, those that *)
                 (* say "but already happened" left out                     *)
  pc,            (* where thread p is                                       *)
  call,          (* the locals of p's call                                  *)
  awaited,       (* awaited[p]: events WaitUntilEvent returned true for     *)
  submits        (* SubmitEvent calls p has made                            *)

controller == <<sourceStates, eventStates, osEvents, timers, logged, confirmed>>
vars == <<controller, pc, call, awaited, submits>>

InSubmit == {"decide", "check", "dispatch", "post", "start_timers", "log_source", "log_confirmed"}
InWait   == {"wait_forever", "wait_timeout"}

Call == [event : Event, source : Source, agreed : BOOLEAN, last_state : BOOLEAN, i : 1..(num_timers + 1)]

NoCall == [event |-> CHOOSE e \in Event : TRUE, source |-> CHOOSE s \in Source : TRUE,
           agreed |-> FALSE, last_state |-> FALSE, i |-> 1]

TypeOK ==
  /\ sourceStates \in [Event -> SUBSET Source]
  /\ eventStates \in SUBSET Event
  /\ osEvents \in SUBSET Event
  /\ timers \in [Timer -> {"stopped", "running", "expired"}]
  /\ logged \in SUBSET (Event \X Source)
  /\ confirmed \in [Event -> Nat]
  /\ pc \in [Thread -> {"idle"} \cup InSubmit \cup InWait]
  /\ call \in [Thread -> Call]
  /\ awaited \in [Thread -> SUBSET Event]
  /\ submits \in [Thread -> 0..MaxSubmits]

Init ==
  /\ sourceStates = [e \in Event |-> {}]
  /\ eventStates = {}
  /\ osEvents = {}
  /\ timers = [i \in Timer |-> "stopped"]
  /\ logged = {}
  /\ confirmed = [e \in Event |-> 0]
  /\ pc = [p \in Thread |-> "idle"]
  /\ call = [p \in Thread |-> NoCall]
  /\ awaited = [p \in Thread |-> {}]
  /\ submits = [p \in Thread |-> 0]

HasEventOccured(e) == e \in eventStates

-----------------------------------------------------------------------------
(* SubmitEvent, called by a thread.                                        *)

Goto(p, from, to) == pc[p] = from /\ pc' = [pc EXCEPT ![p] = to]

(* The call, up to sourceStates[event][source] = true. *)
Submit(p, s, e) ==
  /\ Goto(p, "idle", "decide")
  /\ call' = [call EXCEPT ![p] = [NoCall EXCEPT !.event = e, !.source = s]]
  /\ sourceStates' = [sourceStates EXCEPT ![e] = @ \cup {s}]
  /\ UNCHANGED <<eventStates, osEvents, timers, logged, confirmed, awaited>>

(* As if the decision were made before the mark. *)
DecideBeforeMark(p) ==
  LET agreed == sourceStates[call[p].event] \ {call[p].source} \in deciders[call[p].event]
  IN  /\ Goto(p, "decide", IF agreed THEN "check" ELSE "log_source")
      /\ call' = [call EXCEPT ![p].agreed = agreed]
      /\ UNCHANGED <<controller, awaited>>

Decide(p) ==
  LET agreed == sourceStates[call[p].event] \in deciders[call[p].event]
  IN  /\ Goto(p, "decide", IF agreed THEN "check" ELSE "log_source")
      /\ call' = [call EXCEPT ![p].agreed = agreed]
      /\ UNCHANGED <<controller, awaited>>

(* bool last_state = eventStates[event]; if (!last_state) *)
Check(p) ==
  LET last_state == HasEventOccured(call[p].event)
  IN  /\ Goto(p, "check", IF last_state THEN "log_source" ELSE "dispatch")
      /\ call' = [call EXCEPT ![p].last_state = last_state]
      /\ UNCHANGED <<controller, awaited>>

(* As if one event were remembered instead of a flag for each. *)
DispatchForgets(p) ==
  /\ Goto(p, "dispatch", "post")
  /\ eventStates' = {call[p].event}
  /\ UNCHANGED <<sourceStates, osEvents, timers, logged, confirmed, call, awaited>>

Dispatch(p) ==
  /\ Goto(p, "dispatch", "post")
  /\ eventStates' = eventStates \cup {call[p].event}
  /\ UNCHANGED <<sourceStates, osEvents, timers, logged, confirmed, call, awaited>>

(* As if k_event_post were missing. *)
PostMissing(p) ==
  /\ Goto(p, "post", "start_timers")
  /\ UNCHANGED <<controller, call, awaited>>

Post(p) ==
  /\ Goto(p, "post", "start_timers")
  /\ osEvents' = osEvents \cup {call[p].event}
  /\ UNCHANGED <<sourceStates, eventStates, timers, logged, confirmed, call, awaited>>

(* As if the loop compared the event that a timer reports. *)
StartTimerByEvent(p) ==
  LET i == call[p].i
  IN  /\ i <= num_timers
      /\ Goto(p, "start_timers", "start_timers")
      /\ timers' = IF timer_events[i].event = call[p].event
                   THEN [timers EXCEPT ![i] = "running"] ELSE timers
      /\ call' = [call EXCEPT ![p].i = i + 1]
      /\ UNCHANGED <<sourceStates, eventStates, osEvents, logged, confirmed, awaited>>

(* As if the loop began at its second timer. *)
StartTimerFromOne(p) ==
  LET i == call[p].i
  IN  /\ i <= num_timers
      /\ Goto(p, "start_timers", "start_timers")
      /\ timers' = IF i > 1 /\ timer_events[i].start = call[p].event
                   THEN [timers EXCEPT ![i] = "running"] ELSE timers
      /\ call' = [call EXCEPT ![p].i = i + 1]
      /\ UNCHANGED <<sourceStates, eventStates, osEvents, logged, confirmed, awaited>>

(* One iteration of the loop that starts the timers; k_timer_start also    *)
(* restarts a timer that runs or has expired.                              *)
StartTimer(p) ==
  LET i == call[p].i
  IN  /\ i <= num_timers
      /\ Goto(p, "start_timers", "start_timers")
      /\ timers' = IF timer_events[i].start = call[p].event
                   THEN [timers EXCEPT ![i] = "running"] ELSE timers
      /\ call' = [call EXCEPT ![p].i = i + 1]
      /\ UNCHANGED <<sourceStates, eventStates, osEvents, logged, confirmed, awaited>>

TimersStarted(p) ==
  /\ call[p].i > num_timers
  /\ Goto(p, "start_timers", "log_source")
  /\ UNCHANGED <<controller, call, awaited>>

(* As if the arguments of the log line were swapped. *)
LogSourceEventSwapped(p) ==
  /\ Goto(p, "log_source", IF call[p].agreed THEN "log_confirmed" ELSE "idle")
  /\ logged' = logged \cup {<<call[p].source, call[p].event>>}
  /\ call' = IF call[p].agreed THEN call ELSE [call EXCEPT ![p] = NoCall]
  /\ UNCHANGED <<sourceStates, eventStates, osEvents, timers, confirmed, awaited>>

LogSourceEvent(p) ==
  /\ Goto(p, "log_source", IF call[p].agreed THEN "log_confirmed" ELSE "idle")
  /\ logged' = logged \cup {<<call[p].event, call[p].source>>}
  /\ call' = IF call[p].agreed THEN call ELSE [call EXCEPT ![p] = NoCall]
  /\ UNCHANGED <<sourceStates, eventStates, osEvents, timers, confirmed, awaited>>

LogEventConfirmed(p) ==
  /\ Goto(p, "log_confirmed", "idle")
  /\ confirmed' = IF call[p].last_state THEN confirmed
                  ELSE [confirmed EXCEPT ![call[p].event] = @ + 1]
  /\ call' = [call EXCEPT ![p] = NoCall]
  /\ UNCHANGED <<sourceStates, eventStates, osEvents, timers, logged, awaited>>

(* What a thread does between the call of SubmitEvent and its return. *)
SubmitStep(p) == \/ Decide(p) \/ Check(p) \/ Dispatch(p) \/ Post(p)
                 \/ StartTimer(p) \/ TimersStarted(p)
                 \/ LogSourceEvent(p) \/ LogEventConfirmed(p)

-----------------------------------------------------------------------------
(* timer_expiry_cb: SubmitEvent from the interrupt of timer i.             *)

(* As if last_state were not tested. *)
TimerExpiryUntested(i) ==
  LET e == timer_events[i].event
      s == timer_events[i].source
      agreed == sourceStates[e] \cup {s} \in deciders[e]
  IN  /\ timers[i] = "running"
      /\ sourceStates' = [sourceStates EXCEPT ![e] = @ \cup {s}]
      /\ eventStates' = IF agreed THEN eventStates \cup {e} ELSE eventStates
      /\ osEvents' = IF agreed THEN osEvents \cup {e} ELSE osEvents
      /\ timers' = [j \in Timer |->
                      IF agreed /\ timer_events[j].start = e THEN "running"
                      ELSE IF j = i THEN "expired" ELSE timers[j]]
      /\ logged' = logged \cup {<<e, s>>}
      /\ confirmed' = IF agreed THEN [confirmed EXCEPT ![e] = @ + 1] ELSE confirmed
      /\ UNCHANGED <<pc, call, awaited>>

TimerExpiry(i) ==
  LET e == timer_events[i].event
      s == timer_events[i].source
      agreed == sourceStates[e] \cup {s} \in deciders[e]
      dispatched == agreed /\ ~HasEventOccured(e)
  IN  /\ timers[i] = "running"
      /\ sourceStates' = [sourceStates EXCEPT ![e] = @ \cup {s}]
      /\ eventStates' = IF dispatched THEN eventStates \cup {e} ELSE eventStates
      /\ osEvents' = IF dispatched THEN osEvents \cup {e} ELSE osEvents
      /\ timers' = [j \in Timer |->
                      IF dispatched /\ timer_events[j].start = e THEN "running"
                      ELSE IF j = i THEN "expired" ELSE timers[j]]
      /\ logged' = logged \cup {<<e, s>>}
      /\ confirmed' = IF dispatched THEN [confirmed EXCEPT ![e] = @ + 1] ELSE confirmed
      /\ UNCHANGED <<pc, call, awaited>>

-----------------------------------------------------------------------------
(* WaitUntilEvent: k_event_wait without reset, so a bit stays for the next *)
(* waiter; it returns true when the bit is there, false on the timeout.    *)

WaitUntilEvent(p, e, where) ==
  /\ where \in InWait
  /\ Goto(p, "idle", where)
  /\ call' = [call EXCEPT ![p] = [NoCall EXCEPT !.event = e]]
  /\ UNCHANGED <<controller, awaited>>

EventArrived(p) ==
  /\ pc[p] \in InWait
  /\ call[p].event \in osEvents
  /\ Goto(p, pc[p], "idle")
  /\ awaited' = [awaited EXCEPT ![p] = @ \cup {call[p].event}]
  /\ call' = [call EXCEPT ![p] = NoCall]
  /\ UNCHANGED controller

WaitTimedOut(p) ==
  /\ call[p].event \notin osEvents
  /\ Goto(p, "wait_timeout", "idle")
  /\ call' = [call EXCEPT ![p] = NoCall]
  /\ UNCHANGED <<controller, awaited>>

-----------------------------------------------------------------------------
(* The users of the controller: threads that call it in any order.         *)

SubmitEvent(p) ==
  /\ submits[p] < MaxSubmits
  /\ submits' = [submits EXCEPT ![p] = @ + 1]
  /\ \E r \in MaySubmit[p] : Submit(p, r[1], r[2])

Wait(p) ==
  /\ \E e \in MayWait[p] \ awaited[p], where \in InWait : WaitUntilEvent(p, e, where)
  /\ UNCHANGED submits

Return(p) == (SubmitStep(p) \/ EventArrived(p) \/ WaitTimedOut(p)) /\ UNCHANGED submits

Expire(i) == TimerExpiry(i) /\ UNCHANGED submits

Next == \/ \E p \in Thread : SubmitEvent(p) \/ Wait(p) \/ Return(p)
        \/ \E i \in Timer : Expire(i)

Spec == Init /\ [][Next]_vars

(* A thread that entered SubmitEvent is scheduled until it returns, a      *)
(* waiter whose bit is set is made ready, a running timer expires.         *)
Fairness == /\ \A p \in Thread : WF_vars(SubmitStep(p) /\ UNCHANGED submits)
            /\ \A p \in Thread : WF_vars(EventArrived(p) /\ UNCHANGED submits)
            /\ \A i \in Timer : WF_vars(Expire(i))

FairSpec == Spec /\ Fairness

-----------------------------------------------------------------------------
(* Properties.                                                             *)

(* Thread p is dispatching e: it found e not yet occured. *)
Dispatching(p, e) ==
  call[p].event = e /\ pc[p] \in {"dispatch", "post", "start_timers"}

(* Agreement is never lost.  Whatever the order in which threads and       *)
(* timers mark their sources, once the sources of an event satisfy its     *)
(* decision function the event has occured, or a thread that will make it  *)
(* occur is still inside SubmitEvent: two sources that report at the same  *)
(* moment cannot each overlook the other.                                  *)
AgreementNotLost ==
  \A e \in Event : sourceStates[e] \in deciders[e] =>
    \/ e \in eventStates
    \/ \E p \in Thread : call[p].event = e /\ pc[p] \in {"decide", "check", "dispatch"}

(* Nothing is announced that did not happen: an event that has occured is  *)
(* one whose sources satisfy its decider, a bit of the k_event, and so a   *)
(* true WaitUntilEvent, is that of an event that has occured, and so is    *)
(* the event of every "confirmed" line.                                    *)
AnnouncedIsJustified ==
  /\ \A e \in eventStates : sourceStates[e] \in deciders[e]
  /\ osEvents \subseteq eventStates
  /\ \A p \in Thread : awaited[p] \subseteq osEvents
  /\ \A e \in Event : confirmed[e] > 0 => e \in osEvents

(* The timers of an event run from its dispatch on, and not before: a      *)
(* lockout or a last-resort timer can neither be forgotten by a dispatch   *)
(* that was preempted nor fire in a flight that has not begun.             *)
TimersFollowEvents ==
  \A i \in Timer :
    LET e == timer_events[i].start
    IN  /\ timers[i] # "stopped" => e \in eventStates
        /\ timers[i] = "stopped" /\ e \in eventStates => \E p \in Thread : Dispatching(p, e)

(* At most one context, a single thread or only the timers, can submit e. *)
Submitters(e) == {p \in Thread : \E s \in Source : <<s, e>> \in MaySubmit[p]}
TimerSubmits(e) == \E i \in Timer : timer_events[i].event = e
Exclusive(e) == \/ Submitters(e) = {}
                \/ ~TimerSubmits(e) /\ \A p, q \in Submitters(e) : p = q

(* Lines of e that a plain "confirmed" line is still due for. *)
Confirming(p, e) == /\ call[p].event = e /\ call[p].agreed /\ ~call[p].last_state
                    /\ pc[p] \in {"dispatch", "post", "start_timers", "log_source", "log_confirmed"}

(* An event that only one context submits is dispatched once: the flight   *)
(* log never confirms it twice without "but already happened".             *)
ConfirmedOnce == \A e \in Event : Exclusive(e) => confirmed[e] <= 1

(* What LogEventConfirmed's comment says of every event: the state it is   *)
(* given is that before this confirmation, so only the first line of an    *)
(* event lacks "but already happened. Not dispatching".                    *)
EveryEventConfirmedOnce == \A e \in Event : confirmed[e] <= 1

(* The inductive invariant behind these: what holds at each step of a      *)
(* call.  A call that agreed has seen an agreement that still stands, one  *)
(* past the dispatch knows that the event has occured, and one past the    *)
(* post that its bit is set; a timer that an event should have started is  *)
(* still ahead of a thread in the loop.                                    *)
CallOK(p) ==
  LET e == call[p].event
  IN    /\ pc[p] \in InSubmit => <<call[p].source, e>> \in MaySubmit[p]
        /\ pc[p] \in {"decide", "check", "dispatch", "post"} => call[p].i = 1
        /\ pc[p] \in {"check", "dispatch", "post", "start_timers", "log_confirmed"} => call[p].agreed
        /\ pc[p] \in {"dispatch", "post", "start_timers"} => ~call[p].last_state
        /\ call[p].agreed => sourceStates[e] \in deciders[e]
        /\ pc[p] \in {"post", "start_timers"} => e \in eventStates
        /\ pc[p] = "start_timers" => e \in osEvents
        /\ pc[p] \in {"log_source", "log_confirmed"} /\ call[p].agreed /\ ~call[p].last_state
             => e \in osEvents

CallInv == \A p \in Thread : CallOK(p)

TimersInv ==
  \A i \in Timer :
    LET e == timer_events[i].start
    IN  /\ timers[i] # "stopped" => e \in eventStates
        /\ timers[i] = "stopped" /\ e \in eventStates =>
             \E p \in Thread : /\ call[p].event = e
                               /\ \/ pc[p] = "post"
                                  \/ pc[p] = "start_timers" /\ call[p].i <= i

ExclusiveInv ==
  \A e \in Event : Exclusive(e) =>
    /\ confirmed[e] <= 1
    /\ \A p \in Thread : Confirming(p, e) => /\ confirmed[e] = 0
                                             /\ pc[p] = "dispatch" => e \notin eventStates

IInv == TypeOK /\ CallInv /\ AgreementNotLost /\ AnnouncedIsJustified /\ TimersInv /\ ExclusiveInv

(* The promise of FlightEvents, as a refinement. *)
Promise == INSTANCE FlightEvents WITH
  reported <- sourceStates,
  occured  <- eventStates,
  Reports  <- UNION {MaySubmit[p] : p \in Thread}
KeepsPromise == Promise!Spec

(* A thread that waits without a timeout for an event that occurs is       *)
(* woken, although the occurence is visible before its bit is posted.      *)
WaitersWake ==
  \A p \in Thread, e \in Event :
    (pc[p] = "wait_forever" /\ call[p].event = e /\ e \in eventStates) ~> (e \in awaited[p])

(* Every timer of an event that has occured eventually reports. *)
TimersReport ==
  \A i \in Timer :
    (timer_events[i].start \in eventStates)
      ~> (timer_events[i].source \in sourceStates[timer_events[i].event])
=============================================================================
