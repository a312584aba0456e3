--------------------------- MODULE LibraryProofs ---------------------------
(***************************************************************************)
(* Proofs about three parts of the library: DebouncerFeed, for timestamps  *)
(* of any width, any duration and samples any time apart; Rtos, for any    *)
(* tasks of any number of tenants; and RollingSum, for windows of any      *)
(* length and any samples.  MCLibrary runs one of them at a time, and so   *)
(* the proofs come one part after the other, and then together; MCDrivers  *)
(* leaves them as they are when it runs a driver.                          *)
(***************************************************************************)
EXTENDS MCDrivers, SequenceTheorems, WellFoundedInduction, TLAPS

-----------------------------------------------------------------------------
(* The debouncer.  First, wrapping timestamps.                             *)

(* What is left of a time is a timestamp, and the rest whole turns. *)
LEMMA TurnsAndStamp ==
  ASSUME D!TimestampAssumption, NEW t \in Nat
  PROVE  /\ t = TimestampMod * (t \div TimestampMod) + D!Stamp(t)
         /\ t \div TimestampMod \in Nat
         /\ D!Stamp(t) \in D!Timestamp
  BY SMT DEF D!TimestampAssumption, D!Stamp, D!Timestamp

(* A timestamp of either turn is itself, less the turn. *)
LEMMA OneTurn ==
  ASSUME D!TimestampAssumption, NEW x \in 0..(2 * TimestampMod - 1)
  PROVE  x % TimestampMod = IF x < TimestampMod THEN x ELSE x - TimestampMod
  BY SMT DEF D!TimestampAssumption

(* Multiplication distributes over differences. *)
LEMMA Distributes ==
  ASSUME NEW m \in Int, NEW p \in Int, NEW q \in Int
  PROVE  m * (p - q) = m * p - m * q
  BY SMT

(* The wrapped difference of the timestamps of two times is never more     *)
(* than the time between them, and is that time if it is less than a turn. *)
LEMMA WrappedDifference ==
  ASSUME D!TimestampAssumption, NEW a \in Nat, NEW b \in 0..a
  PROVE  /\ D!Minus(D!Stamp(a), D!Stamp(b)) \in Nat
         /\ D!Minus(D!Stamp(a), D!Stamp(b)) <= a - b
         /\ a - b < TimestampMod => D!Minus(D!Stamp(a), D!Stamp(b)) = a - b
<1> DEFINE qa == a \div TimestampMod
           qb == b \div TimestampMod
           x  == D!Stamp(a) + TimestampMod - D!Stamp(b)
<1>1. /\ a = TimestampMod * qa + D!Stamp(a) /\ qa \in Nat /\ D!Stamp(a) \in D!Timestamp
      /\ b = TimestampMod * qb + D!Stamp(b) /\ qb \in Nat /\ D!Stamp(b) \in D!Timestamp
  BY TurnsAndStamp
<1>2. TimestampMod \in Nat \ {0}
  BY DEF D!TimestampAssumption
<1> HIDE DEF qa, qb
<1>3. x \in 0..(2 * TimestampMod - 1) /\ D!Minus(D!Stamp(a), D!Stamp(b)) = x % TimestampMod
  BY <1>1, <1>2 DEF D!Timestamp, D!Minus
<1>4. D!Minus(D!Stamp(a), D!Stamp(b)) = IF x < TimestampMod THEN x ELSE x - TimestampMod
  BY <1>3, OneTurn
<1>5. PICK d \in Int : d = qa - qb
  BY <1>1
<1>6. a - b = TimestampMod * d + D!Stamp(a) - D!Stamp(b)
  <2>1. TimestampMod * d = TimestampMod * qa - TimestampMod * qb
    BY <1>1, <1>2, <1>5, Distributes
  <2>2. TimestampMod * qa \in Int /\ TimestampMod * qb \in Int
    BY <1>1, <1>2
  <2> QED BY <1>1, <2>1, <2>2 DEF D!Timestamp
<1>7. d >= 0
  <2>1. ASSUME d <= -1 PROVE TimestampMod * d <= -TimestampMod
    BY <1>2, <2>1
  <2> QED BY <1>1, <1>2, <1>6, <2>1 DEF D!Timestamp
<1>8. d >= 1 => TimestampMod * d >= TimestampMod
  BY <1>2, <1>5
<1>9. d >= 2 => TimestampMod * d >= 2 * TimestampMod
  BY <1>2, <1>5
<1>10. d = 0 \/ d = 1 \/ d >= 2
  BY <1>5, <1>7
<1>11. CASE d = 0
  BY <1>1, <1>2, <1>4, <1>6, <1>11 DEF D!Timestamp
<1>12. CASE d = 1
  BY <1>1, <1>2, <1>4, <1>6, <1>12 DEF D!Timestamp
<1>13. CASE d >= 2
  BY <1>1, <1>2, <1>4, <1>6, <1>9, <1>13 DEF D!Timestamp
<1> QED BY <1>10, <1>11, <1>12, <1>13
-----------------------------------------------------------------------------
(* What a debouncer knows of its run: the inductive invariant.             *)

(* What the object knows of the run: nothing when the last sample failed.  *)
(* Else it has the timestamp of the last sample, and of one of the run     *)
(* (the first, unless that carried the mark), unless all carried it.       *)
KnowsTheRun ==
  /\ since = D!None => debouncer = D!Fresh
  /\ since # D!None =>
       /\ since <= clock
       /\ debouncer.lastTimePassed = D!Stamp(clock)
       /\ debouncer.firstTimePassed # D!NOT_PASSED =>
            \E t \in since..clock : debouncer.firstTimePassed = D!Stamp(t)
       /\ D!Stamp(since) # D!NOT_PASSED => debouncer.firstTimePassed = D!Stamp(since)

DebouncerInv == D!TypeOK /\ KnowsTheRun

(* Feeding keeps the object's timestamps what they are: timestamps. *)
LEMMA FeedType ==
  ASSUME D!TimestampAssumption, NEW d \in D!CDebouncer, NEW t \in D!Timestamp, NEW passes \in BOOLEAN
  PROVE  D!Feed(d, t, passes) \in D!CDebouncer
  BY DEF D!TimestampAssumption, D!CDebouncer, D!Timestamp, D!NOT_PASSED, D!Feed, D!Fresh

(* A sample, whenever it comes and whatever it shows, keeps the invariant. *)
LEMMA SampleStep ==
  ASSUME D!TimestampAssumption, D!FeedAssumption, DebouncerInv,
         NEW gap \in Gaps, NEW passes \in BOOLEAN, D!Sample(gap, passes)
  PROVE  DebouncerInv'
<1>1. /\ debouncer \in D!CDebouncer /\ clock \in 0..MaxFeedTime /\ since \in 0..D!None
      /\ MaxFeedTime \in Nat /\ gap \in Nat
  BY DEF DebouncerInv, D!TypeOK, D!FeedAssumption
<1>2. /\ clock' = clock + gap /\ clock' \in 0..MaxFeedTime /\ clock' \in Nat
      /\ debouncer' = D!Feed(debouncer, D!Stamp(clock'), passes)
      /\ since' = IF ~passes THEN D!None ELSE IF since = D!None THEN clock' ELSE since
  BY <1>1 DEF D!Sample
<1>3. D!Stamp(clock') \in D!Timestamp
  BY <1>2, TurnsAndStamp
<1>4. D!TypeOK'
  <2>1. debouncer' \in D!CDebouncer
    BY <1>1, <1>2, <1>3, FeedType
  <2> QED BY <1>1, <1>2, <2>1 DEF D!TypeOK, D!None
<1>5. KnowsTheRun'
  <2>1. CASE ~passes
    BY <1>2, <2>1 DEF KnowsTheRun, D!Feed, D!None
  <2>2. CASE passes /\ since = D!None
    <3>1. debouncer' = [firstTimePassed |-> D!Stamp(clock'), lastTimePassed |-> D!Stamp(clock')]
      BY <1>2, <2>2 DEF DebouncerInv, KnowsTheRun, D!Feed, D!Fresh
    <3>2. since' = clock' /\ clock' \in since'..clock'
      BY <1>2, <2>2
    <3>3. since' # D!None' /\ since' <= clock'
      BY <1>1, <1>2, <3>2 DEF D!None
    <3>4. /\ debouncer'.lastTimePassed = D!Stamp(clock')
          /\ debouncer'.firstTimePassed = D!Stamp(since')
      BY <3>1, <3>2
    <3>5. \E t \in since'..clock' : debouncer'.firstTimePassed = D!Stamp(t)
      BY <3>1, <3>2
    <3> QED BY <3>3, <3>4, <3>5 DEF KnowsTheRun
  <2>3. CASE passes /\ since # D!None
    <3>1. /\ since' = since /\ since <= clock /\ since' <= clock'
          /\ debouncer'.lastTimePassed = D!Stamp(clock')
          /\ debouncer'.firstTimePassed = IF debouncer.firstTimePassed = D!NOT_PASSED
                                          THEN D!Stamp(clock') ELSE debouncer.firstTimePassed
      BY <1>1, <1>2, <2>3 DEF DebouncerInv, KnowsTheRun, D!Feed
    <3>2. \E t \in since'..clock' : debouncer'.firstTimePassed = D!Stamp(t)
      <4>1. CASE debouncer.firstTimePassed = D!NOT_PASSED
        <5>1. clock' \in since'..clock'
          BY <1>1, <1>2, <3>1 DEF D!None
        <5> QED BY <3>1, <4>1, <5>1
      <4>2. CASE debouncer.firstTimePassed # D!NOT_PASSED
        <5>1. PICK t \in since..clock : debouncer.firstTimePassed = D!Stamp(t)
          BY <2>3, <4>2 DEF DebouncerInv, KnowsTheRun
        <5>2. t \in since'..clock'
          BY <1>1, <1>2, <3>1
        <5> QED BY <3>1, <4>2, <5>1, <5>2
      <4> QED BY <4>1, <4>2
    <3>3. D!Stamp(since') # D!NOT_PASSED => debouncer'.firstTimePassed = D!Stamp(since')
      BY <2>3, <3>1 DEF DebouncerInv, KnowsTheRun
    <3>4. since' # D!None'
      BY <2>3, <3>1 DEF D!None
    <3> QED BY <3>1, <3>2, <3>3, <3>4 DEF KnowsTheRun
  <2> QED BY <2>1, <2>2, <2>3
<1> QED BY <1>4, <1>5 DEF DebouncerInv

(* A fresh debouncer knows of no run. *)
LEMMA DebouncerStarts ==
  ASSUME D!TimestampAssumption, D!FeedAssumption, D!Init
  PROVE  DebouncerInv
  BY DEF D!TimestampAssumption, D!FeedAssumption, D!Init, DebouncerInv, D!TypeOK, KnowsTheRun,
         D!CDebouncer, D!Timestamp, D!Fresh, D!NOT_PASSED, D!None

(* Sampling is the one thing that happens to a debouncer. *)
LEMMA DebouncerNext ==
  ASSUME D!TimestampAssumption, D!FeedAssumption, DebouncerInv, D!Next
  PROVE  DebouncerInv'
  BY SampleStep DEF D!Next

(* The object compares stamps of two samples of the run, and their wrapped *)
(* difference is no more than the time between them.                       *)
LEMMA NotEarly ==
  ASSUME D!TimestampAssumption, D!FeedAssumption, DebouncerInv
  PROVE  D!NeverEarly
<1>1. SUFFICES ASSUME DebouncerInv, D!Passed(debouncer, Duration)
               PROVE  since # D!None /\ clock - since > Duration
  BY DEF D!NeverEarly
<1>2. since # D!None
  BY <1>1 DEF DebouncerInv, KnowsTheRun, D!Passed, D!Fresh
<1>3. /\ clock \in Nat /\ since \in 0..clock /\ Duration \in Nat
      /\ debouncer.lastTimePassed = D!Stamp(clock)
  BY <1>1, <1>2 DEF DebouncerInv, D!TypeOK, KnowsTheRun, D!FeedAssumption
<1>4. PICK t \in since..clock : debouncer.firstTimePassed = D!Stamp(t)
  BY <1>1, <1>2 DEF DebouncerInv, KnowsTheRun, D!Passed
<1>5. D!Minus(D!Stamp(clock), D!Stamp(t)) \in Nat /\ D!Minus(D!Stamp(clock), D!Stamp(t)) <= clock - t
  <2>1. t \in 0..clock
    BY <1>3, <1>4
  <2> QED BY <1>3, <2>1, WrappedDifference
<1>6. D!Minus(D!Stamp(clock), D!Stamp(t)) > Duration
  BY <1>1, <1>3, <1>4 DEF D!Passed
<1> QED BY <1>2, <1>3, <1>4, <1>5, <1>6

(* The stamp of the first sample of the run is the object's, unless it is  *)
(* the mark.                                                               *)
LEMMA PassesInTime ==
  ASSUME D!TimestampAssumption, D!FeedAssumption, DebouncerInv
  PROVE  D!PassesUnlessMarked
<1>1. SUFFICES ASSUME DebouncerInv, since # D!None, clock - since > Duration, clock - since < TimestampMod,
                      D!Stamp(clock) # D!NOT_PASSED, D!Stamp(since) # D!NOT_PASSED
               PROVE  D!Passed(debouncer, Duration)
  BY DEF D!PassesUnlessMarked
<1>2. /\ clock \in Nat /\ since \in 0..clock
      /\ debouncer.lastTimePassed = D!Stamp(clock)
      /\ debouncer.firstTimePassed = D!Stamp(since)
  BY <1>1 DEF DebouncerInv, D!TypeOK, KnowsTheRun, D!FeedAssumption
<1>3. D!Minus(D!Stamp(clock), D!Stamp(since)) = clock - since
  BY <1>1, <1>2, WrappedDifference
<1> QED BY <1>1, <1>2, <1>3 DEF D!Passed

-----------------------------------------------------------------------------
(* Tasks.                                                                  *)

Task == DOMAIN Tasks
Starting == step \in {"startup", "post", "create", "panic"}
Stopping == step \in {"clean", "abort", "free", "fault"}

RtosTypeOK ==
  /\ Starting \/ Stopping \/ step \in {"started", "over"}
  /\ task \in Task /\ tenant \in 1..Tasks[task]
  /\ step \in {"startup", "post", "clean", "fault"} \/ tenant = 1
  /\ stopped \in BOOLEAN /\ exiting \in BOOLEAN
  /\ thread \in [Task -> {"none", "runs", "aborted"}] /\ stack \in [Task -> BOOLEAN]
  /\ frees \in [Task -> Nat] /\ drops \in [Task -> Nat] /\ ready \in [Task -> Nat] /\ turns \in [Task -> Nat]

(* How many calls a task has behind it when main is where it is. *)
Calls(t) ==
  IF ~Starting \/ t < task THEN 2 * Tasks[t]
  ELSE IF t > task THEN 0
  ELSE IF step = "startup" THEN tenant - 1
  ELSE IF step = "post" THEN Tasks[t] + tenant - 1
  ELSE 2 * Tasks[t]

(* A task that main has not created has no thread, and no turns. *)
StartedInOrder ==
  \A t \in Task :
    /\ ready[t] = Calls(t)
    /\ Starting /\ t >= task => thread[t] = "none"
    /\ thread[t] = "none" => turns[t] = 0

(* A task has its stack between its creation and the first time it is      *)
(* destroyed, which StopRtos does in the order of the tasks, and the end   *)
(* of the program in reverse.                                              *)
Created(t) == ~Starting \/ t < task
Ends(t) ==
  (IF stopped /\ (exiting \/ (Stopping /\ t < task)) THEN 1 ELSE 0)
    + (IF exiting /\ (step = "over" \/ t > task) THEN 1 ELSE 0)

StoppedInOrder ==
  /\ step = "started" => task = 1
  /\ Stopping => stopped \/ exiting
  /\ stopped \/ exiting => Stopping \/ step = "over"
  /\ step = "over" => exiting
  /\ \A t \in Task :
       /\ drops[t] = Ends(t) /\ frees[t] <= drops[t]
       /\ drops[t] = 0 => (stack[t] <=> Created(t))
       /\ drops[t] > 0 => frees[t] > 0
       /\ drops[t] > 0 \/ (step = "free" /\ t = task) => thread[t] = "aborted"

RtosInv == RtosTypeOK /\ StartedInOrder /\ StoppedInOrder

(* Every task has a place in the order, and a tenant. *)
LEMMA TasksInOrder ==
  ASSUME RT!TasksAssumption
  PROVE  /\ Len(Tasks) \in Nat \ {0} /\ Task = 1..Len(Tasks)
         /\ \A t \in Task : Tasks[t] \in Nat \ {0}
  BY DEF RT!TasksAssumption, Task

(* Main begins with the first tenant of the first task. *)
LEMMA RtosStarts ==
  ASSUME RT!TasksAssumption, RT!Init
  PROVE  RtosInv
<1>1. /\ task \in Task /\ tenant \in 1..Tasks[task]
      /\ \A t \in Task : t \in Nat \ {0}
  BY TasksInOrder DEF RT!Init
<1>2. RtosTypeOK
  BY <1>1 DEF RT!Init, RT!All, RtosTypeOK, Starting, Task
<1>3. StartedInOrder
  BY <1>1 DEF RT!Init, RT!All, StartedInOrder, Starting, Calls, Task
<1>4. StoppedInOrder
  BY <1>1 DEF RT!Init, RT!All, StoppedInOrder, Starting, Stopping, Created, Ends, Task
<1> QED BY <1>2, <1>3, <1>4 DEF RtosInv

(* Main calls Startup or PostStartup of a tenant. *)
LEMMA InitializeKeeps ==
  ASSUME RT!TasksAssumption, RtosInv, RT!Initialize
  PROVE  RtosInv'
<1>1. /\ task \in Task /\ task \in Nat /\ tenant \in Nat \ {0} /\ tenant <= Tasks[task]
      /\ Tasks[task] \in Nat \ {0} /\ ready \in [Task -> Nat]
      /\ \A t \in Task : t \in Nat /\ Tasks[t] \in Nat \ {0}
  BY TasksInOrder DEF RtosInv, RtosTypeOK
<1>2. /\ UNCHANGED <<task, stopped, exiting, thread, stack, frees, drops, turns>>
      /\ ready' = [ready EXCEPT ![task] = @ + 1]
      /\ step \in {"startup", "post"}
      /\ \/ tenant < Tasks[task] /\ tenant' = tenant + 1 /\ step' = step
         \/ tenant = Tasks[task] /\ tenant' = 1
            /\ step' = IF step = "startup" THEN "post" ELSE "create"
  BY <1>1 DEF RT!Initialize, RT!ForTenants, RT!After
<1>3. Starting /\ Starting' /\ ~Stopping /\ ~Stopping' /\ step' # "over" /\ step' \in {"startup", "post", "create"}
  BY <1>2 DEF Starting, Stopping
<1>4. RtosTypeOK'
  <2>1. tenant' \in 1..Tasks[task] /\ (step' \in {"startup", "post"} \/ tenant' = 1)
    BY <1>1, <1>2
  <2>2. ready' \in [Task -> Nat]
    BY <1>1, <1>2
  <2> QED BY <1>2, <1>3, <2>1, <2>2 DEF RtosInv, RtosTypeOK
<1>5. StartedInOrder'
  <2>1. SUFFICES ASSUME NEW t \in Task
                 PROVE  /\ ready'[t] = Calls(t)'
                        /\ (Starting /\ t >= task)' => thread'[t] = "none"
                        /\ thread'[t] = "none" => turns'[t] = 0
    BY DEF StartedInOrder, Task
  <2>2. /\ ready[t] = Calls(t) /\ (t >= task => thread[t] = "none")
        /\ thread[t] = "none" => turns[t] = 0
    BY <2>1, <1>3 DEF RtosInv, StartedInOrder
  <2>3. ready'[t] = IF t = task THEN ready[t] + 1 ELSE ready[t]
    BY <1>1, <1>2, <2>1
  <2>4. Calls(t)' = IF t = task THEN Calls(t) + 1 ELSE Calls(t)
    BY <1>1, <1>2, <1>3, <2>1 DEF Calls
  <2> QED BY <1>2, <2>2, <2>3, <2>4
<1>6. StoppedInOrder'
  BY <1>2, <1>3 DEF RtosInv, StoppedInOrder, Created, Ends, Task
<1> QED BY <1>4, <1>5, <1>6 DEF RtosInv

(* The task gets its stack and its thread, or the program panics. *)
LEMMA CreateKeeps ==
  ASSUME RT!TasksAssumption, RtosInv, RT!Create
  PROVE  RtosInv'
<1>1. /\ Len(Tasks) \in Nat \ {0} /\ Task = 1..Len(Tasks)
      /\ task \in Task /\ task \in Nat /\ tenant = 1 /\ step = "create" /\ Starting /\ ~Stopping
      /\ stack \in [Task -> BOOLEAN] /\ thread \in [Task -> {"none", "runs", "aborted"}]
      /\ ready \in [Task -> Nat]
      /\ \A t \in Task : t \in Nat /\ Tasks[t] \in Nat \ {0}
  BY TasksInOrder DEF RtosInv, RtosTypeOK, RT!Create, Starting, Stopping
<1>2. UNCHANGED <<tenant, stopped, exiting, frees, drops, ready, turns>> /\ exiting = FALSE /\ stopped = FALSE
  BY <1>1 DEF RT!Create, RtosInv, RtosTypeOK, StoppedInOrder
<1>3. /\ \A t \in Task : ready[t] = IF t <= task THEN 2 * Tasks[t] ELSE 0
      /\ \A t \in Task : t >= task => thread[t] = "none"
      /\ \A t \in Task : thread[t] = "none" => turns[t] = 0
      /\ \A t \in Task : (stack[t] <=> t < task) /\ frees[t] = 0 /\ drops[t] = 0
  <2>1. \A t \in Task : Ends(t) = 0 /\ (Created(t) <=> t < task)
    BY <1>1, <1>2 DEF Ends, Created
  <2>2. \A t \in Task : drops[t] = 0 /\ frees[t] <= 0 /\ frees[t] \in Nat
    BY <2>1 DEF RtosInv, RtosTypeOK, StoppedInOrder
  <2> QED BY <1>1, <1>2, <2>1, <2>2 DEF RtosInv, StartedInOrder, StoppedInOrder, Calls
<1>4. CASE step' = "panic" /\ UNCHANGED <<task, stack, thread>>
  <2>1. Starting' /\ ~Stopping'
    BY <1>4 DEF Starting, Stopping
  <2>2. RtosTypeOK'
    BY <1>1, <1>2, <1>4, <2>1 DEF RtosInv, RtosTypeOK
  <2>3. StartedInOrder'
    BY <1>1, <1>2, <1>3, <1>4, <2>1 DEF StartedInOrder, Calls
  <2>4. StoppedInOrder'
    BY <1>1, <1>2, <1>3, <1>4, <2>1 DEF StoppedInOrder, Created, Ends, Task
  <2> QED BY <2>2, <2>3, <2>4 DEF RtosInv
<1>5. CASE /\ stack' = [stack EXCEPT ![task] = TRUE] /\ thread' = [thread EXCEPT ![task] = "runs"]
           /\ \/ task < Len(Tasks) /\ task' = task + 1 /\ step' = "startup"
              \/ task = Len(Tasks) /\ task' = 1 /\ step' = "started"
  <2>1. task' \in Task /\ task' \in Nat /\ 1 \in 1..Tasks[task']
    BY <1>1, <1>5
  <2>2. (Starting' \/ step' = "started") /\ ~Stopping' /\ step' \in {"startup", "started"}
    BY <1>5 DEF Starting, Stopping
  <2>3. stack' \in [Task -> BOOLEAN] /\ thread' \in [Task -> {"none", "runs", "aborted"}]
    BY <1>1, <1>5
  <2>4. RtosTypeOK'
    BY <1>1, <1>2, <2>1, <2>2, <2>3 DEF RtosInv, RtosTypeOK
  <2>5. \A t \in Task : thread'[t] = IF t = task THEN "runs" ELSE thread[t]
    BY <1>1, <1>5
  <2>6. \A t \in Task : stack'[t] <=> t <= task
    <3>1. TAKE t \in Task
    <3>2. CASE t = task
      BY <1>1, <1>5, <3>2
    <3>3. CASE t # task
      <4>1. stack'[t] = stack[t]
        BY <1>1, <1>5, <3>3
      <4>2. (t < task <=> t <= task) /\ (stack[t] <=> t < task)
        BY <1>1, <1>3, <3>3
      <4> QED BY <4>1, <4>2
    <3> QED BY <3>2, <3>3
  <2>7. \A t \in Task : Created(t)' <=> t <= task
    BY <1>1, <1>5, <2>2 DEF Created, Starting
  <2>8. StartedInOrder'
    <3>1. \A t \in Task : Calls(t)' = IF t <= task THEN 2 * Tasks[t] ELSE 0
      BY <1>1, <1>2, <1>5, <2>2 DEF Calls, Starting
    <3>2. \A t \in Task : (Starting /\ t >= task)' => t > task
      BY <1>1, <1>5, <2>2 DEF Starting
    <3> QED BY <1>1, <1>2, <1>3, <2>5, <3>1, <3>2 DEF StartedInOrder, Task
  <2>9. StoppedInOrder'
    <3>1. \A t \in Task : Ends(t)' = 0
      BY <1>2, <2>2 DEF Ends
    <3> QED BY <1>1, <1>2, <1>3, <1>5, <2>2, <2>5, <2>6, <2>7, <3>1 DEF StoppedInOrder, Task
  <2> QED BY <2>4, <2>8, <2>9 DEF RtosInv
<1>6. \/ task < Len(Tasks) \/ task = Len(Tasks)
  BY <1>1
<1> QED BY <1>4, <1>5, <1>6 DEF RT!Create

(* A thread runs one of its tenants, beside main. *)
LEMMA RunTenantKeeps ==
  ASSUME RT!TasksAssumption, RtosInv, NEW t \in Task, RT!RunTenant(t)
  PROVE  RtosInv'
<1>1. /\ thread[t] = "runs" /\ turns' = [turns EXCEPT ![t] = @ + 1]
      /\ UNCHANGED <<step, task, tenant, stopped, exiting, thread, stack, frees, drops, ready>>
  BY DEF RT!RunTenant
<1>2. turns \in [Task -> Nat] /\ turns' \in [Task -> Nat]
  BY <1>1 DEF RtosInv, RtosTypeOK
<1>3. RtosTypeOK'
  BY <1>1, <1>2 DEF RtosInv, RtosTypeOK, Starting, Stopping
<1>4. StartedInOrder'
  <2>1. SUFFICES ASSUME NEW u \in Task
                 PROVE  /\ ready'[u] = Calls(u)'
                        /\ (Starting /\ u >= task)' => thread'[u] = "none"
                        /\ thread'[u] = "none" => turns'[u] = 0
    BY DEF StartedInOrder, Task
  <2>2. /\ ready[u] = Calls(u) /\ (Starting /\ u >= task => thread[u] = "none")
        /\ thread[u] = "none" => turns[u] = 0 /\ u # t
    BY <1>1, <2>1 DEF RtosInv, StartedInOrder
  <2>3. u # t => turns'[u] = turns[u]
    BY <1>1, <1>2, <2>1
  <2> QED BY <1>1, <2>2, <2>3 DEF Calls, Starting
<1>5. StoppedInOrder'
  BY <1>1 DEF RtosInv, StoppedInOrder, Created, Ends, Starting, Stopping, Task
<1> QED BY <1>3, <1>4, <1>5 DEF RtosInv

(* A step of main after the start leaves what the tasks have been through. *)
LEMMA StartedStays ==
  ASSUME RtosInv, ~Starting, ~Starting', UNCHANGED <<ready, turns>>,
         \A t \in Task : thread'[t] = "none" => thread[t] = "none"
  PROVE  StartedInOrder'
<1>1. \A t \in Task : ready[t] = 2 * Tasks[t] /\ (thread[t] = "none" => turns[t] = 0)
  BY DEF RtosInv, StartedInOrder, Calls
<1> QED BY <1>1 DEF StartedInOrder, Calls, Task

(* Main begins to stop the tasks, the first one first, or to end, with the *)
(* last one.                                                               *)
LEMMA StopRtosKeeps ==
  ASSUME RT!TasksAssumption, RtosInv, RT!StopRtos \/ RT!Return
  PROVE  RtosInv'
<1>1. /\ step = "started" /\ step' = "clean"
      /\ UNCHANGED <<tenant, thread, stack, frees, drops, ready, turns>>
      /\ \/ stopped' = TRUE /\ UNCHANGED <<task, exiting>>
         \/ exiting' = TRUE /\ task' = Len(Tasks) /\ UNCHANGED stopped
  BY DEF RT!StopRtos, RT!Return
<1>2. ~Starting /\ ~Stopping /\ ~Starting' /\ Stopping'
  BY <1>1 DEF Starting, Stopping
<1>3. /\ Len(Tasks) \in Nat \ {0} /\ Task = 1..Len(Tasks) /\ tenant = 1 /\ task = 1
      /\ stopped = FALSE /\ exiting = FALSE
      /\ \A t \in Task : t \in Nat \ {0} /\ t <= Len(Tasks) /\ Tasks[t] \in Nat \ {0}
  BY <1>1, <1>2, TasksInOrder DEF RtosInv, RtosTypeOK, StoppedInOrder
<1>4. RtosTypeOK'
  <2>1. task' \in Task /\ 1 \in 1..Tasks[task']
    <3>1. task' = 1 \/ task' = Len(Tasks)
      BY <1>1, <1>3
    <3> QED BY <1>3, <3>1
  <2>2. stopped' \in BOOLEAN /\ exiting' \in BOOLEAN
    BY <1>1, Zenon DEF RtosInv, RtosTypeOK
  <2> QED BY <1>1, <1>2, <1>3, <2>1, <2>2 DEF RtosInv, RtosTypeOK
<1>5. StartedInOrder'
  BY <1>1, <1>2, StartedStays
<1>6. StoppedInOrder'
  <2>1. \A t \in Task : Ends(t) = 0 /\ Created(t)
    BY <1>2, <1>3 DEF Ends, Created
  <2>2. \A t \in Task : drops[t] = 0 /\ frees[t] <= drops[t] /\ stack[t]
    BY <2>1 DEF RtosInv, StoppedInOrder
  <2>3. \A t \in Task : Ends(t)' = 0 /\ Created(t)'
    BY <1>1, <1>2, <1>3 DEF Ends, Created
  <2>4. /\ step' # "started" /\ step' # "over" /\ step' # "free" /\ (stopped' \/ exiting')
    BY <1>1
  <2> QED BY <1>1, <1>2, <2>2, <2>3, <2>4 DEF StoppedInOrder, Task
<1> QED BY <1>4, <1>5, <1>6 DEF RtosInv

(* Nothing that counts moves when the walk through a vector that was freed *)
(* faults, or freeing it does.                                             *)
LEMMA FaultKeeps ==
  ASSUME RtosInv, step \in {"clean", "free"}, RT!Fault, UNCHANGED <<thread, ready, turns>>
  PROVE  RtosInv'
<1>1. step' = "fault" /\ UNCHANGED <<task, tenant, stopped, exiting, stack, frees, drops>>
  BY DEF RT!Fault
<1>2. ~Starting /\ Stopping /\ ~Starting' /\ Stopping' /\ step' # "over" /\ step # "over"
  BY <1>1 DEF Starting, Stopping
<1>3. RtosTypeOK'
  BY <1>1, <1>2 DEF RtosInv, RtosTypeOK
<1>4. StartedInOrder'
  BY <1>1, <1>2, StartedStays
<1>5. StoppedInOrder'
  <2>1. \A t \in Task : Ends(t)' = Ends(t) /\ Created(t)' = Created(t)
    BY <1>1, <1>2 DEF Ends, Created
  <2> QED BY <1>1, <1>2, <2>1 DEF RtosInv, StoppedInOrder, Task
<1> QED BY <1>3, <1>4, <1>5 DEF RtosInv

(* Cleanup of a tenant, before its task is aborted. *)
LEMMA CleanupKeeps ==
  ASSUME RT!TasksAssumption, RtosInv, RT!Cleanup
  PROVE  RtosInv'
<1>1. /\ task \in Task /\ tenant \in Nat \ {0} /\ tenant <= Tasks[task] /\ Tasks[task] \in Nat \ {0}
  BY TasksInOrder DEF RtosInv, RtosTypeOK
<1>2. CASE RT!ForTenants("clean") /\ UNCHANGED <<task, stopped, exiting, stack, frees, drops>>
  <2>1. /\ UNCHANGED <<task, stopped, exiting, thread, stack, frees, drops, ready, turns>>
        /\ step = "clean"
        /\ \/ tenant < Tasks[task] /\ tenant' = tenant + 1 /\ step' = "clean"
           \/ tenant' = 1 /\ step' = "abort"
    BY <1>1, <1>2 DEF RT!Cleanup, RT!ForTenants, RT!After
  <2>2. ~Starting /\ Stopping /\ ~Starting' /\ Stopping' /\ step' \in {"clean", "abort"}
    BY <2>1 DEF Starting, Stopping
  <2>3. RtosTypeOK'
    <3>1. tenant' \in 1..Tasks[task] /\ (step' = "clean" \/ tenant' = 1)
      BY <1>1, <2>1
    <3> QED BY <2>1, <2>2, <3>1 DEF RtosInv, RtosTypeOK
  <2>4. StartedInOrder'
    BY <2>1, <2>2, StartedStays
  <2>5. StoppedInOrder'
    <3>1. \A t \in Task : Ends(t)' = Ends(t) /\ Created(t)' = Created(t)
      BY <2>1, <2>2 DEF Ends, Created
    <3> QED BY <2>1, <2>2, <3>1 DEF RtosInv, StoppedInOrder, Task
  <2> QED BY <2>3, <2>4, <2>5 DEF RtosInv
<1>3. CASE step = "clean" /\ RT!Again /\ RT!Fault
  BY <1>3, FaultKeeps DEF RT!Cleanup
<1> QED BY <1>2, <1>3 DEF RT!Cleanup

(* The thread is aborted before its stack is freed. *)
LEMMA AbortKeeps ==
  ASSUME RT!TasksAssumption, RtosInv, RT!Abort
  PROVE  RtosInv'
<1>1. /\ task \in Task /\ step = "abort" /\ step' = "free" /\ tenant = 1
      /\ thread \in [Task -> {"none", "runs", "aborted"}] /\ thread' = [thread EXCEPT ![task] = "aborted"]
      /\ UNCHANGED <<task, tenant, stopped, exiting, stack, frees, drops, ready, turns>>
  BY DEF RT!Abort, RtosInv, RtosTypeOK
<1>2. ~Starting /\ Stopping /\ ~Starting' /\ Stopping'
  BY <1>1 DEF Starting, Stopping
<1>3. thread' \in [Task -> {"none", "runs", "aborted"}]
  BY <1>1
<1>4. \A t \in Task : thread'[t] = IF t = task THEN "aborted" ELSE thread[t]
  BY <1>1
<1>5. RtosTypeOK'
  BY <1>1, <1>2, <1>3 DEF RtosInv, RtosTypeOK
<1>6. StartedInOrder'
  BY <1>1, <1>2, <1>4, StartedStays
<1>7. StoppedInOrder'
  <2>1. \A t \in Task : Ends(t)' = Ends(t) /\ Created(t)' = Created(t)
    BY <1>1, <1>2 DEF Ends, Created
  <2>2. \A t \in Task : drops[t] > 0 \/ t = task => thread'[t] = "aborted"
    BY <1>4 DEF RtosInv, StoppedInOrder
  <2>3. step' # "started" /\ step' # "over" /\ step # "over" /\ (stopped \/ exiting)
    BY <1>1, <1>2 DEF RtosInv, StoppedInOrder
  <2>4. \A t \in Task : /\ drops[t] = Ends(t)' /\ frees[t] <= drops[t]
                        /\ drops[t] = 0 => (stack[t] <=> Created(t)')
                        /\ drops[t] > 0 => frees[t] > 0
    BY <2>1 DEF RtosInv, StoppedInOrder
  <2> QED BY <1>1, <1>2, <2>2, <2>3, <2>4 DEF StoppedInOrder, Task
<1> QED BY <1>5, <1>6, <1>7 DEF RtosInv

(* The task that is destroyed has a stack to free the first time, and main *)
(* goes on to the next task, or from the last one to the destructors.      *)
LEMMA FreeKeeps ==
  ASSUME RT!TasksAssumption, RtosInv, RT!Free
  PROVE  RtosInv'
<1>1. /\ Len(Tasks) \in Nat \ {0} /\ Task = 1..Len(Tasks)
      /\ task \in Task /\ task \in Nat /\ step = "free" /\ tenant = 1 /\ exiting \in BOOLEAN /\ stopped \in BOOLEAN
      /\ stack \in [Task -> BOOLEAN] /\ frees \in [Task -> Nat] /\ drops \in [Task -> Nat]
      /\ \A t \in Task : t \in Nat \ {0} /\ t <= Len(Tasks) /\ Tasks[t] \in Nat \ {0}
      /\ UNCHANGED <<thread, ready, turns>>
  BY TasksInOrder DEF RtosInv, RtosTypeOK, RT!Free
<1>2. CASE RT!Again /\ RT!Fault
  BY <1>1, <1>2, FaultKeeps
<1>3. ASSUME IF stack[task]
             THEN frees' = [frees EXCEPT ![task] = @ + 1] /\ stack' \in {stack, RT!Forgotten}
             ELSE UNCHANGED <<frees, stack>>,
             drops' = [drops EXCEPT ![task] = @ + 1],
             RT!NextTask, UNCHANGED <<tenant, stopped>>
      PROVE  RtosInv'
  <2>1. \/ exiting = TRUE /\ task > 1 /\ task' = task - 1 /\ step' = "clean" /\ exiting' = TRUE
        \/ exiting = TRUE /\ task = 1 /\ task' = task /\ step' = "over" /\ exiting' = TRUE
        \/ exiting = FALSE /\ task = Len(Tasks) /\ task' = task /\ step' = "clean" /\ exiting' = TRUE
        \/ exiting = FALSE /\ task < Len(Tasks) /\ task' = task + 1 /\ step' = "clean" /\ exiting' = FALSE
    <3>1. CASE exiting = TRUE
      BY <1>1, <1>3, <3>1 DEF RT!NextTask
    <3>2. CASE exiting = FALSE
      <4>1. /\ step' = "clean" /\ exiting' = (task = Len(Tasks))
            /\ task' = IF task < Len(Tasks) THEN task + 1 ELSE task
        BY <1>3, <3>2 DEF RT!NextTask
      <4>2. CASE task = Len(Tasks)
        <5>1. task' = task
          BY <1>1, <4>1, <4>2
        <5>2. exiting' = TRUE
          BY <4>1, <4>2
        <5> QED BY <3>2, <4>1, <4>2, <5>1, <5>2
      <4>3. CASE task < Len(Tasks)
        <5>1. (task = Len(Tasks)) = FALSE
          BY <1>1, <4>3
        <5> QED BY <3>2, <4>1, <4>3, <5>1
      <4>4. task < Len(Tasks) \/ task = Len(Tasks)
        BY <1>1
      <4> QED BY <4>2, <4>3, <4>4
    <3> QED BY <1>1, <3>1, <3>2
  <2>2. /\ ~Starting /\ Stopping /\ ~Starting' /\ step' \in {"clean", "over"}
        /\ step' = "clean" => Stopping'
    BY <1>1, <2>1 DEF Starting, Stopping
  <2>3. task' \in Task /\ 1 \in 1..Tasks[task'] /\ exiting' \in BOOLEAN
    <3>1. task' \in 1..Len(Tasks)
      BY <1>1, <2>1
    <3>2. exiting' \in BOOLEAN
      BY <2>1
    <3>3. task' \in Task /\ 1 \in 1..Tasks[task']
      BY <1>1, <3>1
    <3> QED BY <3>2, <3>3
  <2>4. /\ \A t \in Task : drops'[t] = IF t = task THEN drops[t] + 1 ELSE drops[t]
        /\ drops' \in [Task -> Nat]
    BY <1>1, <1>3
  <2>5. /\ frees' \in [Task -> Nat] /\ stack' \in [Task -> BOOLEAN]
        /\ \A t \in Task : t # task => frees'[t] = frees[t] /\ stack'[t] = stack[t]
        /\ frees'[task] = IF stack[task] THEN frees[task] + 1 ELSE frees[task]
    <3>1. CASE stack[task]
      <4>1. frees' = [frees EXCEPT ![task] = @ + 1]
        BY <1>3, <3>1
      <4>2. stack' \in [Task -> BOOLEAN] /\ \A t \in Task : t # task => stack'[t] = stack[t]
        <5>1. stack' = stack \/ stack' = [stack EXCEPT ![task] = FALSE]
          BY <1>3, <3>1 DEF RT!Forgotten
        <5> QED BY <1>1, <5>1
      <4> QED BY <1>1, <3>1, <4>1, <4>2
    <3>2. CASE ~stack[task]
      BY <1>1, <1>3, <3>2
    <3> QED BY <3>1, <3>2
  <2>6. RtosTypeOK'
    BY <1>1, <1>3, <2>2, <2>3, <2>4, <2>5 DEF RtosInv, RtosTypeOK
  <2>7. StartedInOrder'
    BY <1>1, <2>2, StartedStays
  <2>8. StoppedInOrder'
    <3>1. /\ \A t \in Task : /\ drops[t] = Ends(t) /\ frees[t] <= drops[t]
                             /\ drops[t] = 0 => stack[t]
                             /\ drops[t] > 0 => frees[t] > 0
                             /\ drops[t] > 0 \/ t = task => thread[t] = "aborted"
          /\ stopped \/ exiting
      BY <1>1, <2>2 DEF RtosInv, StoppedInOrder, Created
    <3>2. ASSUME NEW t \in Task
          PROVE  Ends(t)' = IF t = task THEN Ends(t) + 1 ELSE Ends(t)
      <4>1. /\ Ends(t) = (IF stopped /\ (exiting \/ t < task) THEN 1 ELSE 0) + (IF exiting /\ t > task THEN 1 ELSE 0)
            /\ t \in Nat \ {0} /\ t <= Len(Tasks)
        BY <1>1, <2>2, <3>2 DEF Ends
      <4>2. Ends(t)' = (IF stopped /\ (exiting' \/ (Stopping' /\ t < task')) THEN 1 ELSE 0)
                        + (IF exiting' /\ (step' = "over" \/ t > task') THEN 1 ELSE 0)
        BY <1>3 DEF Ends
      <4>3. CASE exiting = TRUE /\ task > 1 /\ task' = task - 1 /\ step' = "clean" /\ exiting' = TRUE
        BY <1>1, <4>1, <4>2, <4>3
      <4>4. CASE exiting = TRUE /\ task = 1 /\ task' = task /\ step' = "over" /\ exiting' = TRUE
        BY <1>1, <4>1, <4>2, <4>4
      <4>5. CASE exiting = FALSE /\ task = Len(Tasks) /\ task' = task /\ step' = "clean" /\ exiting' = TRUE
        BY <1>1, <3>1, <4>1, <4>2, <4>5
      <4>6. CASE exiting = FALSE /\ task < Len(Tasks) /\ task' = task + 1 /\ step' = "clean" /\ exiting' = FALSE
        BY <1>1, <2>2, <3>1, <4>1, <4>2, <4>6
      <4> QED BY <2>1, <4>3, <4>4, <4>5, <4>6
    <3>3. ASSUME NEW t \in Task
          PROVE  /\ drops'[t] = Ends(t)' /\ frees'[t] <= drops'[t]
                 /\ drops'[t] = 0 => stack'[t]
                 /\ drops'[t] > 0 => frees'[t] > 0
                 /\ drops'[t] > 0 => thread'[t] = "aborted"
      <4>1. drops[t] \in Nat /\ frees[t] \in Nat
        BY <1>1, <3>3
      <4>2. CASE t = task
        <5>1. drops'[t] = drops[t] + 1 /\ Ends(t)' = Ends(t) + 1
          BY <2>4, <3>2, <4>2
        <5>2. frees'[t] = (IF stack[t] THEN frees[t] + 1 ELSE frees[t]) /\ thread'[t] = "aborted"
          BY <1>1, <2>5, <3>1, <4>2
        <5> QED BY <3>1, <4>1, <4>2, <5>1, <5>2
      <4>3. CASE t # task
        <5>1. drops'[t] = drops[t] /\ Ends(t)' = Ends(t) /\ frees'[t] = frees[t] /\ stack'[t] = stack[t]
          BY <2>4, <2>5, <3>2, <4>3
        <5> QED BY <1>1, <3>1, <5>1
      <4> QED BY <4>2, <4>3
    <3>4. \A t \in Task : Created(t)'
      BY <2>2 DEF Created
    <3>5. step' # "free" /\ step' # "started" /\ (Stopping' \/ step' = "over")
      BY <2>2
    <3>6. stopped' \/ exiting'
      BY <1>3, <2>1, <3>1
    <3>7. step' = "over" => exiting'
      BY <2>1
    <3> QED BY <3>3, <3>4, <3>5, <3>6, <3>7 DEF StoppedInOrder, Task
  <2> QED BY <2>6, <2>7, <2>8 DEF RtosInv
<1> QED BY <1>1, <1>2, <1>3 DEF RT!Free

(* Whatever main or a thread does next. *)
LEMMA RtosNext ==
  ASSUME RT!TasksAssumption, RtosInv, RT!Next
  PROVE  RtosInv'
  BY InitializeKeeps, CreateKeeps, RunTenantKeeps, StopRtosKeeps, CleanupKeeps, AbortKeeps, FreeKeeps
  DEF RT!Next, Task

(* Turns need a thread, threads need the calls; and a task is destroyed    *)
(* twice only by StopRtos and the destructors.                             *)
LEMMA LiveOnce ==
  ASSUME RT!TasksAssumption, RtosInv
  PROVE  RT!ReadyBeforeRun /\ RT!FreedOnce
<1>1. ASSUME NEW t \in Task, turns[t] > 0
      PROVE  ready[t] = 2 * Tasks[t]
  <2>1. thread[t] # "none" /\ ready[t] = Calls(t)
    BY <1>1 DEF RtosInv, RtosTypeOK, StartedInOrder
  <2>2. ~Starting \/ t < task
    BY <1>1, <2>1, TasksInOrder DEF RtosInv, RtosTypeOK, StartedInOrder
  <2> QED BY <2>1, <2>2 DEF Calls
<1>2. ASSUME NEW t \in Task
      PROVE  /\ frees[t] > 0 => thread[t] = "aborted"
             /\ frees[t] > 1 \/ drops[t] > 1 => stopped /\ exiting
             /\ step = "over" => frees[t] > 0 /\ drops[t] > 0
  <2>1. /\ drops[t] \in Nat /\ frees[t] \in Nat /\ frees[t] <= drops[t] /\ drops[t] = Ends(t)
        /\ drops[t] > 0 => frees[t] > 0 /\ thread[t] = "aborted"
        /\ step = "over" => exiting
    BY <1>2 DEF RtosInv, RtosTypeOK, StoppedInOrder
  <2>2. Ends(t) > 1 => stopped /\ exiting
    BY DEF Ends
  <2>3. step = "over" => Ends(t) > 0
    BY <2>1 DEF Ends
  <2> QED BY <2>1, <2>2, <2>3
<1> QED BY <1>1, <1>2 DEF RT!ReadyBeforeRun, RT!FreedOnce, Task

-----------------------------------------------------------------------------
(* The rolling sum and the line that is fitted through it.                 *)

(* Samples and their sums, field by field. *)
Fields == {"x", "y", "xx", "xy"}
Totals == [Fields -> Int]

(* A sample has a total's fields. *)
LEMMA SampleIs ==
  ASSUME NEW x \in Int, NEW y \in Int
  PROVE  /\ W!Sample(x, y) \in Totals
         /\ W!Sample(x, y).x = x /\ W!Sample(x, y).y = y
         /\ W!Sample(x, y).xx = x * x /\ W!Sample(x, y).xy = x * y
  BY DEF W!Sample, Totals, Fields

(* Totals are added and taken off field by field. *)
LEMMA PlusMinus ==
  ASSUME NEW a \in Totals, NEW b \in Totals
  PROVE  /\ W!Plus(a, b) \in Totals /\ W!Minus(a, b) \in Totals
         /\ \A f \in Fields : W!Plus(a, b)[f] = a[f] + b[f] /\ W!Minus(a, b)[f] = a[f] - b[f]
  BY DEF Totals, W!Plus, W!Minus

(* Totals that agree on their fields are the same. *)
LEMMA SameTotals ==
  ASSUME NEW a \in Totals, NEW b \in Totals, \A f \in Fields : a[f] = b[f]
  PROVE  a = b
  BY DEF Totals

(* Nothing is zero in every field. *)
LEMMA ZeroIs == W!Zero \in Totals /\ \A f \in Fields : W!Zero[f] = 0
<1>1. W!Zero \in Totals
  BY SampleIs, 0 \in Int DEF W!Zero
<1>2. W!Zero.x = 0 /\ W!Zero.y = 0 /\ W!Zero.xx = 0 /\ W!Zero.xy = 0
  BY SampleIs, 0 * 0 = 0 DEF W!Zero
<1> QED BY <1>1, <1>2 DEF Fields

(* The sums of the first of some totals. *)
SumsTo(sums, s) ==
  /\ sums \in [0..Len(s) -> Totals] /\ sums[0] = W!Zero
  /\ \A k \in 1..Len(s) : sums[k] = W!Plus(sums[k - 1], s[k])

(* The sum that is defined by recursion is the last of them. *)
LEMMA SumOfIs ==
  ASSUME NEW s \in Seq(Totals), NEW sums, SumsTo(sums, s)
  PROVE  W!SumOf(s) = sums[Len(s)]
<1>1. PICK n \in Nat : n = Len(s)
  OBVIOUS
<1> DEFINE Body(f) == [k \in 0..n |-> IF k = 0 THEN W!Zero ELSE W!Plus(f[k - 1], s[k])]
<1>2. sums = Body(sums)
  <2>1. sums = [k \in 0..n |-> sums[k]]
    BY <1>1 DEF SumsTo
  <2>2. \A k \in 0..n : sums[k] = IF k = 0 THEN W!Zero ELSE W!Plus(sums[k - 1], s[k])
    <3>1. \A k \in 0..n : k = 0 \/ k \in 1..n
      BY <1>1
    <3> QED BY <1>1, <3>1, Zenon DEF SumsTo
  <2> QED BY <2>1, <2>2, Zenon
<1>3. ASSUME NEW f, f = Body(f) PROVE f[n] = sums[n]
  <2> DEFINE wrong == {k \in 0..n : f[k] # sums[k]}
  <2>1. SUFFICES ASSUME n \in wrong PROVE FALSE
    BY <1>1
  <2>2. wrong \in SUBSET Nat /\ wrong # {}
    <3>1. 0..n \subseteq Nat
      BY <1>1
    <3> QED BY <2>1, <3>1
  <2>3. PICK k \in wrong : \A l \in wrong : ~(l < k)
    <3> HIDE DEF wrong
    <3>1. PICK k \in wrong : \A l \in wrong : <<l, k>> \notin OpToRel(<, Nat)
      BY <2>2, WFMin, NatLessThanWellFounded, Zenon
    <3>2. \A l \in wrong : ~(l < k)
      BY <2>2, <3>1 DEF OpToRel
    <3> QED BY <3>1, <3>2
  <2>4. k \in 0..n /\ f[k] # sums[k]
    BY <2>3
  <2>5. f[k] = Body(f)[k] /\ sums[k] = Body(sums)[k]
    <3> HIDE DEF Body
    <3> QED BY <1>2, <1>3
  <2>6. CASE k = 0
    <3>1. Body(f)[k] = W!Zero /\ Body(sums)[k] = W!Zero
      BY <2>4, <2>6
    <3> QED BY <2>4, <2>5, <3>1, Zenon
  <2>7. CASE k # 0
    <3>1. k - 1 \in 0..n /\ k - 1 < k
      BY <1>1, <2>4, <2>7
    <3>2. f[k - 1] = sums[k - 1]
      BY <2>3, <3>1
    <3>3. Body(f)[k] = W!Plus(f[k - 1], s[k]) /\ Body(sums)[k] = W!Plus(sums[k - 1], s[k])
      BY <2>4, <2>7
    <3> HIDE DEF Body
    <3> QED BY <2>4, <2>5, <3>2, <3>3, Zenon
  <2> QED BY <2>6, <2>7
<1>4. PICK c : c = CHOOSE f : f = Body(f)
  OBVIOUS
<1>5. c = Body(c)
  <2> HIDE DEF Body
  <2> QED BY <1>2, <1>4
<1>6. W!SumOf(s) = c[n]
  BY <1>1, <1>4 DEF W!SumOf
<1> QED BY <1>1, <1>3, <1>5, <1>6

(* The sum of a window is the difference of two sums. *)
LEMMA WindowSum ==
  ASSUME NEW w \in Seq(Totals), NEW sums, SumsTo(sums, w), NEW n \in Nat, NEW s \in Seq(Totals),
         n + Len(s) <= Len(w), \A i \in 1..Len(s) : s[i] = w[n + i]
  PROVE  /\ \E t : SumsTo(t, s)
         /\ W!SumOf(s) = W!Minus(sums[n + Len(s)], sums[n])
<1>t. PICK t : t = [k \in 0..Len(s) |-> W!Minus(sums[n + k], sums[n])]
  OBVIOUS
<1>1. PICK size \in Nat : size = Len(s)
  OBVIOUS
<1>2. \A k \in 0..size : n + k \in 0..Len(w)
  BY <1>1
<1>3. \A k \in 0..size : sums[n + k] \in Totals
  BY <1>2 DEF SumsTo
<1>4. 0 \in 0..size /\ size \in 0..size /\ n + 0 = n
  BY <1>1
<1>5. sums[n] \in Totals
  BY <1>3, <1>4
<1>6. t \in [0..size -> Totals] /\ \A k \in 0..size : t[k] = W!Minus(sums[n + k], sums[n])
  <2>1. \A k \in 0..size : W!Minus(sums[n + k], sums[n]) \in Totals
    BY <1>3, <1>5, PlusMinus
  <2> QED BY <1>t, <1>1, <2>1, Zenon
<1>7. t[0] = W!Zero
  <2>1. t[0] = W!Minus(sums[n], sums[n]) /\ t[0] \in Totals
    BY <1>4, <1>6
  <2>2. ASSUME NEW f \in Fields PROVE t[0][f] = W!Zero[f]
    <3>1. t[0][f] = sums[n][f] - sums[n][f]
      BY <1>5, <2>1, PlusMinus
    <3>2. sums[n][f] \in Int
      BY <1>5 DEF Totals
    <3> QED BY <3>1, <3>2, ZeroIs
  <2> QED BY <2>1, <2>2, SameTotals, ZeroIs
<1>8. ASSUME NEW k \in 1..size PROVE t[k] = W!Plus(t[k - 1], s[k])
  <2>1. k \in 0..size /\ k - 1 \in 0..size /\ n + k \in 1..Len(w) /\ (n + k) - 1 = n + (k - 1)
    BY <1>1
  <2>2. PICK a \in Totals : a = sums[n + k]
    BY <1>3, <2>1
  <2>3. PICK b \in Totals : b = sums[n + (k - 1)]
    BY <1>3, <2>1
  <2>4. PICK c \in Totals : c = sums[n]
    BY <1>5
  <2>5. PICK v \in Totals : v = s[k] /\ v = w[n + k]
    BY <1>1
  <2>6. a = W!Plus(b, v)
    BY <2>1, <2>2, <2>3, <2>5 DEF SumsTo
  <2>7. t[k] = W!Minus(a, c) /\ t[k - 1] = W!Minus(b, c) /\ t[k] \in Totals /\ t[k - 1] \in Totals
    BY <1>6, <2>1, <2>2, <2>3, <2>4
  <2>8. W!Plus(t[k - 1], v) \in Totals
    BY <2>7, PlusMinus
  <2>9. ASSUME NEW f \in Fields PROVE t[k][f] = W!Plus(t[k - 1], v)[f]
    <3>1. a[f] \in Int /\ b[f] \in Int /\ c[f] \in Int /\ v[f] \in Int
      BY DEF Totals
    <3>2. /\ t[k][f] = a[f] - c[f] /\ t[k - 1][f] = b[f] - c[f] /\ a[f] = b[f] + v[f]
          /\ W!Plus(t[k - 1], v)[f] = t[k - 1][f] + v[f]
      BY <2>6, <2>7, PlusMinus
    <3> QED BY <3>1, <3>2
  <2> QED BY <2>5, <2>7, <2>8, <2>9, SameTotals
<1>9. SumsTo(t, s)
  BY <1>1, <1>6, <1>7, <1>8, Zenon DEF SumsTo
<1>10. W!SumOf(s) = t[size]
  BY <1>1, <1>9, SumOfIs
<1> QED BY <1>1, <1>4, <1>6, <1>9, <1>10

(* One more total adds one more sum, and leaves the others. *)
LEMMA OneMoreTotal ==
  ASSUME NEW w \in Seq(Totals), NEW sums, SumsTo(sums, w), NEW v \in Totals
  PROVE  \E more : /\ SumsTo(more, Append(w, v))
                   /\ \A k \in 0..Len(w) : more[k] = sums[k]
                   /\ more[Len(w) + 1] = W!Plus(sums[Len(w)], v)
<1>m. PICK more : more = [k \in 0..(Len(w) + 1) |-> IF k = Len(w) + 1 THEN W!Plus(sums[Len(w)], v) ELSE sums[k]]
  OBVIOUS
<1>1. PICK n \in Nat : n = Len(w)
  OBVIOUS
<1>2. /\ Append(w, v) \in Seq(Totals) /\ Len(Append(w, v)) = n + 1
      /\ Append(w, v)[n + 1] = v /\ \A k \in 1..n : Append(w, v)[k] = w[k]
  BY <1>1
<1>3. /\ \A k \in 0..n : sums[k] \in Totals /\ k \in 0..(n + 1) /\ k # n + 1
      /\ n \in 0..n /\ n + 1 \in 0..(n + 1) /\ 0 \in 0..n
  <2>1. \A k \in 0..n : k \in 0..(n + 1) /\ k # n + 1
    BY <1>1
  <2> QED BY <1>1, <2>1 DEF SumsTo
<1>4. /\ \A k \in 0..n : more[k] = sums[k]
      /\ more[n + 1] = W!Plus(sums[n], v)
  BY <1>m, <1>1, <1>3, Zenon
<1>5. more \in [0..(n + 1) -> Totals]
  <2>1. W!Plus(sums[n], v) \in Totals
    BY <1>3, PlusMinus
  <2>2. \A k \in 0..(n + 1) : k = n + 1 \/ k \in 0..n
    BY <1>1
  <2>3. \A k \in 0..(n + 1) : more[k] \in Totals
    BY <1>3, <1>4, <2>1, <2>2, Zenon
  <2>4. more = [k \in 0..(n + 1) |-> more[k]]
    BY <1>m, <1>1
  <2> QED BY <2>3, <2>4, Zenon
<1>6. ASSUME NEW k \in 1..(n + 1) PROVE more[k] = W!Plus(more[k - 1], Append(w, v)[k])
  <2>1. CASE k = n + 1
    <3>1. k - 1 = n
      BY <1>1, <2>1
    <3> QED BY <1>2, <1>3, <1>4, <2>1, <3>1, Zenon
  <2>2. CASE k # n + 1
    <3>1. k \in 1..n /\ k \in 0..n /\ k - 1 \in 0..n
      BY <1>1, <2>2
    <3>2. more[k] = sums[k] /\ more[k - 1] = sums[k - 1] /\ Append(w, v)[k] = w[k]
      BY <1>2, <1>4, <3>1, Zenon
    <3>3. sums[k] = W!Plus(sums[k - 1], w[k])
      BY <1>1, <3>1, Zenon DEF SumsTo
    <3> QED BY <3>2, <3>3, Zenon
  <2> QED BY <2>1, <2>2
<1>7. more[0] = W!Zero
  BY <1>3, <1>4, Zenon DEF SumsTo
<1>8. SumsTo(more, Append(w, v))
  BY <1>2, <1>5, <1>6, <1>7, Zenon DEF SumsTo
<1> QED BY <1>1, <1>4, <1>8, Zenon

(* The same total over and over adds up to its multiples. *)
LEMMA SumsOfFill ==
  ASSUME NEW n \in Nat, NEW s \in Totals
  PROVE  \E w \in Seq(Totals) : \E sums :
           /\ SumsTo(sums, w) /\ Len(w) = n /\ \A i \in 1..n : w[i] = s
           /\ W!Minus(sums[n], sums[0]) = [f \in Fields |-> n * s[f]]
<1>1. PICK w : w = [i \in 1..n |-> s]
  OBVIOUS
<1>2. w \in Seq(Totals) /\ Len(w) = n /\ \A i \in 1..n : w[i] = s
  BY <1>1
<1>3. PICK sums : sums = [k \in 0..n |-> [f \in Fields |-> k * s[f]]]
  OBVIOUS
<1>4. \A k \in Int : [f \in Fields |-> k * s[f]] \in Totals
  BY DEF Totals
<1>5. \A k \in 0..n : sums[k] = [f \in Fields |-> k * s[f]] /\ sums[k] \in Totals
  BY <1>3, <1>4
<1>6. sums \in [0..n -> Totals]
  BY <1>3, <1>4
<1>7. 0 \in 0..n /\ n \in 0..n
  OBVIOUS
<1>8. ASSUME NEW f \in Fields PROVE sums[0][f] = 0
  <2>1. s[f] \in Int
    BY DEF Totals
  <2>2. sums[0][f] = 0 * s[f]
    BY <1>5, <1>7, <1>8
  <2> QED BY <2>1, <2>2
<1>9. sums[0] = W!Zero
  <2>1. sums[0] \in Totals /\ W!Zero \in Totals /\ \A f \in Fields : sums[0][f] = W!Zero[f]
    BY <1>5, <1>7, <1>8, ZeroIs
  <2> QED BY <2>1, SameTotals, Zenon
<1>10. ASSUME NEW k \in 1..n PROVE sums[k] = W!Plus(sums[k - 1], w[k])
  <2>1. k \in 0..n /\ k - 1 \in 0..n
    OBVIOUS
  <2>2. W!Plus(sums[k - 1], s) \in Totals
    BY <1>5, <2>1, PlusMinus
  <2>3. ASSUME NEW f \in Fields PROVE sums[k][f] = W!Plus(sums[k - 1], s)[f]
    <3>1. PICK v \in Int : v = s[f]
      BY DEF Totals
    <3>2. sums[k][f] = k * v /\ sums[k - 1][f] = (k - 1) * v
      BY <1>5, <2>1, <3>1
    <3>3. W!Plus(sums[k - 1], s)[f] = sums[k - 1][f] + v
      BY <1>5, <2>1, <3>1, PlusMinus
    <3>4. k * v = (k - 1) * v + v
      BY SMT
    <3> QED BY <3>2, <3>3, <3>4
  <2>4. sums[k] = W!Plus(sums[k - 1], s)
    BY <1>5, <2>1, <2>2, <2>3, SameTotals, Zenon
  <2> QED BY <1>2, <2>4
<1>11. W!Minus(sums[n], sums[0]) = [f \in Fields |-> n * s[f]]
  <2>1. PICK t : t = [f \in Fields |-> n * s[f]]
    OBVIOUS
  <2>2. t \in Totals /\ t = sums[n] /\ sums[n] \in Totals /\ sums[0] \in Totals
    BY <1>4, <1>5, <1>7, <2>1
  <2>3. ASSUME NEW f \in Fields PROVE W!Minus(sums[n], sums[0])[f] = t[f]
    <3>1. W!Minus(sums[n], sums[0])[f] = t[f] - 0
      BY <1>8, <2>2, PlusMinus
    <3>2. t[f] \in Int
      BY <2>2 DEF Totals
    <3> QED BY <3>1, <3>2
  <2>4. W!Minus(sums[n], sums[0]) \in Totals
    BY <2>2, PlusMinus
  <2> QED BY <2>1, <2>2, <2>3, <2>4, SameTotals
<1>12. SumsTo(sums, w)
  BY <1>2, <1>6, <1>9, <1>10, Zenon DEF SumsTo
<1> QED BY <1>2, <1>11, <1>12, Zenon

(* The window lies over what it was filled with and what was fed since:    *)
(* the buffer has the latest of those, the oldest at its index, and the    *)
(* total is what their sums differ by.                                     *)
OfSample(s) == s \in Totals /\ s.xx = s.x * s.x /\ s.xy = s.x * s.y
WindowTypeOK ==
  /\ underlying \in [0..(len - 1) -> Totals] /\ oldest_index \in 0..(len - 1)
  /\ fed \in Seq(Totals) /\ \A i \in 1..Len(fed) : OfSample(fed[i])
LiesOver(w, sums) ==
  /\ SumsTo(sums, w) /\ Len(w) = len + Len(fed)
  /\ \A i \in 1..Len(fed) : w[len + i] = fed[i]
  /\ \A j \in 0..(len - 1) : W!At(j) = w[Len(fed) + j + 1]
  /\ total = W!Minus(sums[len + Len(fed)], sums[Len(fed)])
WindowInv == WindowTypeOK /\ \E w \in Seq(Totals) : \E sums : LiesOver(w, sums)

(* Where the places of the buffer are. *)
LEMMA PlaceOf ==
  ASSUME W!WindowAssumption, NEW a \in 0..(len - 1), NEW j \in 0..(len - 1)
  PROVE  /\ (a + j) % len = IF a + j < len THEN a + j ELSE (a + j) - len
         /\ (a + j) % len \in 0..(len - 1)
<1>1. PICK n \in Nat \ {0} : n = len
  BY DEF W!WindowAssumption
<1>2. (a + j) % n = IF a + j < n THEN a + j ELSE (a + j) - n
  BY <1>1, SMT
<1> QED BY <1>1, <1>2

(* A window that has just been filled. *)
LEMMA FilledIs ==
  ASSUME W!WindowAssumption, NEW s \in Totals,
         underlying' = [i \in 0..(len - 1) |-> s], total' = [f \in Fields |-> len * s[f]],
         fed' = <<>>, oldest_index' \in 0..(len - 1)
  PROVE  WindowInv'
<1>1. len \in Nat \ {0}
  BY DEF W!WindowAssumption
<1>2. fed' \in Seq(Totals) /\ Len(fed') = 0 /\ 1..0 = {}
  OBVIOUS
<1>3. WindowTypeOK'
  BY <1>2 DEF WindowTypeOK
<1>4. PICK w \in Seq(Totals) : \E sums :
        /\ SumsTo(sums, w) /\ Len(w) = len /\ \A i \in 1..len : w[i] = s
        /\ W!Minus(sums[len], sums[0]) = [f \in Fields |-> len * s[f]]
  BY <1>1, SumsOfFill
<1>5. PICK sums :
        /\ SumsTo(sums, w) /\ Len(w) = len /\ \A i \in 1..len : w[i] = s
        /\ W!Minus(sums[len], sums[0]) = [f \in Fields |-> len * s[f]]
  BY <1>4
<1>6. ASSUME NEW j \in 0..(len - 1) PROVE W!At(j)' = w[0 + j + 1]
  <2>1. (oldest_index' + j) % len \in 0..(len - 1)
    BY PlaceOf
  <2>2. 0 + j + 1 \in 1..len
    BY <1>1
  <2> QED BY <1>5, <2>1, <2>2 DEF W!At
<1>7. len + 0 = len
  BY <1>1
<1>8. LiesOver(w, sums)'
  BY <1>2, <1>5, <1>6, <1>7 DEF LiesOver
<1> QED BY <1>3, <1>8 DEF WindowInv

(* It begins full of zeros. *)
LEMMA WindowStarts ==
  ASSUME W!WindowAssumption, W!Init
  PROVE  WindowInv
<1>1. len \in Nat \ {0}
  BY DEF W!WindowAssumption
<1>2. /\ fed = <<>> /\ fed \in Seq(Totals) /\ Len(fed) = 0 /\ 1..0 = {}
      /\ underlying = [i \in 0..(len - 1) |-> W!Zero] /\ total = W!Zero /\ oldest_index = 0
  BY DEF W!Init
<1>3. WindowTypeOK
  BY <1>1, <1>2, ZeroIs DEF WindowTypeOK
<1>4. PICK w \in Seq(Totals) : \E sums :
        /\ SumsTo(sums, w) /\ Len(w) = len /\ \A i \in 1..len : w[i] = W!Zero
        /\ W!Minus(sums[len], sums[0]) = [f \in Fields |-> len * W!Zero[f]]
  BY <1>1, SumsOfFill, ZeroIs
<1>5. PICK sums :
        /\ SumsTo(sums, w) /\ Len(w) = len /\ \A i \in 1..len : w[i] = W!Zero
        /\ W!Minus(sums[len], sums[0]) = [f \in Fields |-> len * W!Zero[f]]
  BY <1>4
<1>6. total = [f \in Fields |-> len * W!Zero[f]]
  <2>1. \A f \in Fields : len * W!Zero[f] = 0
    BY <1>1, ZeroIs
  <2>2. [f \in Fields |-> len * W!Zero[f]] \in Totals
    BY <2>1 DEF Totals
  <2>3. \A f \in Fields : [g \in Fields |-> len * W!Zero[g]][f] = W!Zero[f]
    BY <2>1, ZeroIs
  <2> QED BY <1>2, <2>2, <2>3, SameTotals, ZeroIs
<1>7. ASSUME NEW j \in 0..(len - 1) PROVE W!At(j) = w[0 + j + 1]
  <2>1. (0 + j) % len \in 0..(len - 1)
    BY <1>1, PlaceOf, 0 \in 0..(len - 1)
  <2>2. 0 + j + 1 \in 1..len
    BY <1>1
  <2> QED BY <1>2, <1>5, <2>1, <2>2 DEF W!At
<1>8. len + 0 = len
  BY <1>1
<1>9. LiesOver(w, sums)
  BY <1>2, <1>5, <1>6, <1>7, <1>8 DEF LiesOver
<1> QED BY <1>3, <1>9 DEF WindowInv

(* A sample that is fed takes the place of the oldest, in the buffer and   *)
(* in the total.                                                           *)
LEMMA FeedKeeps ==
  ASSUME W!WindowAssumption, WindowInv, NEW new, OfSample(new),
         total' = W!Plus(W!Minus(total, underlying[oldest_index]), new),
         underlying' = [underlying EXCEPT ![oldest_index] = new],
         fed' = Append(fed, new), oldest_index' = (oldest_index + 1) % len
  PROVE  WindowInv'
<1>1. PICK size \in Nat \ {0} : size = len
  BY DEF W!WindowAssumption
<1>2. PICK n \in Nat : n = Len(fed)
  BY DEF WindowInv, WindowTypeOK
<1>3. PICK o \in 0..(size - 1) : o = oldest_index
  BY <1>1 DEF WindowInv, WindowTypeOK
<1>4. PICK w \in Seq(Totals) : \E sums : LiesOver(w, sums)
  BY DEF WindowInv
<1>5. PICK sums : LiesOver(w, sums)
  BY <1>4
<1>6. /\ SumsTo(sums, w) /\ Len(w) = size + n /\ size + n \in Nat
      /\ \A i \in 1..n : w[size + i] = fed[i]
      /\ total = W!Minus(sums[size + n], sums[n])
  BY <1>1, <1>2, <1>5 DEF LiesOver
<1>7. new \in Totals
  BY DEF OfSample
<1>8. PICK more : /\ SumsTo(more, Append(w, new))
                  /\ \A k \in 0..Len(w) : more[k] = sums[k]
                  /\ more[Len(w) + 1] = W!Plus(sums[Len(w)], new)
  <2>1. SumsTo(sums, w)
    BY <1>6
  <2> QED BY <1>7, <2>1, OneMoreTotal
<1>9. /\ SumsTo(more, Append(w, new))
      /\ \A k \in 0..(size + n) : more[k] = sums[k]
      /\ more[(size + n) + 1] = W!Plus(sums[size + n], new)
  BY <1>6, <1>8, Zenon
<1>10. PICK v : v = Append(w, new) /\ v \in Seq(Totals) /\ Len(v) = (size + n) + 1
                /\ v[(size + n) + 1] = new /\ \A i \in 1..(size + n) : v[i] = w[i]
  <2>1. PICK l \in Nat : l = Len(w)
    OBVIOUS
  <2>2. /\ Append(w, new) \in Seq(Totals) /\ Len(Append(w, new)) = l + 1
        /\ Append(w, new)[l + 1] = new /\ \A i \in 1..l : Append(w, new)[i] = w[i]
    BY <1>7, <2>1
  <2>3. l = size + n
    BY <1>6, <2>1
  <2> QED BY <2>2, <2>3, Zenon
<1>11. /\ fed' \in Seq(Totals) /\ Len(fed') = n + 1 /\ fed'[n + 1] = new /\ \A i \in 1..n : fed'[i] = fed[i]
  BY <1>2, <1>7 DEF WindowInv, WindowTypeOK
<1>12. underlying \in [0..(size - 1) -> Totals] /\ underlying' \in [0..(size - 1) -> Totals]
       /\ \A i \in 0..(size - 1) : underlying'[i] = IF i = o THEN new ELSE underlying[i]
  BY <1>1, <1>3, <1>7 DEF WindowInv, WindowTypeOK
<1>13. oldest_index' = IF o + 1 < size THEN o + 1 ELSE 0
  <2>1. (o + 1) % size = IF o + 1 < size THEN o + 1 ELSE 0
    OBVIOUS
  <2> QED BY <1>1, <1>3, <2>1
<1>14. WindowTypeOK'
  <2>1. oldest_index' \in 0..(size - 1)
    BY <1>13
  <2>2. \A i \in 1..(n + 1) : OfSample(fed'[i])
    <3>1. \A i \in 1..(n + 1) : i \in 1..n \/ i = n + 1
      OBVIOUS
    <3>2. \A i \in 1..n : OfSample(fed[i])
      BY <1>2 DEF WindowInv, WindowTypeOK
    <3> QED BY <1>11, <3>1, <3>2, Zenon
  <2> QED BY <1>1, <1>11, <1>12, <2>1, <2>2 DEF WindowTypeOK, OfSample
<1>15. \A i \in 1..(n + 1) : v[size + i] = fed'[i]
  <2>1. \A i \in 1..(n + 1) : (i \in 1..n /\ size + i \in 1..(size + n)) \/ (i = n + 1 /\ size + i = (size + n) + 1)
    OBVIOUS
  <2> QED BY <1>6, <1>10, <1>11, <2>1, Zenon
<1>16. \A j \in 0..(size - 1) : underlying[IF o + j < size THEN o + j ELSE (o + j) - size] = w[n + j + 1]
  <2>1. SUFFICES ASSUME NEW j \in 0..(size - 1)
                 PROVE  underlying[IF o + j < size THEN o + j ELSE (o + j) - size] = w[n + j + 1]
    OBVIOUS
  <2>2. W!At(j) = w[n + j + 1]
    BY <1>1, <1>2, <1>5, <2>1 DEF LiesOver
  <2>3. (o + j) % size = IF o + j < size THEN o + j ELSE (o + j) - size
    BY <1>1, <1>3, <2>1, PlaceOf
  <2> QED BY <1>1, <1>3, <2>2, <2>3 DEF W!At
<1>17. ASSUME NEW j \in 0..(size - 1) PROVE W!At(j)' = v[(n + 1) + j + 1]
  <2>1. PICK p \in 0..(size - 1) : p = IF o + 1 < size THEN o + 1 ELSE 0
    OBVIOUS
  <2>2. W!At(j)' = underlying'[IF p + j < size THEN p + j ELSE (p + j) - size]
    <3>1. (p + j) % size = IF p + j < size THEN p + j ELSE (p + j) - size
      BY <1>1, <2>1, PlaceOf
    <3> QED BY <1>1, <1>13, <2>1, <3>1 DEF W!At
  <2>3. CASE j = size - 1
    <3>1. (IF p + j < size THEN p + j ELSE (p + j) - size) = o /\ (n + 1) + j + 1 = (size + n) + 1
      BY <2>1, <2>3
    <3> QED BY <1>10, <1>12, <2>2, <3>1
  <2>4. CASE j # size - 1
    <3>1. PICK i \in 0..(size - 1) : i = IF o + (j + 1) < size THEN o + (j + 1) ELSE (o + (j + 1)) - size
      <4>1. PICK k \in Nat : k = o + (j + 1) /\ k < 2 * size
        OBVIOUS
      <4>2. (IF k < size THEN k ELSE k - size) \in 0..(size - 1)
        BY <4>1
      <4> QED BY <4>1, <4>2, Zenon
    <3>2. (IF p + j < size THEN p + j ELSE (p + j) - size) = i /\ i # o
      BY <2>1, <2>4, <3>1
    <3>3. j + 1 \in 0..(size - 1) /\ n + (j + 1) + 1 \in 1..(size + n) /\ n + (j + 1) + 1 = (n + 1) + j + 1
      BY <2>4
    <3>4. underlying[i] = w[n + (j + 1) + 1]
      BY <1>16, <3>1, <3>3
    <3> QED BY <1>10, <1>12, <2>2, <3>2, <3>3, <3>4
  <2> QED BY <2>3, <2>4
<1>18. total' = W!Minus(more[size + (n + 1)], more[n + 1])
  <2>1. size + n \in 0..(size + n) /\ n \in 0..(size + n) /\ n + 1 \in 1..(size + n) /\ n + 1 \in 0..(size + n)
        /\ (n + 1) - 1 = n /\ size + (n + 1) = (size + n) + 1
    OBVIOUS
  <2>2. PICK a, b, c, d \in Totals : a = sums[size + n] /\ b = sums[n] /\ c = sums[n + 1] /\ d = w[n + 1]
    BY <1>6, <2>1 DEF SumsTo
  <2>3. c = W!Plus(b, d)
    <3>1. \A k \in 1..(size + n) : sums[k] = W!Plus(sums[k - 1], w[k])
      BY <1>6 DEF SumsTo
    <3> QED BY <2>1, <2>2, <3>1
  <2>4. underlying[oldest_index] = d
    <3>1. 0 \in 0..(size - 1) /\ o + 0 < size /\ o + 0 = o /\ n + 0 + 1 = n + 1
      OBVIOUS
    <3> QED BY <1>3, <1>16, <2>2, <3>1
  <2>5. total' = W!Plus(W!Minus(W!Minus(a, b), d), new)
    BY <1>6, <2>2, <2>4
  <2>6. more[size + (n + 1)] = W!Plus(a, new) /\ more[n + 1] = c
    BY <1>9, <2>1, <2>2
  <2>7. /\ W!Minus(a, b) \in Totals /\ W!Minus(W!Minus(a, b), d) \in Totals /\ W!Plus(a, new) \in Totals
        /\ W!Plus(W!Minus(W!Minus(a, b), d), new) \in Totals /\ W!Minus(W!Plus(a, new), c) \in Totals
    BY <1>7, PlusMinus
  <2>8. ASSUME NEW f \in Fields
        PROVE  W!Plus(W!Minus(W!Minus(a, b), d), new)[f] = W!Minus(W!Plus(a, new), c)[f]
    <3>1. a[f] \in Int /\ b[f] \in Int /\ c[f] \in Int /\ d[f] \in Int /\ new[f] \in Int
      BY <1>7 DEF Totals
    <3>2. W!Plus(W!Minus(W!Minus(a, b), d), new)[f] = W!Minus(W!Minus(a, b), d)[f] + new[f]
      BY <1>7, <2>7, PlusMinus
    <3>3. W!Minus(W!Minus(a, b), d)[f] = W!Minus(a, b)[f] - d[f]
      BY <2>7, PlusMinus
    <3>4. W!Minus(a, b)[f] = a[f] - b[f]
      BY PlusMinus
    <3>5. W!Minus(W!Plus(a, new), c)[f] = W!Plus(a, new)[f] - c[f]
      BY <2>7, PlusMinus
    <3>6. W!Plus(a, new)[f] = a[f] + new[f] /\ c[f] = b[f] + d[f]
      BY <1>7, <2>3, PlusMinus
    <3> QED BY <3>1, <3>2, <3>3, <3>4, <3>5, <3>6
  <2> QED BY <2>5, <2>6, <2>7, <2>8, SameTotals
<1>19. LiesOver(v, more)'
  <2>1. SumsTo(more, v) /\ Len(v) = size + (n + 1)
    BY <1>9, <1>10
  <2> QED BY <1>1, <1>11, <1>15, <1>17, <1>18, <2>1 DEF LiesOver
<1> QED BY <1>10, <1>14, <1>19 DEF WindowInv

(* What never falls from one place to the next never falls. *)
LEMMA Climbs ==
  ASSUME NEW n \in Nat, NEW F, \A k \in 0..n : F[k] \in Int, \A k \in 1..n : F[k - 1] <= F[k],
         NEW i \in 0..n
  PROVE  \A k \in 0..n : i <= k => F[i] <= F[k]
<1> DEFINE wrong == {k \in 0..n : i <= k /\ ~(F[i] <= F[k])}
<1>1. SUFFICES ASSUME wrong # {} PROVE FALSE
  OBVIOUS
<1>2. wrong \in SUBSET Nat
  OBVIOUS
<1>3. PICK k \in wrong : \A l \in wrong : ~(l < k)
  <2> HIDE DEF wrong
  <2>1. PICK k \in wrong : \A l \in wrong : <<l, k>> \notin OpToRel(<, Nat)
    BY <1>1, <1>2, WFMin, NatLessThanWellFounded, Zenon
  <2>2. \A l \in wrong : ~(l < k)
    BY <1>2, <2>1 DEF OpToRel
  <2> QED BY <2>1, <2>2
<1>4. k \in 0..n /\ i <= k /\ ~(F[i] <= F[k])
  BY <1>3
<1>5. k # i
  BY <1>4
<1>6. k \in 1..n /\ k - 1 \in 0..n /\ i <= k - 1 /\ k - 1 < k
  BY <1>4, <1>5
<1>7. F[i] <= F[k - 1]
  BY <1>3, <1>6
<1>8. F[k - 1] <= F[k] /\ F[i] \in Int /\ F[k] \in Int /\ F[k - 1] \in Int
  BY <1>4, <1>6
<1> QED BY <1>4, <1>7, <1>8

(* What never changes is what it was at first. *)
LEMMA Stays ==
  ASSUME NEW n \in Nat, NEW F, \A k \in 0..n : F[k] \in Int, \A k \in 1..n : F[k - 1] = F[k]
  PROVE  F[n] = F[0]
<1>1. \A k \in 1..n : k \in 0..n /\ k - 1 \in 0..n
  OBVIOUS
<1>2. 0 \in 0..n /\ n \in 0..n /\ 0 <= n
  OBVIOUS
<1>3. F[0] <= F[n]
  <2>1. \A k \in 1..n : F[k - 1] <= F[k]
    BY <1>1
  <2> QED BY <1>2, <2>1, Climbs
<1>4. -F[0] <= -F[n]
  <2>1. PICK G : G = [k \in 0..n |-> -F[k]]
    OBVIOUS
  <2>2. \A k \in 0..n : G[k] = -F[k] /\ G[k] \in Int
    BY <2>1
  <2>3. \A k \in 1..n : G[k - 1] <= G[k]
    BY <1>1, <2>2
  <2>4. G[0] <= G[n]
    BY <1>2, <2>2, <2>3, Climbs
  <2> QED BY <1>2, <2>2, <2>4
<1> QED BY <1>2, <1>3, <1>4

(* Sums of samples, as numbers: x, y, and their products.                  *)
SampleSums(n, s, t) ==
  /\ \A i \in 1..n : s[i].x \in Int /\ s[i].y \in Int
  /\ \A k \in 0..n : t[k].x \in Int /\ t[k].y \in Int /\ t[k].xx \in Int /\ t[k].xy \in Int
  /\ t[0].x = 0 /\ t[0].y = 0 /\ t[0].xx = 0 /\ t[0].xy = 0
  /\ \A k \in 1..n : /\ t[k].x = t[k - 1].x + s[k].x /\ t[k].xx = t[k - 1].xx + s[k].x * s[k].x
                     /\ t[k].y = t[k - 1].y + s[k].y /\ t[k].xy = t[k - 1].xy + s[k].x * s[k].y

(* The sums of samples of a window are such sums. *)
LEMMA SumsOfSamples ==
  ASSUME NEW s \in Seq(Totals), \A i \in 1..Len(s) : OfSample(s[i]), NEW t, SumsTo(t, s)
  PROVE  SampleSums(Len(s), s, t)
<1>1. PICK n \in Nat : n = Len(s)
  OBVIOUS
<1>2. \A a \in Totals : a.x \in Int /\ a.y \in Int /\ a.xx \in Int /\ a.xy \in Int
  BY DEF Totals, Fields
<1>3. "x" \in Fields /\ "y" \in Fields /\ "xx" \in Fields /\ "xy" \in Fields
  BY DEF Fields
<1>4. \A k \in 0..n : t[k] \in Totals
  BY <1>1 DEF SumsTo
<1>5. \A i \in 1..n : s[i] \in Totals /\ s[i].xx = s[i].x * s[i].x /\ s[i].xy = s[i].x * s[i].y
  BY <1>1 DEF OfSample
<1>6. t[0].x = 0 /\ t[0].y = 0 /\ t[0].xx = 0 /\ t[0].xy = 0
  BY <1>3, ZeroIs DEF SumsTo
<1>7. ASSUME NEW k \in 1..n
      PROVE  /\ t[k].x = t[k - 1].x + s[k].x /\ t[k].xx = t[k - 1].xx + s[k].xx
             /\ t[k].y = t[k - 1].y + s[k].y /\ t[k].xy = t[k - 1].xy + s[k].xy
  <2>1. t[k] = W!Plus(t[k - 1], s[k]) /\ t[k - 1] \in Totals /\ s[k] \in Totals
    <3>1. k - 1 \in 0..n
      OBVIOUS
    <3> QED BY <1>1, <1>4, <1>5, <3>1 DEF SumsTo
  <2>2. \A f \in Fields : t[k][f] = t[k - 1][f] + s[k][f]
    BY <2>1, PlusMinus
  <2> QED BY <1>3, <2>2
<1>8. /\ \A i \in 1..n : s[i].x \in Int /\ s[i].y \in Int
      /\ \A k \in 0..n : t[k].x \in Int /\ t[k].y \in Int /\ t[k].xx \in Int /\ t[k].xy \in Int
  BY <1>2, <1>4, <1>5
<1>9. \A k \in 1..n : /\ t[k].x = t[k - 1].x + s[k].x /\ t[k].xx = t[k - 1].xx + s[k].x * s[k].x
                      /\ t[k].y = t[k - 1].y + s[k].y /\ t[k].xy = t[k - 1].xy + s[k].x * s[k].y
  BY <1>5, <1>7, Zenon
<1> QED BY <1>1, <1>6, <1>8, <1>9, Zenon DEF SampleSums

Aligned(n, s, dx, dy) == \A i \in 1..n : dx * (s[i].y - s[1].y) = dy * (s[i].x - s[1].x)

(* On a line the sums are on it too, and so the fit has its slope. *)
LEMMA OnALine ==
  ASSUME NEW n \in Nat \ {0}, NEW s, NEW t, SampleSums(n, s, t),
         NEW dx \in Int, NEW dy \in Int, Aligned(n, s, dx, dy)
  PROVE  (n * t[n].xy - t[n].x * t[n].y) * dx = (n * t[n].xx - t[n].x * t[n].x) * dy
<1>c. PICK c, b \in Int : c = s[1].x /\ b = s[1].y
  <2>1. 1 \in 1..n
    OBVIOUS
  <2> QED BY <2>1 DEF SampleSums
<1>1. n \in 0..n /\ 0 \in 0..n
  OBVIOUS
<1>2. PICK F : F = [k \in 0..n |-> dx * (t[k].y - k * b) - dy * (t[k].x - k * c)]
  OBVIOUS
<1>3. PICK G : G = [k \in 0..n |-> dx * (t[k].xy - b * t[k].x) - dy * (t[k].xx - c * t[k].x)]
  OBVIOUS
<1>4. \A k \in 0..n : F[k] \in Int /\ G[k] \in Int
  <2>1. SUFFICES ASSUME NEW k \in 0..n PROVE F[k] \in Int /\ G[k] \in Int
    OBVIOUS
  <2>2. PICK X, Y, XX, XY \in Int : X = t[k].x /\ Y = t[k].y /\ XX = t[k].xx /\ XY = t[k].xy
    BY DEF SampleSums
  <2>3. F[k] = dx * (Y - k * b) - dy * (X - k * c) /\ G[k] = dx * (XY - b * X) - dy * (XX - c * X)
    BY <1>2, <1>3, <2>2
  <2>4. k \in Int
    OBVIOUS
  <2>5. dx * (Y - k * b) - dy * (X - k * c) \in Int /\ dx * (XY - b * X) - dy * (XX - c * X) \in Int
    BY <2>4
  <2> QED BY <2>3, <2>5
<1>5. F[0] = 0 /\ G[0] = 0
  <2>1. F[0] = dx * (0 - 0 * b) - dy * (0 - 0 * c) /\ G[0] = dx * (0 - b * 0) - dy * (0 - c * 0)
    BY <1>1, <1>2, <1>3 DEF SampleSums
  <2> QED BY <2>1
<1>6. ASSUME NEW k \in 1..n PROVE F[k - 1] = F[k] /\ G[k - 1] = G[k]
  <2>1. k \in 0..n /\ k - 1 \in 0..n /\ k \in Int
    OBVIOUS
  <2>2. PICK x, y \in Int : x = s[k].x /\ y = s[k].y
    BY DEF SampleSums
  <2>3. PICK X, Y, XX, XY \in Int : X = t[k - 1].x /\ Y = t[k - 1].y /\ XX = t[k - 1].xx /\ XY = t[k - 1].xy
    BY <2>1 DEF SampleSums
  <2>4. t[k].x = X + x /\ t[k].y = Y + y /\ t[k].xx = XX + x * x /\ t[k].xy = XY + x * y
    BY <2>2, <2>3 DEF SampleSums
  <2>5. dx * (y - b) = dy * (x - c)
    BY <1>c, <2>2 DEF Aligned
  <2>6. F[k] = dx * ((Y + y) - k * b) - dy * ((X + x) - k * c)
        /\ F[k - 1] = dx * (Y - (k - 1) * b) - dy * (X - (k - 1) * c)
    BY <1>2, <2>1, <2>3, <2>4
  <2>7. G[k] = dx * ((XY + x * y) - b * (X + x)) - dy * ((XX + x * x) - c * (X + x))
        /\ G[k - 1] = dx * (XY - b * X) - dy * (XX - c * X)
    BY <1>3, <2>1, <2>3, <2>4
  <2>8. dx * ((Y + y) - k * b) - dy * ((X + x) - k * c)
          = (dx * (Y - (k - 1) * b) - dy * (X - (k - 1) * c)) + (dx * (y - b) - dy * (x - c))
    BY SMT
  <2>9. dx * ((XY + x * y) - b * (X + x)) - dy * ((XX + x * x) - c * (X + x))
          = (dx * (XY - b * X) - dy * (XX - c * X)) + x * (dx * (y - b) - dy * (x - c))
    BY SMT
  <2>10. dx * (y - b) - dy * (x - c) = 0
    BY <2>5
  <2>11. F[k - 1] \in Int /\ G[k - 1] \in Int
    BY <1>4, <2>1
  <2> QED BY <2>6, <2>7, <2>8, <2>9, <2>10, <2>11
<1>7. F[n] = 0 /\ G[n] = 0
  BY <1>4, <1>5, <1>6, Stays
<1>8. PICK X, Y, XX, XY \in Int : X = t[n].x /\ Y = t[n].y /\ XX = t[n].xx /\ XY = t[n].xy
  BY <1>1 DEF SampleSums
<1>9. dx * (Y - n * b) - dy * (X - n * c) = 0 /\ dx * (XY - b * X) - dy * (XX - c * X) = 0
  BY <1>1, <1>2, <1>3, <1>7, <1>8
<1>10. (n * XY - X * Y) * dx - (n * XX - X * X) * dy
         = n * (dx * (XY - b * X) - dy * (XX - c * X)) - X * (dx * (Y - n * b) - dy * (X - n * c))
  BY SMT
<1>11. (n * XY - X * Y) * dx - (n * XX - X * X) * dy = 0
  BY <1>9, <1>10
<1>12. (n * XY - X * Y) * dx \in Int /\ (n * XX - X * X) * dy \in Int
  OBVIOUS
<1>13. \A p, q \in Int : p - q = 0 => p = q
  OBVIOUS
<1>14. (n * XY - X * Y) * dx = (n * XX - X * X) * dy
  BY <1>11, <1>12, <1>13, Zenon
<1> QED BY <1>8, <1>14, Zenon

(* There is no slope just when all samples have the same x: n times the    *)
(* denominator is the sum of the squares of how far n x is from the sum.   *)
LEMMA RunIsZero ==
  ASSUME NEW n \in Nat \ {0}, NEW s, NEW t, SampleSums(n, s, t)
  PROVE  n * t[n].xx - t[n].x * t[n].x = 0 <=> \A i \in 1..n : s[i].x = s[1].x
<1>1. n \in 0..n /\ 0 \in 0..n /\ 1 \in 1..n
  OBVIOUS
<1>2. PICK T, TT, c \in Int : T = t[n].x /\ TT = t[n].xx /\ c = s[1].x
  BY <1>1 DEF SampleSums
<1>3. PICK F : F = [k \in 0..n |-> n * n * t[k].xx - 2 * n * T * t[k].x + k * T * T]
  OBVIOUS
<1>4. \A k \in 0..n : F[k] \in Int
  <2>1. SUFFICES ASSUME NEW k \in 0..n PROVE F[k] \in Int
    OBVIOUS
  <2>2. PICK X, XX \in Int : X = t[k].x /\ XX = t[k].xx
    BY DEF SampleSums
  <2>3. F[k] = n * n * XX - 2 * n * T * X + k * T * T /\ k \in Int
    BY <1>3, <2>2
  <2>4. n * n * XX - 2 * n * T * X + k * T * T \in Int
    BY <2>3
  <2> QED BY <2>3, <2>4
<1>5. F[0] = 0
  <2>1. F[0] = n * n * 0 - 2 * n * T * 0 + 0 * T * T
    BY <1>1, <1>3 DEF SampleSums
  <2> QED BY <2>1
<1>6. F[n] = n * (n * TT - T * T)
  <2>1. F[n] = n * n * TT - 2 * n * T * T + n * T * T
    BY <1>1, <1>2, <1>3
  <2>2. n * n * TT - 2 * n * T * T + n * T * T = n * (n * TT - T * T)
    BY SMT
  <2> QED BY <2>1, <2>2
<1>7. ASSUME NEW k \in 1..n
      PROVE  F[k] = F[k - 1] + (n * s[k].x - T) * (n * s[k].x - T)
  <2>1. k \in 0..n /\ k - 1 \in 0..n /\ k \in Int
    OBVIOUS
  <2>2. PICK x \in Int : x = s[k].x
    BY DEF SampleSums
  <2>3. PICK X, XX \in Int : X = t[k - 1].x /\ XX = t[k - 1].xx
    BY <2>1 DEF SampleSums
  <2>4. t[k].x = X + x /\ t[k].xx = XX + x * x
    BY <2>2, <2>3 DEF SampleSums
  <2>5. /\ F[k] = n * n * (XX + x * x) - 2 * n * T * (X + x) + k * T * T
        /\ F[k - 1] = n * n * XX - 2 * n * T * X + (k - 1) * T * T
    BY <1>3, <2>1, <2>3, <2>4
  <2>6. n * n * (XX + x * x) - 2 * n * T * (X + x) + k * T * T
          = (n * n * XX - 2 * n * T * X + (k - 1) * T * T) + (n * x - T) * (n * x - T)
    BY SMT
  <2> QED BY <2>2, <2>5, <2>6
<1>8. \A d \in Int : d * d >= 0 /\ (d * d = 0 <=> d = 0)
  BY SMT
<1>9. ASSUME NEW k \in 1..n
      PROVE  /\ F[k - 1] <= F[k] /\ (F[k - 1] = F[k] <=> n * s[k].x = T)
             /\ k \in 0..n /\ k - 1 \in 0..n
  <2>1. k \in 0..n /\ k - 1 \in 0..n
    OBVIOUS
  <2>2. PICK x \in Int : x = s[k].x
    BY DEF SampleSums
  <2>3. PICK d \in Int : d = n * x - T
    OBVIOUS
  <2>4. F[k] = F[k - 1] + d * d /\ F[k] \in Int /\ F[k - 1] \in Int
    BY <1>4, <1>7, <2>1, <2>2, <2>3
  <2>5. d * d >= 0 /\ (d * d = 0 <=> d = 0) /\ d * d \in Int
    BY <1>8
  <2>6. d = 0 <=> n * x = T
    <3>1. n * x \in Int
      OBVIOUS
    <3> QED BY <2>3, <3>1
  <2> QED BY <2>1, <2>2, <2>4, <2>5, <2>6
<1>10. ASSUME n * TT - T * T = 0, NEW k \in 1..n PROVE n * s[k].x = T
  <2>1. F[n] = 0
    <3>1. n * 0 = 0
      OBVIOUS
    <3> QED BY <1>6, <1>10, <3>1
  <2>2. F[0] <= F[k - 1] /\ F[k] <= F[n]
    <3>1. \A i \in 0..n : \A j \in 0..n : i <= j => F[i] <= F[j]
      BY <1>4, <1>9, Climbs
    <3>2. 0 <= k - 1 /\ k <= n
      OBVIOUS
    <3> QED BY <1>1, <1>9, <3>1, <3>2
  <2>3. F[k] \in Int /\ F[k - 1] \in Int /\ F[k - 1] <= F[k]
    BY <1>4, <1>9
  <2> QED BY <1>5, <1>9, <2>1, <2>2, <2>3
<1>11. ASSUME \A i \in 1..n : n * s[i].x = T PROVE n * TT - T * T = 0
  <2>1. \A k \in 1..n : F[k - 1] = F[k]
    BY <1>9, <1>11
  <2>2. n * (n * TT - T * T) = 0
    BY <1>4, <1>5, <1>6, <2>1, Stays
  <2>3. PICK r \in Int : r = n * TT - T * T
    OBVIOUS
  <2>4. n * r = 0 => r = 0
    BY SMT
  <2> QED BY <2>2, <2>3, <2>4
<1>12. ASSUME \A i \in 1..n : n * s[i].x = T, NEW i \in 1..n PROVE s[i].x = s[1].x
  <2>1. PICK x \in Int : x = s[i].x
    BY DEF SampleSums
  <2>2. n * x = T /\ n * c = T
    BY <1>1, <1>2, <1>12, <2>1
  <2>3. n * x = n * c => x = c
    BY SMT
  <2> QED BY <1>2, <2>1, <2>2, <2>3
<1>13. ASSUME \A i \in 1..n : s[i].x = s[1].x, NEW i \in 1..n PROVE n * s[i].x = T
  <2>1. PICK G : G = [k \in 0..n |-> t[k].x - k * c]
    OBVIOUS
  <2>2. \A k \in 0..n : G[k] \in Int
    <3>1. SUFFICES ASSUME NEW k \in 0..n PROVE G[k] \in Int
      OBVIOUS
    <3>2. PICK X \in Int : X = t[k].x
      BY DEF SampleSums
    <3>3. G[k] = X - k * c /\ k \in Int
      BY <2>1, <3>2
    <3>4. X - k * c \in Int
      BY <3>3
    <3> QED BY <3>3, <3>4
  <2>3. ASSUME NEW k \in 1..n PROVE G[k - 1] = G[k]
    <3>1. k \in 0..n /\ k - 1 \in 0..n /\ k \in Int
      OBVIOUS
    <3>2. PICK X \in Int : X = t[k - 1].x
      BY <3>1 DEF SampleSums
    <3>3. t[k].x = X + c
      BY <1>2, <1>13, <3>2 DEF SampleSums
    <3>4. G[k] = (X + c) - k * c /\ G[k - 1] = X - (k - 1) * c
      BY <2>1, <3>1, <3>2, <3>3
    <3>5. (X + c) - k * c = X - (k - 1) * c
      BY SMT
    <3> QED BY <3>4, <3>5
  <2>4. G[0] = 0 - 0 * c /\ G[n] = T - n * c
    BY <1>1, <1>2, <2>1 DEF SampleSums
  <2>5. G[n] = G[0]
    BY <2>2, <2>3, Stays
  <2>6. PICK m \in Int : m = n * c
    OBVIOUS
  <2>7. 0 * c = 0
    OBVIOUS
  <2>8. T = n * c
    BY <2>4, <2>5, <2>6, <2>7
  <2> QED BY <1>2, <1>13, <2>8
<1> QED BY <1>2, <1>10, <1>11, <1>12, <1>13

(* Feeding and filling keep the window in order. *)
LEMMA WindowNext ==
  ASSUME W!WindowAssumption, WindowInv, W!Next
  PROVE  WindowInv'
<1>1. \A x, y \in Int : OfSample(W!Sample(x, y)) /\ DOMAIN W!Sample(x, y) = Fields
  <2>1. SUFFICES ASSUME NEW x \in Int, NEW y \in Int
                 PROVE  OfSample(W!Sample(x, y)) /\ DOMAIN W!Sample(x, y) = Fields
    OBVIOUS
  <2>2. DOMAIN W!Sample(x, y) = Fields
    BY SampleIs DEF Totals
  <2>3. /\ W!Sample(x, y) \in Totals /\ W!Sample(x, y).x = x /\ W!Sample(x, y).y = y
        /\ W!Sample(x, y).xx = x * x /\ W!Sample(x, y).xy = x * y
    BY SampleIs
  <2> QED BY <2>2, <2>3, Zenon DEF OfSample
<1>2. CASE W!Fill
  <2>1. PICK y \in Int : W!Filled(W!Sample(0, y))
    BY <1>2 DEF W!Fill, W!WindowAssumption
  <2>2. PICK s : s = W!Sample(0, y)
    OBVIOUS
  <2>3. s \in Totals /\ DOMAIN s = Fields
    BY <1>1, <2>2 DEF OfSample
  <2>4. underlying' = [i \in 0..(len - 1) |-> s] /\ total' = [f \in Fields |-> len * s[f]]
    BY <2>1, <2>2, <2>3 DEF W!Filled
  <2>5. fed' = <<>> /\ oldest_index' \in 0..(len - 1)
    BY <1>2 DEF W!Fill, WindowInv, WindowTypeOK
  <2> QED BY <2>3, <2>4, <2>5, FilledIs
<1>3. CASE W!Feed
  <2>1. PICK gap \in Int, y \in Int :
          LET new == W!Sample((IF fed = <<>> THEN 0 ELSE fed[Len(fed)].x) + gap, y) IN
          /\ total' = W!Plus(W!Minus(total, underlying[oldest_index]), new)
          /\ underlying' = [underlying EXCEPT ![oldest_index] = new]
          /\ fed' = Append(fed, new)
    BY <1>3, Zenon DEF W!Feed, W!OldestIndex, W!WindowAssumption
  <2>2. PICK x : x = (IF fed = <<>> THEN 0 ELSE fed[Len(fed)].x) + gap
    OBVIOUS
  <2>3. x \in Int
    <3>1. fed # <<>> => fed[Len(fed)].x \in Int
      <4>1. fed # <<>> => Len(fed) \in 1..Len(fed)
        BY DEF WindowInv, WindowTypeOK
      <4>2. \A i \in 1..Len(fed) : fed[i] \in Totals
        BY DEF WindowInv, WindowTypeOK, OfSample
      <4>3. \A a \in Totals : a.x \in Int
        BY DEF Totals, Fields
      <4> QED BY <4>1, <4>2, <4>3
    <3> QED BY <2>2, <3>1
  <2>4. PICK new : new = W!Sample(x, y) /\ OfSample(new)
    BY <1>1, <2>3
  <2>5. /\ total' = W!Plus(W!Minus(total, underlying[oldest_index]), new)
        /\ underlying' = [underlying EXCEPT ![oldest_index] = new]
        /\ fed' = Append(fed, new) /\ oldest_index' = (oldest_index + 1) % len
    BY <1>3, <2>1, <2>2, <2>4 DEF W!Feed
  <2> QED BY <2>4, <2>5, FeedKeeps
<1> QED BY <1>2, <1>3 DEF W!Next

(* What is in the window are the latest samples, and the slope is theirs. *)
LEMMA FitIsOfTheLatest ==
  ASSUME W!WindowAssumption, WindowInv
  PROVE  W!WindowIsLatest /\ W!SlopeOfLine
<1>1. SUFFICES ASSUME Len(fed) >= len, NEW last, last = SubSeq(fed, (Len(fed) - len) + 1, Len(fed))
               PROVE  /\ total = W!SumOf(last) /\ \A i \in 1..len : W!At(i - 1) = last[i]
                      /\ W!Run = 0 <=> \A i \in 1..len : last[i].x = last[1].x
                      /\ \A dx \in 1..2, dy \in -3..3 :
                           (\A i \in 1..len : dx * (last[i].y - last[1].y) = dy * (last[i].x - last[1].x))
                             => W!Rise * dx = W!Run * dy
  BY DEF W!WindowIsLatest, W!SlopeOfLine
<1>2. PICK size \in Nat \ {0} : size = len
  BY DEF W!WindowAssumption
<1>3. PICK n \in Nat : n = Len(fed) /\ n >= size
  BY <1>1, <1>2 DEF WindowInv, WindowTypeOK
<1>4. /\ last \in Seq(Totals) /\ Len(last) = size
      /\ \A i \in 1..size : (n - size) + i \in 1..n /\ last[i] = fed[(n - size) + i]
  <2>1. fed \in Seq(Totals) /\ (n - size) + 1 \in 1..(n + 1) /\ n \in 0..n
    BY <1>3 DEF WindowInv, WindowTypeOK
  <2>2. last = SubSeq(fed, (n - size) + 1, n)
    BY <1>1, <1>2, <1>3
  <2>3. (n - size) + 1 <= n /\ (n - ((n - size) + 1)) + 1 = size
    BY <1>3
  <2>4. /\ last \in Seq(Totals) /\ Len(last) = (n - ((n - size) + 1)) + 1
        /\ \A i \in 1..((n - ((n - size) + 1)) + 1) : last[i] = fed[(((n - size) + 1) + i) - 1]
    BY <1>3, <2>1, <2>2, <2>3, SubSeqProperties
  <2>5. \A i \in 1..size : (n - size) + i \in 1..n /\ (((n - size) + 1) + i) - 1 = (n - size) + i
    BY <1>3
  <2> QED BY <2>3, <2>4, <2>5
<1>5. PICK w \in Seq(Totals) : \E sums : LiesOver(w, sums)
  BY DEF WindowInv
<1>6. PICK sums : LiesOver(w, sums)
  BY <1>5
<1>7. SumsTo(sums, w) /\ Len(w) = size + n /\ total = W!Minus(sums[size + n], sums[n])
  BY <1>2, <1>3, <1>6 DEF LiesOver
<1>8. \A i \in 1..size : last[i] = w[n + i]
  <2>1. \A i \in 1..n : w[size + i] = fed[i]
    BY <1>2, <1>3, <1>6 DEF LiesOver
  <2>2. \A i \in 1..size : size + ((n - size) + i) = n + i
    OBVIOUS
  <2>3. \A i \in 1..size : w[size + ((n - size) + i)] = last[i]
    BY <1>4, <2>1, Zenon
  <2> QED BY <2>2, <2>3
<1>9. \A i \in 1..size : W!At(i - 1) = last[i]
  <2>1. SUFFICES ASSUME NEW i \in 1..size PROVE W!At(i - 1) = last[i]
    OBVIOUS
  <2>2. i - 1 \in 0..(size - 1) /\ n + (i - 1) + 1 = n + i
    OBVIOUS
  <2>3. W!At(i - 1) = w[n + (i - 1) + 1]
    BY <1>2, <1>3, <1>6, <2>2 DEF LiesOver
  <2> QED BY <1>8, <2>2, <2>3
<1>10. (\E t : SumsTo(t, last)) /\ W!SumOf(last) = W!Minus(sums[n + size], sums[n])
  <2>1. n + Len(last) <= Len(w) /\ \A i \in 1..Len(last) : last[i] = w[n + i]
    BY <1>4, <1>7, <1>8
  <2>2. last \in Seq(Totals)
    BY <1>4
  <2>3. (\E t : SumsTo(t, last)) /\ W!SumOf(last) = W!Minus(sums[n + Len(last)], sums[n])
    BY <1>7, <2>1, <2>2, WindowSum
  <2> QED BY <1>4, <2>3
<1>11. PICK t : SumsTo(t, last)
  BY <1>10
<1>12. total = W!SumOf(last) /\ total = t[size]
  <2>1. size + n = n + size
    OBVIOUS
  <2> QED BY <1>4, <1>7, <1>10, <1>11, <2>1, SumOfIs
<1>13. SampleSums(size, last, t)
  <2>1. \A i \in 1..Len(last) : OfSample(last[i])
    BY <1>3, <1>4 DEF WindowInv, WindowTypeOK
  <2> QED BY <1>4, <1>11, <2>1, SumsOfSamples
<1>14. W!Run = 0 <=> \A i \in 1..size : last[i].x = last[1].x
  <2>1. size * t[size].xx - t[size].x * t[size].x = 0 <=> \A i \in 1..size : last[i].x = last[1].x
    BY <1>13, RunIsZero
  <2> QED BY <1>2, <1>12, <2>1, Zenon DEF W!Run
<1>15. ASSUME NEW dx \in Int, NEW dy \in Int,
              \A i \in 1..size : dx * (last[i].y - last[1].y) = dy * (last[i].x - last[1].x)
       PROVE  W!Rise * dx = W!Run * dy
  <2>1. Aligned(size, last, dx, dy)
    BY <1>15 DEF Aligned
  <2>2. (size * t[size].xy - t[size].x * t[size].y) * dx = (size * t[size].xx - t[size].x * t[size].x) * dy
    BY <1>13, <2>1, OnALine
  <2> QED BY <1>2, <1>12, <2>2 DEF W!Rise, W!Run
<1>16. \A dx \in 1..2, dy \in -3..3 : dx \in Int /\ dy \in Int
  OBVIOUS
<1> QED BY <1>2, <1>9, <1>12, <1>14, <1>15, <1>16

-----------------------------------------------------------------------------
(* The library, whichever part of it runs.                                 *)

Inv ==
  /\ subject = "debouncer" => DebouncerInv
  /\ subject = "rtos" => RtosInv
  /\ subject = "window" => WindowInv

(* The invariant holds at every time: a part runs alone, and others are    *)
(* not touched by it.                                                      *)
THEOREM Invariance == Spec => []Inv
<1>1. D!TimestampAssumption /\ D!FeedAssumption /\ RT!TasksAssumption /\ W!WindowAssumption
  BY MCFeedAssumption, MCTasksAssumption, MCWindowAssumption
<1>2. Init => Inv
  BY <1>1, DebouncerStarts, RtosStarts, WindowStarts DEF Init, LibraryInit, Subjects, Inv
<1>3. Inv /\ [Next]_vars => Inv'
  <2>1. SUFFICES ASSUME Inv, [Next]_vars PROVE Inv'
    OBVIOUS
  <2>2. CASE DebouncerStep
    BY <1>1, <2>1, <2>2, DebouncerNext DEF Inv, DebouncerStep
  <2>3. CASE RtosStep
    BY <1>1, <2>1, <2>3, RtosNext DEF Inv, RtosStep
  <2>4. CASE HorusStep
    BY <2>4 DEF Inv, HorusStep
  <2>5. CASE WindowStep
    BY <1>1, <2>1, <2>5, WindowNext DEF Inv, WindowStep
  <2>6. CASE UNCHANGED library
    <3>1. UNCHANGED <<subject, debouncer, clock, since, step, task, tenant, stopped, exiting, thread, stack,
                      frees, drops, ready, turns>>
      BY <2>6 DEF library, feed, rtos
    <3>2. DebouncerInv => DebouncerInv'
      BY <3>1 DEF DebouncerInv, D!TypeOK, KnowsTheRun
    <3>3. RtosInv => RtosInv'
      BY <3>1 DEF RtosInv, RtosTypeOK, StartedInOrder, StoppedInOrder, Calls, Created, Ends,
                  Starting, Stopping, Task
    <3>4. UNCHANGED <<underlying, oldest_index, total, fed>>
      BY <2>6 DEF library, window
    <3>5. WindowInv => WindowInv'
      BY <3>4, Zenon DEF WindowInv, WindowTypeOK, LiesOver, W!At
    <3> QED BY <2>1, <3>1, <3>2, <3>3, <3>5 DEF Inv
  <2>7. LibraryNext \/ UNCHANGED library
    <3>1. CASE LibraryStep
      BY <3>1 DEF LibraryStep
    <3>2. CASE ReplayStep \/ OrkStep \/ BarometerStep \/ ConverterStep \/ ShuntStep \/ AccelerometerStep
      BY <3>2 DEF ReplayStep, OrkStep, BarometerStep, ConverterStep, ShuntStep, AccelerometerStep
    <3>3. CASE UNCHANGED vars
      BY <3>3 DEF vars
    <3> QED BY <2>1, <3>1, <3>2, <3>3 DEF Next
  <2> QED BY <2>2, <2>3, <2>4, <2>5, <2>6, <2>7 DEF LibraryNext
<1> QED BY <1>2, <1>3, PTL DEF Spec

(* Passed is never true before every sample of more than the duration has  *)
(* passed (CDebouncer::Passed).                                            *)
THEOREM NeverEarlyHolds == Spec => []NeverEarly
<1>1. Inv => NeverEarly
  BY MCFeedAssumption, NotEarly DEF Inv, NeverEarly
<1> QED BY <1>1, Invariance, PTL

(* A debouncer whose value has been over for longer than its duration says *)
(* so, unless the last sample or the first of the run carries the mark or  *)
(* the run outlasts the timestamps.                                        *)
THEOREM PassesUnlessMarkedHolds == Spec => []PassesUnlessMarked
<1>1. Inv => PassesUnlessMarked
  BY MCFeedAssumption, PassesInTime DEF Inv, PassesUnlessMarked
<1> QED BY <1>1, Invariance, PTL

(* Tenants run when their task has called Startup and PostStartup of all   *)
(* of them; a stack is freed under an aborted thread, and stack and vector *)
(* are freed by the end of the program, once unless StopRtos has freed     *)
(* them before the destructors do (NRtos::StopRtos, CTask::~CTask).        *)
THEOREM TasksLiveOnceHolds == Spec => []TasksLiveOnce
<1>1. Inv => TasksLiveOnce
  BY MCTasksAssumption, LiveOnce DEF Inv, TasksLiveOnce
<1> QED BY <1>1, Invariance, PTL

(* The rolling sum and its buffer are those of the latest samples, and the *)
(* line fit finds the slope of a line they are on, and none only when they *)
(* are all at one x (CRollingSum, FindSlope).                              *)
THEOREM FitsTheLatestHolds == Spec => []FitsTheLatest
<1>1. Inv => FitsTheLatest
  BY MCWindowAssumption, FitIsOfTheLatest DEF Inv, FitsTheLatest
<1> QED BY <1>1, Invariance, PTL
=============================================================================
