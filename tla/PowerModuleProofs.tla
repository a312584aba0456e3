------------------------- MODULE PowerModuleProofs -------------------------
(***************************************************************************)
(* Proofs about PowerModule, for queues of any size and any number of      *)
(* samples, faults and restarts.                                           *)
(***************************************************************************)
EXTENDS PowerModule, SequenceTheorems, TLAPS

(* An empty queue or file is in order. *)
LEMMA EmptyInOrder == Increasing(<<>>) /\ Range(<<>>) = {}
  BY DEF Increasing, Range

(* A message later than all of a queue keeps the queue in order when it is *)
(* put at its end.                                                         *)
LEMMA PutInOrder ==
  ASSUME NEW s \in Seq(Nat), NEW n \in Nat, Increasing(s), Before(Range(s), {n})
  PROVE  Increasing(Append(s, n)) /\ Range(Append(s, n)) = Range(s) \cup {n}
<1> DEFINE t == Append(s, n)
<1>1. /\ DOMAIN s = 1..Len(s) /\ DOMAIN t = 1..(Len(s) + 1) /\ Len(s) \in Nat
      /\ \A i \in 1..Len(s) : t[i] = s[i]
      /\ t[Len(s) + 1] = n
  OBVIOUS
<1>2. Range(t) = Range(s) \cup {n}
  BY <1>1 DEF Range
<1>3. ASSUME NEW i \in DOMAIN t, NEW j \in DOMAIN t, i < j PROVE t[i] < t[j]
  <2>1. i \in 1..Len(s) /\ t[i] = s[i]
    BY <1>1, <1>3
  <2>2. CASE j \in 1..Len(s)
    BY <1>1, <1>3, <2>1, <2>2 DEF Increasing
  <2>3. CASE j = Len(s) + 1
    BY <1>1, <2>1, <2>3 DEF Before, Range
  <2> QED BY <1>1, <2>2, <2>3
<1> QED BY <1>2, <1>3 DEF Increasing

(* The first message of a queue in order is before the others, which stay  *)
(* in order when it is taken.                                              *)
LEMMA TakeInOrder ==
  ASSUME NEW s \in Seq(Nat), s # <<>>, Increasing(s)
  PROVE  /\ Increasing(Tail(s))
         /\ Range(s) = {Head(s)} \cup Range(Tail(s))
         /\ Before({Head(s)}, Range(Tail(s)))
         /\ Head(s) \in Nat /\ Tail(s) \in Seq(Nat)
<1>1. /\ Len(s) \in Nat \ {0} /\ DOMAIN s = 1..Len(s) /\ Head(s) = s[1]
      /\ DOMAIN Tail(s) = 1..(Len(s) - 1)
      /\ \A i \in 1..(Len(s) - 1) : Tail(s)[i] = s[i + 1]
  OBVIOUS
<1>2. Range(s) = {Head(s)} \cup Range(Tail(s))
  <2>1. ASSUME NEW i \in 1..Len(s) PROVE s[i] \in {Head(s)} \cup Range(Tail(s))
    <3>1. CASE i = 1
      BY <1>1, <3>1
    <3>2. CASE i # 1
      <4>1. i - 1 \in DOMAIN Tail(s) /\ Tail(s)[i - 1] = s[i]
        BY <1>1, <3>2
      <4> QED BY <4>1 DEF Range
    <3> QED BY <3>1, <3>2
  <2>2. ASSUME NEW i \in DOMAIN Tail(s) PROVE Tail(s)[i] \in Range(s)
    <3>1. i + 1 \in DOMAIN s /\ Tail(s)[i] = s[i + 1]
      BY <1>1
    <3> QED BY <3>1 DEF Range
  <2>3. Head(s) \in Range(s)
    BY <1>1 DEF Range
  <2> QED BY <1>1, <2>1, <2>2, <2>3 DEF Range
<1>3. Increasing(Tail(s))
  BY <1>1 DEF Increasing
<1>4. Before({Head(s)}, Range(Tail(s)))
  BY <1>1 DEF Increasing, Before, Range
<1> QED BY <1>2, <1>3, <1>4

(* The messages of a queue are of the kind it holds. *)
LEMMA RangeKind ==
  ASSUME NEW S, NEW s \in Seq(S)
  PROVE  Range(s) \subseteq S
  BY RangeOfSeq

-----------------------------------------------------------------------------
(* Types.                                                                  *)

(* A sequence of the samples taken so far is one of those taken later. *)
LEMMA SamplesGrow ==
  ASSUME NEW s, NEW m \in Nat, NEW n \in Nat, m <= n, s \in Seq(1..m)
  PROVE  s \in Seq(1..n)
<1>1. 1..m \subseteq 1..n
  OBVIOUS
<1> QED BY <1>1, SeqMonotonic

(* A message put on a queue that is not full is on it, within its size. *)
LEMMA PutKind ==
  ASSUME NEW S, NEW q \in Seq(S), NEW m \in S, Len(q) <= QueueSize, ~Full(q)
  PROVE  Put(q, m) \in Seq(S) /\ Len(Put(q, m)) <= QueueSize
<1>1. Append(q, m) \in Seq(S) /\ Len(Append(q, m)) = Len(q) + 1 /\ Len(q) \in Nat
  OBVIOUS
<1> QED BY <1>1, PowerAssumption DEF Put, Full

(* What is taken from a queue, and what it leaves, is of the queue's kind. *)
LEMMA TakeKind ==
  ASSUME NEW S, NEW q \in Seq(S), q # <<>>, Len(q) <= QueueSize
  PROVE  Head(q) \in S /\ Tail(q) \in Seq(S) /\ Len(Tail(q)) <= QueueSize
<1>1. Head(q) \in S /\ Tail(q) \in Seq(S) /\ Len(Tail(q)) = Len(q) - 1 /\ Len(q) \in Nat
  OBVIOUS
<1> QED BY <1>1, PowerAssumption

(* A message written at the end of a file or put on the air stays one. *)
LEMMA AppendKind ==
  ASSUME NEW S, NEW s \in Seq(S), NEW m \in S
  PROVE  Append(s, m) \in Seq(S)
  OBVIOUS

(* Every step of the threads, of the network and of the supply keeps the   *)
(* types.                                                                  *)
LEMMA TypeStep == TypeOK /\ [Next]_vars => TypeOK'
<1>0. SUFFICES ASSUME TypeOK, [Next]_vars PROVE TypeOK'
  OBVIOUS
<1> USE PowerAssumption DEF ports, told, world, bounds
<1>a. /\ dataToBroadcast \in Seq(1..taken) /\ Len(dataToBroadcast) <= QueueSize
      /\ dataToLog \in Seq(1..taken) /\ Len(dataToLog) <= QueueSize
      /\ file \in Seq(1..taken) /\ aired \in Seq(1..taken)
  BY <1>0 DEF TypeOK
<1>b. /\ message \in 0..taken /\ skipped \subseteq 1..taken /\ dropped \subseteq 1..taken
      /\ late \in Nat /\ faults \in 0..MaxFaults /\ restarts \in 0..MaxRestarts
  BY <1>0 DEF TypeOK
<1>c. /\ taken \in 0..MaxSamples /\ boot \in 0..taken
      /\ sensing \in {"run", "broadcast", "check", "log"} /\ (sensing # "run" => boot < taken)
      /\ logData \in BOOLEAN /\ boosted \in BOOLEAN /\ landed \in BOOLEAN
  BY <1>0 DEF TypeOK
<1> USE DEF TypeOK
<1>1. CASE Sense
  <2>1. taken \in Nat /\ taken' \in Nat /\ taken <= taken' /\ taken' \in 0..MaxSamples
    BY <1>1, <1>c DEF Sense
  <2>2. /\ dataToBroadcast' \in Seq(1..taken') /\ dataToLog' \in Seq(1..taken')
      /\ file' \in Seq(1..taken') /\ aired' \in Seq(1..taken')
    BY <1>1, <1>a, <2>1, SamplesGrow DEF Sense
  <2>3. skipped' \subseteq 1..taken' /\ dropped' \subseteq 1..taken'
    BY <1>1, <1>b, <2>1 DEF Sense
  <2> QED BY <1>1, <1>0, <2>1, <2>2, <2>3 DEF Sense
<1>2. CASE Broadcast
  <2>1. taken \in 1..taken
    BY <1>2, <1>c DEF Broadcast
  <2>2. dataToBroadcast' \in Seq(1..taken) /\ Len(dataToBroadcast') <= QueueSize
    BY <1>2, <1>a, <2>1, PutKind DEF Broadcast
  <2> QED BY <1>2, <1>0, <2>2 DEF Broadcast
<1>3. CASE Check
  <2>1. taken \in 1..taken
    BY <1>3, <1>c DEF Check
  <2>2. skipped' \subseteq 1..taken /\ sensing' \in {"log", "run"}
    BY <1>3, <1>b, <2>1 DEF Check
  <2> QED BY <1>3, <1>0, <2>2 DEF Check
<1>4. CASE Log
  <2>1. taken \in 1..taken
    BY <1>4, <1>c DEF Log
  <2>2. dataToLog' \in Seq(1..taken) /\ Len(dataToLog') <= QueueSize
    BY <1>4, <1>a, <2>1, PutKind DEF Log
  <2>3. dropped' \subseteq 1..taken
    BY <1>4, <2>1, <1>b DEF Log
  <2>4. late' \in Nat
    BY <1>4, <1>b DEF Log
  <2> QED BY <1>4, <1>0, <2>2, <2>3, <2>4 DEF Log
<1>5. CASE TransmitMessage
  <2>1. /\ dataToBroadcast' \in Seq(1..taken) /\ Len(dataToBroadcast') <= QueueSize
        /\ aired' \in Seq(1..taken)
    <3>1. CASE dataToBroadcast # <<>>
      <4>1. /\ dataToBroadcast' = Tail(dataToBroadcast)
            /\ aired' = Append(aired, Head(dataToBroadcast))
        BY <1>5, <3>1 DEF TransmitMessage
      <4>2. /\ Tail(dataToBroadcast) \in Seq(1..taken) /\ Len(Tail(dataToBroadcast)) <= QueueSize
            /\ Head(dataToBroadcast) \in 1..taken
        BY <1>a, <3>1, TakeKind
      <4>3. Append(aired, Head(dataToBroadcast)) \in Seq(1..taken)
        BY <1>a, <4>2, AppendKind
      <4> QED BY <4>1, <4>2, <4>3
    <3>2. CASE dataToBroadcast = <<>>
      BY <1>5, <1>a, <3>2 DEF TransmitMessage
    <3> QED BY <3>1, <3>2
  <2> QED BY <1>5, <1>0, <2>1 DEF TransmitMessage
<1>6. CASE ReceiveAlert
  <2>1. /\ networking' \in {"broadcast", "alert"} /\ logData' \in BOOLEAN
        /\ boosted' \in BOOLEAN /\ landed' \in BOOLEAN
    BY <1>6, <1>c DEF ReceiveAlert, Notify
  <2>2. alerts' \subseteq alerts
    BY <1>6 DEF ReceiveAlert
  <2>3. late' \in Nat /\ faults' \in 0..MaxFaults
    BY <1>6, <1>b DEF ReceiveAlert, Fault
  <2> QED BY <1>6, <1>0, <2>1, <2>2, <2>3 DEF ReceiveAlert
<1>7. CASE Receive
  <2>1. /\ dataToLog' \in Seq(1..taken) /\ Len(dataToLog') <= QueueSize
        /\ message' \in 1..taken
    <3>1. dataToLog # <<>> /\ dataToLog' = Tail(dataToLog) /\ message' = Head(dataToLog)
      BY <1>7 DEF Receive
    <3> QED BY <1>a, <3>1, TakeKind
  <2>2. message' \in 0..taken' /\ taken' = taken
    BY <1>7, <1>c, <2>1 DEF Receive
  <2>3. /\ UNCHANGED <<taken, sensing, logData, dataToBroadcast, networking, file, aired, alerts>>
        /\ UNCHANGED <<announced, boot, skipped, dropped, boosted, landed, late, faults, restarts>>
    BY <1>7 DEF Receive
  <2> QED BY <1>0, <2>1, <2>2, <2>3
<1>8. CASE write
  <2>1. message \in 1..taken
    BY <1>8, <1>b DEF write, None
  <2>2. file' \in Seq(1..taken)
    BY <1>8, <1>a, <2>1, AppendKind DEF write
  <2>3. dropped' \subseteq 1..taken
    BY <1>8, <1>b, <2>1 DEF write
  <2>4. faults' \in 0..MaxFaults
    BY <1>8, <1>b DEF write, Fault
  <2> QED BY <1>8, <1>0, <2>2, <2>3, <2>4 DEF write, None
<1>9. CASE Announce
  BY <1>9, <1>0 DEF Announce, Flight
<1>10. CASE Lose
  BY <1>10, <1>0 DEF Lose, Fault
<1>11. CASE Restart
  <2>1. /\ taken' = taken /\ boot' = taken /\ sensing' = "run" /\ networking' = "broadcast"
        /\ logData' = FALSE /\ boosted' = FALSE /\ landed' = FALSE /\ late' = 0 /\ message' = 0
        /\ skipped' = {} /\ dropped' = {} /\ UNCHANGED <<world, faults>>
        /\ restarts' \in 0..MaxRestarts
        /\ dataToBroadcast' = <<>> /\ dataToLog' = <<>> /\ file' = <<>>
    BY <1>11, <1>b DEF Restart, Startup, None
  <2>2. /\ dataToBroadcast' \in Seq(1..taken') /\ dataToLog' \in Seq(1..taken')
        /\ file' \in Seq(1..taken') /\ aired' \in Seq(1..taken')
        /\ Len(dataToBroadcast') <= QueueSize /\ Len(dataToLog') <= QueueSize
    BY <2>1, <1>a, EmptySeq
  <2>3. boot' \in 0..taken' /\ taken' \in 0..MaxSamples /\ message' \in 0..taken'
    BY <2>1, <1>c
  <2>4. /\ logData' \in BOOLEAN /\ boosted' \in BOOLEAN /\ landed' \in BOOLEAN
        /\ sensing' \in {"run", "broadcast", "check", "log"} /\ (sensing' # "run" => boot' < taken')
        /\ networking' \in {"broadcast", "alert"} /\ late' \in Nat
        /\ skipped' \subseteq 1..taken' /\ dropped' \subseteq 1..taken'
    BY <2>1
  <2>5. /\ announced' \in 0..2 /\ alerts' \subseteq {Flight[i] : i \in 1..announced'}
        /\ faults' \in 0..MaxFaults /\ restarts' \in 0..MaxRestarts
    BY <1>0, <2>1
  <2> QED BY <2>2, <2>3, <2>4, <2>5
<1>12. CASE UNCHANGED vars
  BY <1>12, <1>0 DEF vars
<1> QED
  BY <1>0, <1>1, <1>2, <1>3, <1>4, <1>5, <1>6, <1>7, <1>8, <1>9, <1>10, <1>11, <1>12
  DEF Next, SensingStep, NetworkingStep, LoggingStep

-----------------------------------------------------------------------------
(* Landing.                                                                *)

(* While landed, logData is false and only a Run already past its test     *)
(* logs once more: no step of any thread changes that.                     *)
LEMMA LandingStep == TypeOK /\ LandingInv /\ [Next]_vars => LandingInv'
<1>0. SUFFICES ASSUME TypeOK, LandingInv, [Next]_vars PROVE LandingInv'
  OBVIOUS
<1> DEFINE same == UNCHANGED <<sensing, logData, landed, late>>
<1>a. late \in Nat /\ logData \in BOOLEAN /\ landed \in BOOLEAN
  BY <1>0 DEF TypeOK
<1>1. CASE Sense \/ Broadcast
  BY <1>0, <1>1 DEF LandingInv, Sense, Broadcast, told
<1>2. CASE Check
  BY <1>0, <1>2 DEF LandingInv, Check, Wanted, told
<1>3. CASE Log
  BY <1>0, <1>a, <1>3 DEF LandingInv, Log, told
<1>4. CASE ReceiveAlert
  <2>1. CASE \E alert \in alerts : Notify(alert) /\ landed' = (alert = "LANDED") /\ late' = 0
    <3>1. PICK alert \in alerts :
             /\ logData' = (alert = "BOOST") /\ landed' = (alert = "LANDED") /\ late' = 0
      BY <2>1 DEF Notify
    <3>2. landed' => ~logData'
      BY <3>1
    <3>3. late' = 0
      BY <3>1
    <3> QED BY <3>2, <3>3 DEF LandingInv
  <2>2. CASE same
    BY <1>0, <2>2 DEF LandingInv
  <2>3. sensing' = sensing
    BY <1>4 DEF ReceiveAlert
  <2> QED BY <1>4, <2>1, <2>2, <2>3 DEF ReceiveAlert, told
<1>5. CASE Restart
  BY <1>5 DEF LandingInv, Restart, Startup
<1>6. CASE TransmitMessage \/ LoggingStep \/ Announce \/ Lose \/ UNCHANGED vars
  <2>1. same
    BY <1>6 DEF TransmitMessage, LoggingStep, Receive, write, Announce, Lose, vars, told
  <2> QED BY <1>0, <2>1 DEF LandingInv
<1> QED
  BY <1>0, <1>1, <1>2, <1>3, <1>4, <1>5, <1>6 DEF Next, SensingStep, NetworkingStep

-----------------------------------------------------------------------------
(* Boost.                                                                  *)

(* A message is only found where there is one. *)
LEMMA EmptyRange ==
  ASSUME NEW s, NEW S, s \in Seq(S)
  PROVE  Range(s) = {} <=> s = <<>>
<1>1. ASSUME s # <<>> PROVE Head(s) \in Range(s)
  <2>1. 1 \in DOMAIN s /\ s[1] = Head(s)
    BY <1>1
  <2> QED BY <2>1 DEF Range
<1> QED BY <1>1, EmptyInOrder

(* Without a BOOST since the start there is nothing in the queue, in hand  *)
(* or in the file, and logData is false, so that no sample is logged.      *)
LEMMA BoostStep == TypeOK /\ BoostInv /\ [Next]_vars => BoostInv'
<1>0. SUFFICES ASSUME TypeOK, BoostInv, [Next]_vars PROVE BoostInv'
  OBVIOUS
<1> DEFINE nothing == file = <<>> /\ dataToLog = <<>> /\ message = None /\ sensing # "log"
<1>a. ~boosted => nothing /\ ~logData
  <2>1. file \in Seq(1..taken) /\ dataToLog \in Seq(1..taken)
    BY <1>0 DEF TypeOK
  <2> QED BY <1>0, <2>1, EmptyRange DEF BoostInv, LogBeginsAtBoost, Hand, None
<1>b. boosted \in BOOLEAN /\ logData \in BOOLEAN
  BY <1>0 DEF TypeOK
<1>c. ASSUME ~boosted' => (nothing /\ ~logData)' PROVE BoostInv'
  <2>1. boosted' \in BOOLEAN /\ logData' \in BOOLEAN
    BY <1>0, TypeStep DEF TypeOK
  <2> QED BY <1>c, <2>1, EmptyInOrder DEF BoostInv, LogBeginsAtBoost, Hand, None
<1>d. SUFFICES ~boosted' => (nothing /\ ~logData)'
  BY <1>c
<1>1. CASE SensingStep
  BY <1>a, <1>1 DEF SensingStep, Sense, Broadcast, Check, Log, Wanted, ports, told
<1>2. CASE TransmitMessage
  BY <1>a, <1>2 DEF TransmitMessage, told
<1>3. CASE ReceiveAlert
  <2>1. CASE \E alert \in alerts : Notify(alert) /\ boosted' = (boosted \/ alert = "BOOST")
    BY <1>a, <1>3, <2>1 DEF ReceiveAlert, Notify, ports
  <2>2. CASE UNCHANGED <<logData, told>>
    BY <1>a, <1>3, <2>2 DEF ReceiveAlert, told, ports
  <2> QED BY <1>3, <2>1, <2>2 DEF ReceiveAlert
<1>4. CASE LoggingStep
  BY <1>a, <1>4 DEF LoggingStep, Receive, write, told
<1>5. CASE Restart
  BY <1>5 DEF Restart, Startup
<1>6. CASE Announce \/ Lose \/ UNCHANGED vars
  BY <1>a, <1>6 DEF Announce, Lose, vars, ports, told
<1> QED BY <1>0, <1>1, <1>2, <1>3, <1>4, <1>5, <1>6 DEF Next, NetworkingStep

-----------------------------------------------------------------------------
(* Order.                                                                  *)

(* What every step of this proof needs of the types: the numbers of the    *)
(* samples at each point of the way.                                       *)
LEMMA Samples ==
  ASSUME TypeOK
  PROVE  /\ taken \in Nat
         /\ aired \in Seq(Nat) /\ dataToBroadcast \in Seq(Nat)
         /\ file \in Seq(Nat) /\ dataToLog \in Seq(Nat)
         /\ Range(aired) \subseteq 1..taken /\ Range(dataToBroadcast) \subseteq 1..taken
         /\ Range(file) \subseteq 1..taken /\ Range(dataToLog) \subseteq 1..taken
         /\ message \in 0..taken /\ Hand \subseteq 1..taken
<1>1. /\ taken \in Nat /\ 1..taken \subseteq Nat /\ message \in 0..taken
      /\ aired \in Seq(1..taken) /\ dataToBroadcast \in Seq(1..taken)
      /\ file \in Seq(1..taken) /\ dataToLog \in Seq(1..taken)
  BY PowerAssumption DEF TypeOK
<1>2. /\ aired \in Seq(Nat) /\ dataToBroadcast \in Seq(Nat)
      /\ file \in Seq(Nat) /\ dataToLog \in Seq(Nat)
  BY <1>1, SeqMonotonic
<1>3. /\ Range(aired) \subseteq 1..taken /\ Range(dataToBroadcast) \subseteq 1..taken
      /\ Range(file) \subseteq 1..taken /\ Range(dataToLog) \subseteq 1..taken
  BY <1>1, RangeKind
<1>4. Hand \subseteq 1..taken
  BY <1>1 DEF Hand, None
<1> QED BY <1>1, <1>2, <1>3, <1>4

(* Each step appends to a stream a sample later than all before it, or     *)
(* moves the first one of a queue to what comes before the queue.          *)
LEMMA OrderStep == TypeOK /\ StreamsInOrder /\ [Next]_vars => StreamsInOrder'
<1>0. SUFFICES ASSUME TypeOK, StreamsInOrder, [Next]_vars PROVE StreamsInOrder'
  OBVIOUS
<1>a. /\ Increasing(aired) /\ Increasing(dataToBroadcast) /\ Increasing(file)
      /\ Increasing(dataToLog)
      /\ Before(Range(aired), Range(dataToBroadcast))
      /\ Before(Range(aired) \cup Range(dataToBroadcast), Sending({"broadcast"}))
      /\ Before(Range(file), Hand)
      /\ Before(Range(file) \cup Hand, Range(dataToLog))
      /\ Before(Range(file) \cup Hand \cup Range(dataToLog), Sending({"broadcast", "check", "log"}))
  BY <1>0 DEF StreamsInOrder
<1>b. /\ taken \in Nat
      /\ aired \in Seq(Nat) /\ dataToBroadcast \in Seq(Nat)
      /\ file \in Seq(Nat) /\ dataToLog \in Seq(Nat)
      /\ Range(aired) \subseteq 1..taken /\ Range(dataToBroadcast) \subseteq 1..taken
      /\ Range(file) \subseteq 1..taken /\ Range(dataToLog) \subseteq 1..taken
      /\ message \in 0..taken /\ Hand \subseteq 1..taken
  BY <1>0, Samples
<1>1. CASE Sense
  <2>1. Sending({"broadcast"})' = {taken + 1} /\ Sending({"broadcast", "check", "log"})' = {taken + 1}
    BY <1>1 DEF Sense, Sending
  <2>2. UNCHANGED <<aired, dataToBroadcast, file, dataToLog, Hand>>
    BY <1>1 DEF Sense, ports, world, Hand
  <2>3. ASSUME NEW S, S \subseteq 1..taken PROVE Before(S, {taken + 1})
    BY <1>b, <2>3 DEF Before
  <2>4. /\ Before(Range(aired) \cup Range(dataToBroadcast), {taken + 1})
        /\ Before(Range(file) \cup Hand \cup Range(dataToLog), {taken + 1})
    <3>1. /\ Range(aired) \cup Range(dataToBroadcast) \subseteq 1..taken
          /\ Range(file) \cup Hand \cup Range(dataToLog) \subseteq 1..taken
      BY <1>b
    <3> QED BY <2>3, <3>1
  <2> QED BY <1>a, <2>1, <2>2, <2>4 DEF StreamsInOrder
<1>2. CASE Broadcast
  <2>1. /\ Sending({"broadcast"}) = {taken} /\ Sending({"broadcast"})' = {}
        /\ Sending({"broadcast", "check", "log"}) = {taken}
        /\ Sending({"broadcast", "check", "log"})' = {taken}
    BY <1>2 DEF Broadcast, Sending
  <2>2. UNCHANGED <<aired, file, dataToLog, Hand>>
    BY <1>2 DEF Broadcast, world, Hand
  <2>3. CASE Full(dataToBroadcast)
    <3>1. dataToBroadcast' = dataToBroadcast
      BY <1>2, <2>3 DEF Broadcast
    <3> QED BY <1>a, <2>1, <2>2, <3>1 DEF StreamsInOrder, Before
  <2>4. CASE ~Full(dataToBroadcast)
    <3>1. dataToBroadcast' = Append(dataToBroadcast, taken)
      BY <1>2, <2>4 DEF Broadcast, Put
    <3>2. Before(Range(dataToBroadcast), {taken}) /\ Before(Range(aired), {taken})
      BY <1>a, <2>1 DEF Before
    <3>3. /\ Increasing(dataToBroadcast')
          /\ Range(dataToBroadcast') = Range(dataToBroadcast) \cup {taken}
      BY <1>a, <1>b, <3>1, <3>2, PutInOrder
    <3>4. Before(Range(aired), Range(dataToBroadcast'))
      BY <1>a, <3>2, <3>3 DEF Before
    <3>5. Before(Range(aired') \cup Range(dataToBroadcast'), {})
      BY DEF Before
    <3> QED BY <1>a, <2>1, <2>2, <3>3, <3>4, <3>5 DEF StreamsInOrder
  <2> QED BY <2>3, <2>4
<1>3. CASE Check
  <2>1. /\ Sending({"broadcast"})' \subseteq Sending({"broadcast"})
        /\ Sending({"broadcast", "check", "log"})' \subseteq Sending({"broadcast", "check", "log"})
    BY <1>3 DEF Check, Sending
  <2>2. UNCHANGED <<aired, dataToBroadcast, file, dataToLog, Hand>>
    BY <1>3 DEF Check, ports, world, Hand
  <2>3. ASSUME NEW S, NEW T, NEW U, Before(S, T), U \subseteq T PROVE Before(S, U)
    BY <2>3 DEF Before
  <2>4. /\ Before(Range(aired) \cup Range(dataToBroadcast), Sending({"broadcast"})')
        /\ Before(Range(file) \cup Hand \cup Range(dataToLog),
                  Sending({"broadcast", "check", "log"})')
    BY <1>a, <2>1, <2>3
  <2> QED BY <1>a, <2>2, <2>4 DEF StreamsInOrder
<1>4. CASE Log
  <2>1. /\ Sending({"broadcast"}) = {} /\ Sending({"broadcast"})' = {}
        /\ Sending({"broadcast", "check", "log"}) = {taken}
        /\ Sending({"broadcast", "check", "log"})' = {}
    BY <1>4 DEF Log, Sending
  <2>2. UNCHANGED <<aired, dataToBroadcast, file, Hand>>
    BY <1>4 DEF Log, world, Hand
  <2>3. ASSUME NEW S PROVE Before(S, {})
    BY DEF Before
  <2>4. CASE dataToLog' = dataToLog
    BY <1>a, <2>1, <2>2, <2>3, <2>4 DEF StreamsInOrder
  <2>5. CASE dataToLog' = Append(dataToLog, taken)
    <3>1. Before(Range(dataToLog), {taken}) /\ Before(Range(file) \cup Hand, {taken})
      BY <1>a, <2>1 DEF Before
    <3>2. /\ Increasing(dataToLog')
          /\ Range(dataToLog') = Range(dataToLog) \cup {taken}
      BY <1>a, <1>b, <2>5, <3>1, PutInOrder
    <3>3. Before(Range(file) \cup Hand, Range(dataToLog'))
      BY <1>a, <3>1, <3>2 DEF Before
    <3> QED BY <1>a, <2>1, <2>2, <2>3, <3>2, <3>3 DEF StreamsInOrder
  <2> QED BY <1>4, <2>4, <2>5 DEF Log, Put
<1>5. CASE TransmitMessage
  <2>1. UNCHANGED <<file, dataToLog, Hand, Sending({"broadcast"}), Sending({"broadcast", "check", "log"})>>
    BY <1>5 DEF TransmitMessage, Hand, Sending
  <2>2. CASE UNCHANGED <<aired, dataToBroadcast>>
    BY <1>a, <2>1, <2>2 DEF StreamsInOrder
  <2>3. CASE dataToBroadcast # <<>>
    <3> DEFINE first == Head(dataToBroadcast)
    <3>1. aired' = Append(aired, first) /\ dataToBroadcast' = Tail(dataToBroadcast)
      BY <1>5, <2>3 DEF TransmitMessage
    <3>2. /\ Increasing(dataToBroadcast') /\ first \in Nat
          /\ Range(dataToBroadcast) = {first} \cup Range(dataToBroadcast')
          /\ Before({first}, Range(dataToBroadcast'))
      BY <1>a, <1>b, <2>3, <3>1, TakeInOrder
    <3>3. Before(Range(aired), {first})
      BY <1>a, <3>2 DEF Before
    <3>4. Increasing(aired') /\ Range(aired') = Range(aired) \cup {first}
      BY <1>a, <1>b, <3>1, <3>2, <3>3, PutInOrder
    <3>5. Before(Range(aired'), Range(dataToBroadcast'))
      BY <1>a, <3>2, <3>4 DEF Before
    <3>6. Range(aired') \cup Range(dataToBroadcast') = Range(aired) \cup Range(dataToBroadcast)
      BY <3>2, <3>4
    <3> QED BY <1>a, <2>1, <3>2, <3>4, <3>5, <3>6 DEF StreamsInOrder
  <2> QED BY <1>5, <2>2, <2>3 DEF TransmitMessage
<1>6. CASE Receive
  <2> DEFINE first == Head(dataToLog)
  <2>1. UNCHANGED <<aired, dataToBroadcast, file, Sending({"broadcast"}), Sending({"broadcast", "check", "log"})>>
    BY <1>6 DEF Receive, world, Sending
  <2>2. dataToLog # <<>> /\ dataToLog' = Tail(dataToLog) /\ message' = first /\ Hand = {}
    BY <1>6 DEF Receive, Hand
  <2>3. /\ Increasing(dataToLog')
        /\ Range(dataToLog) = {first} \cup Range(dataToLog')
        /\ Before({first}, Range(dataToLog'))
    BY <1>a, <1>b, <2>2, TakeInOrder
  <2>4. Hand' = {first}
    <3>1. first \in 1..taken
      BY <1>b, <2>3
    <3> QED BY <1>b, <2>2, <3>1 DEF Hand, None
  <2>5. Before(Range(file), Hand') /\ Before(Range(file) \cup Hand', Range(dataToLog'))
    BY <1>a, <2>3, <2>4 DEF Before
  <2>6. Range(file) \cup Hand' \cup Range(dataToLog') = Range(file) \cup Hand \cup Range(dataToLog)
    BY <2>2, <2>3, <2>4
  <2> QED BY <1>a, <2>1, <2>3, <2>5, <2>6 DEF StreamsInOrder
<1>7. CASE write
  <2>1. /\ UNCHANGED <<aired, dataToBroadcast, dataToLog>>
        /\ UNCHANGED <<Sending({"broadcast"}), Sending({"broadcast", "check", "log"})>>
    BY <1>7 DEF write, ports, world, Sending
  <2>2. Hand = {message} /\ Hand' = {} /\ message \in Nat
    BY <1>7, <1>b DEF write, Hand
  <2>3. Before(Range(file'), {})
    BY DEF Before
  <2>4. CASE file' = Append(file, message)
    <3>1. Increasing(file') /\ Range(file') = Range(file) \cup Hand
      BY <1>a, <1>b, <2>2, <2>4, PutInOrder
    <3>2. Range(file') \cup Hand' = Range(file) \cup Hand
      BY <2>2, <3>1
    <3> QED BY <1>a, <2>1, <2>2, <2>3, <3>1, <3>2 DEF StreamsInOrder
  <2>5. CASE file' = file
    <3>1. /\ Before(Range(file) \cup {}, Range(dataToLog))
          /\ Before(Range(file) \cup {} \cup Range(dataToLog), Sending({"broadcast", "check", "log"}))
      BY <1>a DEF Before
    <3> QED BY <1>a, <2>1, <2>2, <2>3, <2>5, <3>1 DEF StreamsInOrder
  <2> QED BY <1>7, <2>4, <2>5 DEF write
<1>8. CASE Restart
  <2>1. /\ dataToBroadcast' = <<>> /\ dataToLog' = <<>> /\ file' = <<>> /\ aired' = aired
        /\ Hand' = {} /\ Sending({"broadcast"})' = {} /\ Sending({"broadcast", "check", "log"})' = {}
    BY <1>8 DEF Restart, Startup, world, Hand, Sending
  <2>2. ASSUME NEW S PROVE Before(S, {})
    BY DEF Before
  <2> QED BY <1>a, <2>1, <2>2, EmptyInOrder DEF StreamsInOrder
<1>9. CASE ReceiveAlert \/ Announce \/ Lose \/ UNCHANGED vars
  <2>1. UNCHANGED <<taken, sensing, message, aired, dataToBroadcast, file, dataToLog>>
    BY <1>9 DEF ReceiveAlert, Announce, Lose, vars, ports, world
  <2> QED BY <1>a, <2>1 DEF StreamsInOrder, Hand, Sending
<1> QED
  BY <1>0, <1>1, <1>2, <1>3, <1>4, <1>5, <1>6, <1>7, <1>8, <1>9
  DEF Next, SensingStep, NetworkingStep, LoggingStep

-----------------------------------------------------------------------------
(* Accounting.                                                             *)

InOne(places, n) ==
  \E p \in DOMAIN places : n \in places[p] /\ \A q \in DOMAIN places \ {p} : n \notin places[q]

(* Moving a sample from the place it is in to another keeps every sample   *)
(* in exactly one place.                                                   *)
LEMMA Move ==
  ASSUME NEW P, NEW Q, DOMAIN Q = DOMAIN P,
         NEW from \in DOMAIN P, NEW to \in DOMAIN P, from # to,
         NEW m, m \in P[from], Q[from] = P[from] \ {m}, Q[to] = P[to] \cup {m},
         \A r \in DOMAIN P \ {from, to} : Q[r] = P[r],
         NEW n, InOne(P, n)
  PROVE  InOne(Q, n)
<1>1. PICK p \in DOMAIN P : n \in P[p] /\ \A q \in DOMAIN P \ {p} : n \notin P[q]
  BY DEF InOne
<1>2. CASE n = m
  <2>1. p = from
    BY <1>1, <1>2
  <2>2. n \in Q[to]
    BY <1>2
  <2>3. ASSUME NEW q \in DOMAIN P, q # to PROVE n \notin Q[q]
    BY <1>1, <1>2, <2>1, <2>3
  <2> QED BY <2>2, <2>3 DEF InOne
<1>3. CASE n # m
  <2>1. \A q \in DOMAIN P : n \in Q[q] <=> n \in P[q]
    BY <1>3
  <2> QED BY <1>1, <2>1 DEF InOne
<1> QED BY <1>2, <1>3

Where == {"sensing", "queue", "hand", "file", "skipped", "dropped"}

(* The places by name, before a step and after it. *)
LEMMA PlacesByName ==
  /\ DOMAIN Places = Where
  /\ Places["sensing"] = Sending({"broadcast", "check", "log"})
  /\ Places["queue"] = Range(dataToLog)
  /\ Places["hand"] = Hand
  /\ Places["file"] = Range(file)
  /\ Places["skipped"] = skipped
  /\ Places["dropped"] = dropped
  BY DEF Places, Where

(* Every step moves the sample it handles from one place to another, or    *)
(* takes a new one, which is in no other place yet.                        *)
LEMMA AccountStep ==
  TypeOK /\ StreamsInOrder /\ SamplesAccountedFor /\ [Next]_vars => SamplesAccountedFor'
<1>0. SUFFICES ASSUME TypeOK, StreamsInOrder, SamplesAccountedFor, [Next]_vars
               PROVE  SamplesAccountedFor'
  OBVIOUS
<1>a. \A n \in (boot + 1)..taken : InOne(Places, n)
  BY <1>0 DEF SamplesAccountedFor, InOne
<1>b. ASSUME \A n \in (boot' + 1)..taken' : InOne(Places', n) PROVE SamplesAccountedFor'
  BY <1>b DEF SamplesAccountedFor, InOne
<1> SUFFICES \A n \in (boot' + 1)..taken' : InOne(Places', n)
  BY <1>b
<1>c. /\ DOMAIN Places = Where /\ DOMAIN Places' = Where
      /\ Places["sensing"] = Sending({"broadcast", "check", "log"})
      /\ Places["queue"] = Range(dataToLog) /\ Places["hand"] = Hand
      /\ Places["file"] = Range(file)
      /\ Places["skipped"] = skipped /\ Places["dropped"] = dropped
  BY PlacesByName DEF Places, Where
<1>d. /\ Places'["sensing"] = Sending({"broadcast", "check", "log"})'
      /\ Places'["queue"] = Range(dataToLog') /\ Places'["hand"] = Hand'
      /\ Places'["file"] = Range(file')
      /\ Places'["skipped"] = skipped' /\ Places'["dropped"] = dropped'
  BY DEF Places
<1>e. /\ taken \in Nat /\ boot \in Nat /\ message \in 0..taken
      /\ file \in Seq(Nat) /\ dataToLog \in Seq(Nat)
      /\ Range(file) \subseteq 1..taken /\ Range(dataToLog) \subseteq 1..taken
      /\ Hand \subseteq 1..taken /\ skipped \subseteq 1..taken /\ dropped \subseteq 1..taken
  BY <1>0, Samples DEF TypeOK
<1>f. ASSUME UNCHANGED <<taken, boot>>, NEW from \in Where, NEW to \in Where, from # to,
             NEW m \in Places[from], Places'[from] = Places[from] \ {m},
             Places'[to] = Places[to] \cup {m},
             \A r \in Where \ {from, to} : Places'[r] = Places[r]
      PROVE  \A n \in (boot' + 1)..taken' : InOne(Places', n)
  BY <1>a, <1>c, <1>f, Move
<1>g. ASSUME UNCHANGED <<taken, boot>>, \A r \in Where : Places'[r] = Places[r]
      PROVE  \A n \in (boot' + 1)..taken' : InOne(Places', n)
  BY <1>a, <1>c, <1>g DEF InOne
<1>1. CASE Sense
  <2>1. /\ taken' = taken + 1 /\ boot' = boot
        /\ Places["sensing"] = {} /\ Places'["sensing"] = {taken + 1}
    BY <1>1, <1>c, <1>d DEF Sense, Sending
  <2>2. \A r \in Where \ {"sensing"} : Places'[r] = Places[r] /\ Places[r] \subseteq 1..taken
    BY <1>1, <1>c, <1>d, <1>e DEF Sense, ports, Hand, Where
  <2>3. "sensing" \in Where
    BY DEF Where
  <2>4. ASSUME NEW n \in (boot + 1)..taken PROVE InOne(Places', n)
    <3>1. PICK p \in Where : n \in Places[p] /\ \A q \in Where \ {p} : n \notin Places[q]
      BY <1>a, <1>c DEF InOne
    <3>2. p # "sensing" /\ n \notin Places'["sensing"]
      BY <1>e, <2>1, <3>1
    <3> QED BY <1>c, <2>2, <3>1, <3>2 DEF InOne
  <2>5. InOne(Places', taken + 1)
    BY <1>c, <1>e, <2>1, <2>2, <2>3 DEF InOne
  <2>6. ASSUME NEW n \in (boot' + 1)..taken' PROVE InOne(Places', n)
    <3>1. n \in (boot + 1)..taken \/ n = taken + 1
      BY <1>e, <2>1, <2>6
    <3> QED BY <2>4, <2>5, <3>1
  <2> QED BY <2>6
<1>2. CASE Broadcast
  <2>1. UNCHANGED <<taken, boot>> /\ \A r \in Where : Places'[r] = Places[r]
    BY <1>2, <1>c, <1>d DEF Broadcast, Sending, Hand, Where
  <2> QED BY <1>g, <2>1
<1>3. CASE Check
  <2>1. CASE Wanted
    <3>1. UNCHANGED <<taken, boot>> /\ \A r \in Where : Places'[r] = Places[r]
      BY <1>3, <1>c, <1>d, <2>1 DEF Check, Sending, Hand, Where, ports
    <3> QED BY <1>g, <3>1
  <2>2. CASE ~Wanted
    <3>1. /\ UNCHANGED <<taken, boot>> /\ taken \in Places["sensing"]
          /\ Places'["sensing"] = Places["sensing"] \ {taken}
          /\ Places'["skipped"] = Places["skipped"] \cup {taken}
      BY <1>3, <1>c, <1>d, <2>2 DEF Check, Sending
    <3>2. \A r \in Where \ {"sensing", "skipped"} : Places'[r] = Places[r]
      BY <1>3, <1>c, <1>d DEF Check, Hand, Where, ports
    <3> QED BY <1>f, <3>1, <3>2 DEF Where
  <2> QED BY <2>1, <2>2
<1>4. CASE Log
  <2>1. /\ UNCHANGED <<taken, boot>> /\ taken \in Places["sensing"]
        /\ Places'["sensing"] = Places["sensing"] \ {taken}
    BY <1>4, <1>c, <1>d DEF Log, Sending
  <2>2. \A r \in Where \ {"sensing", "queue", "dropped"} : Places'[r] = Places[r]
    BY <1>4, <1>c, <1>d DEF Log, Hand, Where
  <2>3. CASE Full(dataToLog)
    <3>1. /\ Places'["queue"] = Places["queue"]
          /\ Places'["dropped"] = Places["dropped"] \cup {taken}
      BY <1>4, <1>c, <1>d, <2>3 DEF Log
    <3> QED BY <1>f, <2>1, <2>2, <3>1 DEF Where
  <2>4. CASE ~Full(dataToLog)
    <3>1. dataToLog' = Append(dataToLog, taken) /\ dropped' = dropped
      BY <1>4, <2>4 DEF Log, Put
    <3>2. Increasing(dataToLog) /\ Before(Range(dataToLog), {taken})
      BY <1>0, <1>4 DEF StreamsInOrder, Before, Log, Sending
    <3>3. Range(dataToLog') = Range(dataToLog) \cup {taken}
      BY <1>e, <3>1, <3>2, PutInOrder
    <3> QED BY <1>c, <1>d, <1>f, <2>1, <2>2, <3>1, <3>3 DEF Where
  <2> QED BY <2>3, <2>4
<1>5. CASE Receive
  <2> DEFINE first == Head(dataToLog)
  <2>1. /\ dataToLog # <<>> /\ dataToLog' = Tail(dataToLog) /\ message' = first /\ Hand = {}
        /\ UNCHANGED <<taken, boot>>
    BY <1>5 DEF Receive, Hand
  <2>2. /\ Range(dataToLog) = {first} \cup Range(dataToLog') /\ first \in Nat
        /\ Before({first}, Range(dataToLog'))
    BY <1>0, <1>e, <2>1, TakeInOrder DEF StreamsInOrder
  <2>3. Hand' = {first} /\ Range(dataToLog') = Range(dataToLog) \ {first}
    <3>1. first \in 1..taken /\ first \notin Range(dataToLog')
      BY <1>e, <2>2 DEF Before
    <3> QED BY <1>e, <2>1, <2>2, <3>1 DEF Hand, None
  <2>4. \A r \in Where \ {"queue", "hand"} : Places'[r] = Places[r]
    BY <1>5, <1>c, <1>d DEF Receive, Where, Sending
  <2>5. first \in Places["queue"] /\ Places'["queue"] = Places["queue"] \ {first}
    BY <1>c, <1>d, <2>2, <2>3
  <2>6. Places'["hand"] = Places["hand"] \cup {first}
    BY <1>c, <1>d, <2>1, <2>3
  <2> QED BY <1>f, <2>1, <2>4, <2>5, <2>6 DEF Where
<1>6. CASE write
  <2>1. /\ Hand = {message} /\ Hand' = {} /\ message \in Nat /\ UNCHANGED <<taken, boot>>
    BY <1>6, <1>e DEF write, Hand
  <2>2. /\ message \in Places["hand"] /\ Places'["hand"] = Places["hand"] \ {message}
        /\ \A r \in Where \ {"hand", "file", "dropped"} : Places'[r] = Places[r]
    BY <1>6, <1>c, <1>d, <2>1 DEF write, Where, Sending, ports
  <2>3. CASE file' = Append(file, message) /\ dropped' = dropped
    <3>1. Range(file') = Range(file) \cup {message}
      BY <1>0, <1>e, <2>1, <2>3, PutInOrder DEF StreamsInOrder
    <3> QED BY <1>c, <1>d, <1>f, <2>1, <2>2, <2>3, <3>1 DEF Where
  <2>4. CASE file' = file /\ dropped' = dropped \cup {message}
    BY <1>c, <1>d, <1>f, <2>1, <2>2, <2>4 DEF Where
  <2> QED BY <1>6, <2>3, <2>4 DEF write
<1>7. CASE Restart
  <2>1. boot' = taken /\ taken' = taken
    BY <1>7 DEF Restart, Startup
  <2>2. (taken + 1)..taken = {}
    BY <1>e
  <2> QED BY <2>1, <2>2
<1>8. CASE NetworkingStep \/ Announce \/ Lose \/ UNCHANGED vars
  <2>1. UNCHANGED <<taken, boot, sensing, message, file, dataToLog, skipped, dropped>>
    BY <1>8 DEF NetworkingStep, TransmitMessage, ReceiveAlert, Announce, Lose, vars, ports
  <2>2. \A r \in Where : Places'[r] = Places[r]
    BY <1>c, <1>d, <2>1 DEF Where, Sending, Hand
  <2> QED BY <1>g, <2>1, <2>2
<1> QED
  BY <1>0, <1>1, <1>2, <1>3, <1>4, <1>5, <1>6, <1>7, <1>8 DEF Next, SensingStep, LoggingStep

-----------------------------------------------------------------------------
(* The invariant.                                                          *)

(* The module starts with everything empty. *)
LEMMA Initially == Init => IInv
<1>0. SUFFICES ASSUME Init PROVE IInv
  OBVIOUS
<1>1. /\ Hand = {} /\ Sending({"broadcast"}) = {} /\ Sending({"broadcast", "check", "log"}) = {}
      /\ Increasing(<<>>) /\ Range(<<>>) = {}
  BY <1>0, EmptyInOrder DEF Init, Hand, Sending
<1>2. TypeOK
  <2>1. <<>> \in Seq(1..taken) /\ Len(<<>>) = 0
    BY EmptySeq
  <2>2. /\ dataToBroadcast \in Seq(1..taken) /\ dataToLog \in Seq(1..taken)
        /\ file \in Seq(1..taken) /\ aired \in Seq(1..taken)
        /\ Len(dataToBroadcast) <= QueueSize /\ Len(dataToLog) <= QueueSize
    BY <1>0, <2>1, PowerAssumption DEF Init
  <2>3. /\ taken \in 0..MaxSamples /\ boot \in 0..taken /\ message \in 0..taken
        /\ faults \in 0..MaxFaults /\ restarts \in 0..MaxRestarts
        /\ announced \in 0..2 /\ late \in Nat
    BY <1>0, PowerAssumption DEF Init, None
  <2>4. /\ sensing \in {"run", "broadcast", "check", "log"} /\ (sensing # "run" => boot < taken)
        /\ networking \in {"broadcast", "alert"}
        /\ logData \in BOOLEAN /\ boosted \in BOOLEAN /\ landed \in BOOLEAN
        /\ alerts \subseteq {Flight[i] : i \in 1..announced}
        /\ skipped \subseteq 1..taken /\ dropped \subseteq 1..taken
    BY <1>0 DEF Init
  <2> QED BY <2>2, <2>3, <2>4 DEF TypeOK
<1>3. StreamsInOrder
  <2>1. ASSUME NEW S PROVE Before(S, {})
    BY DEF Before
  <2> QED BY <1>0, <1>1, <2>1 DEF Init, StreamsInOrder
<1>4. SamplesAccountedFor
  <2>1. (boot + 1)..taken = {}
    BY <1>0 DEF Init
  <2> QED BY <2>1 DEF SamplesAccountedFor
<1>5. LandingInv /\ BoostInv
  BY <1>0, <1>1 DEF Init, LandingInv, BoostInv, LogBeginsAtBoost
<1> QED BY <1>2, <1>3, <1>4, <1>5 DEF IInv

(* The inductive invariant holds whatever the order of the threads and     *)
(* whatever is lost, repeated, refused or restarted.                       *)
THEOREM Invariance == Spec => []IInv
<1>1. IInv /\ [Next]_vars => IInv'
  BY TypeStep, OrderStep, AccountStep, LandingStep, BoostStep DEF IInv
<1> QED BY <1>1, Initially, PTL DEF Spec

(* The queues stay within their size and hold samples that were taken. *)
THEOREM TypeCorrect == Spec => []TypeOK
<1>1. IInv => TypeOK
  BY DEF IInv
<1> QED BY <1>1, Invariance, PTL

(* The log and the broadcast are in the order of CSensingTenant::Run. *)
THEOREM Order == Spec => []StreamsInOrder
<1>1. IInv => StreamsInOrder
  BY DEF IInv
<1> QED BY <1>1, Invariance, PTL

(* Every sample is in one place of the way from Run to the file. *)
THEOREM Accounting == Spec => []SamplesAccountedFor
<1>1. IInv => SamplesAccountedFor
  BY DEF IInv
<1> QED BY <1>1, Invariance, PTL

(* CSensingTenant::Notify(LANDED) lets at most one more sample through. *)
THEOREM Landing == Spec => []LandingStopsLog
<1>1. IInv => LandingStopsLog
  BY DEF IInv, LandingInv, LandingStopsLog
<1> QED BY <1>1, Invariance, PTL

(* Nothing is logged before CSensingTenant::Notify(BOOST). *)
THEOREM Boost == Spec => []LogBeginsAtBoost
<1>1. IInv => LogBeginsAtBoost
  BY DEF IInv, BoostInv
<1> QED BY <1>1, Invariance, PTL
=============================================================================
