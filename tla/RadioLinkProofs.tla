-------------------------- MODULE RadioLinkProofs --------------------------
(***************************************************************************)
(* What module RadioLink states, proved for any ports, any sizes of the    *)
(* queues and any number of samples, fixes, commands and faults.           *)
(*                                                                         *)
(* The queues are in order and newer than what was taken from them, what   *)
(* is on the air is newer than what the ground was shown, and what Run has *)
(* copied of a fix is of the latest unless the callback came in between.   *)
(***************************************************************************)
EXTENDS RadioLink, SequenceTheorems, TLAPS

(* The messages of a port in a queue, in the order of their numbers.       *)
Between(q, p, low, high) ==
  /\ \A i \in 1..Len(q) : q[i].port = p => q[i].n \in low..high
  /\ \A i, j \in 1..Len(q) : i < j /\ q[i].port = p /\ q[j].port = p => q[i].n <= q[j].n

(* The latest sample a module or the GNSS has made.                        *)
Latest(p) == IF p = Gnss THEN broadcastData ELSE made[p]

(* The last command the pad has heard, whether or not it has set the pins. *)
Heard == IF air["pad"].port = "command" THEN air["pad"].n ELSE pins

SamplesInOrder ==
  \A p \in Ports : portDataMap[p] <= Latest(p) /\ Between(queue["pad"], p, portDataMap[p], Latest(p))

CommandsInOrder ==
  pins <= Heard /\ Heard <= asked /\ Between(queue["ground"], "command", Heard, asked)

(* A status on the air, or shown, names the pins its command has set.      *)
Told(status) == status.port = "response" => status.n = status.to /\ status.to <= pins

SamplesForward ==
  /\ \A p \in Ports : shown[p].n <= portDataMap[p]
  /\ \A p \in Ports : air["ground"].port = p => shown[p].n <= air["ground"].n /\ air["ground"].n <= portDataMap[p]

StatusesTold == Told(air["ground"]) /\ Told(shown["response"])

(* What Run has copied so far, and then put into the queue of the log, is  *)
(* of the latest fix.                                                      *)
FixIsCopied ==
  ~raced =>
    /\ gnss \in {"latitude", "longitude", "log"} => logData.time = fix
    /\ gnss \in {"longitude", "log"} => logData.latitude = fix
    /\ gnss = "log" => logData.longitude = fix

FixIsHanded ==
  (gnss = "idle" /\ ~gnssUpdated) \/ gnss \in {"broadcast", "send", "clear"} =>
    raced \/ refused \/ handed = Whole(fix)

Inv ==
  /\ TypeOK /\ SamplesInOrder /\ CommandsInOrder
  /\ SamplesForward /\ StatusesTold /\ FixIsCopied /\ FixIsHanded

-----------------------------------------------------------------------------
(* Facts about Between.                                                    *)

(* There is no message in an empty queue.                                  *)
LEMMA BetweenEmpty ==
  ASSUME NEW p, NEW low, NEW high PROVE Between(<<>>, p, low, high)
BY DEF Between

(* Fewer are above a lower bound that is raised to that of the first.      *)
LEMMA BetweenTail ==
  ASSUME NEW S, NEW q \in Seq(S), q # <<>>, NEW p, NEW low \in Nat, NEW high \in Nat, Between(q, p, low, high)
  PROVE  /\ Between(Tail(q), p, IF Head(q).port = p THEN Head(q).n ELSE low, high)
         /\ Head(q).port = p => Head(q).n \in low..high
<1>1. /\ Tail(q) \in Seq(S) /\ Len(q) \in Nat \ {0} /\ Len(Tail(q)) = Len(q) - 1
      /\ \A i \in 1..Len(Tail(q)) : Tail(q)[i] = q[i + 1]
      /\ Head(q) = q[1]
  BY HeadTailProperties, LenProperties, EmptySeq
<1>2. \A i \in 1..Len(Tail(q)) : i + 1 \in 1..Len(q) /\ 1 < i + 1
  BY <1>1
<1>3. 1 \in 1..Len(q)
  BY <1>1
<1>4. Head(q).port = p => Head(q).n \in low..high
  BY <1>1, <1>3 DEF Between
<1>5. ASSUME NEW i \in 1..Len(Tail(q)), Tail(q)[i].port = p
      PROVE  Tail(q)[i].n \in (IF Head(q).port = p THEN Head(q).n ELSE low)..high
  <2>1. q[i + 1].n \in low..high
    BY <1>1, <1>2, <1>5 DEF Between
  <2>2. Head(q).port = p => q[1].n <= q[i + 1].n
    BY <1>1, <1>2, <1>3, <1>5 DEF Between
  <2>3. QED
    BY <1>1, <1>4, <1>5, <2>1, <2>2
<1>6. ASSUME NEW i \in 1..Len(Tail(q)), NEW j \in 1..Len(Tail(q)), i < j, Tail(q)[i].port = p, Tail(q)[j].port = p
      PROVE  Tail(q)[i].n <= Tail(q)[j].n
  <2>1. i + 1 < j + 1
    BY <1>1, <1>6
  <2>2. QED
    BY <1>1, <1>2, <1>6, <2>1 DEF Between
<1>7. QED
  BY <1>4, <1>5, <1>6 DEF Between

(* What is put behind them is no older than any.                           *)
LEMMA BetweenAppend ==
  ASSUME NEW S, NEW q \in Seq(S), NEW m, NEW p, NEW low \in Nat, NEW high \in Nat, NEW newer \in Nat,
         Between(q, p, low, high), high <= newer,
         m.port = p => m.n \in Nat /\ low <= m.n /\ high <= m.n /\ m.n <= newer
  PROVE  Between(Append(q, m), p, low, newer)
<1>1. /\ Len(q) \in Nat /\ Len(Append(q, m)) = Len(q) + 1
      /\ \A i \in 1..Len(q) : Append(q, m)[i] = q[i]
      /\ Append(q, m)[Len(q) + 1] = m
  <2>1. q \in Seq(S \cup {m}) /\ m \in S \cup {m}
    BY SeqMonotonic
  <2>2. QED
    BY <2>1, AppendProperties, LenProperties
<1>2. \A i \in 1..(Len(q) + 1) : i \in 1..Len(q) \/ i = Len(q) + 1
  BY <1>1
<1>3. \A i \in 1..Len(q) : q[i].port = p => q[i].n \in low..high
  BY DEF Between
<1>4. ASSUME NEW i \in 1..(Len(q) + 1), Append(q, m)[i].port = p
      PROVE  Append(q, m)[i].n \in low..newer
  <2>1. CASE i \in 1..Len(q)
    BY <1>1, <1>3, <1>4, <2>1
  <2>2. CASE i = Len(q) + 1
    BY <1>1, <1>4, <2>2
  <2>3. QED
    BY <1>2, <2>1, <2>2
<1>5. ASSUME NEW i \in 1..(Len(q) + 1), NEW j \in 1..(Len(q) + 1), i < j,
             Append(q, m)[i].port = p, Append(q, m)[j].port = p
      PROVE  Append(q, m)[i].n <= Append(q, m)[j].n
  <2>1. i \in 1..Len(q)
    BY <1>1, <1>5
  <2>2. CASE j \in 1..Len(q)
    BY <1>1, <1>5, <2>1, <2>2 DEF Between
  <2>3. CASE j = Len(q) + 1
    BY <1>1, <1>3, <1>5, <2>1, <2>3
  <2>4. QED
    BY <1>2, <2>2, <2>3
<1>6. QED
  BY <1>1, <1>4, <1>5 DEF Between

-----------------------------------------------------------------------------
(* Facts about the steps of the radio and the queues.                      *)

(* Turning the radio leaves its flags what they are flags of.              *)
LEMMA Turned ==
  ASSUME NEW side \in Sides, NEW transmit \in BOOLEAN, NEW works \in BOOLEAN, TypeOK, SetTxRx(side, transmit, works)
  PROVE  tx' \in [Sides -> BOOLEAN] /\ radio' \in [Sides -> BOOLEAN] /\ faults' \in 0..MaxFaults
<1>1. tx' \in [Sides -> BOOLEAN]
  BY DEF TypeOK, SetTxRx
<1>2. radio' \in [Sides -> BOOLEAN]
  BY DEF TypeOK, SetTxRx
<1>3. faults' \in 0..MaxFaults
  BY RadioAssumption, SMTT(30) DEF TypeOK, SetTxRx
<1>4. QED
  BY <1>1, <1>2, <1>3

(* A packet only comes to a side that has heard nothing yet.               *)
LEMMA Transmitted ==
  ASSUME NEW side \in Sides, NEW message, TypeOK, TransmitSynchronous(side, message)
  PROVE  /\ tx' \in [Sides -> BOOLEAN] /\ radio' \in [Sides -> BOOLEAN] /\ faults' \in 0..MaxFaults
         /\ air' = air \/ (air[Other(side)] = None /\ air' = [air EXCEPT ![Other(side)] = message])
<1>1. PICK works \in BOOLEAN :
        /\ SetTxRx(side, TRUE, works)
        /\ \/ works /\ Hears(Other(side)) /\ radio'[side] /\ air' = [air EXCEPT ![Other(side)] = message]
           \/ UNCHANGED air
  BY DEF TransmitSynchronous
<1>2. air' = air \/ (air[Other(side)] = None /\ air' = [air EXCEPT ![Other(side)] = message])
  BY <1>1 DEF Hears
<1>3. QED
  BY <1>1, <1>2, Turned

(* A full queue stays as it is.                                            *)
LEMMA PutType ==
  ASSUME TypeOK
  PROVE  /\ \A m \in Samples : Put("pad", m) \in Seq(Samples) /\ Len(Put("pad", m)) <= PadQueue
         /\ \A m \in Questions : Put("ground", m) \in Seq(Questions) /\ Len(Put("ground", m)) <= GroundQueue
<1>1. PadQueue \in Nat /\ GroundQueue \in Nat
  BY RadioAssumption
<1>2. ASSUME NEW m \in Samples
      PROVE  Put("pad", m) \in Seq(Samples) /\ Len(Put("pad", m)) <= PadQueue
  <2>1. /\ queue["pad"] \in Seq(Samples) /\ Len(queue["pad"]) <= PadQueue
        /\ Len(queue["pad"]) \in Nat
    BY LenProperties DEF TypeOK
  <2>2. Append(queue["pad"], m) \in Seq(Samples) /\ Len(Append(queue["pad"], m)) = Len(queue["pad"]) + 1
    BY <2>1, <1>2, AppendProperties
  <2>3. QED
    BY <1>1, <2>1, <2>2 DEF Put, Full
<1>3. ASSUME NEW m \in Questions
      PROVE  Put("ground", m) \in Seq(Questions) /\ Len(Put("ground", m)) <= GroundQueue
  <2>1. /\ queue["ground"] \in Seq(Questions) /\ Len(queue["ground"]) <= GroundQueue
        /\ Len(queue["ground"]) \in Nat
    BY LenProperties DEF TypeOK
  <2>2. Append(queue["ground"], m) \in Seq(Questions) /\ Len(Append(queue["ground"], m)) = Len(queue["ground"]) + 1
    BY <2>1, <1>3, AppendProperties
  <2>3. QED
    BY <1>1, <2>1, <2>2 DEF Put, Full
<1>4. QED
  BY <1>2, <1>3

(* The queue of one side changes.                                          *)
QueueType(q) ==
  /\ q \in [Sides -> Seq(Samples \cup Questions)]
  /\ q["pad"] \in Seq(Samples) /\ Len(q["pad"]) <= PadQueue
  /\ q["ground"] \in Seq(Questions) /\ Len(q["ground"]) <= GroundQueue

LEMMA PadQueueType ==
  ASSUME TypeOK, NEW q \in Seq(Samples), Len(q) <= PadQueue
  PROVE  QueueType([queue EXCEPT !["pad"] = q])
<1>1. q \in Seq(Samples \cup Questions)
  BY SeqMonotonic
<1>2. [queue EXCEPT !["pad"] = q] \in [Sides -> Seq(Samples \cup Questions)]
  BY <1>1 DEF TypeOK
<1>3. QED
  BY <1>2 DEF TypeOK, QueueType, Sides

LEMMA GroundQueueType ==
  ASSUME TypeOK, NEW q \in Seq(Questions), Len(q) <= GroundQueue
  PROVE  QueueType([queue EXCEPT !["ground"] = q])
<1>1. q \in Seq(Samples \cup Questions)
  BY SeqMonotonic
<1>2. [queue EXCEPT !["ground"] = q] \in [Sides -> Seq(Samples \cup Questions)]
  BY <1>1 DEF TypeOK
<1>3. QED
  BY <1>2 DEF TypeOK, QueueType, Sides

(* An empty queue, or what is behind the first message.                    *)
LEMMA ShorterType ==
  ASSUME TypeOK
  PROVE  /\ QueueType([queue EXCEPT !["pad"] = <<>>]) /\ QueueType([queue EXCEPT !["ground"] = <<>>])
         /\ queue["pad"] # <<>> => QueueType([queue EXCEPT !["pad"] = Tail(@)]) /\ Head(queue["pad"]) \in Samples
         /\ queue["ground"] # <<>> =>
              QueueType([queue EXCEPT !["ground"] = Tail(@)]) /\ Head(queue["ground"]) \in Questions
<1>1. PadQueue \in Nat /\ GroundQueue \in Nat
  BY RadioAssumption
<1>2. QueueType([queue EXCEPT !["pad"] = <<>>]) /\ QueueType([queue EXCEPT !["ground"] = <<>>])
  <2>1. <<>> \in Seq(Samples) /\ <<>> \in Seq(Questions) /\ Len(<<>>) = 0
    OBVIOUS
  <2>2. Len(<<>>) <= PadQueue /\ Len(<<>>) <= GroundQueue
    BY <1>1, <2>1
  <2>3. QueueType([queue EXCEPT !["pad"] = <<>>])
    BY <2>1, <2>2, PadQueueType
  <2>4. QueueType([queue EXCEPT !["ground"] = <<>>])
    BY <2>1, <2>2, GroundQueueType
  <2>5. QED
    BY <2>3, <2>4
<1>3. ASSUME queue["pad"] # <<>>
      PROVE  QueueType([queue EXCEPT !["pad"] = Tail(@)]) /\ Head(queue["pad"]) \in Samples
  <2>1. queue["pad"] \in Seq(Samples) /\ Len(queue["pad"]) <= PadQueue
    BY DEF TypeOK
  <2>2. /\ Tail(queue["pad"]) \in Seq(Samples) /\ Len(Tail(queue["pad"])) = Len(queue["pad"]) - 1
        /\ Len(queue["pad"]) \in Nat /\ Head(queue["pad"]) \in Samples
    BY <1>3, <2>1, HeadTailProperties, LenProperties
  <2>3. QueueType([queue EXCEPT !["pad"] = Tail(queue["pad"])])
    BY <1>1, <2>1, <2>2, PadQueueType
  <2>4. QED
    BY <2>2, <2>3
<1>4. ASSUME queue["ground"] # <<>>
      PROVE  QueueType([queue EXCEPT !["ground"] = Tail(@)]) /\ Head(queue["ground"]) \in Questions
  <2>1. queue["ground"] \in Seq(Questions) /\ Len(queue["ground"]) <= GroundQueue
    BY DEF TypeOK
  <2>2. /\ Tail(queue["ground"]) \in Seq(Questions) /\ Len(Tail(queue["ground"])) = Len(queue["ground"]) - 1
        /\ Len(queue["ground"]) \in Nat /\ Head(queue["ground"]) \in Questions
    BY <1>4, <2>1, HeadTailProperties, LenProperties
  <2>3. QueueType([queue EXCEPT !["ground"] = Tail(queue["ground"])])
    BY <1>1, <2>1, <2>2, GroundQueueType, SMTT(30)
  <2>4. QED
    BY <2>2, <2>3
<1>5. QED
  BY <1>2, <1>3, <1>4

-----------------------------------------------------------------------------
(* The types.                                                              *)

Records == [time : Nat, latitude : Nat, longitude : Nat]

ReceiverType ==
  /\ fix \in 0..MaxFixes /\ gnssUpdated \in BOOLEAN /\ raced \in BOOLEAN /\ refused \in BOOLEAN
  /\ gnss \in {"idle", "latitude", "longitude", "log", "broadcast", "send", "clear"}
  /\ logData \in Records /\ handed \in Records
  /\ broadcastData \in 0..fix /\ backlog \in 0..LogQueue

LEMMA InitType == Init => TypeOK
<1> SUFFICES ASSUME Init PROVE TypeOK
  OBVIOUS
<1>1. {PadQueue, GroundQueue, LogQueue, MaxSamples, MaxFixes, MaxAsked, MaxFaults} \subseteq Nat
  BY RadioAssumption
<1>2. <<>> \in Seq(Samples) /\ <<>> \in Seq(Questions) /\ <<>> \in Seq(Samples \cup Questions) /\ Len(<<>>) = 0
  OBVIOUS
<1>3. QueueType(queue)
  BY <1>1, <1>2 DEF Init, QueueType, Sides
<1>4. /\ portDataMap \in [Ports -> Nat] /\ padDataRequestedMap \subseteq Ports
      /\ made \in [Listened -> 0..MaxSamples] /\ asked \in 0..MaxAsked /\ faults \in 0..MaxFaults
  <2>1. MaxSamples \in Nat /\ MaxAsked \in Nat /\ MaxFaults \in Nat
    BY <1>1
  <2>2. 0 \in 0..MaxSamples /\ 0 \in 0..MaxAsked /\ 0 \in 0..MaxFaults
    BY <2>1
  <2>3. QED
    BY <2>2 DEF Init
<1>5. /\ pc \in [Sides -> {"transmit", "answer", "listen", "oops"}]
      /\ tx \in [Sides -> BOOLEAN] /\ radio \in [Sides -> BOOLEAN] /\ pins \in Nat /\ listener \in {"run", "purge"}
  BY DEF Init
<1>6. /\ air \in [Sides -> Samples \cup Questions \cup Statuses \cup {None}]
      /\ air["pad"] = None /\ air["ground"] = None
      /\ shown \in [Ports \cup {"response"} -> Samples \cup Statuses \cup {None}]
      /\ \A p \in Ports : shown[p] = None
      /\ shown["response"] = None /\ destination = "none"
  BY DEF Init, Sides
<1>7. ReceiverType
  <2>1. fix \in 0..MaxFixes /\ broadcastData \in 0..fix /\ backlog \in 0..LogQueue
    BY <1>1 DEF Init
  <2>2. logData \in Records /\ handed = logData
    BY DEF Init, Whole, Records
  <2>3. QED
    BY <2>1, <2>2 DEF Init, ReceiverType
<1>8. QED
  BY <1>3, <1>4, <1>5, <1>6, <1>7 DEF TypeOK, QueueType, ReceiverType, Records

(* A step that changes the queues.                                         *)
LEMMA QueueStep ==
  ASSUME TypeOK, QueueType(queue'), made' \in [Listened -> 0..MaxSamples], asked' \in 0..MaxAsked,
         portDataMap' \in [Ports -> Nat], listener' \in {"run", "purge"},
         pc' \in [Sides -> {"transmit", "answer", "listen", "oops"}],
         gnss' \in {"idle", "latitude", "longitude", "log", "broadcast", "send", "clear"},
         UNCHANGED <<padDataRequestedMap, air, tx, radio, pins, fix, gnssUpdated, logData, broadcastData, backlog,
                     handed, raced, refused, ground, faults>>
  PROVE  TypeOK'
BY DEF TypeOK, QueueType, ground

(* A step of the receiver alone.                                           *)
LEMMA GnssStep ==
  ASSUME TypeOK, UNCHANGED <<task, listener, ground, made, asked, faults>>, ReceiverType'
  PROVE  TypeOK'
BY DEF TypeOK, task, ground, ReceiverType, Records

(* A step of the radio.                                                    *)
LEMMA RadioStep ==
  ASSUME TypeOK, QueueType(queue'), UNCHANGED <<portDataMap, listener, receiver, made, asked>>,
         padDataRequestedMap' \subseteq Ports, pc' \in [Sides -> {"transmit", "answer", "listen", "oops"}], pins' \in Nat,
         tx' \in [Sides -> BOOLEAN], radio' \in [Sides -> BOOLEAN], faults' \in 0..MaxFaults,
         air' \in [Sides -> Samples \cup Questions \cup Statuses \cup {None}],
         air'["pad"] \in Questions \cup {None}, air'["ground"] \in Samples \cup Statuses \cup {None},
         shown' \in [Ports \cup {"response"} -> Samples \cup Statuses \cup {None}],
         \A p \in Ports : shown'[p] \in Samples \cup {None},
         shown'["response"] \in Statuses \cup {None}, destination' \in Ports \cup {"response", "none"}
  PROVE  TypeOK'
BY DEF TypeOK, QueueType, receiver

LEMMA StepType == TypeOK /\ [Next]_vars => TypeOK'
<1> SUFFICES ASSUME TypeOK, [Next]_vars PROVE TypeOK'
  OBVIOUS
<1>n. {PadQueue, GroundQueue, LogQueue, MaxSamples, MaxFixes, MaxAsked, MaxFaults} \subseteq Nat
  BY RadioAssumption
<1>q. QueueType(queue)
  BY DEF TypeOK, QueueType
<1>a. /\ air["pad"] \in Questions \cup {None} /\ air["ground"] \in Samples \cup Statuses \cup {None}
      /\ air \in [Sides -> Samples \cup Questions \cup Statuses \cup {None}]
  BY DEF TypeOK
<1>r. ReceiverType /\ LogQueue \in Nat /\ fix \in Nat
  BY <1>n DEF TypeOK, ReceiverType, Records
<1>c. destination \in Ports \cup {"response", "none"}
  BY DEF TypeOK
<1>1. CASE Ask
  <2>1. PICK message \in {[port |-> "command", n |-> asked + 1]} \cup [port : {"request"}, n : Requests] :
          queue' = [queue EXCEPT !["ground"] = Put("ground", message)]
    BY <1>1 DEF Ask
  <2>2. message \in Questions
    BY <1>n DEF TypeOK, Questions
  <2>3. QueueType(queue')
    BY <2>1, <2>2, PutType, GroundQueueType
  <2>4. asked' \in 0..MaxAsked
    BY <1>1, <1>n DEF Ask, TypeOK
  <2>5. QED
    BY <1>1, <2>3, <2>4, QueueStep DEF Ask, TypeOK, receiver
<1>2. CASE Purge
  BY <1>2, ShorterType, QueueStep DEF Purge, TypeOK, receiver
<1>3. CASE gnssCallback
  <2>1. fix' \in 0..MaxFixes /\ fix' = fix + 1 /\ (gnss # "idle") \in BOOLEAN
    BY <1>3, <1>n, <1>r DEF gnssCallback, ReceiverType
  <2>2. broadcastData \in 0..fix'
    BY <1>r, <2>1 DEF ReceiverType
  <2>3. raced' \in BOOLEAN /\ gnssUpdated' \in BOOLEAN
    BY <1>3, Zenon DEF gnssCallback
  <2>4. QED
    BY <1>3, <1>r, <2>1, <2>2, <2>3, GnssStep DEF gnssCallback, ReceiverType
<1>4. CASE CopyTime \/ CopyLatitude \/ CopyLongitude
  <2>1. logData' \in Records
    BY <1>4, <1>r DEF CopyTime, CopyLatitude, CopyLongitude, ReceiverType, Records, Whole
  <2>2. QED
    BY <1>4, <1>r, <2>1, GnssStep DEF CopyTime, CopyLatitude, CopyLongitude, Copy, ReceiverType
<1>5. CASE SendRecord
  <2>1. refused' \in BOOLEAN
    BY <1>5, Zenon DEF SendRecord
  <2>2. backlog' \in 0..LogQueue /\ handed' \in Records
    <3>1. CASE backlog = LogQueue
      BY <1>5, <1>r, <3>1 DEF SendRecord, ReceiverType
    <3>2. CASE backlog # LogQueue
      <4>1. backlog' = backlog + 1 /\ handed' = logData
        BY <1>5, <3>2 DEF SendRecord, Logged
      <4>2. QED
        BY <1>r, <3>2, <4>1 DEF ReceiverType
    <3>3. QED
      BY <3>1, <3>2
  <2>3. QED
    BY <1>5, <1>r, <2>1, <2>2, GnssStep DEF SendRecord, ReceiverType
<1>6. CASE SendCoordinates
  <2>1. [port |-> Gnss, n |-> broadcastData] \in Samples
    BY <1>r DEF ReceiverType, Samples, Ports
  <2>2. QueueType(queue')
    BY <1>6, <2>1, <1>q, PutType, PadQueueType DEF SendCoordinates
  <2>3. QED
    BY <1>6, <2>2, QueueStep DEF SendCoordinates, TypeOK
<1>6a. CASE CopyCoordinates
  BY <1>6a, <1>r, GnssStep DEF CopyCoordinates, ReceiverType
<1>6b. CASE WriteRecord
  BY <1>6b, <1>r, GnssStep DEF WriteRecord, ReceiverType
<1>7. CASE Clear
  BY <1>7, <1>r, GnssStep DEF Clear, ReceiverType, Records, Whole
<1>8. CASE GroundTransmit
  <2>1. CASE queue["ground"] = <<>>
    BY <1>8, <2>1, <1>q, RadioStep DEF GroundTransmit, TypeOK, ground
  <2>2. CASE queue["ground"] # <<>>
    <3>1. TransmitSynchronous("ground", Head(queue["ground"])) /\ Head(queue["ground"]) \in Questions
      BY <1>8, <2>2, ShorterType DEF GroundTransmit
    <3>2. /\ tx' \in [Sides -> BOOLEAN] /\ radio' \in [Sides -> BOOLEAN] /\ faults' \in 0..MaxFaults
          /\ air' = air \/ air' = [air EXCEPT !["pad"] = Head(queue["ground"])]
      BY <3>1, Transmitted DEF Sides, Other
    <3>3. /\ air'["pad"] \in Questions \cup {None} /\ air'["ground"] \in Samples \cup Statuses \cup {None}
          /\ air' \in [Sides -> Samples \cup Questions \cup Statuses \cup {None}]
      BY <1>a, <3>1, <3>2 DEF Sides
    <3>4. QueueType(queue')
      BY <1>8, <2>2, ShorterType DEF GroundTransmit, Taken
    <3>5. QED
      BY <1>8, <3>2, <3>3, <3>4, RadioStep DEF GroundTransmit, TypeOK, ground
  <2>3. QED
    BY <2>1, <2>2
<1>9. ASSUME NEW side \in Sides, Receive(side) PROVE TypeOK'
  <2>1. PICK works \in BOOLEAN :
          SetTxRx(side, FALSE, works) /\ pc' = [pc EXCEPT ![side] = IF works THEN "listen" ELSE "transmit"]
    BY <1>9 DEF Receive
  <2>2. tx' \in [Sides -> BOOLEAN] /\ radio' \in [Sides -> BOOLEAN] /\ faults' \in 0..MaxFaults
    BY <2>1, Turned
  <2>3. QED
    BY <1>9, <1>a, <1>q, <2>1, <2>2, RadioStep DEF Receive, TypeOK, ground
<1>10. ASSUME NEW side \in Sides, GiveUp(side) PROVE TypeOK'
  BY <1>10, <1>a, <1>q, RadioStep DEF GiveUp, TypeOK, ground
<1>11. CASE PassOn
  <2>1. PICK packet : packet = air["ground"]
    OBVIOUS
  <2>2. packet \in Samples \cup Statuses
    BY <1>11, <1>a, <2>1 DEF PassOn
  <2>3. shown' = [shown EXCEPT ![packet.port] = packet]
    BY <1>11, <2>1 DEF PassOn
  <2>4. /\ packet.port \in Ports => packet \in Samples
        /\ packet.port = "response" => packet \in Statuses
        /\ packet.port \in Ports \cup {"response"}
    BY <2>2, RadioAssumption DEF Samples, Statuses, Ports, Gnss
  <2>5. /\ shown' \in [Ports \cup {"response"} -> Samples \cup Statuses \cup {None}]
        /\ \A p \in Ports : shown'[p] \in Samples \cup {None}
        /\ shown'["response"] \in Statuses \cup {None}
    BY <2>2, <2>3, <2>4 DEF TypeOK
  <2>6. /\ air'["pad"] \in Questions \cup {None} /\ air'["ground"] \in Samples \cup Statuses \cup {None}
        /\ air' \in [Sides -> Samples \cup Questions \cup Statuses \cup {None}]
    BY <1>11, <1>a DEF PassOn, Sides
  <2>7. QED
    <3>1. destination' \in Ports \cup {"response", "none"}
      BY <1>11, <1>c, <2>1, <2>4 DEF PassOn
    <3>2. QED
      BY <1>11, <1>q, <2>5, <2>6, <3>1, RadioStep DEF PassOn, TypeOK
<1>12. CASE ReadTransmitQueue
  <2>1. CASE queue["pad"] = <<>>
    BY <1>12, <1>q, <2>1, QueueStep DEF ReadTransmitQueue, TypeOK, receiver
  <2>2. CASE queue["pad"] # <<>>
    <3>1. QueueType(queue') /\ Head(queue["pad"]) \in Samples
      BY <1>12, <2>2, ShorterType DEF ReadTransmitQueue
    <3>2. portDataMap' = [portDataMap EXCEPT ![Head(queue["pad"]).port] = Head(queue["pad"]).n]
      BY <1>12, <2>2 DEF ReadTransmitQueue
    <3>3. portDataMap' \in [Ports -> Nat]
      BY <3>1, <3>2 DEF Samples, TypeOK
    <3>4. QED
      BY <1>12, <3>1, <3>3, QueueStep DEF ReadTransmitQueue, TypeOK, receiver
  <2>3. QED
    BY <2>1, <2>2
<1>13. CASE Command
  <2>1. air["pad"] \in Questions /\ air["pad"].n \in Nat
    BY <1>13, <1>a, RadioAssumption DEF Command, Questions, None
  <2>2. PICK works \in BOOLEAN : SetTxRx("pad", TRUE, works)
    BY <1>13 DEF Command
  <2>3. tx' \in [Sides -> BOOLEAN] /\ radio' \in [Sides -> BOOLEAN] /\ faults' \in 0..MaxFaults
    BY <2>2, Turned DEF Sides
  <2>4. Status(air["pad"].n) \in Statuses
    BY <1>13, <2>1 DEF Command, Status, Statuses
  <2>5. air' = [pad |-> None, ground |-> Status(air["pad"].n)] \/ air' = [air EXCEPT !["pad"] = None]
    BY <1>13 DEF Command
  <2>6. /\ air'["pad"] \in Questions \cup {None} /\ air'["ground"] \in Samples \cup Statuses \cup {None}
        /\ air' \in [Sides -> Samples \cup Questions \cup Statuses \cup {None}]
    BY <1>a, <2>4, <2>5 DEF Sides
  <2>7. QED
    BY <1>13, <1>q, <2>1, <2>3, <2>6, RadioStep DEF Command, TypeOK, ground
<1>14. CASE DataRequest
  <2>1. padDataRequestedMap' \subseteq Ports /\ pc' \in [Sides -> {"transmit", "answer", "listen", "oops"}]
    BY <1>14 DEF DataRequest, TypeOK
  <2>2. /\ air'["pad"] \in Questions \cup {None} /\ air'["ground"] \in Samples \cup Statuses \cup {None}
        /\ air' \in [Sides -> Samples \cup Questions \cup Statuses \cup {None}]
    BY <1>14, <1>a DEF DataRequest, Sides
  <2>3. QED
    BY <1>14, <1>q, <2>1, <2>2, RadioStep DEF DataRequest, TypeOK, ground
<1>15. ASSUME NEW p \in Ports, Answer(p) PROVE TypeOK'
  <2>1. CASE portDataMap[p] = 0
    BY <1>15, <1>q, <1>a, <2>1, RadioStep DEF Answer, NoLongerRequested, TypeOK, ground
  <2>2. CASE portDataMap[p] # 0
    <3>1. TransmitSynchronous("pad", [port |-> p, n |-> portDataMap[p]]) /\ [port |-> p, n |-> portDataMap[p]] \in Samples
      BY <1>15, <2>2 DEF Answer, Samples, TypeOK
    <3>2. /\ tx' \in [Sides -> BOOLEAN] /\ radio' \in [Sides -> BOOLEAN] /\ faults' \in 0..MaxFaults
          /\ air' = air \/ air' = [air EXCEPT !["ground"] = [port |-> p, n |-> portDataMap[p]]]
      BY <3>1, Transmitted DEF Sides, Other
    <3>3. /\ air'["pad"] \in Questions \cup {None} /\ air'["ground"] \in Samples \cup Statuses \cup {None}
          /\ air' \in [Sides -> Samples \cup Questions \cup Statuses \cup {None}]
      BY <1>a, <3>1, <3>2 DEF Sides
    <3>4. QED
      BY <1>15, <1>q, <3>2, <3>3, RadioStep DEF Answer, NoLongerRequested, TypeOK, ground
  <2>3. QED
    BY <2>1, <2>2
<1>16. ASSUME NEW p \in Listened, Listen(p) PROVE TypeOK'
  <2>1. made[p] \in 0..MaxSamples /\ [port |-> p, n |-> made[p] + 1] \in Samples
    <3>1. made \in [Listened -> 0..MaxSamples]
      BY DEF TypeOK
    <3>2. made[p] \in 0..MaxSamples
      BY <1>16, <3>1
    <3>3. made[p] + 1 \in Nat
      BY <1>n, <3>2
    <3>4. p \in Ports
      BY <1>16 DEF Ports
    <3>5. [port |-> p, n |-> made[p] + 1] \in Samples
      BY <3>3, <3>4 DEF Samples
    <3>6. QED
      BY <3>2, <3>5
  <2>2. QueueType(queue')
    BY <1>16, <2>1, PutType, PadQueueType, ShorterType DEF Listen
  <2>3. made' \in [Listened -> 0..MaxSamples]
    BY <1>16, <1>n, <2>1, SMTT(30) DEF Listen, TypeOK
  <2>4. QED
    BY <1>16, <2>2, <2>3, QueueStep DEF Listen, TypeOK, receiver
<1>17. CASE UNCHANGED vars
  BY <1>17 DEF TypeOK, vars, task, receiver, ground
<1>18. QED
  BY <1>1, <1>2, <1>3, <1>4, <1>5, <1>6, <1>6a, <1>6b, <1>7, <1>8, <1>9, <1>10, <1>11, <1>12, <1>13, <1>14, <1>15, <1>16, <1>17
     DEF Next, GroundLora, PadLora, Sides

-----------------------------------------------------------------------------
(* The fixes.                                                              *)

(* The radio and the listeners leave what the receiver has alone.          *)
LEMMA WhoHasFixes ==
  ASSUME [Next]_vars
  PROVE  \/ gnssCallback \/ CopyTime \/ CopyLatitude \/ CopyLongitude \/ SendRecord \/ WriteRecord
         \/ CopyCoordinates \/ SendCoordinates \/ Clear \/ UNCHANGED receiver
<1>1. Ask \/ Purge \/ GroundTransmit \/ PassOn \/ ReadTransmitQueue \/ Command \/ DataRequest => UNCHANGED receiver
  BY DEF Ask, Purge, GroundTransmit, PassOn, ReadTransmitQueue, Command, DataRequest
<1>2. \A side : Receive(side) \/ GiveUp(side) => UNCHANGED receiver
  BY DEF Receive, GiveUp
<1>3. \A p : Answer(p) \/ Listen(p) => UNCHANGED receiver
  BY DEF Answer, Listen
<1>4. UNCHANGED vars => UNCHANGED receiver
  BY DEF vars
<1>5. QED
  BY <1>1, <1>2, <1>3, <1>4 DEF Next, GroundLora, PadLora

(* Parts of a fix are copied in turn, and the callback comes in between or *)
(* does not.                                                               *)
LEMMA CopyStep == TypeOK /\ FixIsCopied /\ [Next]_vars => FixIsCopied'
<1> SUFFICES ASSUME TypeOK, FixIsCopied, [Next]_vars PROVE FixIsCopied'
  OBVIOUS
<1>l. logData \in [time : Nat, latitude : Nat, longitude : Nat]
  BY DEF TypeOK
<1>1. CASE gnssCallback
  BY <1>1 DEF gnssCallback, FixIsCopied
<1>2. CASE CopyTime
  BY <1>2 DEF CopyTime, Copy, Whole, FixIsCopied
<1>3. CASE CopyLatitude
  BY <1>3, <1>l DEF CopyLatitude, Copy, FixIsCopied
<1>4. CASE CopyLongitude
  BY <1>4, <1>l DEF CopyLongitude, Copy, FixIsCopied
<1>5. CASE SendRecord \/ CopyCoordinates \/ SendCoordinates \/ Clear
  BY <1>5 DEF SendRecord, CopyCoordinates, SendCoordinates, Clear, FixIsCopied
<1>6. CASE WriteRecord \/ UNCHANGED receiver
  BY <1>6 DEF WriteRecord, receiver, FixIsCopied
<1>7. QED
  BY <1>1, <1>2, <1>3, <1>4, <1>5, <1>6, WhoHasFixes

(* A record that was copied at one go is that of the latest fix.           *)
LEMMA FixStep == TypeOK /\ FixIsCopied /\ FixIsHanded /\ [Next]_vars => FixIsHanded'
<1> SUFFICES ASSUME TypeOK, FixIsCopied, FixIsHanded, [Next]_vars PROVE FixIsHanded'
  OBVIOUS
<1>1. CASE gnssCallback
  BY <1>1 DEF gnssCallback, FixIsHanded
<1>2. CASE CopyTime \/ CopyLatitude \/ CopyLongitude
  BY <1>2 DEF CopyTime, CopyLatitude, CopyLongitude, Copy, FixIsHanded
<1>3. CASE SendRecord
  <2>1. /\ gnss = "log" /\ gnss' = "broadcast" /\ raced' = raced /\ fix' = fix
        /\ refused' \/ handed' = logData
    BY <1>3 DEF SendRecord, Logged
  <2>2. raced \/ logData = Whole(fix)
    <3>1. logData = [time |-> logData.time, latitude |-> logData.latitude, longitude |-> logData.longitude]
      BY DEF TypeOK
    <3>2. QED
      BY <2>1, <3>1 DEF FixIsCopied, Whole
  <2>3. QED
    BY <2>1, <2>2 DEF FixIsHanded, Whole
<1>4. CASE CopyCoordinates \/ SendCoordinates \/ Clear
  BY <1>4 DEF CopyCoordinates, SendCoordinates, Clear, FixIsHanded, Whole
<1>5. CASE WriteRecord \/ UNCHANGED receiver
  BY <1>5 DEF WriteRecord, receiver, FixIsHanded, Whole
<1>6. QED
  BY <1>1, <1>2, <1>3, <1>4, <1>5, WhoHasFixes

-----------------------------------------------------------------------------
(* The commands and the statuses.                                          *)

(* A packet that comes to the ground, or goes to the pad, says nothing of  *)
(* the commands the pad has heard.                                         *)
LEMMA CommandsStep == TypeOK /\ CommandsInOrder /\ [Next]_vars => CommandsInOrder'
<1> SUFFICES ASSUME TypeOK, CommandsInOrder, [Next]_vars PROVE CommandsInOrder'
  OBVIOUS
<1>t. /\ queue \in [Sides -> Seq(Samples \cup Questions)] /\ queue["ground"] \in Seq(Questions)
      /\ pins \in Nat /\ asked \in Nat
      /\ air["pad"] \in Questions \cup {None} /\ air \in [Sides -> Samples \cup Questions \cup Statuses \cup {None}]
  <2>1. MaxAsked \in Nat
    BY RadioAssumption
  <2>2. QED
    BY <2>1 DEF TypeOK
<1>h. Heard \in Nat /\ pins <= Heard /\ Heard <= asked /\ Between(queue["ground"], "command", Heard, asked)
  <2>1. Heard \in Nat
    BY <1>t DEF Heard, Questions, None
  <2>2. QED
    BY <2>1 DEF CommandsInOrder
<1>s. ASSUME queue'["ground"] = queue["ground"], UNCHANGED <<pins, asked>>, air'["pad"] = air["pad"] PROVE CommandsInOrder'
  BY <1>s DEF CommandsInOrder, Heard
<1>1. CASE Ask
  <2>1. PICK message \in {[port |-> "command", n |-> asked + 1]} \cup [port : {"request"}, n : Requests] :
          queue' = [queue EXCEPT !["ground"] = Put("ground", message)]
    BY <1>1 DEF Ask
  <2>2. PICK m : m = message
    OBVIOUS
  <2>3. m.port = "command" => m.n = asked + 1
    BY <2>1, <2>2
  <2>4. asked + 1 \in Nat /\ asked <= asked + 1 /\ Heard <= asked + 1 /\ asked' = asked + 1 /\ Heard' = Heard
    BY <1>1, <1>t, <1>h DEF Ask, Heard
  <2>5. Between(Append(queue["ground"], m), "command", Heard, asked + 1)
    <3>1. m.port = "command" => m.n \in Nat /\ Heard <= m.n /\ asked <= m.n /\ m.n <= asked + 1
      BY <1>t, <2>3, <2>4
    <3>2. QED
      BY <1>t, <1>h, <2>4, <3>1, BetweenAppend
  <2>6. Between(queue["ground"], "command", Heard, asked + 1)
    <3>1. Heard..asked \subseteq Heard..(asked + 1)
      BY <1>t, <1>h
    <3>2. QED
      BY <1>h, <3>1 DEF Between
  <2>7. queue'["ground"] = queue["ground"] \/ queue'["ground"] = Append(queue["ground"], m)
    BY <1>t, <2>1, <2>2 DEF Put, Sides
  <2>8. Between(queue'["ground"], "command", Heard, asked + 1)
    BY <2>5, <2>6, <2>7
  <2>9. pins' = pins
    BY <1>1 DEF Ask
  <2>10. QED
    BY <1>h, <2>4, <2>8, <2>9 DEF CommandsInOrder
<1>2. CASE Purge
  <2>1. queue'["ground"] = <<>> /\ pins' = pins /\ asked' = asked /\ Heard' = Heard
    BY <1>2, <1>t DEF Purge, Heard, Sides
  <2>2. QED
    BY <1>h, <2>1, BetweenEmpty DEF CommandsInOrder
<1>3. CASE GroundTransmit
  <2>1. CASE queue["ground"] = <<>>
    BY <1>3, <1>s, <2>1 DEF GroundTransmit
  <2>2. CASE queue["ground"] # <<>>
    <3> DEFINE m == Head(queue["ground"])
               rest == Tail(queue["ground"])
               low == IF m.port = "command" THEN m.n ELSE Heard
    <3>1. /\ Between(rest, "command", low, asked)
          /\ m.port = "command" => m.n \in Heard..asked
      BY <1>t, <1>h, <2>2, BetweenTail
    <3>2. /\ air' = air \/ (air["pad"] = None /\ air' = [air EXCEPT !["pad"] = m])
          /\ queue'["ground"] = rest /\ pins' = pins /\ asked' = asked
      <4>1. /\ TransmitSynchronous("ground", m)
            /\ queue' = [queue EXCEPT !["ground"] = Taken(queue["ground"])] /\ pins' = pins /\ asked' = asked
        BY <1>3, <2>2 DEF GroundTransmit
      <4>2. air' = air \/ (air["pad"] = None /\ air' = [air EXCEPT !["pad"] = m])
        BY <4>1, Transmitted DEF Sides, Other
      <4>3. QED
        BY <1>t, <4>1, <4>2 DEF Taken, Sides
    <3>3. Between(rest, "command", Heard, asked)
      BY <1>h, <3>1 DEF Between
    <3>4. CASE air' = air
      <4>1. Heard' = Heard
        BY <3>2, <3>4 DEF Heard
      <4>2. QED
        BY <1>h, <3>2, <3>3, <4>1 DEF CommandsInOrder
    <3>5. CASE air["pad"] = None /\ air' = [air EXCEPT !["pad"] = m]
      <4>1. Heard = pins
        BY <3>5 DEF Heard, None
      <4>2. Heard' = low
        BY <1>t, <3>2, <3>5, <4>1 DEF Heard, Sides
      <4>3. pins <= low /\ low <= asked
        BY <1>t, <1>h, <3>1, <4>1
      <4>4. QED
        BY <3>1, <3>2, <4>2, <4>3 DEF CommandsInOrder
    <3>6. QED
      BY <3>2, <3>4, <3>5
  <2>3. QED
    BY <2>1, <2>2
<1>4. CASE Command
  <2>1. /\ air["pad"].port = "command" /\ pins' = air["pad"].n /\ asked' = asked /\ queue' = queue
        /\ air'["pad"] = None
    BY <1>4, <1>t DEF Command, Sides
  <2>2. pins' = Heard /\ Heard' = Heard
    BY <2>1 DEF Heard, None
  <2>3. QED
    BY <1>h, <2>1, <2>2 DEF CommandsInOrder
<1>5. CASE DataRequest
  <2>1. /\ air["pad"].port = "request" /\ pins' = pins /\ asked' = asked /\ queue' = queue
        /\ air'["pad"] = None
    BY <1>5, <1>t DEF DataRequest, Sides
  <2>2. Heard = pins /\ Heard' = pins
    BY <2>1 DEF Heard, None
  <2>3. QED
    BY <1>h, <2>1, <2>2 DEF CommandsInOrder
<1>6. ASSUME NEW p \in Ports, Answer(p) PROVE CommandsInOrder'
  <2>1. air'["pad"] = air["pad"]
    <3>1. CASE portDataMap[p] = 0
      BY <1>6, <3>1 DEF Answer
    <3>2. CASE portDataMap[p] # 0
      <4>1. TransmitSynchronous("pad", [port |-> p, n |-> portDataMap[p]])
        BY <1>6, <3>2 DEF Answer
      <4>2. air' = air \/ air' = [air EXCEPT !["ground"] = [port |-> p, n |-> portDataMap[p]]]
        BY <4>1, Transmitted DEF Sides, Other
      <4>3. QED
        BY <1>t, <4>2 DEF Sides
    <3>3. QED
      BY <3>1, <3>2
  <2>2. QED
    BY <1>6, <1>s, <2>1 DEF Answer
<1>7. CASE PassOn
  <2>1. air'["pad"] = air["pad"]
    BY <1>7, <1>t DEF PassOn
  <2>2. QED
    BY <1>7, <1>s, <2>1 DEF PassOn
<1>8. ASSUME NEW p \in Listened, Listen(p) PROVE CommandsInOrder'
  <2>1. queue'["ground"] = queue["ground"]
    BY <1>8, <1>t DEF Listen
  <2>2. QED
    BY <1>8, <1>s, <2>1 DEF Listen
<1>9. CASE SendCoordinates
  <2>1. queue'["ground"] = queue["ground"]
    BY <1>9, <1>t DEF SendCoordinates, Sides
  <2>2. QED
    BY <1>9, <1>s, <2>1 DEF SendCoordinates
<1>10. CASE ReadTransmitQueue
  <2>1. queue'["ground"] = queue["ground"]
    BY <1>10, <1>t DEF ReadTransmitQueue, Sides
  <2>2. QED
    BY <1>10, <1>s, <2>1 DEF ReadTransmitQueue
<1>11. ASSUME NEW side, Receive(side) \/ GiveUp(side) PROVE CommandsInOrder'
  BY <1>11, <1>s DEF Receive, GiveUp
<1>12. CASE gnssCallback \/ SendRecord \/ WriteRecord \/ CopyCoordinates \/ Clear \/ UNCHANGED vars
  BY <1>12, <1>s DEF gnssCallback, SendRecord, WriteRecord, CopyCoordinates, Clear, vars, task
<1>12a. CASE CopyTime \/ CopyLatitude \/ CopyLongitude
  BY <1>12a, <1>s DEF CopyTime, CopyLatitude, CopyLongitude, Copy, task
<1>13. QED
  BY <1>1, <1>2, <1>3, <1>4, <1>5, <1>6, <1>7, <1>8, <1>9, <1>10, <1>11, <1>12, <1>12a DEF Next, GroundLora, PadLora

-----------------------------------------------------------------------------
(* The samples.                                                            *)

(* Only these steps change the queue of the pad, what it keeps or what the *)
(* modules and the GNSS have made.                                         *)
samples == <<queue["pad"], portDataMap, made, broadcastData>>

LEMMA WhoMakesSamples ==
  ASSUME TypeOK, [Next]_vars
  PROVE  CopyCoordinates \/ SendCoordinates \/ ReadTransmitQueue \/ (\E p \in Listened : Listen(p)) \/ UNCHANGED samples
<1>1. queue \in [Sides -> Seq(Samples \cup Questions)]
  BY DEF TypeOK
<1>2. CASE Ask \/ Purge
  BY <1>1, <1>2 DEF Ask, Purge, samples, Sides, receiver
<1>3. CASE GroundTransmit
  BY <1>1, <1>3 DEF GroundTransmit, samples, Sides, receiver
<1>4. CASE PassOn \/ Command \/ DataRequest
  BY <1>4 DEF PassOn, Command, DataRequest, samples, receiver
<1>5. ASSUME NEW side, Receive(side) \/ GiveUp(side) PROVE UNCHANGED samples
  BY <1>5 DEF Receive, GiveUp, samples, receiver
<1>6. ASSUME NEW p, Answer(p) PROVE UNCHANGED samples
  BY <1>6 DEF Answer, samples, receiver
<1>7. CASE gnssCallback \/ SendRecord \/ WriteRecord \/ Clear \/ UNCHANGED vars
  BY <1>7 DEF gnssCallback, SendRecord, WriteRecord, Clear, vars, task, receiver, samples
<1>7a. CASE CopyTime \/ CopyLatitude \/ CopyLongitude
  BY <1>7a DEF CopyTime, CopyLatitude, CopyLongitude, Copy, task, samples
<1>8. QED
  BY <1>2, <1>3, <1>4, <1>5, <1>6, <1>7, <1>7a DEF Next, GroundLora, PadLora

(* A sample joins the queue of the pad behind those of its port.           *)
LEMMA SamplesStep == TypeOK /\ SamplesInOrder /\ [Next]_vars => SamplesInOrder'
<1> SUFFICES ASSUME TypeOK, SamplesInOrder, [Next]_vars, NEW p \in Ports
             PROVE  portDataMap'[p] <= Latest(p)' /\ Between(queue'["pad"], p, portDataMap'[p], Latest(p)')
  BY DEF SamplesInOrder
<1>t. /\ queue \in [Sides -> Seq(Samples \cup Questions)] /\ queue["pad"] \in Seq(Samples)
      /\ portDataMap \in [Ports -> Nat] /\ fix \in Nat /\ broadcastData \in 0..fix /\ made \in [Listened -> Nat]
  <2>1. MaxSamples \in Nat /\ MaxFixes \in Nat
    BY RadioAssumption
  <2>2. QED
    BY <2>1 DEF TypeOK
<1>d. portDataMap[p] \in Nat /\ Latest(p) \in Nat
  BY <1>t DEF Latest, Ports
<1>h. portDataMap[p] <= Latest(p) /\ Between(queue["pad"], p, portDataMap[p], Latest(p))
  BY DEF SamplesInOrder
<1>g. Gnss \notin Listened
  BY RadioAssumption
<1>w. ASSUME NEW high \in Nat, Latest(p) <= high PROVE Between(queue["pad"], p, portDataMap[p], high)
  BY <1>d, <1>h, <1>w DEF Between
<1>1. CASE CopyCoordinates
  <2>1. queue' = queue /\ portDataMap' = portDataMap /\ made' = made /\ broadcastData' = fix
    BY <1>1, <1>t DEF CopyCoordinates, task
  <2>2. Latest(p)' \in Nat /\ Latest(p) <= Latest(p)'
    BY <2>1, <1>t, <1>d DEF Latest, Ports
  <2>3. QED
    BY <1>d, <1>h, <1>w, <2>1, <2>2
<1>2. CASE SendCoordinates
  <2>1. /\ portDataMap' = portDataMap /\ Latest(p)' = Latest(p)
        /\ queue' = [queue EXCEPT !["pad"] = Put("pad", [port |-> Gnss, n |-> broadcastData])]
    BY <1>2 DEF SendCoordinates, Latest
  <2>2. Between(Append(queue["pad"], [port |-> Gnss, n |-> broadcastData]), p, portDataMap[p], Latest(p))
    <3>1. PICK m : m = [port |-> Gnss, n |-> broadcastData]
      OBVIOUS
    <3>2. m.port = p => m.n \in Nat /\ portDataMap[p] <= m.n /\ Latest(p) <= m.n /\ m.n <= Latest(p)
      BY <1>t, <1>d, <1>h, <3>1 DEF Latest
    <3>3. Latest(p) <= Latest(p)
      BY <1>d
    <3>4. Between(Append(queue["pad"], m), p, portDataMap[p], Latest(p))
      BY <1>t, <1>d, <1>h, <3>2, <3>3, BetweenAppend
    <3>5. QED
      BY <3>1, <3>4
  <2>3. queue'["pad"] = queue["pad"] \/ queue'["pad"] = Append(queue["pad"], [port |-> Gnss, n |-> broadcastData])
    BY <1>t, <2>1 DEF Put, Sides
  <2>4. QED
    BY <1>h, <2>1, <2>2, <2>3
<1>3. CASE ReadTransmitQueue
  <2>0. made' = made /\ broadcastData' = broadcastData /\ Latest(p)' = Latest(p)
    BY <1>3 DEF ReadTransmitQueue, Latest, receiver
  <2>1. CASE queue["pad"] = <<>>
    BY <1>3, <1>h, <2>0, <2>1 DEF ReadTransmitQueue
  <2>2. CASE queue["pad"] # <<>>
    <3> DEFINE m == Head(queue["pad"])
               rest == Tail(queue["pad"])
    <3>1. /\ Between(rest, p, IF m.port = p THEN m.n ELSE portDataMap[p], Latest(p))
          /\ m.port = p => m.n \in portDataMap[p]..Latest(p)
      BY <1>t, <1>d, <1>h, <2>2, BetweenTail
    <3>2. queue'["pad"] = rest /\ portDataMap' = [portDataMap EXCEPT ![m.port] = m.n]
      BY <1>3, <1>t, <2>2 DEF ReadTransmitQueue, Sides
    <3>3. portDataMap'[p] = IF m.port = p THEN m.n ELSE portDataMap[p]
      BY <1>t, <3>2
    <3>4. portDataMap'[p] <= Latest(p)
      BY <1>d, <1>h, <3>1, <3>3
    <3>5. QED
      BY <2>0, <3>1, <3>2, <3>3, <3>4
  <2>3. QED
    BY <2>1, <2>2
<1>4. ASSUME NEW l \in Listened, Listen(l)
      PROVE  portDataMap'[p] <= Latest(p)' /\ Between(queue'["pad"], p, portDataMap'[p], Latest(p)')
  <2>1. /\ portDataMap' = portDataMap /\ broadcastData' = broadcastData /\ made' = [made EXCEPT ![l] = made[l] + 1]
        /\ queue' = [queue EXCEPT !["pad"] =
             IF Full("pad") THEN <<>> ELSE Put("pad", [port |-> l, n |-> made[l] + 1])]
    BY <1>4 DEF Listen, receiver
  <2>2. /\ Latest(p)' \in Nat /\ Latest(p) <= Latest(p)'
        /\ l = p => made[l] = Latest(p) /\ Latest(p)' = made[l] + 1
    BY <1>t, <1>d, <1>g, <2>1 DEF Latest, Ports
  <2>3. Between(Append(queue["pad"], [port |-> l, n |-> made[l] + 1]), p, portDataMap[p], Latest(p)')
    <3>1. PICK m : m = [port |-> l, n |-> made[l] + 1]
      OBVIOUS
    <3>2. PICK high \in Nat : high = Latest(p)'
      BY <2>2
    <3>3. m.port = p => m.n \in Nat /\ portDataMap[p] <= m.n /\ Latest(p) <= m.n /\ m.n <= high
      BY <1>t, <1>d, <1>h, <2>2, <3>1, <3>2
    <3>4. Latest(p) <= high
      BY <2>2, <3>2
    <3>5. Between(Append(queue["pad"], m), p, portDataMap[p], high)
      BY <1>t, <1>d, <1>h, <3>3, <3>4, BetweenAppend
    <3>6. QED
      BY <3>1, <3>2, <3>5
  <2>4. queue'["pad"] = <<>> \/ queue'["pad"] = Append(queue["pad"], [port |-> l, n |-> made[l] + 1])
    BY <1>t, <2>1 DEF Put, Sides
  <2>5. Between(queue'["pad"], p, portDataMap[p], Latest(p)')
    BY <2>3, <2>4, BetweenEmpty
  <2>6. portDataMap[p] <= Latest(p)'
    BY <1>d, <1>h, <2>2
  <2>7. QED
    BY <2>1, <2>5, <2>6
<1>5. CASE UNCHANGED samples
  <2>1. portDataMap' = portDataMap /\ Latest(p)' = Latest(p) /\ queue'["pad"] = queue["pad"]
    BY <1>5 DEF samples, Latest
  <2>2. QED
    BY <1>h, <2>1
<1>6. QED
  BY <1>1, <1>2, <1>3, <1>4, <1>5, WhoMakesSamples

(* What the pad keeps of a port only gets newer.                           *)
LEMMA KeptForward ==
  ASSUME TypeOK, SamplesInOrder, [Next]_vars, NEW p \in Ports
  PROVE  portDataMap[p] \in Nat /\ portDataMap'[p] \in Nat /\ portDataMap[p] <= portDataMap'[p]
<1>1. portDataMap \in [Ports -> Nat] /\ portDataMap' \in [Ports -> Nat]
  BY StepType DEF TypeOK
<1>2. CASE ReadTransmitQueue /\ queue["pad"] # <<>>
  <2> DEFINE m == Head(queue["pad"])
  <2>1. portDataMap' = [portDataMap EXCEPT ![m.port] = m.n]
    BY <1>2 DEF ReadTransmitQueue
  <2>2. queue["pad"] \in Seq(Samples) /\ Latest(p) \in Nat
    <3>1. MaxSamples \in Nat /\ MaxFixes \in Nat
      BY RadioAssumption
    <3>2. QED
      BY <3>1 DEF TypeOK, Latest, Ports
  <2>3. m.port = p => m.n \in portDataMap[p]..Latest(p)
    BY <1>1, <1>2, <2>2, BetweenTail DEF SamplesInOrder
  <2>4. QED
    BY <1>1, <2>1, <2>3
<1>3. CASE ~(ReadTransmitQueue /\ queue["pad"] # <<>>)
  <2>1. portDataMap' = portDataMap
    BY <1>3, WhoMakesSamples
       DEF CopyCoordinates, SendCoordinates, ReadTransmitQueue, Listen, task, samples
  <2>2. QED
    BY <1>1, <2>1
<1>4. QED
  BY <1>2, <1>3

(* What comes to the ground, or is shown there.                            *)
LEMMA WhoIsHeard ==
  ASSUME TypeOK, [Next]_vars
  PROVE  \/ UNCHANGED <<air["ground"], shown, pins>>
         \/ UNCHANGED <<shown, portDataMap, pins>> /\ air["ground"] = None
            /\ \E p \in Ports : air'["ground"] = [port |-> p, n |-> portDataMap[p]]
         \/ UNCHANGED shown /\ Command /\ air["pad"].n \in Nat
            /\ air'["ground"] \in {air["ground"], Status(air["pad"].n)}
         \/ PassOn /\ pins' = pins /\ air'["ground"] = None
<1>t. /\ air \in [Sides -> Samples \cup Questions \cup Statuses \cup {None}]
      /\ air["pad"] \in Questions \cup {None}
  BY DEF TypeOK
<1>1. ASSUME NEW p \in Ports, Answer(p)
      PROVE  \/ UNCHANGED <<air["ground"], shown, pins>>
             \/ UNCHANGED <<shown, portDataMap, pins>> /\ air["ground"] = None
                /\ air'["ground"] = [port |-> p, n |-> portDataMap[p]]
  <2>1. CASE portDataMap[p] = 0
    BY <1>1, <2>1 DEF Answer, ground
  <2>2. CASE portDataMap[p] # 0
    <3>1. TransmitSynchronous("pad", [port |-> p, n |-> portDataMap[p]])
      BY <1>1, <2>2 DEF Answer
    <3>2. \/ air' = air
          \/ air["ground"] = None /\ air' = [air EXCEPT !["ground"] = [port |-> p, n |-> portDataMap[p]]]
      BY <3>1, Transmitted DEF Sides, Other
    <3>3. QED
      BY <1>1, <1>t, <3>2 DEF Answer, Sides, ground
  <2>3. QED
    BY <2>1, <2>2
<1>2. CASE Command
  <2>1. air["pad"].n \in Nat
    BY <1>2, <1>t, RadioAssumption DEF Command, Questions, None
  <2>2. QED
    <3>1. air'["ground"] \in {air["ground"], Status(air["pad"].n)} /\ UNCHANGED shown
      BY <1>2, <1>t DEF Command, Sides, ground
    <3>2. QED
      BY <1>2, <2>1, <3>1
<1>3. CASE PassOn
  BY <1>3, <1>t DEF PassOn, Sides
<1>4. CASE GroundTransmit
  <2>1. CASE queue["ground"] = <<>>
    BY <1>4, <2>1 DEF GroundTransmit, ground
  <2>2. CASE queue["ground"] # <<>>
    <3>1. TransmitSynchronous("ground", Head(queue["ground"]))
      BY <1>4, <2>2 DEF GroundTransmit
    <3>2. air' = air \/ air' = [air EXCEPT !["pad"] = Head(queue["ground"])]
      BY <3>1, Transmitted DEF Sides, Other
    <3>3. QED
      BY <1>4, <1>t, <3>2 DEF GroundTransmit, Sides, ground
  <2>3. QED
    BY <2>1, <2>2
<1>5. CASE DataRequest
  BY <1>5, <1>t DEF DataRequest, Sides, ground
<1>6. CASE \/ ReadTransmitQueue \/ Ask \/ Purge \/ gnssCallback \/ SendRecord \/ WriteRecord
           \/ CopyCoordinates \/ SendCoordinates \/ Clear \/ UNCHANGED vars
  BY <1>6 DEF ReadTransmitQueue, Ask, Purge, gnssCallback, SendRecord, WriteRecord, CopyCoordinates, SendCoordinates,
              Clear, vars, task, ground
<1>6a. CASE CopyTime \/ CopyLatitude \/ CopyLongitude
  BY <1>6a DEF CopyTime, CopyLatitude, CopyLongitude, Copy, task, ground
<1>7. ASSUME NEW side, Receive(side) \/ GiveUp(side) PROVE UNCHANGED <<air["ground"], shown, pins>>
  BY <1>7 DEF Receive, GiveUp, ground
<1>8. ASSUME NEW p, Listen(p) PROVE UNCHANGED <<air["ground"], shown, pins>>
  BY <1>8 DEF Listen, ground
<1>9. QED
  BY <1>1, <1>2, <1>3, <1>4, <1>5, <1>6, <1>7, <1>8, <1>6a DEF Next, GroundLora, PadLora

(* An answer is what the pad keeps now; nothing older is behind it.        *)
LEMMA ForwardStep ==
  ASSUME TypeOK, SamplesInOrder, SamplesForward, [Next]_vars
  PROVE  SamplesForward' /\ \A p \in Ports : shown'[p].n >= shown[p].n
<1> SUFFICES ASSUME NEW p \in Ports
             PROVE  /\ shown'[p].n <= portDataMap'[p] /\ shown'[p].n >= shown[p].n
                    /\ air'["ground"].port = p => shown'[p].n <= air'["ground"].n /\ air'["ground"].n <= portDataMap'[p]
  BY DEF SamplesForward
<1>k. portDataMap[p] \in Nat /\ portDataMap'[p] \in Nat /\ portDataMap[p] <= portDataMap'[p]
  BY KeptForward
<1>s. /\ shown[p].n \in Nat /\ shown[p].n <= portDataMap[p]
      /\ air["ground"].port = p =>
           air["ground"].n \in Nat /\ shown[p].n <= air["ground"].n /\ air["ground"].n <= portDataMap[p]
  <2>1. p \notin {"none", "response"}
    BY RadioAssumption DEF Ports, Gnss
  <2>2. shown[p] \in Samples \cup {None} /\ air["ground"] \in Samples \cup Statuses \cup {None}
    BY DEF TypeOK
  <2>3. shown[p].n \in Nat /\ (air["ground"].port = p => air["ground"].n \in Nat)
    BY <2>1, <2>2 DEF Samples, Statuses, None
  <2>4. QED
    BY <2>3 DEF SamplesForward
<1>1. CASE UNCHANGED <<air["ground"], shown, pins>>
  BY <1>1, <1>k, <1>s
<1>2. CASE /\ UNCHANGED <<shown, portDataMap, pins>> /\ air["ground"] = None
           /\ \E q \in Ports : air'["ground"] = [port |-> q, n |-> portDataMap[q]]
  BY <1>2, <1>k, <1>s
<1>3. CASE /\ UNCHANGED shown /\ Command /\ air["pad"].n \in Nat
           /\ air'["ground"] \in {air["ground"], Status(air["pad"].n)}
  <2>1. Status(air["pad"].n).port # p
    BY RadioAssumption DEF Status, Ports, Gnss
  <2>2. QED
    BY <1>3, <1>k, <1>s, <2>1
<1>4. CASE PassOn /\ pins' = pins /\ air'["ground"] = None
  <2>1. shown' = [shown EXCEPT ![air["ground"].port] = air["ground"]] /\ portDataMap' = portDataMap
    BY <1>4 DEF PassOn
  <2>2. shown'[p] = IF air["ground"].port = p THEN air["ground"] ELSE shown[p]
    BY <2>1 DEF TypeOK
  <2>3. None.port # p
    BY RadioAssumption DEF None, Ports, Gnss
  <2>4. QED
    BY <1>4, <1>k, <1>s, <2>1, <2>2, <2>3
<1>5. QED
  BY <1>1, <1>2, <1>3, <1>4, WhoIsHeard

(* The pins are set before the status is sent, and by later commands only. *)
LEMMA ToldStep ==
  ASSUME TypeOK, CommandsInOrder, StatusesTold, [Next]_vars
  PROVE  StatusesTold'
<1>a. /\ air["ground"] \in Samples \cup Statuses \cup {None} /\ shown["response"] \in Statuses \cup {None}
      /\ pins \in Nat
  BY DEF TypeOK
<1>b. \A s \in {air["ground"], shown["response"]} : s.port = "response" => s.n = s.to /\ s.to \in Nat /\ s.to <= pins
  BY <1>a, RadioAssumption DEF StatusesTold, Told, Statuses, Samples, Ports, Gnss, None
<1>1. CASE UNCHANGED <<air["ground"], shown, pins>>
  BY <1>1 DEF StatusesTold, Told
<1>2. CASE /\ UNCHANGED <<shown, portDataMap, pins>> /\ air["ground"] = None
           /\ \E q \in Ports : air'["ground"] = [port |-> q, n |-> portDataMap[q]]
  <2>1. "response" \notin Ports
    BY RadioAssumption DEF Ports, Gnss
  <2>2. air'["ground"].port # "response"
    BY <1>2, <2>1
  <2>3. QED
    BY <1>2, <2>2 DEF StatusesTold, Told
<1>3. CASE /\ UNCHANGED shown /\ Command /\ air["pad"].n \in Nat
           /\ air'["ground"] \in {air["ground"], Status(air["pad"].n)}
  <2>1. pins' = air["pad"].n /\ air["pad"].port = "command"
    BY <1>3 DEF Command
  <2>2. pins' \in Nat /\ pins <= pins'
    BY <1>3, <2>1 DEF CommandsInOrder, Heard
  <2>3. Status(air["pad"].n).n = Status(air["pad"].n).to /\ Status(air["pad"].n).to = pins'
    BY <2>1 DEF Status
  <2>4. air'["ground"].port = "response" => air'["ground"].n = air'["ground"].to /\ air'["ground"].to <= pins'
    <3>1. CASE air'["ground"] = air["ground"]
      BY <1>a, <1>b, <2>2, <3>1
    <3>2. CASE air'["ground"] = Status(air["pad"].n)
      BY <2>2, <2>3, <3>2
    <3>3. QED
      BY <1>3, <3>1, <3>2
  <2>5. shown'["response"].port = "response" =>
          shown'["response"].n = shown'["response"].to /\ shown'["response"].to <= pins'
    BY <1>3, <1>a, <1>b, <2>2
  <2>6. QED
    BY <2>4, <2>5 DEF StatusesTold, Told
<1>4. CASE PassOn /\ pins' = pins /\ air'["ground"] = None
  <2>1. shown'["response"] \in {air["ground"], shown["response"]}
    BY <1>4 DEF PassOn, TypeOK
  <2>2. air'["ground"].port # "response"
    BY <1>4 DEF None
  <2>3. QED
    BY <1>4, <1>b, <2>1, <2>2 DEF StatusesTold, Told
<1>5. QED
  BY <1>1, <1>2, <1>3, <1>4, WhoIsHeard

-----------------------------------------------------------------------------
(* What holds of every state and every step, of any ports and sizes.       *)

(* At the start nothing is queued, kept, on the air or shown.              *)
LEMMA InitInv == Init => Inv
<1> SUFFICES ASSUME Init PROVE Inv
  OBVIOUS
<1>1. TypeOK
  BY InitType
<1>2. queue["pad"] = <<>> /\ queue["ground"] = <<>> /\ air["pad"] = None /\ air["ground"] = None
  BY DEF Init, Sides
<1>3. SamplesInOrder
  <2>1. \A p \in Ports : portDataMap[p] = 0 /\ Latest(p) = 0
    BY DEF Init, Latest, Ports
  <2>2. QED
    BY <1>2, <2>1, BetweenEmpty DEF SamplesInOrder
<1>4. CommandsInOrder
  <2>1. Heard = 0 /\ pins = 0 /\ asked = 0
    BY <1>2 DEF Init, Heard, None
  <2>2. QED
    BY <1>2, <2>1, BetweenEmpty DEF CommandsInOrder
<1>5. SamplesForward
  <2>1. \A p \in Ports : portDataMap[p] = 0 /\ shown[p] = None
    BY DEF Init
  <2>2. "none" \notin Ports
    BY RadioAssumption DEF Ports, Gnss
  <2>3. QED
    BY <1>2, <2>1, <2>2 DEF SamplesForward, None
<1>6. StatusesTold
  BY <1>2 DEF Init, StatusesTold, Told, None
<1>7. FixIsCopied /\ FixIsHanded
  BY DEF Init, FixIsCopied, FixIsHanded
<1>8. QED
  BY <1>1, <1>3, <1>4, <1>5, <1>6, <1>7 DEF Inv

LEMMA StepInv == Inv /\ [Next]_vars => Inv'
BY StepType, SamplesStep, CommandsStep, ForwardStep, ToldStep, CopyStep, FixStep DEF Inv

(* Queues in order, answers that are no older than what was shown,         *)
(* statuses that name the pins, and records that are of one fix but for    *)
(* those the callback came into.                                           *)
THEOREM Invariance == Spec => []Inv
<1>1. Init => Inv
  BY InitInv
<1>2. Inv /\ [Next]_vars => Inv'
  BY StepInv
<1>3. QED
  BY <1>1, <1>2, PTL DEF Spec

(* The queues hold samples and questions, no more than they have room for, *)
(* and each side hears what is meant for it.                               *)
THEOREM TypeCorrect == Spec => []TypeOK
<1>1. Inv => TypeOK
  BY DEF Inv
<1>2. QED
  BY <1>1, Invariance, PTL

(* A status the ground was shown names the pins as they are, unless a      *)
(* later command was heard (SetPins before the status, in PadRun).         *)
THEOREM PinsAsToldHolds == Spec => []PinsAsTold
<1>1. Inv => PinsAsTold
  <2> SUFFICES ASSUME Inv, shown["response"] # None, pins # shown["response"].n
               PROVE  shown["response"].to < pins
    BY DEF PinsAsTold
  <2>1. shown["response"] \in Statuses /\ pins \in Nat
    BY DEF Inv, TypeOK
  <2>2. shown["response"].n = shown["response"].to /\ shown["response"].to <= pins
    BY <2>1 DEF Inv, StatusesTold, Told, Statuses
  <2>3. QED
    BY <2>1, <2>2 DEF Statuses
<1>2. QED
  BY <1>1, Invariance, PTL

(* When CGnssTenant::Run is over, no callback came into it, and the queue  *)
(* of the log had room, the latest fix is in that queue, all of it.        *)
THEOREM QuietFixIsLoggedHolds == Spec => []QuietFixIsLogged
<1>1. Inv => QuietFixIsLogged
  BY DEF Inv, FixIsHanded, QuietFixIsLogged
<1>2. QED
  BY <1>1, Invariance, PTL

(* No step shows the ground an older sample of a port than before, though  *)
(* queues are emptied and packets are lost.                                *)
THEOREM ShownForwardHolds == Spec => ShownForward
<1>1. Inv /\ [Next]_vars => [\A p \in Ports : shown'[p].n >= shown[p].n]_vars
  BY ForwardStep DEF Inv
<1>2. QED
  BY <1>1, Invariance, PTL DEF Spec, ShownForward

=============================================================================
