----------------------------- MODULE RadioLink -----------------------------
(***************************************************************************)
(* The radio module on the pad and its twin on the ground                  *)
(* (app/backplane/radio_module).  On the pad what modules and the GNSS     *)
(* say is queued for the LoRa task, which keeps the latest of every port,  *)
(* answers the ports it was asked for and then listens; the ground sends   *)
(* commands and requests.  One radio either sends or listens, and a packet *)
(* is lost unless the other side listens and has heard nothing yet.        *)
(*                                                                         *)
(* The flags which would take the tenants from the pad to the flight are   *)
(* static in a header: the tenants' own copies stay false, so only PadRun  *)
(* (and GroundRun) are ever run.                                           *)
(*                                                                         *)
(* What goes over the air is a sample, a command, a request or a status;   *)
(* the ground listens to nothing else, so the pad has nothing to pass on.  *)
(***************************************************************************)
EXTENDS Naturals, Sequences, FiniteSets

CONSTANTS
  Listened,      (* ports of the modules the pad listens to                 *)
  PadQueue, GroundQueue, LogQueue,   (* sizes of the queues: 10             *)
  Requests,      (* the sets of ports the ground may ask for                *)
  MaxSamples, MaxFixes, MaxAsked, MaxFaults   (* bounds                     *)

Gnss == "gnss"
Ports == Listened \cup {Gnss}
Sides == {"pad", "ground"}
Other(side) == IF side = "pad" THEN "ground" ELSE "pad"
None == [port |-> "none", n |-> 0]

(* The names of the ports are told from those of the other packets; what a *)
(* request asks for need not be a port the pad knows.                      *)
ASSUME RadioAssumption ==
  /\ Listened \cap {Gnss, "none", "command", "request", "response"} = {}
  /\ {PadQueue, GroundQueue, LogQueue, MaxSamples, MaxFixes, MaxAsked, MaxFaults} \subseteq Nat

VARIABLES
  queue,         (* side -> loraTransmitPort                                *)
  portDataMap,   (* port -> number of the latest sample, 0 before           *)
  padDataRequestedMap,   (* the ports whose value is true                   *)
  pc,            (* side -> where its LoRa task is                          *)
  air,           (* side -> the packet its radio has received, or None      *)
  tx, radio,     (* side -> config.tx, and what the radio is configured for *)
  pins,          (* the number of the command that set them                 *)
  listener,      (* the ground's listener: "run", or "purge" after a Send   *)
                 (* that failed                                             *)
  fix, gnssUpdated,        (* number of the fix in gnssLogData and in       *)
                           (* coordinates, which gnssCallback wrote last    *)
  gnss, logData, (* where CGnssTenant::Run is, and its copy of the fix      *)
  broadcastData, (* the fix of the coordinates it copied last, or of the    *)
                 (* older part of them                                      *)
  backlog,       (* how many records wait in gnssDataLogQueue               *)
  handed,        (* the record that was put there last                      *)
  raced,         (* whether a fix came between the start and the end of Run *)
  refused,       (* whether there was no room for the last record           *)
  made, asked, faults,               (* counters, for the bounds            *)
  shown,         (* port -> what the ground passed on last                  *)
  destination    (* where it passes everything on to                        *)

task == <<queue, portDataMap, padDataRequestedMap, pc, air, tx, radio, pins>>
receiver == <<fix, gnssUpdated, gnss, logData, broadcastData, backlog, handed, raced, refused>>
ground == <<shown, destination>>
vars == <<task, listener, receiver, ground, made, asked, faults>>

Whole(n) == [time |-> n, latitude |-> n, longitude |-> n]

Init ==
  /\ queue = [s \in Sides |-> <<>>] /\ portDataMap = [p \in Ports |-> 0] /\ padDataRequestedMap = {}
  /\ pc = [s \in Sides |-> "transmit"] /\ air = [s \in Sides |-> None]
  /\ tx = [s \in Sides |-> FALSE] /\ radio = tx /\ pins = 0 /\ listener = "run"
  /\ fix = 0 /\ gnssUpdated = FALSE /\ gnss = "idle" /\ logData = Whole(0) /\ broadcastData = 0
  /\ backlog = 0 /\ handed = logData /\ raced = FALSE /\ refused = FALSE
  /\ made = [p \in Listened |-> 0] /\ asked = 0 /\ faults = 0
  /\ shown = [p \in Ports \cup {"response"} |-> None] /\ destination = "none"

-----------------------------------------------------------------------------
(* The tenants that put messages into the queue.                           *)

(* The pad's processor halts with k_oops.                                  *)
PadRuns == pc["pad"] # "oops"

Full(side) == Len(queue[side]) = (IF side = "pad" THEN PadQueue ELSE GroundQueue)
PutFirst(side, message) == IF Full(side) THEN queue[side] ELSE <<message>> \o queue[side]
Put(side, message) == IF Full(side) THEN queue[side] ELSE Append(queue[side], message)

(* CUdpListenerTenant::Run on the pad: a full queue is emptied.  Its task  *)
(* has a higher priority than the LoRa task.                               *)
Listen(p) ==
  /\ PadRuns /\ made[p] < MaxSamples /\ made' = [made EXCEPT ![p] = @ + 1]
  /\ queue' = [queue EXCEPT !["pad"] =
       IF Full("pad") THEN <<>> ELSE Put("pad", [port |-> p, n |-> made[p] + 1])]
  /\ UNCHANGED <<portDataMap, padDataRequestedMap, pc, air, tx, radio, pins, listener, receiver, ground, asked, faults>>

(* The same on the ground, for a command or a request.  There both tasks   *)
(* have the same priority: what the LoRa task takes in between is not      *)
(* purged.                                                                 *)
Ask ==
  /\ listener = "run" /\ asked < MaxAsked /\ asked' = asked + 1
  /\ \E message \in {[port |-> "command", n |-> asked + 1]} \cup [port : {"request"}, n : Requests] :
       queue' = [queue EXCEPT !["ground"] = Put("ground", message)]
  /\ listener' = IF Full("ground") THEN "purge" ELSE "run"
  /\ UNCHANGED <<portDataMap, padDataRequestedMap, pc, air, tx, radio, pins, receiver, ground, made, faults>>

Purge ==
  /\ listener = "purge" /\ listener' = "run" /\ queue' = [queue EXCEPT !["ground"] = <<>>]
  /\ UNCHANGED <<portDataMap, padDataRequestedMap, pc, air, tx, radio, pins, receiver, ground, made, asked, faults>>

-----------------------------------------------------------------------------
(* The GNSS: the callback, and the tenant which it may interrupt anywhere. *)

gnssCallback ==
  /\ PadRuns /\ fix < MaxFixes /\ fix' = fix + 1 /\ gnssUpdated' = TRUE /\ raced' = (gnss # "idle")
  /\ UNCHANGED <<task, listener, gnss, logData, broadcastData, backlog, handed, refused, ground, made, asked, faults>>

(* A copy of so many bytes is not one step: a record may have the time or  *)
(* the latitude of one fix, and the rest of the next.                      *)
Copy(at, next) ==
  /\ PadRuns /\ gnss = at /\ gnss' = next
  /\ UNCHANGED <<task, listener, fix, gnssUpdated, broadcastData, backlog, handed, raced, refused, ground, made, asked, faults>>

CopyTime == gnssUpdated /\ Copy("idle", "latitude") /\ logData' = [Whole(0) EXCEPT !.time = fix]
CopyLatitude == Copy("latitude", "longitude") /\ logData' = [logData EXCEPT !.latitude = fix]
CopyLongitude == Copy("longitude", "log") /\ logData' = [logData EXCEPT !.longitude = fix]

(* As if the record were sent with the broadcast, every five seconds.      *)
LoggedWithBroadcast(data) == {data, handed}
Logged(data) == {data}

(* Nobody looks at whether there was room.                                 *)
SendRecord ==
  /\ PadRuns /\ gnss = "log" /\ gnss' = "broadcast" /\ refused' = (backlog = LogQueue)
  /\ IF refused' THEN UNCHANGED <<backlog, handed>> ELSE backlog' = backlog + 1 /\ handed' \in Logged(logData)
  /\ UNCHANGED <<task, listener, fix, gnssUpdated, logData, broadcastData, raced, ground, made, asked, faults>>

(* CDataLoggerTenant::Run takes the first record.                          *)
WriteRecord ==
  /\ PadRuns /\ backlog > 0 /\ backlog' = backlog - 1
  /\ UNCHANGED <<task, listener, fix, gnssUpdated, gnss, logData, broadcastData, handed, raced, refused, ground,
                 made, asked, faults>>

(* Every five seconds the coordinates are copied, as they are now, and     *)
(* sent as well.                                                           *)
CopyCoordinates ==
  /\ PadRuns /\ gnss = "broadcast" /\ gnss' = "send" /\ broadcastData' = fix
  /\ UNCHANGED <<task, listener, fix, gnssUpdated, logData, backlog, handed, raced, refused, ground, made, asked, faults>>

SendCoordinates ==
  /\ PadRuns /\ gnss = "send" /\ gnss' = "clear"
  /\ queue' = [queue EXCEPT !["pad"] = Put("pad", [port |-> Gnss, n |-> broadcastData])]
  /\ UNCHANGED <<portDataMap, padDataRequestedMap, pc, air, tx, radio, pins, listener, fix, gnssUpdated, logData,
                 broadcastData, backlog, handed, raced, refused, ground, made, asked, faults>>

Clear ==
  /\ PadRuns /\ gnss \in {"broadcast", "clear"} /\ gnss' = "idle" /\ gnssUpdated' = FALSE /\ logData' = Whole(0)
  /\ UNCHANGED <<task, listener, fix, broadcastData, backlog, handed, raced, refused, ground, made, asked, faults>>

-----------------------------------------------------------------------------
(* CLora: the direction is recorded before lora_config is known to have    *)
(* succeeded, and asked for again only when it is to change.               *)

SetTxRx(side, transmit, works) ==
  /\ tx' = [tx EXCEPT ![side] = transmit]
  /\ IF tx[side] = transmit THEN works /\ UNCHANGED <<radio, faults>>
     ELSE IF works THEN radio' = [radio EXCEPT ![side] = transmit] /\ UNCHANGED faults
     ELSE faults < MaxFaults /\ faults' = faults + 1 /\ UNCHANGED radio

(* A packet comes through if the other side listens with its radio set for *)
(* it, and may be lost then, too.                                          *)
Hears(side) == pc[side] = "listen" /\ air[side] = None /\ ~radio[side]

TransmitSynchronous(side, message) ==
  \E works \in BOOLEAN :
    /\ SetTxRx(side, TRUE, works)
    /\ \/ works /\ Hears(Other(side)) /\ radio'[side] /\ air' = [air EXCEPT ![Other(side)] = message]
       \/ UNCHANGED air

(* readTransmitQueue on the pad, and portDataMap.Set.                      *)
ReadTransmitQueue ==
  /\ pc["pad"] = "transmit" /\ pc' = [pc EXCEPT !["pad"] = "answer"]
  /\ IF queue["pad"] = <<>> THEN UNCHANGED <<queue, portDataMap>>
     ELSE LET message == Head(queue["pad"]) IN
       /\ queue' = [queue EXCEPT !["pad"] = Tail(@)]
       /\ portDataMap' = [portDataMap EXCEPT ![message.port] = message.n]
  /\ UNCHANGED <<padDataRequestedMap, air, tx, radio, pins, listener, receiver, ground, made, asked, faults>>

(* The answers, in the order of the hash map.  A port that has said        *)
(* nothing yet is not transmitted, but not asked for any more either.      *)
NoLongerRequested(port) == padDataRequestedMap \ {port}

Answer(port) ==
  /\ pc["pad"] = "answer" /\ port \in padDataRequestedMap
  /\ padDataRequestedMap' = NoLongerRequested(port)
  /\ IF portDataMap[port] = 0 THEN UNCHANGED <<air, tx, radio, faults>>
     ELSE /\ TransmitSynchronous("pad", [port |-> port, n |-> portDataMap[port]])
  /\ UNCHANGED <<queue, portDataMap, pc, pins, listener, receiver, ground, made, asked>>

(* GroundRun of the transmit tenant takes the next message.                *)
Taken(q) == Tail(q)

GroundTransmit ==
  /\ pc["ground"] = "transmit" /\ pc' = [pc EXCEPT !["ground"] = "answer"]
  /\ IF queue["ground"] = <<>> THEN UNCHANGED <<queue, air, tx, radio, faults>>
     ELSE /\ queue' = [queue EXCEPT !["ground"] = Taken(@)]
          /\ TransmitSynchronous("ground", Head(queue["ground"]))
  /\ UNCHANGED <<portDataMap, padDataRequestedMap, pins, listener, receiver, ground, made, asked>>

(* The receive tenant of either side turns the radio, listens for three    *)
(* seconds, and gives up.                                                  *)
Receive(side) ==
  /\ pc[side] = "answer" /\ (side = "pad" => padDataRequestedMap = {})
  /\ \E works \in BOOLEAN :
       /\ SetTxRx(side, FALSE, works)
       /\ pc' = [pc EXCEPT ![side] = IF works THEN "listen" ELSE "transmit"]
  /\ UNCHANGED <<queue, portDataMap, padDataRequestedMap, air, pins, listener, receiver, ground, made, asked>>

GiveUp(side) ==
  /\ pc[side] = "listen" /\ air[side] = None /\ pc' = [pc EXCEPT ![side] = "transmit"]
  /\ UNCHANGED <<queue, portDataMap, padDataRequestedMap, air, tx, radio, pins, listener, receiver, ground, made, asked, faults>>

(* PadRun: a command sets the pins and is answered with what they are ...  *)
StatusBefore(command) == [port |-> "response", n |-> pins, to |-> command]
Status(command) == [port |-> "response", n |-> pins', to |-> command]

Command ==
  /\ pc["pad"] = "listen" /\ air["pad"].port = "command"
  /\ pins' = air["pad"].n
  /\ \E works \in BOOLEAN :
       /\ SetTxRx("pad", TRUE, works)
       /\ \/ /\ works /\ Hears("ground")
             /\ air' = [pad |-> None, ground |-> Status(air["pad"].n)]
          \/ air' = [air EXCEPT !["pad"] = None]
  /\ pc' = [pc EXCEPT !["pad"] = "transmit"]
  /\ UNCHANGED <<queue, portDataMap, padDataRequestedMap, listener, receiver, ground, made, asked>>

(* ... and what a request asks for is kept for the next round.  A port     *)
(* that is not in the map is fatal.                                        *)
DataRequest ==
  /\ pc["pad"] = "listen" /\ air["pad"].port = "request"
  /\ IF air["pad"].n \subseteq Ports
     THEN padDataRequestedMap' = padDataRequestedMap \cup air["pad"].n /\ pc' = [pc EXCEPT !["pad"] = "transmit"]
     ELSE pc' = [pc EXCEPT !["pad"] = "oops"] /\ UNCHANGED padDataRequestedMap
  /\ air' = [air EXCEPT !["pad"] = None]
  /\ UNCHANGED <<queue, portDataMap, tx, radio, pins, listener, receiver, ground, made, asked, faults>>

(* GroundRun passes on whatever it hears, to the port of the first packet: *)
(* SetDstPort comes too late for the address, which is static.             *)
PassOn ==
  /\ pc["ground"] = "listen" /\ air["ground"] # None
  /\ shown' = [shown EXCEPT ![air["ground"].port] = air["ground"]]
  /\ destination' = IF destination = "none" THEN air["ground"].port ELSE destination
  /\ air' = [air EXCEPT !["ground"] = None] /\ pc' = [pc EXCEPT !["ground"] = "transmit"]
  /\ UNCHANGED <<queue, portDataMap, padDataRequestedMap, tx, radio, pins, listener, receiver, made, asked, faults>>

-----------------------------------------------------------------------------
GroundLora == GroundTransmit \/ Receive("ground") \/ GiveUp("ground") \/ PassOn
PadLora == ReadTransmitQueue \/ Receive("pad") \/ GiveUp("pad") \/ Command \/ DataRequest \/ \E p \in Ports : Answer(p)

Next ==
  \/ Ask \/ Purge
  \/ gnssCallback \/ CopyTime \/ CopyLatitude \/ CopyLongitude \/ SendRecord \/ WriteRecord
  \/ CopyCoordinates \/ SendCoordinates \/ Clear
  \/ GroundLora \/ PadLora \/ \E p \in Listened : Listen(p)

Spec == Init /\ [][Next]_vars

-----------------------------------------------------------------------------
(* What the pad and the ground put into their queues, and statuses.        *)
Samples == [port : Ports, n : Nat]
Questions == [port : {"command"}, n : Nat] \cup [port : {"request"}, n : Requests]
Statuses == [port : {"response"}, n : Nat, to : Nat]

TypeOK ==
  /\ queue \in [Sides -> Seq(Samples \cup Questions)]
  /\ queue["pad"] \in Seq(Samples) /\ Len(queue["pad"]) <= PadQueue
  /\ queue["ground"] \in Seq(Questions) /\ Len(queue["ground"]) <= GroundQueue
  /\ portDataMap \in [Ports -> Nat] /\ padDataRequestedMap \subseteq Ports
  /\ pc \in [Sides -> {"transmit", "answer", "listen", "oops"}]
  /\ air \in [Sides -> Samples \cup Questions \cup Statuses \cup {None}]
  /\ air["pad"] \in Questions \cup {None} /\ air["ground"] \in Samples \cup Statuses \cup {None}
  /\ tx \in [Sides -> BOOLEAN] /\ radio \in [Sides -> BOOLEAN] /\ pins \in Nat /\ listener \in {"run", "purge"}
  /\ fix \in 0..MaxFixes /\ gnssUpdated \in BOOLEAN /\ raced \in BOOLEAN /\ refused \in BOOLEAN
  /\ gnss \in {"idle", "latitude", "longitude", "log", "broadcast", "send", "clear"}
  /\ {logData, handed} \subseteq [time : Nat, latitude : Nat, longitude : Nat]
  /\ broadcastData \in 0..fix /\ backlog \in 0..LogQueue
  /\ made \in [Listened -> 0..MaxSamples] /\ asked \in 0..MaxAsked /\ faults \in 0..MaxFaults
  /\ shown \in [Ports \cup {"response"} -> Samples \cup Statuses \cup {None}]
  /\ \A p \in Ports : shown[p] \in Samples \cup {None}
  /\ shown["response"] \in Statuses \cup {None}
  /\ destination \in Ports \cup {"response", "none"}

(* The ground is never shown an older sample of a port than it was before, *)
(* whatever was lost, purged or refused on the way.                        *)
ShownForward == [][\A p \in Ports : shown'[p].n >= shown[p].n]_vars

(* A status the ground was shown names the pins as they are, unless a      *)
(* later command was heard.                                                *)
PinsAsTold == LET status == shown["response"] IN status # None /\ pins # status.n => status.to < pins

(* When Run is over and no fix interrupted it, the latest fix is in the    *)
(* log's queue, all of it, unless there was no room.                       *)
QuietFixIsLogged == gnss = "idle" /\ ~gnssUpdated /\ ~raced /\ ~refused => handed = Whole(fix)
=============================================================================
