---------------------------- MODULE PowerModule ----------------------------
(***************************************************************************)
(* The power module (app/backplane/power_module): the sensing tenant puts  *)
(* samples on two message ports, from which the broadcast tenant and the   *)
(* data logger tenant take them; the alert tenant tells the sensing tenant *)
(* of boost and landing, which start and stop the logging.                 *)
(*                                                                         *)
(* Three threads of one priority, which yield after every cycle and are    *)
(* sliced: an action is the stretch of a tenant's Run that makes one       *)
(* access to a port, to logData or to the file.  The networking thread     *)
(* runs its tenants in turn; its TFTP tenant is modelled in TftpServer.    *)
(* A sample is its number.                                                 *)
(***************************************************************************)
EXTENDS Naturals, Sequences, FiniteSets, Functions

CONSTANTS
  QueueSize,     (* messages a K_MSGQ holds, 10                             *)
  MaxSamples,    (* bound: samples that are taken                           *)
  MaxFaults,     (* bound: alerts lost or repeated, writes that fail        *)
  MaxRestarts    (* bound: times the power is lost and the module starts    *)

ASSUME PowerAssumption == QueueSize \in Nat \ {0} /\ {MaxSamples, MaxFaults, MaxRestarts} \subseteq Nat

VARIABLES
  taken,         (* samples taken so far, the last one is its number        *)
  sensing,       (* where CSensingTenant::Run is                            *)
  logData,
  dataToBroadcast, dataToLog,   (* the message queues                       *)
  networking,    (* whose turn it is in the networking task                 *)
  message,       (* what the data logger tenant has received, or None       *)
  file,          (* the samples in sensor_data.bin                          *)
  aired,         (* the samples that were broadcast                         *)
  alerts,        (* alert packets under way                                 *)
  announced,     (* alerts that were sent, in order                         *)
  boot,          (* taken when the module started                           *)
  skipped,       (* samples since then that found logData false             *)
  dropped,       (* samples since then that found the log's queue full or   *)
                 (* that the file system refused                            *)
  boosted, landed, (* of the alerts since then, whether one was BOOST and   *)
                 (* whether the last one was LANDED                         *)
  late,          (* samples put on the log's queue while landed             *)
  faults, restarts (* used up of the bounds                                 *)

ports == <<dataToBroadcast, dataToLog>>
told == <<boosted, landed>>
world == <<aired, alerts, announced>>
bounds == <<faults, restarts>>
vars == <<taken, sensing, logData, ports, networking, message, file, world, boot,
          skipped, dropped, told, late, bounds>>

None == 0
Flight == <<"BOOST", "LANDED">>

TypeOK ==
  /\ taken \in 0..MaxSamples /\ boot \in 0..taken
  /\ sensing \in {"run", "broadcast", "check", "log"} /\ (sensing # "run" => boot < taken)
  /\ networking \in {"broadcast", "alert"}
  /\ logData \in BOOLEAN /\ boosted \in BOOLEAN /\ landed \in BOOLEAN
  /\ dataToBroadcast \in Seq(1..taken) /\ dataToLog \in Seq(1..taken)
  /\ file \in Seq(1..taken) /\ aired \in Seq(1..taken)
  /\ Len(dataToBroadcast) <= QueueSize /\ Len(dataToLog) <= QueueSize
  /\ message \in 0..taken
  /\ announced \in 0..2 /\ alerts \subseteq {Flight[i] : i \in 1..announced}
  /\ skipped \subseteq 1..taken /\ dropped \subseteq 1..taken
  /\ late \in Nat /\ faults \in 0..MaxFaults /\ restarts \in 0..MaxRestarts

(* What the constructors of the module and of its tenants set up; the file *)
(* is as it was when it was last closed, which it never is in flight.      *)
Startup ==
  /\ sensing' = "run" /\ logData' = FALSE
  /\ dataToBroadcast' = <<>> /\ dataToLog' = <<>>
  /\ networking' = "broadcast" /\ message' = None /\ file' = <<>>
  /\ boot' = taken /\ skipped' = {} /\ dropped' = {}
  /\ boosted' = FALSE /\ landed' = FALSE /\ late' = 0

Init ==
  /\ taken = 0 /\ sensing = "run" /\ logData = FALSE
  /\ dataToBroadcast = <<>> /\ dataToLog = <<>>
  /\ networking = "broadcast" /\ message = None /\ file = <<>>
  /\ boot = 0 /\ skipped = {} /\ dropped = {}
  /\ boosted = FALSE /\ landed = FALSE /\ late = 0
  /\ aired = <<>> /\ alerts = {} /\ announced = 0
  /\ faults = 0 /\ restarts = 0

Fault == faults < MaxFaults /\ faults' = faults + 1

-----------------------------------------------------------------------------
(* CMsgqMessagePort: k_msgq_put and k_msgq_get.  A Send that waits for     *)
(* some time gives up when the queue is full; until then it has not        *)
(* happened.                                                               *)

(* As if messages were put at the front of the queue. *)
PutFront(queue, m) == <<m>> \o queue

Put(queue, m) == Append(queue, m)

(* As if the comparison were >. *)
FullBeyond(queue) == Len(queue) > QueueSize
Full(queue) == Len(queue) = QueueSize

-----------------------------------------------------------------------------
(* CSensingTenant::Run.                                                    *)

Sense ==
  /\ sensing = "run" /\ taken < MaxSamples
  /\ taken' = taken + 1
  /\ sensing' = "broadcast"
  /\ UNCHANGED <<logData, ports, networking, message, file, world, boot, skipped, dropped,
                 told, late, bounds>>

Broadcast ==
  /\ sensing = "broadcast"
  /\ dataToBroadcast' = IF Full(dataToBroadcast) THEN dataToBroadcast ELSE Put(dataToBroadcast, taken)
  /\ sensing' = "check"
  /\ UNCHANGED <<taken, logData, dataToLog, networking, message, file, world, boot, skipped,
                 dropped, told, late, bounds>>

(* As if logData were not asked for. *)
WantedAlways == TRUE
Wanted == logData

Check ==
  /\ sensing = "check"
  /\ sensing' = IF Wanted THEN "log" ELSE "run"
  /\ skipped' = IF Wanted THEN skipped ELSE skipped \cup {taken}
  /\ UNCHANGED <<taken, logData, ports, networking, message, file, world, boot, dropped,
                 told, late, bounds>>

(* As if a full queue were cleared, as the radio module's listeners do. *)
LogClears ==
  /\ sensing = "log"
  /\ sensing' = "run"
  /\ \/ /\ ~Full(dataToLog)
        /\ dataToLog' = Put(dataToLog, taken)
        /\ late' = IF landed THEN late + 1 ELSE 0
        /\ UNCHANGED dropped
     \/ /\ Full(dataToLog)
        /\ dataToLog' = <<>>
        /\ dropped' = dropped \cup {taken}
        /\ UNCHANGED late
  /\ UNCHANGED <<taken, logData, dataToBroadcast, networking, message, file, world, boot,
                 skipped, told, bounds>>

Log ==
  /\ sensing = "log"
  /\ sensing' = "run"
  /\ \/ /\ ~Full(dataToLog)
        /\ dataToLog' = Put(dataToLog, taken)
        /\ late' = IF landed THEN late + 1 ELSE 0
        /\ UNCHANGED dropped
     \/ /\ Full(dataToLog)
        /\ dropped' = dropped \cup {taken}
        /\ UNCHANGED <<dataToLog, late>>
  /\ UNCHANGED <<taken, logData, dataToBroadcast, networking, message, file, world, boot,
                 skipped, told, bounds>>

SensingStep == Sense \/ Broadcast \/ Check \/ Log

-----------------------------------------------------------------------------
(* The networking task: the broadcast tenant, then the alert tenant.       *)

TransmitMessage ==
  /\ networking = "broadcast" /\ networking' = "alert"
  /\ \/ /\ dataToBroadcast # <<>>
        /\ aired' = Append(aired, Head(dataToBroadcast))
        /\ dataToBroadcast' = Tail(dataToBroadcast)
     \/ /\ dataToBroadcast = <<>>
        /\ UNCHANGED <<aired, dataToBroadcast>>
  /\ UNCHANGED <<taken, sensing, logData, dataToLog, message, file, alerts, announced, boot,
                 skipped, dropped, told, late, bounds>>

(* As if the break after BOOST and the case of LANDED were swapped. *)
NotifyIgnoresLanded(alert) == logData' = (logData \/ alert = "BOOST")

(* CSensingTenant::Notify *)
Notify(alert) == logData' = (alert = "BOOST")

(* CUdpAlertTenant::Run.  A packet may be there once more. *)
ReceiveAlert ==
  /\ networking = "alert" /\ networking' = "broadcast"
  /\ \/ \E alert \in alerts :
          /\ Notify(alert)
          /\ boosted' = (boosted \/ alert = "BOOST")
          /\ landed' = (alert = "LANDED")
          /\ late' = 0
          /\ \/ alerts' = alerts \ {alert} /\ UNCHANGED faults
             \/ UNCHANGED alerts /\ Fault
     \/ UNCHANGED <<logData, told, late, alerts, faults>>
  /\ UNCHANGED <<taken, sensing, ports, message, file, aired, announced, boot, skipped,
                 dropped, restarts>>

NetworkingStep == TransmitMessage \/ ReceiveAlert

-----------------------------------------------------------------------------
(* As if a failed write ended the tenant. *)
ReceiveUntilFailure ==
  /\ dropped = {}
  /\ message = None /\ dataToLog # <<>>
  /\ message' = Head(dataToLog)
  /\ dataToLog' = Tail(dataToLog)
  /\ UNCHANGED <<taken, sensing, logData, dataToBroadcast, networking, file, world, boot,
                 skipped, dropped, told, late, bounds>>

(* CDataLoggerTenant::Run: Receive, then CDataLogger::write at the end of  *)
(* the file.                                                               *)
Receive ==
  /\ message = None /\ dataToLog # <<>>
  /\ message' = Head(dataToLog)
  /\ dataToLog' = Tail(dataToLog)
  /\ UNCHANGED <<taken, sensing, logData, dataToBroadcast, networking, file, world, boot,
                 skipped, dropped, told, late, bounds>>

write ==
  /\ message # None
  /\ \/ /\ file' = Append(file, message)
        /\ UNCHANGED <<dropped, faults>>
     \/ /\ Fault
        /\ dropped' = dropped \cup {message}
        /\ UNCHANGED file
  /\ message' = None
  /\ UNCHANGED <<taken, sensing, logData, ports, networking, world, boot, skipped, told,
                 late, restarts>>

LoggingStep == Receive \/ write

-----------------------------------------------------------------------------
(* Outside the module.                                                     *)

Announce ==
  /\ announced < 2 /\ announced' = announced + 1
  /\ alerts' = alerts \cup {Flight[announced']}
  /\ UNCHANGED <<taken, sensing, logData, ports, networking, message, file, aired, boot,
                 skipped, dropped, told, late, bounds>>

Lose ==
  /\ Fault
  /\ \E alert \in alerts : alerts' = alerts \ {alert}
  /\ UNCHANGED <<taken, sensing, logData, ports, networking, message, file, aired, announced,
                 boot, skipped, dropped, told, late, restarts>>

Restart ==
  /\ restarts < MaxRestarts /\ restarts' = restarts + 1
  /\ Startup
  /\ UNCHANGED <<taken, world, faults>>

Next == SensingStep \/ NetworkingStep \/ LoggingStep \/ Announce \/ Lose \/ Restart

Spec == Init /\ [][Next]_vars

(* Threads of one priority that yield are all scheduled. *)
Fairness == WF_vars(SensingStep) /\ WF_vars(NetworkingStep) /\ WF_vars(LoggingStep)
FairSpec == Spec /\ Fairness

-----------------------------------------------------------------------------
(* Properties.                                                             *)

Increasing(s) == \A i, j \in DOMAIN s : i < j => s[i] < s[j]

(* The samples of S come before those of T. *)
Before(S, T) == \A m \in S, n \in T : m < n

Hand == {message} \ {None}
Sending(where) == IF sensing \in where THEN {taken} ELSE {}

(* Both streams keep the order of the samples and repeat none, on their    *)
(* way through queues that fill up and at every point of the way; what is  *)
(* broadcast does so across restarts too. *)
StreamsInOrder ==
  /\ Increasing(aired) /\ Increasing(dataToBroadcast) /\ Increasing(file) /\ Increasing(dataToLog)
  /\ Before(Range(aired), Range(dataToBroadcast))
  /\ Before(Range(aired) \cup Range(dataToBroadcast), Sending({"broadcast"}))
  /\ Before(Range(file), Hand)
  /\ Before(Range(file) \cup Hand, Range(dataToLog))
  /\ Before(Range(file) \cup Hand \cup Range(dataToLog), Sending({"broadcast", "check", "log"}))

Places == [
  sensing |-> Sending({"broadcast", "check", "log"}), queue |-> Range(dataToLog), hand |-> Hand,
  file |-> Range(file), skipped |-> skipped, dropped |-> dropped]

(* No sample gets lost between the threads: each one taken since the start *)
(* is in exactly one place, and only a full queue, a refused write and     *)
(* logData keep it out of the file. *)
SamplesAccountedFor ==
  \A n \in (boot + 1)..taken :
    \E p \in DOMAIN Places : /\ n \in Places[p]
                             /\ \A q \in DOMAIN Places \ {p} : n \notin Places[q]

(* After landing at most one more sample is logged, the one whose Run had  *)
(* already tested logData when Notify cleared it. *)
LandingStopsLog == landed => late <= 1

(* Nothing is logged before boost, neither at first nor after a restart in *)
(* flight. *)
LogBeginsAtBoost == Range(file) \cup Hand \cup Range(dataToLog) # {} \/ sensing = "log" => boosted

(* The inductive invariant behind these.  Notify(LANDED) leaves logData    *)
(* false, so that the one late sample is that of a Run already past its    *)
(* test; logData is true only after a BOOST.                               *)
LandingInv == landed => /\ ~logData /\ late <= 1
                        /\ sensing = "log" => late = 0
BoostInv == LogBeginsAtBoost /\ (logData => boosted)
IInv == TypeOK /\ StreamsInOrder /\ SamplesAccountedFor /\ LandingInv /\ BoostInv

(* What is on the log's queue gets into the file, whatever the other       *)
(* threads do and although writes fail. *)
QueuedIsWritten ==
  \A n \in 1..MaxSamples :
    n \in Range(dataToLog) ~> n \in Range(file) \cup dropped \/ n <= boot
=============================================================================
