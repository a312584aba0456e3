------------------------------- MODULE Ina260 -------------------------------
(***************************************************************************)
(* The driver of the INA260 power monitor (drivers/sensor/ina260), the     *)
(* simulated shunt (drivers/sensor/simshunt), and CShunt, which reads      *)
(* either.  The load is numbered.  Three registers are read in three       *)
(* transfers, each of which may fail, while the load changes.              *)
(***************************************************************************)
EXTENDS Naturals, Sequences

CONSTANTS
  Modes,         (* modes the device tree can choose: continuous, triggered *)
  MaxLoad, MaxFaults   (* bounds                                            *)

VARIABLES
  mode,          (* or "simulated": the shunt is the simulated one          *)
  load, faults,
  pc, todo,      (* where the thread is, the registers still to be read     *)
  asked,         (* whether it is CShunt that fetches, or a one-channel call *)
  data,          (* ina260_data                                             *)
  began, shuntData, ok

vars == <<mode, load, faults, pc, todo, asked, data, began, shuntData, ok>>

Names == {"voltage", "power", "current"}

Init ==
  /\ mode \in Modes \cup {"simulated"}
  /\ load = 1 /\ faults = 0 /\ pc = (IF mode = "simulated" THEN "idle" ELSE "reset") /\ todo = <<>> /\ asked = "all"
  /\ data = [r \in Names |-> 0] /\ shuntData = [r \in Names |-> 0]
  /\ began = 0 /\ ok = FALSE

Load == load < MaxLoad /\ load' = load + 1 /\ UNCHANGED <<mode, faults, pc, todo, asked, data, began, shuntData, ok>>

(* A transfer may fail. *)
Fault == faults < MaxFaults /\ faults' = faults + 1

(* ina260_init: reset, then configure; CSensorDevice does not ask a device *)
(* that is not ready.                                                      *)
Initialize ==
  /\ pc \in {"reset", "configure"}
  /\ \/ pc' = (IF pc = "reset" THEN "configure" ELSE "idle") /\ UNCHANGED faults
     \/ Fault /\ pc' = "unready"
  /\ UNCHANGED <<mode, load, todo, asked, data, began, shuntData, ok>>

(* The triggered modes are not supported.                                  *)
Refuse ==
  /\ pc = "unready" \/ (pc = "idle" /\ mode = "triggered")
  /\ ok' = FALSE
  /\ UNCHANGED <<mode, load, faults, pc, todo, asked, data, began, shuntData>>

(* The registers sample_fetch reads for a channel, in its order. *)
Registers(chan) == IF chan = "all" THEN <<"voltage", "power", "current">> ELSE <<chan>>

Fetch ==
  /\ pc = "idle" /\ mode = "continuous"
  /\ \E chan \in Names \cup {"all"} : asked' = chan /\ todo' = Registers(chan)
  /\ pc' = "read" /\ began' = load
  /\ UNCHANGED <<mode, load, faults, data, shuntData, ok>>

(* A register that was read is stored at once: an error after it leaves    *)
(* old values and new ones in the data.                                    *)
ReadRegister ==
  /\ pc = "read" /\ todo # <<>>
  /\ data' = [data EXCEPT ![Head(todo)] = load] /\ todo' = Tail(todo)
  /\ UNCHANGED <<mode, load, faults, pc, asked, began, shuntData, ok>>

(* As if CShunt did not look at what the fetch returned. *)
GoOn == <<"read", TRUE>>
Return == <<"idle", FALSE>>

ReadFails ==
  /\ pc = "read" /\ todo # <<>> /\ Fault
  /\ pc' = Return[1] /\ todo' = <<>> /\ ok' = Return[2]
  /\ UNCHANGED <<mode, load, asked, data, began, shuntData>>

(* ina260_channel_get, and CShunt::UpdateSensorValue, which takes the      *)
(* channels over.                                                          *)
ChannelGet == [r \in Names |-> data[r]]

Update ==
  /\ pc = "read" /\ todo = <<>> /\ pc' = "idle"
  /\ IF asked = "all" THEN shuntData' = ChannelGet /\ ok' = TRUE ELSE UNCHANGED <<shuntData, ok>>
  /\ UNCHANGED <<mode, load, faults, todo, asked, data, began>>

(* The simulated shunt has no bus: its channels are what the device tree   *)
(* says.                                                                   *)
SimShunt == [r \in Names |-> 1]

UpdateSimulated ==
  /\ pc = "idle" /\ mode = "simulated" /\ shuntData' = SimShunt /\ ok' = TRUE
  /\ UNCHANGED <<mode, load, faults, pc, todo, asked, data, began>>

Next == UpdateSimulated \/ Load \/ Initialize \/ Refuse \/ Fetch \/ ReadRegister \/ ReadFails \/ Update

-----------------------------------------------------------------------------
(* What CShunt shows was all read in one fetch, in the order of the        *)
(* transfers: a fetch that failed between two registers never shows, nor   *)
(* does a channel that another caller refreshed.                           *)
ShowsOneFetch ==
  shuntData' # shuntData =>
    /\ \A r \in Names : shuntData'[r] >= began
    /\ shuntData'.voltage <= shuntData'.power /\ shuntData'.power <= shuntData'.current
OneFetchShows == [][ShowsOneFetch]_vars
=============================================================================
