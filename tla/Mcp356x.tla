------------------------------ MODULE Mcp356x ------------------------------
(***************************************************************************)
(* The driver of the MCP356x analogue-digital converter                    *)
(* (drivers/adc/mcp356x/mcp356x.c): one converter behind a multiplexer,    *)
(* and copies of its registers in the driver, by which it tells what it    *)
(* need not write again.  A conversion is the inputs and the gain it was   *)
(* made with.  What a write of a register returns is not looked at.        *)
(***************************************************************************)
EXTENDS Naturals, Sequences, FiniteSetsExt

CONSTANTS
  Channels,      (* channel numbers that are in use, from 0                 *)
  Inputs,        (* pairs of inputs a channel can be of                     *)
  Gains,         (* gain bits                                               *)
  MaxSetups, MaxReads, MaxFaults   (* bounds                                *)

MAX_CHANNELS == 8

(* Pair 0 would be an input against itself, and is what the driver begins  *)
(* with.                                                                   *)
ChannelsAssumption == Channels \in SUBSET (0..(MAX_CHANNELS - 1)) /\ 0 \notin Inputs

VARIABLES
  channel_map,   (* channel -> [mux, gain], or Unset                        *)
  shadow,        (* data->config0, data->mux, the gain bits of data->config2 *)
  chip,          (* the registers                                           *)
  adcdata,       (* what the last conversion that is done was made with     *)
  pc, todo,      (* where read is, and the channels it still has to read    *)
  buffer,        (* what it has read: channel, its entry then, the value    *)
  missed,        (* the registers whose last write failed                   *)
  hasty,         (* whether a wait was over before its conversion was, and  *)
                 (* none has been done since                                *)
  spilled,       (* whether an entry was written behind channel_map         *)
  setups, reads, faults

history == <<missed, hasty, spilled>>
count == <<setups, reads, faults>>
vars == <<channel_map, shadow, chip, adcdata, pc, todo, buffer, history, count>>

Unset == [mux |-> 0, gain |-> 0]
PowerOn == [mux |-> 1, gain |-> 1]
Stopped == "stopped"

Init ==
  /\ channel_map = [c \in Channels |-> Unset]
  /\ shadow = [mode |-> Stopped, mux |-> 0, gain |-> 0]
  /\ chip = [mode |-> Stopped, mux |-> 1, gain |-> 1] /\ adcdata = PowerOn
  /\ pc = "off" /\ todo = {} /\ buffer = <<>>
  /\ missed = {} /\ hasty = FALSE /\ spilled = FALSE
  /\ setups = 0 /\ reads = 0 /\ faults = 0

(* mcp_write_reg_8: a transfer, which may fail.  The copy takes the value  *)
(* either way.                                                             *)
Written(register, value) ==
  /\ shadow' = [shadow EXCEPT ![register] = value]
  /\ \/ /\ chip' = [chip EXCEPT ![register] = value] /\ missed' = missed \ {register}
        /\ UNCHANGED faults
     \/ /\ faults < MaxFaults /\ faults' = faults + 1 /\ missed' = missed \cup {register}
        /\ UNCHANGED chip
Update(register, value) ==
  IF value # shadow[register] THEN Written(register, value) ELSE UNCHANGED <<shadow, chip, missed, faults>>

(* mcp356x_init: every register but the multiplexer is written; of them    *)
(* only the mode and the gain matter here, and with the mode goes          *)
(* CONFIG3, which makes it convert continuously.                           *)
Initialize ==
  /\ \/ pc = "off" /\ pc' = "starting" /\ Written("mode", "continuous")
     \/ pc = "starting" /\ pc' = "idle" /\ Written("gain", 0)
  /\ UNCHANGED <<channel_map, adcdata, todo, buffer, hasty, spilled, setups, reads>>

(* mcp356x_channel_setup; gains and references the chip has not got are    *)
(* refused.  The driver's API does not lock: it is called between reads.   *)
(* Number 8 is let through, and its entry lies over the copies of CONFIG0  *)
(* and of CONFIG2.                                                         *)
ChannelSetup ==
  /\ pc = "idle" /\ setups < MaxSetups /\ setups' = setups + 1
  /\ \E c \in Channels \cup {MAX_CHANNELS}, entry \in [mux : Inputs, gain : Gains] :
       IF c < MAX_CHANNELS
       THEN channel_map' = [channel_map EXCEPT ![c] = entry] /\ UNCHANGED <<shadow, spilled>>
       ELSE /\ shadow' = [shadow EXCEPT !.mode = "overwritten", !.gain = 0] /\ spilled' = TRUE
            /\ UNCHANGED channel_map
  /\ UNCHANGED <<chip, adcdata, pc, todo, buffer, missed, hasty, reads, faults>>

-----------------------------------------------------------------------------
(* mcp356x_read_channel: the channels in turn, lowest first.               *)

Read ==
  /\ pc = "idle" /\ reads < MaxReads /\ reads' = reads + 1
  /\ \E cs \in SUBSET {c \in Channels : channel_map[c] # Unset} : cs # {} /\ todo' = cs
  /\ pc' = "mode" /\ buffer' = <<>>
  /\ UNCHANGED <<channel_map, shadow, chip, adcdata, history, setups, faults>>

HighestFirst(channels) == Max(channels)
First(channels) == Min(channels)
Current == channel_map[First(todo)]

(* The reference is switched on in what the copy says CONFIG0 is; of an    *)
(* entry that lies over it the mode is to be shut down.                    *)
ModeOf(config0) == IF config0 = "overwritten" THEN Stopped ELSE config0

unwritten == <<channel_map, adcdata, todo, buffer, hasty, spilled, setups, reads>>
WriteMode == pc = "mode" /\ pc' = "gain" /\ Update("mode", ModeOf(shadow.mode)) /\ UNCHANGED unwritten
WriteGain == pc = "gain" /\ pc' = "mux" /\ Update("gain", Current.gain) /\ UNCHANGED unwritten

(* Only a change of the multiplexer is waited for.                         *)
NeverWait(changed) == "sample"
Wait(changed) == IF changed THEN "wait" ELSE "sample"

WriteMux ==
  /\ pc = "mux" /\ pc' = Wait(Current.mux # shadow.mux)
  /\ Update("mux", Current.mux) /\ UNCHANGED unwritten

(* The converter converts by itself ...                                    *)
Convert ==
  /\ chip.mode = "continuous"
  /\ adcdata' = [mux |-> chip.mux, gain |-> chip.gain] /\ hasty' = FALSE
  /\ UNCHANGED <<channel_map, shadow, chip, pc, todo, buffer, missed, spilled, count>>

(* ... and may have done so or not when k_usleep(1) is over.               *)
WaitForResult ==
  /\ pc = "wait" /\ pc' = "sample" /\ hasty' = (adcdata.mux # chip.mux)
  /\ UNCHANGED <<channel_map, shadow, chip, adcdata, todo, buffer, missed, spilled, count>>

Sample ==
  /\ pc = "sample"
  /\ buffer' = Append(buffer, [channel |-> First(todo), asked |-> Current, got |-> adcdata,
                               excused |-> hasty \/ "mux" \in missed])
  /\ todo' = todo \ {First(todo)}
  /\ pc' = IF todo' = {} THEN "idle" ELSE "mode"
  /\ UNCHANGED <<channel_map, shadow, chip, adcdata, history, count>>

SampleFails ==
  /\ pc = "sample" /\ faults < MaxFaults /\ faults' = faults + 1
  /\ pc' = "idle" /\ todo' = {}
  /\ UNCHANGED <<channel_map, shadow, chip, adcdata, buffer, history, setups, reads>>

Next == Initialize \/ ChannelSetup \/ Read \/ WriteMode \/ WriteGain \/ WriteMux \/ Convert \/ WaitForResult
        \/ Sample \/ SampleFails

-----------------------------------------------------------------------------
(* A value in the buffer was converted from the inputs of its channel, not *)
(* from those of a channel read before it, in whatever order channels are  *)
(* set up and read, unless the driver did not wait long enough or could    *)
(* not write the multiplexer the last time: a later write makes good what  *)
(* a failed one left.                                                      *)
SampleOfItsInputs == \A i \in DOMAIN buffer : buffer[i].got.mux = buffer[i].asked.mux \/ buffer[i].excused

(* The buffer holds the channels in order without gaps, the first values   *)
(* of the right channels even after an error.                              *)
BufferInOrder ==
  \A i, j \in DOMAIN buffer : i < j => buffer[i].channel < buffer[j].channel

(* A converter that was started goes on converting, unless the write that  *)
(* starts it failed, which is never made good, or an entry lies over the   *)
(* copy of its mode.                                                       *)
KeepsConverting ==
  pc # "off" /\ "mode" \notin missed /\ ~spilled => chip.mode = "continuous"
=============================================================================
