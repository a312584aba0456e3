# A TLA+ model of the backplane flight computer

The repository is the firmware of a rocket's avionics bay: a backplane into which
sensor, radio, power and deployment modules are plugged, every one a Zephyr
application built from the C++ library `f_core`. The modules talk over UDP on an
Ethernet backplane, and the radio module forwards to the ground over LoRa.

This directory holds TLA+ modules translated from that code, the TLC configurations that
check them, and proofs that TLAPS checks, for every module but the conversion of flight data
and the Horus protocol. `PROJECT.json` maps every definition to the lines it stands for and
lists the runs, the hazards and the disagreements found.

## 1. Inventory

| component | where (under `src/`) | state | operations | what makes it correct |
|---|---|---|---|---|
| Phase controller | `include/f_core/flight/c_phase_controller.h` | which sources reported each event, which events occurred, a `k_event`, timers, the flight log | `SubmitEvent`, `HasEventOccured`, `WaitUntilEvent`, timer expiry | no agreement is lost, nothing is announced that was not decided, an event starts its timers, each event is dispatched once |
| Debouncer | `include/f_core/utils/debouncer.hpp` | first and last timestamp of the current run of passing samples | `Feed`, `Passed` | passes exactly when the value has been over for the duration |
| Flight detection | `app/backplane/sensor_module` (`c_detection_handler`, `c_sensing_tenant`, `flight.hpp`) | six debouncers, two line fits, the time of boost | `HandleData` and its three handlers, once per sensing run | phases in order, lockout respected, flight always ends |
| Telemetry path | `c_msgq_message_port.h`, `c_udp_broadcast_tenant.h`, `c_udp_receiver_tenant.h`, `c_datalogger_tenant.h` | message queues of ten, packets, the data file | `Send`, `Receive`, `Clear`, the tenants' `Run` | order of samples kept, log and broadcast each get a prefix-closed stream with only queue-full losses |
| TFTP server | `lib/f_core/net/application/c_tftp_server_tenant.cpp` with `CUdpSocket`, `CFile` | one transfer: block, offset, size | `Run`, `handleReadRequest`, `waitForAck` | a client that is done has the file; a request ends |
| Radio module | `app/backplane/radio_module` with `c_pad_flight_landing_state_machine.h`, `c_lora.cpp` | the broadcast queue, the maps of latest and requested data, the phase flags, the shut-off timer | listener, GNSS, LoRa transmit and receive tenants, the state updater | phases agree across tenants, requests are answered, newest data wins, cameras go off once |
| Alerts and power | `c_udp_alert_tenant.cpp`, `power_module` | observers, an alert per event | `Subscribe`, `Run`, `Notify` | every observer sees every alert in order |
| Tasks and RTOS | `c_task.cpp`, `n_rtos.cpp`, `c_tenant.h` | tasks, their tenants, running threads | `StartRtos`, `StopRtos`, the task loop | no tenant runs before start-up or after clean-up |
| Storage | `c_datalogger.cpp`, `flight_log.cpp`, `c_file.cpp`, `c_sensor_module.cpp` | files, the name of the flight log | `Write`, `Sync`, name generation | the parts of a line keep their order around interrupts, a log is not written over by a later flight |
| Containers | `c_hashmap.h`, `c_soft_timer.h`, `circular_buffer.hpp`, `linear_fit.hpp` | counts, indices | `Insert`, `Set`, `Remove`; `StartTimer`, `IsExpired`; `Add`, `FindSlope` | counts match contents, indices stay inside |
| Horus protocol | `lib/f_core/radio/protocols/horus` | none (pure) | encode, decode, Golay, CRC | decode inverts encode, up to three bit errors in a word, and a burst over words, are corrected |
| Sensor drivers | `drivers/` with the sensor classes of `f_core` | calibration, settings, copies of registers, replay position | `init`, `sample_fetch`, `channel_get`, `attr_set`, `channel_setup`, `read` | a value shown is of the quantity, the inputs, the moment and the settings it is shown for; a replay shows the flight at its time |
| Deployment module | `app/backplane/deployment_module` | none of its own | starts tenants | as those tenants |
| launch_core_classic | `lib/launch_core_classic` | the boot counter, frame files | `l_fs_boot_count_check`, `l_fs_init`, `l_fs_write` | a boot is counted once, frames are whole and without gaps |
| Retired applications | `app/**/.retired`, of them `app_grim_reefer` | ring buffers of readings, flags of the flight, queues, files, the camera pin | detectors, a state machine, reading and storage threads | a launch is detected when there is one, what led to it is saved where it can be, a flight ends with its files closed |

### How the components interact

* A **task** (`CTask`) is one thread that runs the `Run` of its **tenants** in
  turn, for ever; tenants of one task never interleave, tenants of different tasks
  do, by priority and preemption on one core.
* The sensing tenant fills a telemetry record, hands it to the detection handler
  by call, and to the broadcast and logging tenants through two **message queues**.
* The detection handler calls the **phase controller**, whose `k_timer` expiry
  callbacks call it again from **interrupt context**. Waiting threads are woken by
  a `k_event`.
* The broadcast tenant and the alert tenant **broadcast UDP**; the radio module's
  listeners put what they receive on one queue for the LoRa tenant; alerts go to
  **observers** by callback. The TFTP server reads files that the loggers write.

### What is hard about it

1. `SubmitEvent` takes no lock and is run by threads and interrupts alike.
2. Timestamps are `uint32_t`, wrap, and one value doubles as a mark.
3. Timers (lockout, last resort) fall anywhere into a run of the handler, and
   barometers lie during the burn.
4. UDP loses, repeats and reorders; the TFTP server is the only component with an
   acknowledged protocol and has no working time-out.
5. Function-local and header statics give shared state where per-object state was
   meant, and the reverse.
6. Queues are of ten and are purged or refused when full.
7. Devices fail for one reading and keep the last value; drivers keep copies of
   registers and settings that another thread may change between two transfers.
8. `logData` of the power module is shared by two threads without a lock; its alerts
   come by UDP, its file is closed by nothing but `Cleanup`, and power may be lost.
9. Files are opened at their beginning without being emptied, rarely synchronised, and
   what a power cycle finds depends on which calls came before it.
10. The radio is half duplex and both ends decide by time-outs when to listen.

Each is in `PROJECT.json` under `hazards`, with its line and the property for it.

## 2. The plan

Ordered by how much depends on the component. All of the modules are here; the last
column says what is proved of them (section 6).

| # | modules | abstract specification / composition | runs | theorems |
|---|---|---|---|---|
| 1 | `FlightEvents`, `PhaseController`, `PhaseControllerProofs` | `PhaseController` implements `FlightEvents` | `controller`, `controller_twice` | all safety and the refinement |
| 2 | `Debouncer`, `DebouncerFeed`, `LibraryProofs` | feed against real time | `drivers` | all: `NeverEarly`, `PassesUnlessMarked` |
| 3 | `FlightDetection`, `FlightDetectionProofs` | composes `PhaseController` and `Debouncer` | `flight`, `flight_third_timer` | all safety: `PhasesInOrder`, `BoostTimeIsKnown` |
| 4 | `TftpServer`, `TftpServerProofs` | server, network and clients | `tftp`, `tftp_timeout`, `tftp_port` | all safety: `AckedIsReceived`, `CompleteIsExact` |
| 5 | `PowerModule`, `PowerModuleProofs` | ports, broadcast, alert and data logger tenants of one module | `power` | all safety |
| 6 | `RadioLink`, `RadioLinkProofs` | pad and ground with the radio between them | `radio` | all: `PinsAsTold`, `QuietFixIsLogged`, `ShownForward` |
| 7 | `Rtos`, `LibraryProofs` | tasks, tenants and `main` | `drivers` | `TasksLiveOnce` |
| 8 | `BootCount`, `DataLogger`, `FlightLog`, `SensorLog`, `StorageProofs` | files over power cycles | `storage` | all: `CountsClosedBoots`, `NewOverOld`, `LogsKeptWhole`, `FramesLeftWhole` |
| 9 | `RollingSum`, `Golay`, `Horus`, `HorusLink` | functions against their reference definitions | `drivers` | `FitsTheLatest` |
| 10 | `OpenRocket`, `OrkConversion`, `Ms5611`, `Mcp356x`, `Ina260`, `Adxl375`, `DriversProofs` | driver, device and the class that reads it | `drivers` | all but `FieldsMeetMembers`: `ReplaysTheFlight`, `FreshWhenOk`, `SampleOfItsInputs`, `UpdatesAreWhole` |
| 11 | `BoostDetect`, `GrimReefer` | launch detection; the flight from power-on to closed files | `storage`, `storage_finish` | all safety: `LaunchIsSaved`, `RecordsAccountedFor` |

Every module takes its sets and bounds as `CONSTANTS`, has one action per operation or
access, and declares no `RECURSIVE` operator, so that each can be proved about.
Every invariant that a run checks is a theorem, but for `DecodedAsSent` and
`FieldsMeetMembers`, and so are the refinement and the two properties of steps; liveness
is model-checked (the end of section 6 says why). What is left unmodelled is in section 7.

## 3. The modules and the code

### FlightEvents, PhaseController

`FlightEvents` is what a phase controller promises: a source reports, an event
occurs when its decision function accepts the sources reported so far and only
then, it never un-occurs, and a timer reports only after the event that starts it.

`PhaseController` is `CPhaseController`. Its arrays are the variables
`sourceStates`, `eventStates` (a set of events instead of an array of booleans) and
`timers`; `osEvents` are the bits of the `k_event`; `logged` and `confirmed` are the
lines of the flight log as far as the properties tell them apart. `SubmitEvent` is
seven program points, one per access to shared state, in the order of the code:

| action | code |
|---|---|
| `Submit` | `sourceStates[event][source] = true` |
| `Decide` | the decision function |
| `Check` | `last_state = eventStates[event]` |
| `Dispatch` | `eventStates[event] = true` |
| `Post` | `k_event_post` |
| `StartTimer`, `TimersStarted` | one turn of the loop over `timer_events`, and its end |
| `LogSourceEvent`, `LogEventConfirmed` | the two kinds of line |

The expiry callback runs the same `SubmitEvent` in interrupt context, where no
thread of the single core can run before it returns: `TimerExpiry` is one action.
`WaitUntilEvent` is entered with or without a time-out; a wait that times out can do
so at any moment. Threads call in any order, as the three threads of the
`phase_detection` sample do.

### Debouncer, DebouncerFeed

`Debouncer` has `CDebouncer` as a record and `Feed` and `Passed` as operators over
timestamps modulo `TimestampMod`, with the mark `NOT_PASSED` for the largest one.
`DebouncerFeed` feeds it at growing real times and remembers, in `since`, when the
run of passing samples really began.

### FlightDetection

`CSensingTenant::Run` as far as detection goes, `HandleData` and its handlers. The
module instantiates `PhaseController` with one thread, the events, sources, deciders
and timers of `flight.hpp`, and `Debouncer` for the six detectors. Between any two
of the handler's tests time may pass and a timer may interrupt, so each
`if (detector.Passed() && ... && ok) SubmitEvent(...)` is an action (`SubmitIf`).

Readings are abstracted to what the thresholds tell apart: acceleration over the
threshold or not, velocity fast upwards, slow, fast downwards or none (the line fit
would have divided by zero), and whether the device answered. A device that fails
keeps its last value, so the value of a failed reading is arbitrary. The third,
zero-initialised element of `timer_events` is modelled as the timer it is.

`deadline` gives each timer its time; `Tick` waits while a timer is due.

### TftpServer

`CTftpServerTenant` with the parts of `CUdpSocket` and `CFile` it uses, a network
that loses, repeats and reorders, and clients that follow the protocol (a fresh data
port per transfer, acknowledge the block expected, answer a foreign transfer with an
error, resend at will). A DATA packet's payload is the stretch
`[file, offset, len]` it was read from, so that a client's copy can be compared with
the file. Code points are the program points of `handleReadRequest`:

| action | code |
|---|---|
| `Accept`, `Refuse` | `Run` and the first half of `handleReadRequest`, up to the opened file |
| `Stat` | `GetFileSize`, which yields 0 when `fs_stat` fails |
| `SendBlock`, `ReadFails` | one turn of the loop up to `waitForAck` |
| `ReceiveAck` | `waitForAck` and the end of the turn |
| `SendLast` | the code after the loop |
| `Return` | the other ways out of `waitForAck` |

`addr` is the function-local static of `TransmitAsynchronous`: the first caller in
the program, which may be another tenant (`OtherTransmit`), fixes the destination for
good. Files grow meanwhile (`Grow`), because the loggers write while a client reads.

Block numbers are modulo `BlockMod`, and a file may have more blocks than numbers. A
late packet whose number comes round again is then taken for a new one; `Wraps` says
which files can meet that, and `CompleteIsExact` and `AckedIsReceived` are of the
others. A request for `tree` is refused once `generateTree` has written its listing,
which is then a file like any other.

### PowerModule

The power module's tasks: `Sense`, `Broadcast`, `Check` and `Log` are
`CSensingTenant::Run`, cut at its two sends and at its test of `logData`;
`TransmitMessage` and `ReceiveAlert` are the turns of the broadcast and alert tenants
on the networking task; `Receive` and `write` are the data logger tenant's `Run`. The
TFTP tenant of the same task is in `TftpServer`. `Put` and `Full` are a `K_MSGQ`; a
`Send` waits up to 5 ms and may find the queue full at the end of it, so it either
puts the sample or drops it. `ReceiveAlert` calls `Notify` of its one observer.

A sample is its number. `taken` is the last one, `boot` the number at the last start,
and `skipped` and `dropped` record why samples since then went nowhere (`logData`
false; queue full or write refused). The file is what `sensor_data.bin` holds while
it is open. It is neither synced nor closed in flight, so a `Restart` finds it as it
was, which is empty. Outside the module are `Announce` (BOOST, then LANDED), `Lose`
and repetition of an alert, and `Restart`.

### RadioLink

The radio module on the pad, its twin on the ground, and the radio between them. The
pad's LoRa task is cut where another task may come in: `ReadTransmitQueue` (the queue
into `portDataMap`), `Answer` (one turn of the loop over the ports), `Receive`,
`GiveUp`, and what `PadRun` does with what it heard (`Command`, `DataRequest`). The
ground's is `GroundTransmit`, `Receive`, `GiveUp`, `PassOn`. `Listen`, `Ask` and
`Purge` are `CUdpListenerTenant::Run`; on the ground the purge comes a step after the
send that failed, since the LoRa task has the same priority there.

`SetTxRx` records the direction before the radio has taken it (`tx` against `radio`).
A packet arrives only where the other side listens and has heard nothing yet, and may
be lost even so. A request is for a set of ports, and one the pad does not know halts
it (`k_oops` in `CHashMap::operator[]`): of the pad nothing runs on where `PadRuns` is
false.

`gnssCallback` interrupts `CGnssTenant::Run` anywhere, also inside the `memcpy` of a
record, which is three steps for its time, latitude and longitude (`CopyTime`,
`CopyLatitude`, `CopyLongitude`). `SendRecord` puts the record into `gnssDataLogQueue`
or, when that is full, does not, and nobody looks (`refused`); `WriteRecord` is the data
logger's tenant taking one. `CopyCoordinates` and `SendCoordinates` are the broadcast,
due or not, and `Clear` the reset of the flag with the end of `Run`.

A sample of a port is its number; `shown`, `handed` and `raced` are what the outside saw.
`destination` is where the ground passes packets on to: that of the first one, since the
address is static (section 5). The tenants' `FlightRun` and `LandedRun` are not there,
because no tenant gets to run them (section 5).

### Rtos

`main` as far as it starts and stops tasks: `Initialize` (`Startup` of every tenant of
a task, then `PostStartup`), `Create` (the stack, the thread, or the panic), then
either `StopRtos` or `Return`. `Cleanup`, `Abort` and `Free` are the destructor of a task
with what the compiler adds to its end, the destruction of the vector of tenants. They are
run for each task by `StopRtos`, which calls the destructor by name, and (again) in
reverse for the static objects when the program exits. `frees` and `drops` count how often
stack and vector were freed. A destructor that is run for a dead object may find the
vector's memory as it was or not (`Fault`), and `stack` as it was set or not, as the
compiler may drop the store of `nullptr` (`Forgotten`). `RunTenant` is a turn of a thread,
which goes on until it is aborted, beside its own `Cleanup`.

### RollingSum, Golay, Horus, HorusLink

`RollingSum` is `CRollingSum` on a `CCircularBuffer` with `FindSlope`; the four sums of
the fit are one record, and the slope is a fraction.

`Golay` has words as sets of exponents, exclusive or as symmetric difference, and the
decoding table as a function that is made by trying patterns, as `golay23_init` does.
`Horus` adds the Golay words of a payload, the interleaver, the scrambler and the
checksum. `HorusLink` sends one packet through a channel that flips bits.

### BootCount, DataLogger, FlightLog, SensorLog

Files over power cycles. `disk` is what a power cycle finds, `cache` what is written;
what carries one into the other is `fs_close` or `fs_sync`, where the code calls it.

* `BootCount`: the boot counters of `launch_core_classic` and of the littlefs sample,
  call by call, each of which may fail. A failing `fs_stat` (`Stat`) passes for a missing
  file, and the count starts again (`unanswered`).
* `DataLogger`: `datalogger::write` in its three modes, with a seek and a write that fail
  each for itself. A packet is its number; `missed` counts those that were written behind
  the end of a circular file because the seek had failed.
* `FlightLog`: the choice of a name, and the three writes of a line. A write of the
  thread has two ends (`Enter`, `Leave`), and the timer's interrupt, which writes a line
  of its own (`TimerWrites`), falls between two writes or into one: then each of the two
  may be in the file or not and may report an error or not. The interrupt is over before
  the thread goes on (`TimerIsDone`).
* `SensorLog`: `l_fs_init` and `l_fs_write` for the two files of the sensor_log sample.

### BoostDetect, GrimReefer

The retired grim reefer payload. `BoostDetect`: two detector threads, each with a ring
buffer, the battery thread, the main thread and the shell's `nogo`. A slot of a buffer
holds the place of its reading in `read`, so that `SaveSlot`, which copies buffers that
are still written to, can be compared with what was read. A file that cannot be opened,
written or closed is given up (`SaveFails`), and the flight goes on.

`GrimReefer` is the rest of the flight: the main thread's states (`Setup` to
`LandedOver`, with `Check`, the test of `flight_cancelled` before each run of a state,
also of the flight's), reading threads (`Wake`, `Read`) with a queue each, the storage thread
(`Open`, `Store`, `Close`) and `PowerCycle`. Of the three reading threads it has two,
one that tests `flight_over` before it waits and one that does so after; the third is
as one of them.

### OpenRocket, OrkConversion, Ms5611, Mcp356x, Ina260, Adxl375

The drivers, each with its device and with the class of `f_core` that reads it, where
there is one. The world is numbered (`weather`, `load`, `motion`), so that what is shown
can be dated, and a transfer may fail anywhere.

* `OpenRocket`: the simulated sensors. A packet of the replayed flight has one number
  for all its columns, and the interpolation is exact. The events' times have parts of a
  millisecond (`Fraction`), which a sleep cuts off (`Milliseconds`).
* `OrkConversion`: `conversion.py`, which writes those packets when the program is
  built: columns, units, order of the fields.
* `Ms5611`: reset, calibration with its checksum, a fetch of two conversions, and
  `attr_set` by another thread in the middle. A compensated value is kept as what it
  is computed from.
* `Mcp356x`: channel set-up and `read`; `shadow` are the driver's copies of registers,
  `chip` the registers. A conversion is the inputs and the gain it was made with. The
  chip converts by itself (`Convert`), and the driver's `k_usleep(1)` may be over before
  it has (`hasty`). A write of a register may fail (`missed`) while its copy changes, and
  channel 8 writes over the copies (`spilled`).
* `Ina260`: the power monitor in its modes and the simulated shunt.
* `Adxl375`: the accelerometer.

### MC modules

`MCPhaseController` and `MCTftpServer` give constants that a `.cfg` cannot express.
`MCLibrary`, `MCDrivers` and `MCStorage` each run several modules in one instance: the
variable `subject`, chosen at the start, says which one is running, and the variables of the
others are `Unused`. `MCDrivers` extends `MCLibrary`, so that one run is for both. Their
properties are those of the modules for that subject. The tables and sets that a `.cfg`
cannot express are definitions there too (`TwoAndThree`, `OneSlow` and the like), which the
`.cfg` gives to the constants.

### Proof modules

The module `XProofs` extends the module that the runs check, so its theorems are of
the same `Spec` and the same properties: `PhaseController`, `PowerModule`, `TftpServer`,
`RadioLink`, `FlightDetection`, and `MCDrivers` (with `MCLibrary`, in `LibraryProofs`) and
`MCStorage` for the modules they run one at a time.

## 4. What the runs check

Constants not named below are in the `.cfg`.

| run | instance | shows |
|---|---|---|
| `controller` | the sample's three threads and three of its timers, four events with the sample's four kinds of decider, one submission a thread, fair | `TypeOK`, `AgreementNotLost`, `AnnouncedIsJustified`, `TimersFollowEvents`, `ConfirmedOnce` and the refinement `KeepsPromise` under every interleaving; `WaitersWake`, `TimersReport` |
| `controller_twice` | two submissions a thread | **violated**: an event can be confirmed twice |
| `flight` | lockout 2, full flight 2, boost threshold 1, a run takes up to 1, boost within the first 2, fair; 309,167 states | `PhasesInOrder`, `BoostTimeIsKnown`; `FlightEnds` |
| `flight_third_timer` | full flight 4 | **violated**: the log names a sensor that saw nothing |
| `tftp` | one client, files shorter than a block, of whole blocks, empty, with a partial last block, and of more blocks than numbers; two transfers, two faults, two resends, a byte of growth, another tenant's port, fair; 977,759 states | `CompleteIsExact`, `AckedIsReceived`; `EveryRequestServed` |
| `tftp_timeout` | one fault, one resend, fair also in resending | **violated**: `waitForAck` never gives up |
| `tftp_port` | two clients | **violated**: the second client's data goes to the first |
| `power` | queues of two, four samples, one fault (an alert lost or repeated, a write refused), one restart, fair; 165,277 states | `TypeOK`, `StreamsInOrder`, `SamplesAccountedFor`, `LandingStopsLog`, `LogBeginsAtBoost`; `QueuedIsWritten` |
| `radio` | one module and the GNSS, a queue of two on the pad, of one on the ground and of one to the log, two samples, two fixes, two commands or requests (for both ports, or for one and an unknown one), one failing `lora_config`, any packet lost; 3,391,645 states | `PinsAsTold`, `QuietFixIsLogged`, `ShownForward` |
| `drivers` | one driver at a time, one failing transfer, a change of settings in the middle; or one part of the library: a debouncer with timestamps modulo 8, duration 3, samples 1 to 3 apart, three wraps; a Horus packet of the sample and short ones, with up to three flipped bits or a burst of twenty; tasks of two tenants and of one; a window of three; 969,108 states | `ReplaysTheFlight`; `FieldsMeetMembers`; `FreshWhenOk`; `SampleOfItsInputs`; `UpdatesAreWhole`; `NeverEarly`, `PassesUnlessMarked`; `DecodedAsSent`; `TasksLiveOnce`; `FitsTheLatest` |
| `storage` | one user of the flash at a time; three boots (two flights of the reefer, with queues of one), one failing call, any buffer of the launch unsaved; 824,677 states | `CountsClosedBoots`; `NewOverOld`; `LogsKeptWhole`; `FramesLeftWhole`; `LaunchIsSaved`; `RecordsAccountedFor`, `RecordingEnds` |
| `storage_finish` | the same with queues of two | **violated**: what is queued as the flight ends is not all saved |

Some of these are conjunctions. `PhasesInOrder` is `NoseoverRespectsLockout` and
`GroundFollowsNoseover`. Those of `MCLibrary`, `MCDrivers` and `MCStorage` join what one
module promises about one thing: a decoded packet, a replayed flight, an update, a log, a
launch, the records of a flight. Each conjunct is a definition of its module, with a
comment of its own. Type invariants other than `TypeOK` of the first two modules are parts
of the inductive invariants of section 6 and are in no run.

Every property has a mutant of the code's model that breaks it, and a conjunction has
one for each of its parts, listed in `PROJECT.json`.

The instances with `CHECK_DEADLOCK FALSE` really come to rest. The sample's threads have
submitted all they may, the flight has ended, the requests of the clients are served, the
packet is decoded, the tasks are destroyed (or a destructor has faulted, the pad halted),
the bounds on faults, readings and boots are reached. (The power module's tasks run for
ever, so run `power` checks deadlock.)

### The bounds, and why they are enough

* `MaxSubmits` = 1 with three threads and three timers already lets two submissions of
  one event meet at every pair of program points. A source that reports again after its
  event has occurred needs 2, as in `controller_twice`. The theorems of section 6 have no
  such bound.
* `TimestampMod`: a small modulus makes wraps reachable; the debouncer sees three.
  In `FlightDetection` it is 16, more than any uptime reached, as a flight is shorter
  than 49 days; the wrap there is of differences below zero.
* Durations of 0 to 4 ticks keep the order of the real ones that matters (boost
  threshold below lockout, lockout not above full flight) and let a debouncer pass in
  the flight's few runs: with both barometric durations 0, two passing runs are enough.
  Lockout and full flight expire in either order at the same tick in `flight`.
* `Velocities` = up, slow, none: fast downwards is on the same side as slow for
  noseover and as up for the ground, so it adds no path of the handler.
* `MaxFaults`, `MaxResends`, `MaxGrowth`, `MaxTransfers` of the TFTP server: two
  transfers are the least in which a packet of one can reach the other; two faults let
  a packet be lost and another be repeated.
* `BlockSize` = 2 gives partial, whole and empty blocks; `BlockMod` = 4 is more than the
  blocks of the short files, as 2^16 is, and less than those of the long ones.
* `QueueSize` = 2 with four samples fills a queue, drops a sample and drains it again;
  one fault and one restart combine with every point of every task. The radio's queues
  fill in the same way, and those of one are full with every message. Two fixes are an
  old and a new one in one record. Two commands let the later one overtake the status of
  the earlier.
* `MaxTime` = 7 of the drivers is past the last packet and event of the flight, with a
  lag and a sampling period to spare, and `Fraction` = 2 has events at half
  milliseconds, so that sleeps add up what they cut off. The three boards have every sensor perfect,
  slow or broken, and two of the mappings of axes.
* Three boots are the least in which a boot between others goes wrong; two names are
  the least with one that is free and one that is last; `num_packets` = 2 and files of
  two or three frames are lapped twice. Two flights of the reefer are an old and a new
  one, of which the old one may be longer. A queue of one is full with every record and
  of two has one behind the first, which is all that `storage_finish` needs.
* Horus: three flipped bits anywhere in packets of up to 40 bits, which have a full
  word or a short one, a single one anywhere in packets of up to 100, a burst of twenty
  anywhere in a packet of full size, and the two ends that the sample clears.

### Fairness

* A thread inside `SubmitEvent` is scheduled until it returns, a waiter whose bit is
  set is made ready, a running `k_timer` expires: the kernel schedules and interrupts.
  Nothing forces a thread to report.
* `FlightDetection`: the sensing task runs, interrupts are taken, time passes. No
  barometer is assumed to work.
* `TftpServer`, `AnsweringSpec`: the networking task runs, clients answer. Delivery of
  a packet is fair, loss is not forced, nobody is forced to send a second time.
  `FairSpec`, for `tftp_timeout`, adds that clients resend as long as their bound lasts;
  even that does not help.
* `PowerModule`: the three tasks have one priority, sleep 0 ms after each turn (which
  yields to the others of that priority) and are time sliced, so each of them runs.
  This leaves aside that the TFTP tenant can hold the networking task for ever
  (`tftp_timeout`); `QueuedIsWritten` does not depend on that task.
* `RadioLink` assumes none. On the pad the networking task has the higher priority and
  never sleeps, so nothing is certain to be answered.
* `GrimReefer`: the main and the storage thread run. Sleeps end; detectors, readers and
  the power are under no obligation.

## 5. Disagreements between the code and what it says

1. `SubmitEvent` reads and sets `eventStates` with other steps between them, so a
   thread and a timer (or two threads) both dispatch (`controller_twice`). What still
   holds, and is proved, is that an event with a single submitter is confirmed once.
2. `numTimerEvents` is 3 and `timer_events` has two initialisers. The zero element
   starts a timer that reports Boost from `LowGImu` (`flight_third_timer`).
3. A lost packet makes `waitForAck` spin, as "nothing received" is 0 and not
   negative (`tftp_timeout`). The tenant's task, and all tenants on it, stop.
4. `TransmitAsynchronous` sends all data of the program to the port of the first
   socket that called it (`tftp_port`). `EveryRequestServed` therefore excuses a
   destination fixed by another tenant, and `tftp` has a single client.
5. `finish_data_storage` is to "save everything to disk" (`data_storage.h:42`); the
   storage thread takes at most one more record of each queue and closes the files
   (`storage_finish`).

### Seen while modelling and built into the models, without a run of their own

* Flight. The two IMUs report under each other's source (`HandleBoost` against
  `sourceNames`). `t_plus_ms` is documented as the milliseconds since boost and is that
  less `boostTimeThreshold`, unsigned, so near 2^32 at first; no early noseover comes
  of it because the lockout is still running (`NoseoverRespectsLockout`). The debouncer
  forgets a run whose first or last timestamp is the mark (`PassesUnlessMarked`).
* TFTP. `GetFileSize` returns 0 for an error, which is then served as an empty file
  (`CompleteIsExact` says so); the final empty block is left out if the file grew
  between its opening and `fs_stat`; a failed `Read` is kept in a `size_t` and sends
  three bytes; where block numbers come again, a late packet is taken for a new one.
* Power module. It reads its 5 V rail twice and the battery never.
* Radio. `CLora` records the direction before `lora_config` has succeeded, and a pad
  that failed to turn stays deaf until it is asked to send, which it cannot hear. A
  purge takes the packets of all modules. The copies of a fix are not one step, a fix that
  comes before `gnssUpdated` is cleared is lost, and the log's queue of ten refuses a
  record in silence (`QuietFixIsLogged` says so). A request for a port the pad does not
  know halts it. The ground passes everything on to the port of its first packet
  (`destination`), as the address of `TransmitAsynchronous` is static. The count
  of `CHashMap` goes up for keys that are there already, but the limit, which
  `c_hashmap.h:10` says blocks new keys at run time, is compared so that it never bites.
* Files. The flight log is opened without `FS_O_WRITE`, the timestamp passed to it is
  ignored in favour of `k_uptime_get`, and nothing synchronises the log in flight, so
  that a power loss leaves it empty. When all hundred names are taken, and when the file
  system does not answer, a log is appended to an earlier one. A line of the log that the
  timer interrupts in the middle of a write may lose parts, and so may the timer's, as the
  file system's mutex is no help against an interrupt; what the model leaves intact are
  the other lines. A data logger of fixed
  size reports a full file with a positive number; a circular one ignores a failed seek
  and grows; a growing one writes over a file that is opened again, although its comment
  (`c_datalogger.h:28`) has it grow with
  every packet. A boot counter takes any
  error of `fs_stat` for a missing file and starts again, although its comment is only
  about one that does not exist (`fs.c:160`). `l_fs_write` reports no failure of
  the file system, only its own.
* Library. `StopRtos` cleans tenants up beside their running threads, and the
  destructors of the static tasks clean up again: they walk and free a vector that was
  freed, and perhaps the stack, as a comment of the sample warns
  (`tenants_and_tasks/src/main.cpp:17-19`). `FreedOnce` therefore excuses the
  tasks of a program that called `StopRtos` and goes on to its end.
* Simulated sensors. Yaw takes the inversion of pitch. The event log never logs the last
  event, runs on behind the events when there are none, and is early by what each sleep cuts
  off below a millisecond. The conversion of a column into the base unit of its kind raises
  a `KeyError`, as the base is not in its own table, and without the GNSS the fields of the
  position are written in the magnetometer's place (`FieldsMeetMembers` says so).
* Drivers. The checksum of the MS5611 is compared with a whole word, and `^` stands where
  a square is meant; a temperature below zero is unsigned. The copies of the MCP356x's
  registers keep what a failed write was to set, so that only a later write to the same
  register makes it good; the wait after a change of the multiplexer is a microsecond,
  whatever the conversion takes, and after a change of the gain there is none; channel 8
  passes the test and its entry lies over the copies, after which the next read shuts the
  converter down (`SampleOfItsInputs` and `KeepsConverting` say so).
* Grim reefer. A `nogo` between the entry of the flight state and its run ends the program
  with the files open, so that the flight's records are lost (`main.c:278-290`,
  `RecordingEnds`). A buffer of the launch that cannot be saved is given up without a word
  (`LaunchIsSaved`). Files are opened without being emptied, so the tail of a longer earlier
  flight stays (`NewestFirst`), and nothing is synchronised in flight. A `gpio_init` that
  fails at its last pin leaves the cameras on. A flight cancelled while a detector reads may
  still begin. The count of low batteries is never reset.

### Seen outside the models

The radio module's networking task has priority 14 and sleeps 0 ms, so that its tasks
of priority 15 starve. Its phase flags are static in a header, hence one copy per
source file: what the updater sets no LoRa tenant sees, so they stay on the pad.
`SensorLogger` is used by a
sample and not in the repository, `golay23_count_errors` uses an undeclared name and
does not compile with `CONFIG_HORUSV2_RX`, the table of primes of the interleaver has a
gap from 389 to 757 and ends before the longest packets, and the ADXL375 misspells a
name in its SPI half, so that only I2C can be built.

## 6. What is proved

`PhaseControllerProofs`, for every set of events, sources, timers and threads, every
table of timers, every number of submissions and every decider that satisfies
`DecidersAssumption`: no decider of the repository agrees with no report, and none is
made to disagree by one more report (they are all disjunctions and conjunctions of
sources).

* `TypeCorrect` - `TypeOK`.
* `AgreementIsNotLost`, `OnlyTheJustifiedIsAnnounced`, `TimersFollow`,
  `ExclusiveConfirmedOnce` - the four invariants of run `controller`.
* `ControllerKeepsPromise` - `PhaseController` implements `FlightEvents`: `Submit`
  and `TimerExpiry` are reports, `Dispatch` is `Agree`, everything else stutters.

**The inductive invariant** `IInv`. None of the four is inductive alone, because what
a thread knows is spread over its locals. `CallInv` says what is known at each program
point: after `Decide` with agreement the agreement still stands (reports only
accumulate and deciders are monotone: lemmas `Accumulates`, `AgreementStands`), after
`Dispatch` the event has occurred, after `Post` its bit is set. `TimersInv` is
`TimersFollowEvents` with the loop index: a timer still stopped is ahead of the index.
`ExclusiveInv` says that with one submitter a plain "confirmed" line is due at most
once. Each part has a lemma that every step keeps it, one step per action. The
refinement uses `IInv` for `Dispatch`, which maps to `Agree` only because the
agreement still stands.

`PowerModuleProofs`, for every queue size of at least one and every number of samples,
faults and restarts (`PowerAssumption`): `TypeCorrect`, `Order`, `Accounting`,
`Landing` and `Boost`, the five invariants of run `power`.

**The inductive invariant** is again called `IInv`. `TypeOK` is inductive with the
conjunct that a `Run` past its first line has taken a sample since the start.
`StreamsInOrder` is inductive as it stands: it relates each place of the way to all
that come before it, and the lemmas `PutInOrder` and `TakeInOrder` say that appending
a later sample and taking the first keep that. `SamplesAccountedFor` needs it, since a
sample taken from a queue has left it only if no sample is in it twice; lemma `Move`
says that moving a sample from one place to another leaves each in exactly one.
`LandingStopsLog` needs `LandingInv` (while landed, `logData` is false, and a late
sample is no longer to come once it has come), `LogBeginsAtBoost` needs `BoostInv`
(`logData` is true only after a BOOST).

`FlightDetectionProofs`, for any times of the timers and debouncers, any modulus of the
timestamps and any readings (`DetectionAssumption`: timers are set to more than zero, the
bounds are natural numbers): `PhasesInOrderHolds`, `BoostTimeIsKnownHolds`.

**The inductive invariant** says that a call of `SubmitEvent` runs at the places of its
event only (`CallInPlace`), that boost is dispatched in a run that began on the pad, with
a time which the handler has when it goes on (`PadThenFlight`), that timers and what they
reported are as late as they were set to after that (`TimersLate`), and that a barometer's
report has behind it what it waits for (`ReportsInOrder`). `PhaseController`'s actions are
cited, not its theorems: the handler calls it for one event at a time, and that is what
the invariant is about.

`TftpServerProofs`, for any clients, files and sizes, any block size of at least one byte
and at least two block numbers (`TftpAssumption`), any number of transfers, losses,
repetitions and resends: `AckedIsReceivedHolds`, `WholeIsReceived`, `CompleteIsExactHolds`.

**The inductive invariant** relates the tenant, the network and the clients: a DATA packet
carries the block of its number (`DataAreBlocks`), a client has the first blocks of one
transfer (`ClientsHaveBlocks`), what an ACK says some client has (`AcksAreReceived`), and
the tenant is at the block after what was acknowledged, of which nobody has seen anything
before it is sent (`Progress`). All of it is of files whose blocks have numbers of their
own. `WholeIsReceived` says that a client which believes its transfer complete has the
whole of one file that was opened. That this is the file it asked for has the hypothesis
that there is one client, as run `tftp` has: with two it is false, since the destination
of the program's first packet is that of all (section 5).

`RadioLinkProofs`, for any ports, sizes of queues and numbers of samples, commands, losses
and faults (`RadioAssumption`: the ports are not the names of other packets):
`PinsAsToldHolds`, `QuietFixIsLoggedHolds`, `ShownForwardHolds`. The second is of a `Run` that no
callback came into and whose record the log's queue had room for.

**The inductive invariant** is about the order of numbers along the way. `Between` bounds
what a queue holds of a port, from below by what was taken and from above by what was put;
from there the order goes on to `portDataMap`, the air and what the ground was shown
(`SamplesInOrder`, `SamplesForward`), and back for commands (`CommandsInOrder`). A status
names the pins, or a later command was heard (`StatusesTold`). `FixIsCopied` and
`FixIsHanded` say which parts of the fix `Run` has copied and sent, as long as no callback
came.

`LibraryProofs`, of the parts of `MCLibrary` in `MCDrivers`: `NeverEarlyHolds` and
`PassesUnlessMarkedHolds` for timestamps of any width, any duration and samples any time
apart (`TimestampAssumption`, `FeedAssumption`), `TasksLiveOnceHolds` for any tasks of at
least one tenant (`TasksAssumption`: `main` has tasks, and each was given a tenant; what it
says of stack and vector excuses a program that both stops and exits, section 5),
`FitsTheLatestHolds` for a window of any length and any integer samples (`WindowAssumption`:
the length is not zero, as a `static_assert` of `CRollingSum` says).

**The inductive invariant** `KnowsTheRun`: the object has the stamps of two samples of the
run of passing samples, the first of them unless its stamp is the mark. Lemma
`WrappedDifference` does the arithmetic: the wrapped difference of two stamps is at most the
time between them, and equal to it within a turn. For `Rtos`, `StartedInOrder` and
`StoppedInOrder` say for each task what `main`'s place implies for its tenants, its thread,
its stack and how often its destructor has come to its end (`Ends`). For `RollingSum`,
`WindowInv` has a sequence that the window `LiesOver`: what the window was filled with, then
what was fed. The buffer has the last of it, the oldest at `oldest_index`, and `total` is a
difference of two partial sums, so that adding the new sample and taking the oldest away
moves both ends. That these are the sums which `WindowIsLatest` defines is shown by the
least place where they would differ. Two lemmas are about the fit alone: `OnALine`, its
slope is that of the line the samples are on, for any slope, and `RunIsZero`, it has no
slope just when all samples are at one x (the denominator times the length is a sum of
squares).

`StorageProofs`, of `MCStorage`: `CountsClosedBootsHolds`, `NewOverOldHolds`,
`LogsKeptWholeHolds`, `FramesLeftWholeHolds`, `RecordsAccountedForHolds`,
`LaunchIsSavedHolds`, for any number of power cycles at any point and of those failures that
the modules have: every call of the boot counters, seeks and writes of the data logger, the
answer and the writes of the flight log, writes of the frame files, opening, writing and
closing of the reefer's records and of its launch buffers. The data logger is for any file
of at least one packet (`LoggerAssumption`), the flight log for any number of names
(`NamesAssumption`; the code has 100), the frame files for any sizes of at least one frame
(`SizeAssumption`; the code has 100 and 300), the reefer's records for any number of
readings to a record (`PackAssumption`), its detectors for any buffers of at least one slot,
any thresholds and any integer readings (`ReadingsAssumption`).

**The inductive invariants** relate the disk and what is written but not synchronised to
what was written so far. `CountsInOrder`: what is on the disk is the count of the boots that
closed the file since the last of them without an answer of `fs_stat`, and what the program
has read is that count, or the zero it has just written. `InPlace`: as long as no seek
failed each place has the last packet that belongs there, and the place of the next follows
from how many were written; lemma `RingNext` has the arithmetic of a ring. `InLaps` is of a
circular file with seeks that fail: the lap that is written lies before the position, and
the lap before it, however long it became, behind. `FlightsInOrder`, `LogsKept`: a name that
was free has one flight from the beginning. `LinesKept`, `LinesOpen`: each log has the parts
of each line in order, up to where it is broken or still written, and a writer in the middle
of a line has its parts in the open log, as far as none was broken, and in no other.
`LapsKept`, `FramesInOrder`: `wpos` and the number of samples tell which sample each frame
is of.

Of the reefer's records, `RecordsInOrder` has those read in the file, then in the queue, and
the rest lost; `OrdersInOrder` says that the order to finish comes after everything is set
up; `SavedInOrder` has only closed files of this flight in front of those of earlier ones.
Of its detection, `RingInOrder` says which readings a buffer has on either side of its
index, `SumInOrder` that the running sum is a difference of partial sums, `LaunchInOrder`
that a detector reads once more at most after the launch, and `SavingInOrder` that what is
to be kept and was passed by the copy is saved, unless the file was given up. The last two
are the point of `LaunchIsSaved`: the one reading that may still come can take away the
oldest slot only, which is why the property leaves it out.

`DriversProofs`, of `MCDrivers`: `ReplaysTheFlightHolds`, `FreshWhenOkHolds`,
`SampleOfItsInputsHolds` and `UpdatesAreWholeHolds`, for any packets, events and boards,
channels, inputs, gains, modes and any number of failing transfers. `PacketsAssumption` has
at least two packets in the order of their times, with a slope that is an integer between
them, since the model's interpolation is exact; `EventsAssumption` that there are finitely
many events and at least one, each with its time; `BoardsAssumption` that lags and periods
are natural and that every rate of the flight is on one axis. `ChannelsAssumption` has
channel numbers below eight, to which the model adds number 8, and keeps the pair 0 out of
the inputs: it is an input against itself, and what the driver's copy of the multiplexer
begins with, so a channel set to it would never be waited for.

**The inductive invariants**: of the replayed flight, what the properties say and that the
thread of the events last woke for the event before `event` (`EventsInOrder`); the work is
in the lemma that the search for the packets ends at those around the time asked for, where
the interpolation is the flight's; of the barometer, that a conversion which is awaited was
started in this fetch (`FetchInOrder`) and that past its initialisation the calibration was
checked; of the converter, that the copy of the multiplexer is the register unless its last
write failed, that the last conversion is of its inputs except during the wait or after one
that was too short, and that the copy of the mode is right until channel 8 is set up
(`ShadowIsTrue`), and that what is still to be read comes after what was read
(`LowestFirst`); of the power monitor, that what a fetch has read so far is of its time, in
order (`ReadInOrder`); of the accelerometer, that one that is ready was told to measure.
`UpdatesAreWhole` is a property of steps: each lemma `...Next` proves it with the invariant.

Each of these inductive invariants was checked by TLC on the instance of its run before it
was proved, but for `SumInOrder` and `WindowInv`, which say that there are partial sums
and which TLC cannot enumerate: it checks the sums themselves, in `LaunchIsSaved` and
`FitsTheLatest`. The bounds (`MaxFaults` and the like) are constants in the theorems as well,
any natural number each, so that they bound nothing.

**Only model-checked**:

* liveness (`WaitersWake`, `TimersReport`, `FlightEnds`, `EveryRequestServed`,
  `QueuedIsWritten`, `RecordingEnds`), which is out of the prover's reach;
* `DecodedAsSent`: that the Golay code corrects three bits is found by trying patterns, the
  table of the code as well as its proof, and that search is TLC's; the checksum
  is a fold over the bytes of a packet, and an induction over data;
* `FieldsMeetMembers`: which fields a packet has is what `SelectSeq` selects, which the
  provers do not evaluate. It is about a packet of thirteen variables and four flags, of
  which TLC tries every combination.

## 7. What is not modelled

* **Build files, boards, device trees, tools and data** have no run-time state; the
  aliases and options that decide what runs are in the modules they decide about.
* **Data that no property tells apart**: the thresholds of flight detection (readings are
  the side they fall on), the rounding of the line fit, the noise of the simulated
  sensors, the polynomials of the barometer's compensation, the wording of logs, the
  parsing of a TFTP request beyond file name and mode, IP addresses.
* **Code that hands its call to the kernel and keeps nothing**: soft timers, GPIO, most
  of the UDP socket and of the IPv4 set-up, the thin wrappers of `launch_core_classic`.
* **Code that is never reached**: `FlightRun` and `LandedRun` of the LoRa tenants with the
  state updater (section 5), `NewestSample` of the circular buffer, the receiving of
  Horus packets by `golay23_count_errors`.
* **Priorities**. Every task is scheduled at any point, which is right for one core with
  preemption as far as safety goes. That a task starves another one is stated in section
  5 and in the fairness assumed.
* **Other retired applications and samples** than those named in section 3, which show
  single drivers or are not built; of grim reefer its buzzer, the dumping of files by the
  shell and a vendored BME280 driver.
* The destructor of the phase controller, which runs at the end of the process.
* The deployment module's own code starts tenants that are modelled elsewhere; its
  receive tenant copies a packet into a port.
