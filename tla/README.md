# GpuFanController in TLA+

GpuFanController cools GPUs with ordinary 12 V fans.  An Arduino Nano drives two
groups of up to two fans; a Linux daemon reads GPU temperatures and sends them to
the Nano over a serial line; a terminal utility and other clients talk to the
daemon over a local HTTP API.  The Nano alone is responsible for safety: it must
cool at full speed whenever it does not know that less is enough.

This directory holds TLA+ models of that system, translated from the source,
their TLC configurations, and theorems about them checked by TLAPS.

    tlc -workers 2 -config MCFirmware.cfg MCFirmware.tla
    tlapm FanGroupProofs.tla

1. Inventory, 2. Modules, 3. Runs, 4. Findings, 5. Proofs, 6. What is not modelled,
7. Plan.

## 1. Inventory

Paths are relative to the repository; `fw/` stands for
`firmware/FanControllerFirmware/src/`.

### On the Nano (one thread, `FirmwareApp::loop`, no interrupts but pulse counters)

| Component | State | Operations | What makes it correct |
|---|---|---|---|
| Configuration store, `fw/ConfigurationStore.*` | two EEPROM slots; active slot and sequence number | `load`, `save` (invalidate, data, header, magic, read back) | a power loss anywhere leaves the old or the new record whole; a save that returned false is never loaded |
| Configuration, `fw/Configuration.*` | the persisted data in RAM | `apply`, `validate`, `setDefaults`, `clearCalibration`, `targetRpm` | no calibration survives a change of fans; a table changes only with its generation |
| PWM ramp, `fw/PwmRamp.h` | duty, target, time, credit | `reset`, `step` | neither rate is ever exceeded; a steady target is reached at any loop speed |
| Fan group, `fw/FanGroupController.*` | mode, duty, ramp, override and its deadline, boost deadline, fault timers, active and latched faults | `update`, `setOverride`, `setTemperature`, `applyConfiguration`, `setCalibrationOverride`, ... | unknown or critical temperature is full speed; nothing runs below the floor; deadlines are kept; faults are debounced |
| Calibration, `fw/CalibrationManager.*` | phase of a run, sums, the table being measured | `start`, `abort`, `update`, `prepareCommit`, `finishCommit` | ends; only a cool group of a live host; a failed save leaves no trace; the group is returned at full speed |
| Main loop, `fw/FirmwareApp.*` | all of the above, host watchdog, global faults | frames, control, faults, alerts, heartbeat | the outputs at the end of each pass are safe |
| Alert publisher, `fw/AlertPublisher.*` | masks published last | `update` | every transition is announced |
| Adapter names, `fw/AdapterNames.*` | two more EEPROM slots, one generation; the identity, in RAM and with the settings | `load`, `save`; the identity is set, saved, or not saved and lost | as for the configuration store; no lost update; the labels are those of the identity in force |
| Framing, `fw/SerialProtocol.*` | parser state | `poll`, `send` | it resynchronises after lost and damaged bytes |
| Sensors and outputs, `fw/Tachometer.*`, `fw/Ina3221Monitor.*`, `fw/FanPwmController.*` | counters, last readings | sample, set | readings reach the control update |

### On the host (threads: API workers, one forwarding worker per Nano, GPU scanners)

| Component | State | Operations | What makes it correct |
|---|---|---|---|
| Serial exchange, `src/daemon/SerialProbe.cpp` | gate (busy, priority waiting), sequence, receive buffer, 512 events | `exchange`, `temperatures`, `receiveEvents`, `takeEvents` | one request on the line; a temperature overtakes requests that wait; an answer is that of its request |
| Forwarding, `src/daemon/TemperatureForwarder.cpp`, `TemperatureRetry.hpp`, `GpuTemperatures.cpp` | samples with their times, schedule, connection, retry time | scan, forward, reconcile after a restart, back off | a reading older than three seconds is never forwarded as valid; a restarted Nano is read again |
| Alerts, `src/daemon/AlertCenter.cpp`, `AudibleAlarm.cpp` | masks per Nano, history of 256, acknowledgement | `ingest`, `connection`, `acknowledge` | masks follow the Nano; a lost alert is repaired by the heartbeat |
| GPU readers, `src/daemon/NvmlReader.cpp`, `AmdGpu.cpp`, ... | helper process, last reading | start, query, kill | a hung driver never blocks the daemon |
| Control requests, `src/daemon/CalibrationControl.cpp`, `GroupControl.cpp`, `SettingsControl.cpp`, `ApiServer.cpp` | none of their own | validate, exchange | stale generations are refused |
| Host configuration, `src/daemon/ConfigStore.cpp` | file with a revision | `load`, `save` | atomic replacement, no lost update |
| Save coordination, `src/monitor/SaveCoordinator.cpp`, `ConfigurationDraft.cpp` | draft, baseline, unconfirmed writes | `prepare`, `execute` | nothing is written over a change made after review; a write whose outcome is not known is kept as unconfirmed |
| User interface, API client | screens | - | presentation |

Scripts, packaging, the hardware test sketch and the prototypes are not part of the
running system.

### How they interact

The daemon sends frames; the Nano handles those that have arrived at the start of a
pass, then controls both groups with the state the frames left, advances the
calibration, publishes fault transitions, and answers an accepted temperature
snapshot with a heartbeat.  A configuration is applied to RAM and in force whether
or not saving it succeeds; the host learns the outcome from the acknowledgement.
A finished calibration is saved inside the pass that finished it.

### What is hard

* Power can be lost between any two EEPROM writes, and a cell can fail.
* All times are 32-bit milliseconds that wrap; deadlines are signed differences,
  ages unsigned ones, and two fields use 0 for "none".
* Frames arrive in any order between two control updates, so a decision made on
  receipt of a frame (may this calibration start?) mixes the faults of the last
  pass with newer readings.
* One-shot state (the outcome of a calibration, the CalibrationAborted fault) is
  produced at one point of the loop and consumed at another.
* Timers that are stopped in some modes and not in others.
* Bytes and frames are lost and damaged; the payload of a frame may look like the
  header of another.
* On the host: waiting for the line between sampling and sending; deadlines and late
  answers; a bounded event queue; edits and writes by several clients.

`PROJECT.json` lists each of these hazards at its line.

## 2. Modules

    on the Nano

    DurableRecord    <==  ConfigurationStore              VersionedRecord  <==  AdapterNames

    McuTime  <-  PwmRamp  <-  RampDriver                  CalibrationManager
                    ^
                    +------  FanGroupController  <-  FanGroup
                                    ^
                                    +---  Configuration  <-  Firmware
    between them

    SerialFraming

    on the host

    AlertCenter  <-  SerialExchange                       TemperatureForwarding
    ConfigurationDraft  <-  SaveCoordination              NvmlReader

    proofs

    FanGroupControllerProofs  <-  FanGroupProofs          SaveCoordinationProofs
                    ^---  FirmwareProofs
    SerialLineProofs:      SerialExchange and SerialFraming
    FanDriveProofs:        RampDriver and CalibrationManager
    EepromProofs:          ConfigurationStore and AdapterNames, which extend Eeprom
    GpuTemperatureProofs:  NvmlReader and TemperatureForwarding

`A <- B`: B EXTENDS A.  `A <== B`: B implements A under a refinement mapping.  A
module of proofs extends the modules that it is about; where these are two, one of
them prefixes `Init`, `Next`, `Spec` and `TypeOK` with its name (`NamesSpec`,
`RampSpec`, `NvmlSpec`).  `MC...` modules give the constants of each top module.

The operators named `..._Fault` next to an operator are plausible faults of it: a
dropped guard, a missing reset, an unsigned comparison.  No action uses them;
`PROJECT.json` names the run that finds each one when it takes the operator's place.

### The Nano

**ConfigurationStore** models `save()` write by write: the invalidation of the target
slot, the data, the header, the magic number, the read-back and the invalidation of a
rejected candidate are one action each, and `PowerLoss` strikes between or inside
any of them.  Inside a write, a region that was partly written holds `Garbage`; a
write may also leave the old bytes or garbage with power on (a worn cell), and the
read-back may fail - one such fault in a save.  Two faults in one save can defeat
any read-back and invalidation, so the code cannot survive that and the model
does not claim it.  The 16-bit checksum is ideal (it never accepts what it was not
calculated over); the magic number is four nonzero bytes, so a partly written one is
not the magic number.

**DurableRecord** is what the store promises: one record that a save replaces or
leaves alone, and that a start reads.  It is what `Firmware` uses for the EEPROM: a
save there is one step that succeeds or fails.

**AdapterNames** is the second journal, of the labels.  It keeps nothing in RAM: every
request reads both slots again, a record counts only under the identity that the
Nano has now, and a client may save only over the generation that it has read.
`SetAdapterNames` is the handler with `save()` up to its first write; `Invalidate`,
`WriteBody`, `WriteNamesMagic` and `Verify` are the rest.  The identity is kept twice:
`SetControllerId` writes it in RAM (`identity`) and tries to save it with the settings
(`stored`); it stays in RAM if that fails, until the settings are saved for another
reason (`SaveSettings`) or a power loss brings back the stored one.  The save itself is the
one that **ConfigurationStore** models and proves whole, and is one step here.

**VersionedRecord** is the promise: for the controller that the Nano is, one record with
versions, replaced whole and only by a client that has read the version it
replaces.  The abstract change happens when the magic number is written; the version is
a history variable, of which the generation in the slots is a remainder.  What it
promises where the identity changes is less: `kept` is what is left of the records of each
controller, of which `Become` takes any one.  A save must not spoil the record in
force, and may use the room of all others (`Forget`).  **Eeprom** is what the two stores share: two slots, and the bytes that
are no record.

**McuTime** and **PwmRamp** are the clock arithmetic and the ramp as operators.
**RampDriver** runs a ramp alone, with a pass after any gap, a new target and a
bypass (any mode other than automatic sets the output directly).

**FanGroupController** is the class as operators on a record of its members, one
operator per method and, for `update()`, one per stage in the code's order:
host alarm, disabled, temperature faults, expiry of an override, preparing a
restart, the choice of the mode, the ramp, fan faults, current faults, the
protection against a slow fan, latching.  **FanGroup** runs one object with every
caller that the firmware has.  Its constant `Environments` is a set of records, one of
which is chosen at the start and kept in `env`: which configurations, requests,
readings and measurements may occur.  So one run explores several narrow worlds
and not their product, and the theorems hold for any set of them.  The other modules
use `Environments` in the same way, most of them for the budgets of troubles.

**Configuration** is what happens to the persisted data in RAM: `apply`, and the
commit and rollback of a calibration.

**Firmware** is the loop.  `Handle...` are the branches of `handleFrame` that
change state, enabled when the code accepts the frame; `Control` is the rest of a
pass - both control updates, the calibration with its outcome, the PWM outputs,
global faults, alerts, heartbeat - as the single sequential computation it is;
`Wake` is the next pass; `Reset` is a power cycle or a serial adapter pulling DTR.
Abstractions of the data: the fan curve is a function of which only zero and nonzero
matter; the duty that feed-forward and RPM trim ask for is any duty; whether a fan
is slower than its reference and how the current compares with the calibration are
inputs; the phases of a calibration are one phase, in which each pass asks for
any duty, fails, or completes with any table.  Identify (an LED), adapter names and
queries are not in `Firmware`; the current monitor, without which no calibration starts,
is taken to be present.

**CalibrationManager** is that one phase in full.  `Update(d, r)` is one `update()`:
the deadline of the window, its settling time, the spacing of samples, `sample()`,
and, for a complete window, `Conclude`, which is the branch of the phase:
`StopMeasured`, `StartMeasured`, `StartVerified`, `MinimumMeasured`, `Boosted`,
`MinimumVerified`, `SweepMeasured`.  The tachometers answer any reading in every
pass.  `Abort`, `TimeOut` (the 720 s of the run) and `LosePower` may come at any
time, so no property rests on them.  Ages are capped at the limit that they are
compared with.  A table is the sequence of its duties; speeds, current and voltage
of its points are left out.

### The line

**SerialFraming** sends frames byte by byte to one of the two parsers, which `receiver`
says: the Nano's `poll()`, a state machine, and the daemon's `readFrames()`, which
searches a buffer and searches it again one byte further on after a mismatch.
Its loop is `SkipByte` and `TakeFrame`, one iteration each, which go on while
`Searching`, before the next byte can arrive.  The line changes, loses and inserts
bytes, and pauses.  The magic bytes and the version are those of the code.  Header and
checksum are shortened to one byte for each field that is handled alike.  The checksum
is ideal: one value for each frame, above 255, which nothing but that frame's checksum has.
That is what makes `NothingInvented` a property of the parsers and not of the polynomial.
`FramingAssumption` asks that two frames have different bodies, which the sequence number
sees to in the code until it comes around.  A pause is one that the parser sees
between two reads.

### The host

**SerialExchange** is the line seen by the threads that share it: the worker that
forwards temperatures, clients of the API, and the Nano at the other end.  The gate
(`busy_` and the count of waiting temperatures) is `holder` and `MayTake`, where only a
request with temperatures has priority (`PriorityWaiting`); `Take`,
`Read` and `TimeOut` are the parts of `exchange()` between which other threads run;
`retain()` is `Retain`, for all that one read delivers; the worker's loop is split at each point where it
releases a lock: `ReceiveEvents`, `Ingest`, `Clear`, `Watch`, `Sleep`, `Wake`.
`Close`, `Open` and `Connect` are the end of a connection and the next one, in which
the Nano may have restarted.  **AlertCenter** has the daemon's picture of the Nano's
faults and the thread of the beeper, as operators.  The frame of a request carries
`own`, history of whether its exchange still goes on.

**TemperatureForwarding** is the way of a reading: the sampler of each provider with its
retries (`Begin`, `Complete`, `Retry`), what is fresh (`MappedTemperatures`), when it
is due (`NextDue`, `Deadline`), and the worker.  A turn of it captures the configuration
(`Turn`), connects or reads the Nano again if it must (`Connect`, `Connected`, `Reread`),
looks at what is published (`Look`), waits for the line (`gate`), sends what is right
by then, and reads the Nano again when its uptime fell.  Time goes in seconds; `Tick`
waits for every thread that is due, so a thread may be late by less than a second but
never starves.  A point in time is kept as its age.

**ConfigurationDraft** is the draft of the utility and the pure part of
`SaveCoordinator::prepare()`; **SaveCoordination** is `execute()` request by request:
`Look` and `Write...` for each scope of the Nano, then `LookHost`, `SaveHost` and
`VerifyHost`.  Between two requests another client may write
and the Nano may restart; a request or its answer may be lost, and the EEPROM may
fail.  The daemon serves one request at a time, so a request is one step.

**NvmlReader** is the reader in the daemon, the helper process that it starts, asks, and
kills, and the helper's session with the driver.  A driver may be unloaded, hang,
or lose sessions and handles; a process in a call that hangs does not die of a
signal.

## 3. Runs

| Run | Bounds | What it shows |
|---|---|---|
| `store` | 3 records, sequence numbers 0..3 | no order of saves, failing writes, power losses and starts loses a committed record or loads a rejected one, and the journal implements `DurableRecord`. Four numbers are the fewest at which the signed comparison is defined, so each distance it can meet is met and the number wraps within a few saves |
| `labels` | 2 clients, 5 requests of which 2 are invalid, generations 0..3, 2 changes for each time that an identity is in force, 2 identities that may be set, lost and set again; clients and identities are interchangeable, hence the symmetry set | the labels implement `VersionedRecord`. Generations start at the top of their range, so that they wrap |
| `ramp` | 4 duty levels, rates 2/3 and 1/3 level a tick, gaps 1 and 4, a clock of 6 | over every window of automatic control the output keeps its rates, through retargeting, reversal and bypass, with passes too short for a point and passes beyond the cap on elapsed time; a steady target is reached |
| `group` | 5 duty levels, floor 1 or 2, temperatures idle/normal/critical, passes of 1 or 2 ticks, a clock of 10 ticks | the protections, the floor, boost and override deadlines, and the debounce of faults. Three environments: every mode with one fan, with a boost of 3 ticks or none, and the fault timers with two fans, one of which may stop being expected, and with passes whose current has no reference, up to 4 and 5 ticks after the start; and automatic control with stops, boosts and calibrations up to 14 ticks, so that the clock turns and a deadline may stay for more than half a turn |
| `firmware` | two groups of a fan, 3 duties, 3 generations, and one of three environments: two frames a pass with everything that bears on safety; saves of configurations, identities and tables; two groups calibrated in turn | the properties of the loop. Boosts last 0 or 1 tick (5 where calibrated), overrides 1 to 3, fault delays 1 or 2, so that each can begin and end inside the bound |
| `calibration` | 1 or 2 fans that stand, coast (140 RPM) or turn; passes 1 or 2 apart, windows of 8; a duty step of 50, so that each search has several steps, and the code's 3, 8 and 92 | what is saved was measured, the table is complete and falls, a run ends. Windows fit three samples with one to spare: each way to fail one happens |
| `serial` | a worker, one client, one fault, a queue of 2, sequence numbers 0..3; either one loss and one change of the fault, or two late answers, or two changes with the beeper switched on and off | answers, alerts, wake-ups, priority. A queue of 2 overflows within the frames of two exchanges; the sequence wraps after four |
| `forwarding` | 2 providers, one GPU and group, the code's times of 3, 1 and 5 s, exchanges of up to 1 s; either one provider and a changing mapping, or both, or a Nano that restarts | what the Nano holds is fresh or withdrawn in a bounded time. The providers are interchangeable, hence the symmetry set |
| `save` | two configuration scopes, labels and the daemon's mapping, two values each, generations up to 2; either 2 writes of another client, or 2 lost messages, one failure of the EEPROM and one restart | nothing is overwritten unseen, forgotten, or reported as saved when it is not |
| `nvml` | 2 GPUs, 2 processes, up to 3 troubles of the driver, or 2 with a changed mapping, a slow, malformed or failed start | one helper at most; readings come back |
| `framing` | 3 frames: empty, like a header, ending like one; 2 damaged bytes, which may read as magic, as the version or as lengths; one pause besides the one at the start | both parsers find their way back and invent nothing |
| `firmware_pipelined` | as the third environment of `firmware`, with two frames a pass | the finding of section 4 |

In `firmware` (16 ticks) and the first two environments of `group` the clock does not wrap
within the bound; in the third of `group` it does.  Section 5 says which of the properties are proved for a clock that wraps, and section 4
what happens to the others.  These models stop at the bound on the uptime,
`framing` when all frames are sent, and `nvml` may rest with no GPU mapped and every
budget spent: hence their `CHECK_DEADLOCK FALSE`.  In all other runs some step is always
possible, and TLC checks that.

### What the properties say

*A record.* `CommittedRecoverable`: a start finds the last committed record, inside a
save that one or the one being saved.  `StoreInv` is the invariant of the proof.
`ImplementsDurableRecord`, `ImplementsVersionedRecord`: the refinements.

*The ramp.* `RateLimited` bounds the rise and the fall over any window of automatic
control; `ReachesTarget`.

*A group.*  `UnsafeIsFullSpeed`: whatever is requested, unknown or
critical temperature and a silent host are 100%.  `NeverBelowFloor`: automatic
control either stands still with a verified stop or turns at the floor or above.
`NoColdStart`: a group at rest is never taken into automatic running without its
boost.  `OverrideExpires` and `BoostEnds` compare the mode with histories of when an
override or boost was last called for; a deadline of a boost that nothing has changed
for half a turn of the clock is the exception that the code has, and TLC reaches it.
`SlowFanConfirmed`, `CurrentFaultConfirmed`:
a fault is reported only if the deviation was measured in every control update for
the delay; of the current, in every one that has a reference to compare with.

*The loop.*  `SilenceIsFullSpeed` and `UnsafeOutputIsFull` are about
the PWM outputs at the end of a pass, after calibration has had its direct access.
`CalibratesCoolGroup`: no pass ends with a calibration on a group that is warm,
unknown, disabled or without its host.  `ReturnedUnlessOvertaken`: a calibration that
is over has left its group at full speed, in Auto and, unless saved, with a latched
fault.  `SavedIsInForce`: with no failed save outstanding RAM equals EEPROM, so a
rolled-back calibration leaves nothing behind.  `TablesAreVersioned`: no table
changes without its generation.

*A calibration.*  `StopsWereSeen`: a saved table lets a fan be stopped only if it was at
rest in three samples, four times; and every fan has a start.  `TableDescends`: the
duties fall strictly from 100% to the floor.  `RunEnds`: the windows' deadlines
suffice.

*The line.*  `NothingInvented`: what is received was sent, once and in order.
`Resynchronised`: a frame that arrives whole after a pause is delivered by both
parsers; the daemon's delivers also one behind damage, once the header that the
damage seemed to begin can be rejected.

*Exchanges and alerts.*  `AnswerIsOwn`: a late answer is never taken for that of
another request.  `OverflowConfessed`: the daemon records that alerts were dropped.
`NoLostWakeup`: the worker does not sleep over what it should handle.
`TemperaturesGetTheLine`: temperatures that wait get the line, however often clients ask.
`MasksRepaired`: once the Nano's faults stay as they are, the daemon shows them.
`CriticalIsSounded`: a critical fault that is recorded while the beeper is enabled is
heard, however brief.

*Forwarding.*  `SentIsFresh`: what is sent as valid was measured less than three seconds
before, by one provider.  `WithdrawnInTime`: the Nano does not keep an expired reading
for longer than `MaxLate`: the wait and the exchange that go on, or the second
since the last packet if that is longer, the next wait and an exchange that is lost;
and, where the Nano may restart, the reading of its whole state.
`RestartIsReread`: a worker that sleeps has read the Nano since its restart.

*Saving.*  `NothingTrampled`: no write replaces what was not reviewed.  `EditsAreKept`:
an edit is in the draft or in an unconfirmed write until saved or discarded.
`DoubtIsKept`: a write without confirmation is written again.  `SavedIsStored`: what is
reported as saved survives a restart.  `NanoFirst`: the daemon's mapping follows
the Nano's settings.

*GPU readings.*  `OneHelper`; `Recovers`: when the driver is up for good, all mapped
GPUs are read again and again.

### Fairness

* `RampDriver`, `CalibrationManager`: weak fairness of a pass.  `loop()` is called for ever
  by the Arduino runtime.  Nothing is assumed of targets or readings.
* `SerialExchange`: the Nano loops, and no thread stops for ever (weak fairness of their
  steps; of `TimeOut` only when nothing is on its way, which is when time is all
  that passes).  Strong fairness of `Send`, because a keep-alive falls due every
  five seconds however often the loop passes it by before.  `Take` is weakly fair:
  who waits wakes up, but may find the line taken again, so that
  `TemperaturesGetTheLine` rests on the priority of temperatures alone.  Only of the
  worker's other requests, which have none, it is assumed (strong fairness) that not
  every one finds the line taken again each time that it falls free.  Losses and
  delays are bounded by their budgets, so a good line follows.
* `NvmlReader`: the sampler and the helpers run; a killed process dies, unless the
  driver holds it.  `Recovers` assumes a driver that is up from some time on.
* The other modules have safety properties only.

### Limits of the bounds

* Forwarding: a restart between the snapshot of a new connection and its first
  heartbeat, or a second one before the Nano has been up for `MinUptime`, does not
  show as a smaller uptime, and the code does not notice it.  `RestartIsReread` is
  stated for restarts of a Nano that has been up for longer than two heartbeats can be
  apart (`LongUptime`).
* Saving: a restart is modelled where RAM and EEPROM differ.  If a write failed to be
  stored, the Nano restarted and another client wrote, the generation can be one
  that was seen before with other values; the budgets leave out this
  combination, in which the code's check by generation cannot tell.
  `EditsAreKept` and `SavedIsStored` are checked for another client, or lost
  messages, but not both: section 4 says what can happen to the daemon's mapping then.
* GPU readings: calls that do not hang return within the reader's timeout, unless
  the budget `slow` says otherwise.
* Labels: the version that a client knows from before the last change of the identity
  protects nothing, in the model as in the code, where the generation that it read may be
  that of the new record by chance.  The daemon sets an identity only on a Nano that has none, and makes
  it at random; the model does not rely on that.

## 4. Findings

**An aborted calibration is not returned** (`fw/CalibrationManager.cpp:31`, run
`firmware_pipelined`).  An abort and a start of the other group in the frames of one pass:
the start clears the outcome that the loop has not consumed, so that the first
group is not taken to full speed and gets no fault.

Other behaviours met while modelling, which the bounds or the wording of the properties leave
out.  What documents say of the first and the last one is quoted there; the others no
document contradicts:

* *A boost comes back* (`fw/FanGroupController.cpp:194`).  The deadline of the boost is never
  cleared and is compared as a signed difference.  A group that has been in automatic
  control all the time is boosted again 24.9 days after it, for as long, if nothing calls for
  another boost before: it runs at its startup duty, whatever a temperature below critical
  asks for.  `docs/USER_MANUAL.md:429` has the boost "when starting fans", for a duration in
  milliseconds.  `BoostEnds` has this as its exception; without it, TLC finds a
  boost in `group` five ticks after the start of a group that is configured for none.
* *An override that never expires* (`fw/FanGroupController.cpp:168`).  A deadline of 0
  means none, and now + timeout can be 0 at the wrap.  `OverrideExpires` fails in
  `group` when its third environment has an override of 2 ticks.
* *A current timer survives a pause* (`fw/FanGroupController.cpp:486`).  Where the
  calibration expects under 20 mA the function returns without touching the
  timers.  A deviation before such a pause and one after it can therefore raise the
  fault at once, with nothing measured in between.  `CurrentFaultConfirmed` counts only
  the passes that compare and goes on counting through the others, and so holds:
  it does not catch this.
* *Shorter settings do not shorten a boost* (`fw/FanGroupController.cpp:41`).  A new
  configuration leaves the deadline of a boost that goes on.  `BoostEnds` allows a
  boost the time that was in force when it began.
* *Silence wraps* (`fw/FirmwareApp.cpp:598`).  After 49.7 days without the host the
  age starts from 0 and the alarm clears for one timeout.  `SilenceIsFullSpeed` fails
  in `firmware` when `until` goes beyond `TimeModulus`.
* *A second abort is not announced* (`fw/FirmwareApp.cpp:67`, `:321`).  Aborts in two
  consecutive passes leave the one-shot fault set across both, so there is no
  transition to publish.
* *A repeated label is that of the old mapping* (`src/monitor/SaveCoordinator.cpp`).  When
  the write of a label was not confirmed and the mapping is changed before the
  retry, the retry writes the label that was meant before, if nothing else made
  the label dirty.  An edit back to the baseline while a write is unconfirmed
  is likewise replaced by the repeated write; both are shown for review.
* *Labels of an identity that is not saved* (`fw/FirmwareApp.cpp:213`).  A failed save leaves the
  new identity in RAM.  The client is told so, but labels are then saved and
  acknowledged under it.  A power loss brings back the identity before, and with it its
  labels, if a slot still has them: not the ones acknowledged last.  The same record
  may be the older of the last two of that identity, as the save under the other one
  used the slot of the newer.
* *A retry follows another client* (`src/monitor/SaveCoordinator.cpp:151`).  When the
  write of the daemon's mapping was not answered, but done, the retry finds it in
  place, and the draft is clean.  If another client then changes the mapping back to what it
  was before that write, and the
  utility is refreshed, the draft takes that value over, the next retry writes the other one
  again, and reports the scope as saved.  `docs/USER_MANUAL.md:156` says that
  "unrelated external changes block reconciliation", line 160 that "FanCtl does not silently
  overwrite the newer configuration", and the comment at `SaveCoordinator.cpp:61` that a retry
  reconciles "only the previous uncertain operation's own changes".  The code does block
  a mapping that is neither the one before nor the one after the write; a change back it
  cannot tell from a write that never happened, and it is not silent: the review shows
  the mapping that is written.  So this is the limit of that promise rather than a
  breach of its words, and no run reports it as one.  `EditsAreKept` and
  `SavedIsStored` fail in `save` with three foreign writes, and with two and a lost message.

## 5. Proofs

`EepromProofs` proves of the configuration store, for every set of records and every
range of sequence numbers of at least four:

* `TypeCorrect`: `Spec => []TypeOK`;
* `StoreInvariance`: `Spec => []StoreInv`;
* `RecoverableAlways`: `Spec => []CommittedRecoverable`;
* `AdjacentAlways`: `Spec => []SequencesAdjacent`;
* `StoreImplementsDurableRecord`: `Spec => ImplementsDurableRecord`.

`CommittedRecoverable` is not inductive: what a start loads depends on which of two
valid slots counts as newer, on what a half-written slot can become when its magic
number is written, and on how the active slot relates to the last save.  `StoreInv`
adds these: without power some slot holds a whole record and the other was written
next to it in the sequence (`OffInv`); with power the active slot holds the committed
record under the current number (`ActiveInv`); a valid target slot is the previous
record, or the candidate (`TargetInv`); and because at most one write of a save goes
wrong, data other than the candidate's comes with a correct header, whose checksum
rejects it (`FaultInv`).  TLC checks the same `StoreInv` in run `store`.  The
assumptions are `StoreAssumption` in the module: `Garbage` is no record, number or
checksum, and the modulus is at least 4.

Of the labels it proves, for any clients, requests, identities and generations:

* `NamesTypeCorrect`: `NamesSpec => []NamesTypeOK`;
* `NamesImplementVersionedRecord`: `NamesSpec => ImplementsVersionedRecord`.

The mapping makes the record of the slot in use the abstract one, and the change of it
the writing of the magic number.  Three facts make the steps fit.  `Saving`: a save
writes the slot that is not in use, the target counts for nothing until its magic
number is written, and its generation follows the one in use - so the slot that
counts as newer changes at that write, whole, or not at all.  `Behind`: the
generation that a client has read, unless that is `Outdated`, is as far behind the one
in use as its version is, once around the end of the numbers at most, so the generation
that is compared in `save()` tells what the version would tell.  The third is about
`Kept`: what the slots hold for an identity is what `VersionedRecord` has in `kept`, so
that an identity which returns finds one of its records, or none (`CurrentReturns`),
whichever slots the saves under another one have used.  `NamesAssumption` has fewer
changes under one identity than generations (2^32 in the code): beyond a full turn an
old number does come again, and a client that kept it for so long would be believed.

`FanGroupProofs` proves of one fan group, for every set of environments - so for all
configurations, calibrations, requests, readings and gaps between passes - and for
every duty range, rate and clock range (of at least 4):

* `TypeCorrect`: `Spec => []TypeOK`;
* `UnsafeAlwaysFullSpeed`: `Spec => []UnsafeIsFullSpeed`;
* `AlwaysAboveFloor`: `Spec => []NeverBelowFloor`;
* `NeverStartsCold`: `Spec => NoColdStart`;
* `OverridesExpire`, `BoostsEnd`, `SlowFansConfirmed`, `CurrentFaultsConfirmed`:
  `Spec => []OverrideExpires` and so on.

`TypeOK` is inductive as it stands.  `UnsafeIsFullSpeed` and `NeverBelowFloor` invariants speak of the state that a
control update leaves, so the argument is that *any* object of the class, whatever its
history, is left safe by one `update()`: `GroupSafe` is the conjunction, and every
other step only has to keep the types.  `UpdateType` in `FanGroupControllerProofs`
is that fact, put together from one lemma per stage.  Each lemma says what the stage
contributes (a critical reading makes an active fault; an unsafe group gets 100% in
Failsafe; automatic control asks for 0 only where a stop is verified; the ramp does
not pass below the floor on the way) and what it keeps (the reading, the target, the
mode).  The order of the stages matters: that the ramp touches only
automatic control, after the choice of the mode, is what keeps an unsafe group at
100% while it was ramping.  Of the ramp it is enough that a step stays between where
it was and its target (`RampStepType`).

The other five are about deadlines and the history of what was asked for, so a
second family of lemmas (`...Deadlines`) says, stage by stage, what happens to
`startupUntil`, `overrideUntil` and the fault timers; `ControlUpdateDeadlines` puts them
together.  `NoColdStart` needs one fact of the object, that its duty is the one its
ramp stands at (`OnRamp`), and one of the clock: a deadline less than half a turn ahead
is not reached (`NewBoostIsAhead`).  It holds across any number of wraps, under
`BriefBoosts`: the configured boost is less than half a turn, which in the code it is
by its width (16 bits of milliseconds against 2^31).  So does `BoostsEnd`, under the same
assumption, with the exception that `BoostEnds` names.  The deadline in the object is only a
reading of the clock, so its invariant `BoostTimed` says which time it stands for
(`StandsFor`): one not before its last change, `boostSet`, by less than half a turn after
it, and no later than the end of the last boost that was due.  Until half a turn has
passed since that change, the signed comparison then sees that time, however often
the clock has turned (`ElapsedAcrossTurn`, `AddAcrossTurn`); beyond it nothing can be
said, and section 4 has what happens.

The other three are the invariant `Confirmed`, of which `Timed` is the part that makes it
inductive: an override in force has the deadline of the history, a boost's is no
later than that of the history, and a timer that runs was started no earlier than the deviation began (`Ran`).  They are about a boot of
less than half a turn of the clock (`BriefBoot`: 24.8 days, with overrides shorter
than that).  The wrap is not only a longer time for them: an override whose deadline
falls on 0 never expires (section 4), and a fault timer that starts at 0 starts again
in the next pass.

The assumptions are those that the modules name: `TimeAssumption`, `RampAssumption`,
`GroupAssumption` (at most two fans, the unmeasured floor between 1% and 100%) and
`FanGroupAssumption` (environments hold what `Configuration::validate` and the frame
parser let through: a nonzero minimum duty above all).  The proofs of clock
arithmetic hold with wrapping: types, full speed and floor do not depend on a boot
being short.

`FirmwareProofs` uses the same lemmas for the loop with its two groups, for any data in
the EEPROM, any frames in any number and order between passes, and any outcome of
a calibration:

* `AlwaysSound`: `Spec => []Sound`, that is `TypeOK`, thresholds in order, and a
  calibration only of an enabled group, with nothing aborted and nothing concluded
  between two passes (`Calibratable`);
* `SavedStaysInForce`: `Spec => []SavedIsInForce`;
* `CalibrationsAreReturned`: `Spec => []ReturnedUnlessOvertaken`;
* `UnsafeOutputsAreFull`: `Spec => []UnsafeOutputIsFull`;
* `TablesStayVersioned`: `Spec => TablesAreVersioned`;
* `SilenceMeansFullSpeed`: `Spec => [](BriefSilence => SilenceIsFullSpeed)`;
* `OnlyCoolGroupsAreCalibrated`: `Spec => [](BriefSilence => CalibratesCoolGroup)`.

A pass is long - two updates, a calibration with its outcome, outputs, alerts - so that
`ControlOutcome` first says what it leaves: for each group the result of one
`Update` or of the return from a calibration, and for RAM and EEPROM the four
outcomes of a commit.  `SavedIsInForce` is inductive; it rests on the rollback being
exact, with the generation that the commit used.  `ReturnedUnlessOvertaken` needs
`Ending`: the only calibration that is owed a return is of the group that the
manager still names, running or aborted.  The last two need `Timely`, that the time of the
last frame is that of the history.  `BriefSilence` is `uptime - silentFrom < TimeModulus`:
the silence, not the boot, is shorter than a turn of the clock, and the clock
may wrap within it (`ElapsedAcrossTurn`).  Section 4 has the silence that is longer.
That the alarm is raised by a comparison that is unsigned, unlike those of the
deadlines, is what makes a whole turn and not half of one enough.

`FanDriveProofs` proves of the ramp `RampTypeCorrect` and `RateAlwaysLimited`,
`RampSpec => []RateLimited`, for all rates, units of credit, caps, gaps and clock ranges.  `RateLimited` alone says
nothing of the credit that the ramp carries into its next step.  The invariant
`Paid` counts it: points risen, in units of credit, plus the credit left in that
direction, are at most what the time of the window earns plus one point less a
unit.  A pass earns at most its gap (`ElapsedIsGap`: the clock may wrap in between,
and that only shortens what is measured), spends whole points and keeps the rest
(`Budget`), and drops the credit of the other direction.

Of a calibration it proves, for any fans and readings, any number of points and any
step and margin of the search:

* `CalibrationTypeCorrect`: `Spec => []TypeOK`;
* `SavedStopsWereSeen`: `Spec => []StopsWereSeen`;
* `SavedTablesDescend`: `Spec => []TableDescends`.

What is saved is put together over five phases, so the invariant says what each one
knows: `Trials`, how many stops were measured by then; `StoppedRested`, that a fan
that moved in any of them is no longer taken for one that stops; `StartsKnown`, that from
the second phase on every fan has a duty that started it; `Swept`, that the table so far
is the beginning of the sweep.  That the table falls is arithmetic: floor and points
are such that each interval is a duty at least (`MaxFloor + Intervals <= 100` in
`CalibrationAssumption`; 92 and 8 in the code), and a quotient of multiples of so
large a number grows strictly (`DivGrows`).

`GpuTemperatureProofs` proves of the reader `NvmlTypeCorrect` and `OneHelperAlways`,
`NvmlSpec => []OneHelper`, for any GPUs, any finite or infinite supply of processes and any
budgets.  The invariant is
`OnlyPid`: a process that is alive is the one whose pid is kept; with `PidWaits`
(who waits for an answer has a process) it is inductive, because `start()` refuses
while the pid kept is of a process that lives, and only `Reap` and a failed start
forget a pid, of one that does not.

Of the forwarding it proves, for any providers, GPUs, groups, configurations and
temperatures, and any limits of time:

* `ForwardingInvAlways`: `Spec => []ForwardingInv`;
* `ForwardingTypeCorrect`: `Spec => []TypeOK`;
* `FreshAlways`: `Spec => SentIsFresh`;
* `WithdrawnAlways`: `Spec => []WithdrawnInTime`;
* `RereadAlways`: `Spec => []RestartIsReread`, where `LongUptime`.

`SentIsFresh` needs one fact, `TrueAges`: a retry never makes a reading younger than its
measurement.  `WithdrawnInTime` is about two clocks, that of what the Nano holds and
that of the worker's turn, and its invariant says how far the first may have run
(`Lateness`) at each point of the turn: no further than `TurnLate` - an exchange, and
the second since the last packet - when it sleeps, then the wait for the line, then the
exchange.  What keeps it from
running on is in `Seen` and `Held`.  `Seen`: a worker that nobody has woken has looked
at what is published and configured now, and its deadline is not later than the
first expiry of it; so a reading that expires while it sleeps wakes it in that very
second (`ExpiryIsDue`).  `Held`: what the Nano holds is what the last heartbeat was the
answer to, or what is being answered, or nothing since a restart; so what is wrong on the
Nano differs from what would be sent, and is due a second after the last packet
(`WrongHasChanged`), and a packet that arrives leaves nothing wrong
(`ChosenIsRight`).  A packet that is lost costs the connection, whose end is the end of
the count.  `RestartIsReread` rests on `Uptimes`, which bounds the uptime of the Nano by
that of the last heartbeat and the time since, and by less if it has restarted unnoticed;
under `LongUptime` the next heartbeat is then the lower one.  Run `forwarding` checks
that its constants have `LongUptime`; the code has no such assurance, and section 3
has what happens without it.

`SerialLineProofs` proves of exchanges, for any clients, length of the queue and size of
the sequence:

* `AlwaysOrdered`: `Spec => []Inv`;
* `NoAnswerMistaken`: `Spec => []AnswerIsOwn`;
* `OverflowsConfessed`: `Spec => []OverflowConfessed`;
* `NoWakeupLost`: `Spec => []NoLostWakeup`.

`AnswerIsOwn` is about two frames that are never on the line together, so `Inv` says
what is.  `Holding`: who has the line is in an exchange.  `OwnIsLast`: the request or the
answer of that exchange carries its number, and nothing but alerts is behind it.
`StaleIsBehind`: whatever is left of earlier exchanges has a number that the sequence
has passed (`Behind`), by so much less than a turn that what may still be lost or late
cannot bring the sequence around to it.  That is why the assumption
`ExchangeAssumption` has `losses + delays + 1 < SeqModulus`: each exchange that fails
leaves at most one frame behind and is one trouble.  With 16-bit numbers the
line would have to fail 65,535 times with the frame of the first still under
way; the code relies on that too.  `OverflowConfessed` is inductive with the types
of the daemon's picture (`Confessing`).  `Wakeful` strengthens `NoLostWakeup` to the
moments between the worker's last look and its sleep: from there on it is
watching the line, is notified, or somebody has the line, who will notify it.

It proves of the two parsers, for any frames and payloads, any largest payload that
fits a byte, and any number of damaged bytes and pauses:

* `FramesAreNotInvented`: `FramingSpec => []NothingInvented`;
* `DamageIsOvercome`: `FramingSpec => []Resynchronised`.

`FramingInv` is about the checksums that are in the daemon's buffer, since a frame can be
delivered only with its own.  Each is of a frame whose last byte has been sent, they
are in the order of sending, and all are behind what was delivered (`InOrder`).  A
skipped byte keeps that, and a delivered frame is the one whose checksum was the next.

`Tracking` follows a frame that came without damage.  While it is being sent, what there is
of it is the end of the buffer, without a gap (`SendingIsHeld`); when it is whole it is in the
buffer with no fewer bytes from its start on than have come since (`WholeIsHeld`), until it is
delivered.  A skip cannot remove its first byte: at the front of the buffer it is a
frame that checks.  A delivered frame cannot overlap it: it ends with a checksum, and within
the frame only the last byte is one.  So once `MaxFrameSize` bytes have come since its start,
a daemon that no longer searches has delivered it: the header at the front of the buffer
could otherwise not still be waiting for more (`DueIsReached`).  A frame that began after a
pause has nothing before it.  The Nano's parser has no second look; after a pause
it is reset, and follows the frame state by state (`NanoFollows`).

`SaveCoordinationProofs` proves of a save, for any scopes and values, any troubles and
any number of saves:

* `TypeCorrect`: `Spec => []TypeOK`;
* `DoubtIsAlwaysKept`: `Spec => []DoubtIsKept`;
* `NothingIsTrampled`: `Spec => []NothingTrampled`;
* `NanoGoesFirst`: `Spec => NanoFirst`;
* `SettingsAreKept`, `SettingsAreStored`: the Nano's part of `EditsAreKept` and
  `SavedIsStored`, with other clients;
* `EditsAreAlwaysKept`: `Spec => []EditsAreKept`, and
* `SavedIsAlwaysStored`: `Spec => SavedIsStored`, of a user who is alone.

`OperationsType` says what a review consists of: one change for each scope that is dirty
or in doubt.  `Doubted` adds to `DoubtIsKept` the moment between the daemon's write and
its readback.  For those that follow, `Seen` says what a generation proves: where the
generation that was read is still in force, so is what was read - in RAM and, for
a restart, in the EEPROM.  This is not so when a write that was in force was not
stored, the Nano restarted, and another client then used the generation again.
The theorems assume `TroublesApart`, that not all three kinds occur in one
behavior, which is the limit of section 3; any number of any two may.  `Planned` says that
a change that is no longer to be written is what the last readback has shown, or
the save is blocked, so that the daemon's turn comes only when all of the Nano's
are confirmed.

`EditsAreKept` is not inductive: what is pending may be taken for what was read when a
new baseline shows the same value, and the draft then follows the Nano.  `SettingsKept`
says that this happens only to a scope with an unconfirmed write of that value, which
will be staged again (`ReadSettings`, `StagedSettings`); that what is pending at an
unblocked write is pending on top of what was read for it, so that accepting one scope
leaves the others pending; and that what the save is to write of a scope is what the
user has set.  A write of the Nano is checked against the baseline on every retry, so
all this is true with other clients.  A write of the daemon is checked against the write
itself only, which is why the finding on retries in section 4 is about the mapping:
`MappingKept` says that the mapping is pending or the daemon has it, and assumes
`NobodyElseWrites`.

Only model-checked: the liveness properties (`ReachesTarget`, `RunEnds`,
`TemperaturesGetTheLine`, `MasksRepaired`, `CriticalIsSounded`, `Recovers`) and the fairness they rest on, which are beyond TLAPS as
used here; and the daemon's part of `EditsAreKept` and `SavedIsStored` with another client,
which holds within the bounds only (section 4).  A theorem states every other property
that the runs check.

## 6. What is not modelled

* Sensors and outputs on the Nano, and the readers of sysfs and `nvidia-smi`: I/O.  What
  they deliver is an input of the models.
* `targetRpm`, feed-forward, trim, `validate` and the curve editor: arithmetic on data that
  the models abstract to what decides a branch.
* Encoding and decoding of frames and of the API; HTTP, which is library code.
* The atomic replacement of the daemon's file, left to the file system.
* Screens and input of the utility, its live display, and the daemon's diagnostics.
* Scripts, packaging, the bench sketch, the prototypes.

`PROJECT.json` lists for each component what is left out of it.

## 7. Plan

1. `Curves`: `targetRpm`, feed-forward and `validate` against reference definitions.
