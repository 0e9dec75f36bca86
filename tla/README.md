# esp-fw in TLA+

A verification project for the ESP32 firmware library of this repository: TLA+
modules translated from the C++ sources, TLC configurations that check them on
small instances, and proofs that TLAPS checks for every instance.

The reference is the code. Where a document or a comment says something else, a
run whose expected outcome is a violation shows the difference; it is listed
below and under "findings" in `PROJECT.json`; section 3 also names the
differences that were seen while reading and have no run.

## 1. The system

A device runs one loop (`examples/firmware-main.cpp:86-91`): the web server, one
poll of the LoRa radio, the clock, and one event of the queue. Pin interrupts
preempt it. Everything else is called from one of these.

```
 PIR / button --interrupt--> TriggerPin --push--> EventQueue --one per pass--> EventHandlers
                                                     ^                       |    |      |
      LogStore::info (called by everybody) ----------+                       |    |  SndNotif, TestModule
                                                                             |    |
                      WsInterface::notifyAll <-- EventMessageNotifications <-+    +-> AlarmSystem
                                                                                        | sendText
 other devices <======== LoRa radio ========> LoraInterface --onPacket--> sendAck, ApiModule::dispatchApiCall
```

| component | state | operations | interacts by | hard behaviours |
|---|---|---|---|---|
| event queue, `Events.*` | `EventQueue::local`, `subscribers` | `pushEvent`, `watchEvents`, `dispatchEvt` | pushed by the loop task and by interrupts; calls `onEvent` | interrupt inside a push; handlers that push while being dispatched; one pop per pass |
| log store, `LogStore.*` | `logBuffer` | `add`, `info`, `dbg` | every record may push an event | growth; bypass |
| pin interrupts, `GpioPin.*` | the pin table | `onPinStateChange`, `TriggerPin` | pushes events | preemption |
| alarm, `AlarmSystem.h` | `lastTrigger`, `lastRequest`, `receivedAck` | `onEvent`, `onMotionDetected`, `onApiCall`, `onMsgAck`, `onSoundAlert` | event in, radio out | wrap of `millis()`; boot; triggers that never pause |
| packets, `CommonObj.*`, `utils.cpp` | none | `parse`, `serialize`, event conversions | called by link and notifier | names of JSON members; colons; missing members |
| link and dispatch, `LinkInterface.*`, `LoraInterface.*`, `ApiModule.*` | radio, `registeredApiModules` | `listen`, `onPacket`, `sendAck`, `dispatchApiCall` | between devices | loss; ACK before the call; ACK storms; resets |
| test module, `TestModule.h` | none | `onApiCall`, `testSandbox` | radio in and out | answers a request by the same request |
| notifier, `EventMessageNotifications.h` | none | `onEvent`, `onApiCall`, `onForeignEvent` | queue to websockets, radio to queue | clients that join and leave between push and broadcast; records of the broadcast's own clients; unreachable branch |
| websockets, `WsInterface.*` | `instances` | connect, `onClose`, `notifyAll`, `notifyClient` | server library | closed clients; full map; keys made of sizes; connections shared with other routes |
| boot and network, `System.*`, `firmware-main.cpp` | stage of `setup()`, LAN, registrations | `coreInit`, `initLAN`, `activateWifiSTA`, ... | everything else waits for it | missing configuration or name servers; hotspot that is refused; radio that never answers; LAN that comes and goes; a service added to a running server |
| configuration, `SystemConf.*`, `FileHandlers.*` | JSON documents | `load`, `merge`, `flush` | file system | missing file; merge of unlike values and of texts that do not parse |
| files and log file, `FsUtils.*`, `LogConsumers.*` | files | `renameFile`, `writeFile`, `writeFile2`, `deleteFile2`, `FsLogConsumer::init`, `readPastLog` | configuration, log | power cut between two calls; a print that fails; a file that is not there is fatal |
| time, `SystemTime.*` | four counters | `sync`, `onCycle` | loop | assignment in a test; division by 0 |
| remote GPIO, `RemoteGpioService.h`, `GpioFactory.h` | pin table, watchdog counters | `extractMsg`, `loop`, `pinAuto`, `resetPinsDefaults` | websocket, hardware | pins used before allocation; watchdog against late pings; counter that overflows |
| remote files, `RemoteFsService.h` | map of clients | `onCreate`, `extractMsg`, `onClose` | websocket, files | answers told apart by their order only; a missing file in the middle of a batch |
| sound, display, sensors, web server, OTA | | | | hardware or library glue |

`PROJECT.json` lists each with its status and each hazard at its line.

## 2. Modules

| module | role |
|---|---|
| `EventBus` | abstract: each subscriber gets each event it listens for, once, in order |
| `EventQueue` | queue, dispatch, log store and interrupts; implements `EventBus` |
| `EventQueueProofs` | its theorems, without and with interrupts inside a push |
| `AlarmSystem`, `AlarmSystemProofs` | when a trigger becomes a request, over a wrapping clock |
| `WsInterface`, `WsInterfaceProofs` | the websocket routes and their maps of instances |
| `EventFeed` | abstract: whoever watches sees the feed of events go by, without gaps |
| `Firmware`, `FirmwareProofs` | `loop()`: composes `EventQueue` and `WsInterface`; implements `EventFeed` |
| `Packet` | operators: `Serialize`, `Parse`, `AckOf`, event conversions |
| `Transit` | a packet and an event that are handed on from device to device |
| `JsonMerge` | operators: JSON documents, an assignment to a member, and what merging means path by path |
| `ConfigFile` | a JSON file that is read once and updated in memory, member by member; uses `JsonMerge` |
| `AlertBoard` | abstract: an alarm is heard once per device at most, and only if it was raised |
| `LoraNet`, `LoraNetProofs` | several devices and the radio; uses `Packet`, implements `AlertBoard`. The proofs are those of `Transit` too |
| `Boot`, `BootProofs` | `setup()`: what a device gets through before it serves. The proofs are those of `ConfigFile` too |
| `RemoteGpio`, `RemoteGpioProofs` | pins driven by websocket clients, and their watchdog |
| `Storage` | the functions of `FsUtils` that change files and the rotation of the log, with power cuts and failed prints |
| `RemoteFs` | the readers: batches of remote file operations, and the past log; extends `Storage` |
| `StorageProofs` | theorems about both |
| `MC*` | values of the constants for TLC |

Definitions keep the names of the functions they model. An operator whose
comment begins "Seeded fault" is not part of a specification: it is a plausible
bug, kept beside the definition it perverts, that shows which property notices it.

### EventQueue

State: `mem`, `head`, `tail` are the memory of the `std::queue` and its two ends;
`phase`, `evt`, `pos`, `dispatched` say where the loop task is; `push`, `item`,
`reg` are the push it is inside of; `logsDue` are the records the running code
has still to write; `triggers`, `pushed`, `got` are history. A push of the loop
task is five steps (`PushAddress` ... `PushStore`), because the queue is shared
with an interrupt handler without a lock: what an overlapped push leaves behind
is a choice over the interleavings of those steps. An overlap can leave a slot
on which no constructor ran (`Raw`). What its memory holds is not known: the nodes
of a `std::deque` are freed and taken again, so that it may be meaningless or an
event that was popped and destroyed long ago (`FrontReads`), and copying or
destroying it may fault (`RawFault`). The interrupt runs to completion, on the
same core. `std::deque` allocates nodes as it grows; the model has one array, so
what an overlap at the end of a node does to the map of nodes is not modelled, and
nothing is claimed of the content of a queue whose pushes have overlapped: an old
event may well be dispatched again. What holds under the race is said of pushes
(`LogsNotified`). `QuietSpec` is `Spec` without interrupts inside a push: it
separates what the race breaks from what is right apart from it.

### AlarmSystem

`Tick` is a millisecond; the counter has `2 * Half` values. `sinceTrigger` and
`sinceRequest` are the true ages the code approximates by wrapped differences.
`outcome` records what the last step did. Signed overflow of the
subtraction cannot happen for two readings that are valid ints on a counter that
never goes negative, and wraps on the target otherwise. `onSoundAlert` only
writes a log; `receivedAck` is written and never read.

### WsInterface

A connection and its instance share a name. `RouteOf` says which route a
connection takes: that of `WsInterface`, or that of one of the two remote
services, whose `onCreate` and `onClose` are the same but for the text of the
key. The server's limit on open connections (`WebServer.cpp:24-26`), common to
the routes, and what `send` does are external. Sending through the instance of a
closed socket is taken to reach nobody; in the library the instance may be gone
by then, and then the broadcast goes through a dangling pointer, which is
outside this model. `onCreate` returning no instance is taken to leave the
client unconnected.

### Firmware

`FwNext` is `EventQueue` and `WsInterface` side by side, joined where the code
joins them: the dispatch step that calls the notifier is the broadcast of
`WsInterface` (`OnEvent`), and a handler that the web server runs for a
connection opens or closes it and writes a record (`HandlerRan`), which is an
event that goes the same way. Message n of `WsInterface` is the n-th event the
notifier was called with; `inbox` and `got` together are what each client saw.
`EventFeed` has one feed, a set of watchers and a screen for each: the refinement
says that all the buffering, numbering and dispatching between push and screen
cannot be noticed by whoever watches. The main firmware has only the route of
`WsInterface`. The radio's part in the loop is the records it writes
(`Services`).

### Packet and Transit

A JSON object is a function on member names; a text is the sequence of its
segments between colons. Only the delimiter and emptiness matter to the code.
`Transit` hands a packet and an event on from device to device, in any order: a
hop serializes what the device has got, and the next device reads that. What
arrived is what is sent on, so a conversion that loses something shows at the
second hop at the latest. `PacketCrosses` and `EventKept` speak of every member
and name the ones that are lost: a packet's timestamp, its sender and target if
it is not addressed, an event's source and time.

### JsonMerge and ConfigFile

A document is a function on its paths; of the values that are no objects only two
kinds are told apart by the code: those that count as false (null among them) and
the rest. `ConfigFile` has the life of a document: read at the first use, never
again before the next start, merged into and not written back. `Merge` is the
first call of `mergeJson`, and `MergeMember` a pass of its loop: the member is
there in both documents and `mergeJson` calls itself, or it is assigned, with what
ArduinoJson does to members of values that are no objects (`Assign`). The stack of
calls is the set `left` of members that they have still to look at; the innermost
call comes first, and a restart may come between any two. The reference, `Overlay`,
takes no steps: it says which paths of the two documents are covered and which are
in the way.

### LoraNet

`outbox[d]` holds what the handler running on `d` is transmitting: `sendText`
blocks, so `d` does nothing else until it is empty. `Listen` is `listen` and
`onPacket` up to the ACK; `DispatchApiCall` is the rest, after the ACK went out.
The radio may lose a packet for any subset of the receivers, a packet that was
not read is overwritten by the next, and `ForeignArrives` brings calls of other
transmitters: every module, an unknown module, no command, and noise. `Reboot`
clears what is in memory. Alarms may be raised at any time; how often is
`AlarmSystem`'s subject. The buzzer is left out.

### Boot

One action per part of `setup()` that can fail, wait or be seen: `stage` is the
part that comes next. `config` is on the flash and survives a reset; all other
variables of the code are memory (`Blank`). A file is what its static address
consists of and the password of its hotspot, since nothing else of it decides what
`setup()` does; a member that is absent is read as the text "null", which is no
address and too short for a password. Whether the hotspot comes up (`hotspot`) is
the library's choice for a password it takes, and nobody looks at the result.
`StartServer` is the moment from which both servers answer; the route of the
update service comes after it (`StartUpdateService`), on a server that runs.
`abort()` restarts the chip. The environment owns `lan`, `radio`, power and
updates.

`FileDecides` is about two different boots: no file is served with at one time and
aborted on at another. It does not say which files those are: that a file which a
comment calls good is among those that abort is what `BootDns` shows.

### RemoteGpio

The service and its watchdog run in the same task, so a message's batch is
extracted without a loop in between: `todo` is what is left of it. `Confs`
leaves out frequency and resolution, which only configure the hardware; the
`value` of a pin is written and never read. Operation 'a' is left out, because
`GpioFactory::pinAlloc` does not exist (`RemoteGpioService.h:218`); the map of
clients is in `WsInterface`. `PinFree` changes nothing, as `pinFree` is an empty
function with a TODO. `cyclesCount` wraps at `IntHalf`, as the target's integers
do. `assigned` and `sound` are history: which pins were assigned since the start,
and whether the last message keeps to them (`Sound`); they are what `SoundIsSafe`
compares with the pin table, which they do not read.

### Storage and RemoteFs

A function of `FsUtils` is the sequence of its calls of LittleFS (`Calls...`),
and `MakeCall` makes the next one; a power cut (`Restart`) drops the rest. Each
call is atomic, as LittleFS promises; opening for writing empties a file, and
what was printed appears with the close. `PrintFails` is the branch "write failed"
or "append failed", which only writes a record and closes: a print that fails, as
on a full flash, prints nothing here, and entries of folders always find room.
`torn` are the paths that a cut or a failed print left empty. `InitLog` is the
first function of a boot, the place that `firmware-main.cpp:56-58` has for it;
nothing in `LogConsumers.cpp` enforces that, and a second `init` in a boot would
move the young log over the archive. `Folder` is what stands at a path that
is a folder. `RemoteFs` adds the calls that only read
(`readFile`, in `readPastLog` and in the batches of `FsRemoteService`), and what
ends the program: a file that is not there, an operation or a name that is null, a
key that is no number. After one of these only a restart follows. `asked` and
`replies` are what the batch read and what its client was sent for it. The main
firmware does not call the rotation of the log (`firmware-main.cpp:57-58`) and
does not include the remote file service: both are checked as parts of the
library.

## 3. Runs

Passing runs:

| run | bounds | shows |
|---|---|---|
| `Firmware` | the four subscribers of firmware-main, 3 connections for a map of 2, 2 records of services beside those of connections and alarms, 1 interrupt | types; queue = pushes; every info record notified in order; implements `EventBus` and `EventFeed`; every push is dispatched in the end and shown to those who are there |
| `AlarmSystem` | counter of 16, delays 1 and 3, ages to 40 | spacing of requests; nothing else holds an alarm back; a motion without pauses counts once |
| `WsInterface` | maps of 3, 3 open connections, 4 + 1 + 1 connections on three routes, 4 messages | delivery to open clients |
| `Conversions` | 2 devices, 6 texts in each name; 3 files, 108 updates with objects inside objects | packets cross and lose their timestamp only, ACKs come back, events keep type and content and lose source and time; merging is overlaying |
| `LoraNet` | 3 devices, 1 alarm, 1 foreign packet, resets | one transmission owed at a time; implements `AlertBoard`; nothing but alarms, other transmitters and sandbox calls makes traffic |
| `LoraNetSilent` | 2 devices, 2 alarms, 1 foreign packet | ACKs are true; the network falls silent |
| `Boot` | 7 files, 3 looks at the LAN, 2 cuts or updates | the file alone decides; the server is complete but for the update service, which follows; a good device serves whatever the LAN and the hotspot do |
| `RemoteGpio` | 2 pins, 2 channels, limits of 1 and 3, counter of 14, 10 messages | the watchdog is never early and never fails; a pin that was assigned can be used |
| `Storage` | 3 boots, 3 paths in 2 folders, 2 batches | the last log survives cuts and failed prints but for a case that is named, can be read and is the older one; whole or empty files; no empty folders |

Bounds: in `Firmware` one interrupt and three connections, each of which writes up to two records, give every order of
pushes, joins and leaves around a broadcast; a counter of 16 wraps more than twice
within the ages counted; four connections overfill a map of three after departures,
while two other routes take their share of the three open ones; three devices are the least where two hear the same packet; a limit of 3 in a
counter of 14 lets the watchdog fire before and after an overflow; three boots
are a cut, the boot it spoils and the one after; the three paths make a folder
within a folder, a folder that holds something else, and a file that stands where
a folder should.

Violations, each a difference between the code and what the repository says:

| run | property | the code |
|---|---|---|
| `EventQueueLost` | `TriggersReachQueue` | an interrupt inside a push loses its event |
| `LoraNetAck` | `AckReachesAlarm` | the ACK names the api "msgACK", nobody's |
| `BootDns` | `DnsIsOptional` | `staticIpConfig` throws for a profile without name servers, which `System.cpp:108` calls optional |

Other differences, visible in the definitions, without a run of their own:

- `merge` goes on when the update does not parse (`FileHandlers.cpp:72-81`): a text
  that fails at once is null, and replaces the whole configuration by null.
- `flush` says that it writes pending changes to the file, and writes nothing.
- A member of the configuration that is a text keeps it when the update has an
  object there (`InTheWay`).
- The operations "c", "w" and "d" of the remote file service, and all of its
  commands, do nothing.
- After half the range of `millis()`, 24.8 days, without a trigger the wrapped
  difference is negative and the next trigger is ignored, where `README.md:223`
  says it is forwarded immediately. The bound `Half - 1` in `RearmsWithinHalf` is
  exactly this; with an open bound TLC finds the ignored trigger.
- The map of websocket instances never shrinks (`OnClose`), so that clients are
  refused after `MAX_CLIENTS` connections over time, where `defaults.h:3` says
  "connected at the same time".
- `TestOnApiCall` answers test:sandbox by test:sandbox: two devices keep each
  other sending, where `docs/architecture.md:104-108` shows one ping and its ACK.
  `LoraNetSilent` leaves this one call out (`CalmForeign`) and falls silent.
- `System.h:14-20` announces a failsafe mode after a failed boot. There is none:
  a device that aborts restarts with the same file, and aborts again.
- The result of `softAP` is ignored (`ActivateWifiAP`): a device may be `ready` with
  neither hotspot nor LAN, where `System.h:9-13` lists network access, required for
  wireless access and updates, as part of the minimal working system.
- The route /update is added after the server began (`StartUpdateService`), so that
  it is not found for a moment.
- Operation "f" frees no pin (`PinFree`), where `GpioFactory.h:102-105` says that it
  calls the pin's destructor and `RemoteGpioService.h:137-145` lists it. That the
  pin stays is what keeps other clients' batches from a null pointer.
- A pin operation without "op" is a null pointer (`Faults`), where
  `RemoteGpioService.h:248` says "missing pin op => auto pin action".
- A limit of the watchdog that is set after its counter overflowed is reached
  half a range later: the condition `unfed < IntHalf` in `SilentMeansDefault`.
- A power cut inside the writing of the log, or a print that fails, leaves it empty,
  and the next boot moves the empty log over the archive (`LastLogKept`). In the
  same way `writeFile2` leaves an empty file where the old text was (`WrittenWhole`).
- `AddLog` keeps debug records, which `LogStore.cpp:33-34` says are not saved.
- `TestModule` listens for "PIN" (`MCListens`), a type no code pushes, so the
  ping of `docs/architecture.md:102-104` does not happen.
- `lastRequest` is 0 at boot, so the first `ACK_DELAY` counts as a pending request.
- `OnEvent` of the alarm ignores the pin: the push button raises an alarm too.
- Triggers that never pause for `TRIGGERS_MIN_DELAY` are never forwarded
  (`MotionCountsOnce`).
- `OnClose` keeps the instance, where `WsInterface.cpp:16` says it is removed.
- `Serialize` writes "id" where `Parse` reads "timestamp"; `ToObjContent` writes
  "sender" where `FromObjContent` reads "evtSender". So every packet arrives with
  the timestamp "null" (`Crosses`), and every foreign event with the source "null",
  where `CommonObj.h:45` says "original source from where event comes from"
  (`EventKept`).
- A reset between the ACK and the call leaves an acknowledged alarm nobody was
  told of (`Listen`, then `Reboot`); nothing resends a lost alarm.
- `NotifierOnApiCall` looks for the command in the api, so `injected` never grows.

### Fairness

`FwSpec`: weak fairness of the loop task as a whole, because the Arduino runtime
calls `loop()` for ever; none of the clients or of the interrupts. `LoopFairness`
in `LoraNet`: the same for each device, one condition per stage of a packet,
because the stages follow each other in one task. `FairSpec` of `Boot`: weak fairness of `setup()` and of the
restart after an abort, together, because nothing else runs; none of the
environment: the LAN may change its mind for ever, and the radio must be there.

Deadlock is not checked where the system may stop: in `WsInterface` when every connection of the bound was used, in `Storage`
when a fatal read meets the last boot of the bound, and in `LoraNet` when nobody
has anything to send.

## 4. Proofs

| theorem | statement |
|---|---|
| `EventQueueProofs!TypeCorrect` | `Spec => []TypeOK` |
| `EventQueueProofs!QuietQueueIsPushed` | `QuietSpec => []QueueIsPushed` |
| `EventQueueProofs!QuietKeepsBusPromise` | `QuietSpec => KeepsBusPromise` |
| `EventQueueProofs!InfoLogsAreNotified` | `Spec => []LogsNotified` |
| `FirmwareProofs!FirmwareQueueIsPushed` | `FwSpec => []QueueIsPushed` |
| `FirmwareProofs!FirmwareKeepsBusPromise` | `FwSpec => KeepsBusPromise` |
| `FirmwareProofs!FirmwareLogsAreNotified` | `FwSpec => []LogsNotified` |
| `FirmwareProofs!FirmwareKeepsFeedPromise` | `FwSpec => KeepsFeedPromise` |
| `AlarmSystemProofs!TypeCorrect` | `Spec => []TypeOK` |
| `AlarmSystemProofs!RequestsAreSpaced` | `Spec => RequestsSpaced` |
| `AlarmSystemProofs!RearmsWithinHalfRange` | `Spec => RearmsWithinHalf` |
| `AlarmSystemProofs!MotionsCountOnce` | `Spec => MotionCountsOnce` |
| `WsInterfaceProofs!TypeCorrect` | `Spec => []TypeOK` |
| `WsInterfaceProofs!MessagesDelivered` | `Spec => []Delivered` |
| `LoraNetProofs!PacketsCross` | `HopSpec => []PacketCrosses` |
| `LoraNetProofs!AcksComeBack` | `HopSpec => []PacketAckComesBack` |
| `LoraNetProofs!EventsAreKept` | `HopSpec => []EventKept` |
| `LoraNetProofs!TypeCorrect` | `RebootSpec => []TypeOK` |
| `LoraNetProofs!NetKeepsAlertPromise` | `RebootSpec => KeepsAlertPromise` |
| `LoraNetProofs!NoTrafficFromNothing` | `RebootSpec => TrafficDies` |
| `LoraNetProofs!AcksAreTrue` | `Spec => []AckedMeansHeard` |
| `BootProofs!TypeCorrect` | `Spec => []TypeOK` |
| `BootProofs!TheFileDecides` | `Spec => FileDecides` |
| `BootProofs!ServesCompletely` | `Spec => []ServesComplete` |
| `BootProofs!UpdatesOverlay` | `ConfigSpec => []MergesOverlay` |
| `RemoteGpioProofs!TypeCorrect` | `Spec => []TypeOK` |
| `RemoteGpioProofs!SoundMessagesAreSafe` | `Spec => []SoundIsSafe` |
| `RemoteGpioProofs!NoResetIsEarly` | `Spec => NoEarlyReset` |
| `RemoteGpioProofs!SilenceResets` | `Spec => []SilentMeansDefault` |
| `StorageProofs!TypeCorrect` | `FsSpec => []TypeOK` |
| `StorageProofs!LastLogIsKept` | `FsSpec => []LastLogKept` |
| `StorageProofs!PastLogIsReadable` | `FsSpec => []PastLogReadable` |
| `StorageProofs!PastLogIsPast` | `FsSpec => []PastIsPast` |
| `StorageProofs!NoFolderIsEmpty` | `FsSpec => []NoEmptyFolders` |
| `StorageProofs!FileIsWrittenWhole` | `FsSpec => []WrittenWhole` |

They hold for every value of the constants that satisfies the named assumptions
(`ConstantsAssumption`: each handler is constructed once; `FirmwareAssumption`:
the notifier listens for every event and writes no log; `DelaysAssumption`:
both delays are below half the counter's range; `WsAssumption`: `MAX_CLIENTS` is
positive; `NetAssumption`: a time stamp is not empty; `ForeignAssumption`: other
transmitters send no alarm, and no ACK of one; `TransitAssumption`: devices have a
name, packets name an api and a command and either ask for an ACK or do not;
`BootAssumption` and `RemoteGpioAssumption`: types, and limits below
half the counter's range; `ConfigAssumption`: texts parse to documents, in which a
path goes through objects only; `StorageAssumption`: paths are not empty, none of them is
a log or goes through one, and `Folder` is no content of a file;
`RemoteFsAssumption`: a batch is a sequence of file operations).

The event queue: `QueueIsPushed` is not inductive, since in the middle of a push
the free slot is partly written. The strengthening says what the slot holds at
each step of the push, and that `reg` is the tail at that moment; it is exactly
what an interrupt inside the push destroys. For the refinement, `Offered` counts
per subscriber what the cursor of `EventBus` counts, and each of the loop task's
steps is a publication, a consumption by one subscriber, or a stutter.

The log's events: `LogsNotified` holds under the race as well, because it speaks of
pushes and not of what becomes of them. It is not inductive: to know that the next
LOG event continues the order, `LogInv` adds that the record whose push is in
progress (`Pushing`) is younger than every record whose event was pushed; it is
pushed before another record is added. The firmware keeps `LogInv` for the same
reasons, since a handler of the web server only leaves a record to be written.

The firmware: to the queue's invariants, `FwInv` adds `ClientInv`, the part of
`MapInv` that the feed needs (a fresh key, and every open client in the map), and
`ShownInv`, which ties the two components together: as many messages were sent as
events were offered to the notifier, those are the first ones pushed, and no client
holds a message that was not sent. `NotifierCalled` and `NotifierNotCalled` say what
a step of the loop task is to the notifier; a step of the firmware is then a
publication, a showing, a joining, a leaving or a stutter (`StepKeepsFeed`). The
client's part is proved again rather than taken from `WsInterfaceProofs`, since the
prover cannot use its theorems through the instance `Ws`.

The alarm: `AgeInv` relates each wrapped difference to the true age (never above
it, equal for a whole range); `ElapsedIsSound` is the arithmetic that turns it
into all three properties.

The websockets: `MapInv` says that the keys in use are the numbers below their
count, that the key of a client that got an instance maps to it, and that no
instance is in the map twice. Without the first the next key might be taken.

The radio: what a device reads in a packet is stated once per kind of packet
(`AlarmRead`, `SandboxRead`, `AckRead`: an ACK keeps the command, calls no module
and asks for nothing, whatever it answers), so that the rest never looks into one.
`OnceInv` says where an alarm can be: with its sender before the transmission and
then nowhere else; and for each other device in one of the radio, the hands of
`onPacket` and the past. `Hear` of `AlertBoard` needs all of it, since it must find
the alarm new. `ToldInv` carries the truth of an ACK from the device that owes it;
it fails after a reset, which forgets what was in hand. `TrafficDies` is the safety
half of `FallsSilent`, for any number of devices and with the sandbox call and
resets in: `Effort` is five sets of devices, in the order of what each can still
cause (requests to send, requests to read, other packets to send, other packets to
read, calls to make), and each step that nothing provokes makes the first of them
that changes a proper subset of itself. There is no infinite descent of that kind
with finitely many devices; that is what ends the argument, outside the prover. An
ACK must not ask for an ACK: it would put the effort back to where it began.

Packets and events in transit: of a packet, `HopInv` keeps what a hop needs
(`Sendable`: names that are texts, a Boolean wish for an ACK), and of an event
what `EventKept` says: its type and content are the first ones, and nothing else is
left of it after a hop. `SendableCrosses` and
`SendableAckComesBack` hold for each such packet; `ReceivedIsSendable` closes the
circle: whatever was serialized, what is read of it can be sent again. A name
with a colon is cut or refused by `parse`, and what is left of it is no exception.

The boot: `DocInv` says that the document in memory is the file from the moment
it is loaded, which turns a failure of `loadLanProfile` into a statement about
the file, and success too: a stage after it is reached with a `Bootable` file only,
and "aborted" without a file system or with another file. So each file has one of
the two outcomes of `FileDecides`, through every restart and update; `RegistryInv` says how much is registered at each stage, and `Grow`
that the constructor that comes next keeps the order.

The configuration: `MergesOverlay` speaks of the time between merges only.
`MergedSoFar` says what the document is in the middle of one: at and below a member
that waits it is what it was, everywhere else it is what it will be, and at the root
it is an object as soon as anything was merged into null. It needs to know of the
members that wait that none is below another, and that on the way to each there is
nothing in the old document that counts as false. `MergeDescends` and `MergeAssigns`
are the two branches of the loop; they rest on what `Overlay` is at a path, in each
of the ways the path can be related to the member at hand (`KeptWhole`, `TakenWhole`,
`Entered`, `BesideMembers`). A document may be of any depth: the steps of `mergeJson`
do the induction, so that none over data is needed.

The watchdog: `WatchdogInv` says that the counter is never ahead of the loops
since the last ping (nothing early), and that since the last message either it
has counted every loop and has not passed the limit by more than one, or the pins
are at their defaults. `SilentMeansDefault` alone is not inductive: it does not
know how far the counter is while the client is still within its time.

The pins: of `SoundIsSafe` the step that matters is the fault, which must find the
message unsound. `SoundInv` carries the promise of a message through its batch:
what is left of a sound batch is sound for whoever knows the pins assigned so far
(`SoundTail`), and every pin that was assigned is in the table while the device is
up. The second part is what an operation that frees pins would break.

The files: one invariant, `FilesInv`, ties the running function to the files. Its
core is `TodoInv`: whatever the function, its remaining calls are the ones that are
due, counted from its end, and never another; so the proofs about a step know which
function they are in from the call at hand. `OpenInv` says that a file that is open
is there and can still be closed, `FilesOK` that every folder above a path is there.
On top, each property has its own part:

- `LogInv`, for `LastLogKept`: where the last whole log is at each call of `init`,
  between the rename and the new log. The log is
  empty only while it is written, or when it is `torn`; the property's exception is
  no wider than that.
- `OrderInv` and `PastInv`, for `PastIsPast` and `PastLogReadable`: the archive
  begins no later than the log, and nothing begins in a later boot than this one;
  a boot that has completed `init` leaves a log or an archive, whichever call is cut
  later, and the next `init` makes an archive of it before it opens the new log.
- `AnswersInv`: nothing changes a file during a batch, so that the answers are what
  the files hold now, in the order in which they were asked for.
- `DropInv`, for `NoEmptyFolders`: the folders that `deleteFile2` has passed on its
  way up hold something; which these are is told by the number of calls left, since
  a path may have any number of folders.
- `MakeInv`, for `WrittenWhole`: the folders that `writeFile2` has passed on its way
  down are there, or a file is among them, or something is at the path already.

A print that fails is the last call of its function (`PrintFailed`): the file it
leaves is the one that was opened, empty unless it was opened for appending. That
is all the other parts need to know of it (`FailureKeepsInv`).

Liveness (`EveryPushDispatched`, `EveryEventShown`, `FallsSilent`,
`BootsWhateverTheLan`) is model-checked only: the prover does not treat fairness.
Of `FallsSilent`, the part that needs none is proved (`TrafficDies`).
Every invariant and every safety property of a step that a run checks is stated by
a theorem above.

## 5. Not modelled, and what is left

Sound, display and sensors drive hardware and keep nothing that another component
reads. `SystemTime` is left out for good: `sync` has no caller, and nothing of
`onCycle` survives a pass (`SystemTime.cpp:16` assigns where it should compare).
The web servers and the update service are calls of their libraries: what the
rest depends on, the limit on connections, the routes and the order in which the
servers and the update service start, is in `WsInterface` and `Boot`. The other example firmwares compose the same library in
other orders. `listDir` and `testFileIO` are diagnostics. Pin classes other than
PWM only set up hardware. Nothing of foreign events goes on to websocket clients,
because `NotifierOnApiCall` never injects one; `LoraNet` and `Firmware` therefore
stay apart.
