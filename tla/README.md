# Verification of jacdac-c

TLA+ models of the C library in `src/`, checked with TLC and, for the frame
queue, the bus state machine, frame packing, pipes, the USB bridge, events, both stores,
the settings service, the client with its threads and register cache, the byte queue, the
allocator, the main loop with its announcements, the control and the power service and
the lights, proved with TLAPS. `PROJECT.json` maps every definition to the lines it
models, and lists the runs, the mutants that show each property can fail, the
hazards and the findings.

## 1. The system

Jacdac is a plug-and-play bus. Small devices share one half-duplex wire without
an arbiter; each runs this library, exposes *services* (sensors, actuators) and
may use services of other devices as a *client*. A *frame* (up to 252 bytes)
carries packets. A device is one core: a main loop (`jd_process_everything`),
interrupted by the callback of one hardware timer and by UART interrupts. Frames
are lost whenever two devices talk at once, a device has no buffer, or a device
restarts.

### Inventory

| component | source | state | operations | hard behaviour | properties that make it correct | module |
|---|---|---|---|---|---|---|
| frame queue | `source/jd_queue.c` | bytes, `front`, `back`, `curr_size` | push, front, shift, will_fit | interrupt producer against main-loop consumer; wrap | FIFO; accepted frames intact; never wedged | `JdQueue`, `FrameFifo` |
| bus state machine | `source/jd_physical.c` | `phys_status`, `txPending`, `txFrame`, timer | line falling, rx/tx completed, 4 timer callbacks, packet ready | preemption everywhere; one timer for everything | half duplex; no lost wake-up; reception ends | `JdPhysical` |
| transmit, receive queue | `interfaces/tx_queue.c`, `simple_rx.c` | swap buffers or send queue, urgent frame; slot or queue | jd_send, flush, frame sent, frame received, get | buffers swapped while the timer callback reads them; the interrupt fills while the main loop reads | no tearing; every accepted packet once, in order | `JdPhysical` |
| pipes | `jd_opipe.c`, `jd_ipipe.c`, ack in `jd_services.c` | status, port, 5-bit counter, frame, retries | open, write, flush, close, process, ack | lost and repeated frames and acks, late acks, give-up | exactly once in order; close delivers or gives up | `JdPipe` |
| settings store | `jd_fstor.c` | two flash halves with generations, data pages | set, get, compaction, prep_large, mount, format | power failure between flash operations | settings survive; large values keep their pages | `JdFstor` |
| log store | `storage/lstore.c` | two buffers, ring of blocks in a file of a card | append, flush, mount, creation of the files, panic log | interrupt appends during a flush; restart; panic | the log is a gapless suffix; blocks in place; the right file | `JdLstore`, `JdLogFile`, `JdPanicLog` |
| events | `interfaces/event_queue.c`, filter in `client/routing.c` | retransmission queue; 7-bit counter per device | send, process queue, filter | copies interleave and are lost | once, in order; last copies suffice | `JdEvents` |
| devices, register cache | `client/routing.c` | devices, queries, buffers | announce, collect, query, report | freed while in use; missed restarts; values that change length | no stale pointers; restart noticed; cache in sync | `JdClient`, `JdRegister` |
| role manager | `client/rolemgr.c` | roles, bound services, flags | bind, autobind, free, list | devices vanish; explicit against automatic binding | flags agree with the roles | `JdClient` |
| services framework | `source/jd_services.c` | table of services, current service, clocks | init, announce, dispatch, tick, sleep | the main loop nested in itself; clock wraps | packets reach their services; sleeping stays legal | `JdServices`, `JdDispatch`, `JdControl` |
| control service | `jd_control.c` | watchdog, flood | commands, process | time wraps | reset when due, but for deadlines the clock cannot tell; as many pings as asked | `JdControl` |
| power service | `services/power.c` | status, five timers | process, shutdown command | several providers negotiate | the bus has power, from one provider | `JdPower` |
| frame packing | `jd_util.c`, `tx_queue.c` | transmit buffer | push in frame, shift | rounding, reuse of the buffer | the packets come out as they went in | `JdFrame` |
| byte queue | `jd_bqueue.c` | ring of bytes | push, pop, read in place, clear | wrap; pushes between the unmasked assignments of advance and clear | bytes in order; a ring that passes `validate` is right | `JdBqueue` |
| USB bridge, console | `jd_usb.c`, `jd_dmesg.c` | queue, framing state, ring of text | push, pull, process, print | interrupt producer; frames mixed with text; lost chunks | frames come out whole, losses are marked | `JdUsb` |
| sensors | `services/jd_sensor.c`, `jd_env.c`, 20 drivers | register, timers, driver state | query, process, sleep, restart | late main loop; chips that keep running; several services of one chip | no reading too early or from a chip asleep, a chip in use measures, and exactly which drivers fail to; status told | `JdSensors`, `JdServices` |
| inputs | 10 services: button, switch, encoder, accelerometer, … | reading, timers | process | flicker, several changes between samples, samples not renewed | edges alternate (a reversed magnetic field excepted); encoder tracks; gestures justified by the samples used | `JdInputs` |
| lights | `jd_status_light.c`, `ledsingle.c`, rgb pins | steps, timer lock | command, process | several ways to go dark | comes to what was asked; lock balanced | `JdLights` |
| displays, strip | `leddisplay.c`, `dotmatrix.c`, `ledstrip.c`, `led_internal.h`, `braille_display.c` | pixels, DMA flags, program | set, process, end of DMA, interpreter | writes while DMA reads | budget kept; last picture shown; the program paints what it means | `JdDisplay`, `JdStrip`, `JdServices` |
| outputs | 12 services: motor, servo, buzzer, relay, HID, … | registers, PWM | set, process | any order of commands, ramps, outputs written one after the other | driven as asked, both ways only between the two writes of a reversal; no command repeated, or dropped but for want of room | `JdActuators` |
| chips | bridges, flash memory, converter | shadow registers | set, transfer | partial updates | the chip does what was asked | `JdChips` |
| device configuration | `jd_dcfg.c`, `jd_srvcfg.c` | two images | set user image, get, enumerate, start services | damaged images | what is found is what is there | `JdDcfg` |
| settings service, allocator | `services/settings.c`, `simple_alloc.c` | key buffer; free pointer, stack mark | commands; alloc, stack check | sizes at their limit | gets what was set; blocks apart | `JdSettings`, `JdAlloc` |
| utilities, number formats | `jd_util.c`, `jd_numfmt.c`, `crc32.c` | none | pure functions | widths, rounding, clock wrap | each computes what it stands for | `JdUtil` |
| host client, threads | `client/hclient.c`, `thr_pthread.c` | clients, mutexes | worker loop, application calls | real threads; the role manager entered from both | no freed service used; no circle of waits; assertions hold if clients are created between two turns of the loop | `JdThreads` |

How they meet: `jd_send` (any service, pipe, event queue) fills the transmit
queue; `jd_tx_flush` at the end of every tick hands it to the bus state
machine with `jd_packet_ready`; the timer callback takes the frame and starts
the UART. A received frame goes from the UART interrupt to the receive queue,
and from there, in the main loop, to `jd_services_process_frame`, which
acknowledges it and passes its packets to pipes, services and the client. The
frame queue is the storage of the send queue, the receive queue and the USB
queue.

## 2. Modules

Lower-case names are the source's. History variables, marked as such in the
modules, record what happened for the properties and guard no action. An
operator with the comment "Mutant" is a variant of the definition after it with
a plausible mistake; `PROJECT.json` says which property notices it.

### Transport

**`JdQueue`** — `jd_queue.c`. Memory is modelled byte by byte: `data[i]` is the
frame that wrote byte `i` and which of its bytes it is. `jd_queue_push` is one
step with three outcomes (`PushBehind`, `PushWrapping`, `PushRejected`);
`jd_queue_front` does not mask interrupts and is two steps, `FrontTest` and
`FrontPick`, with pushes possible in between. `live` is the history of accepted
frames. **`FrameFifo`** is the abstract queue: accept, show the oldest,
release; `JdQueue!FifoSpec` is the refinement.

**`JdPhysical`** — `jd_physical.c`, `tx_queue.c` and `simple_rx.c` of one
device. Three contexts: the main loop (program counter `mpc`), the timer
callback (`tpc`; each step is a stretch with interrupts masked or between two
shared accesses) and the UART handlers (one step each, highest level). Main
moves only while no callback runs. The constant `Builds` has the two builds, with
two send buffers or with a send queue and loopback. The wire is an environment:
falls of the line, completed or broken receptions, refused starts of
transmission. Time is left out: a set timer may fire at any moment, which
includes every timing; the 130 ms repair of `tick()` is therefore not modelled.

**`JdPipe`** — one sender's `jd_opipe_desc_t`, one receiver's
`jd_ipipe_desc_t`, the acknowledgement sent by `jd_services_process_frame`
before it handles the packets, and a bus that keeps the order of frames and
loses any of them in either direction. `retry_time` may be past at any moment. A
frame's CRC is its contents.

**`JdFrame`** — `jd_push_in_frame` and `jd_shift_frame` on the bytes of the
buffer, which keeps what earlier frames left in it.

**`JdEvents`** — `event_queue.c` (an event is sent at once and twice more from
the queue; `jd_send` may refuse; the oldest event makes room) and the filter of
`jd_client_handle_packet`, with the client forgetting the device and learning of
it again.

**`JdUsb`** — `jd_usb_pull` in chunks, its escapes and gap marks, the text of
`jd_dmesg.c`, and `jd_usb_push` on the other side. **`JdBqueue`** — the ring of
bytes with its two kinds of consumer. `push` and the pops mask interrupts and are one
step; `cont_data_advance` and `clear` do not, and are a step per assignment (`step`),
with pushes in between (`raced`). Such a push may meet a ring that fails `validate`:
`fault` records it and ends the behaviour.

### Storage

**`JdFstor`** — `jd_fstor.c`. A half is its generation, its entries and whether
there are programmed bytes that no entry claims. Every flash operation (erase,
copy, header, value, entry, pages) is an action, and `Crash` may come between
any two. Space is counted in the 8-byte units of the flash.

**`JdLstore`** — one log of `lstore.c`: `jd_lstore_append` (one masked step),
the flush in four steps, the mount with its binary search, restarts.
**`JdLogFile`** — `jd_lstore_init`: it finds or makes the files through FatFs (an
allocation of clusters), writes headers to sectors past the file system, and may
be interrupted by a power failure at every step. **`JdPanicLog`** — the panic
handler that goes on with the log's buffers wherever the main loop was in its flush;
`before` says where that was, and `dead` that the handler's own assertion failed.
**`JdSettings`** — the service over an abstract store. **`JdDcfg`** —
configuration images: validation, lookup by hash with the jump table,
enumeration, the services started from them. **`JdAlloc`** — the allocator
that never frees, with the measurement of the stack.

### Client and services

**`JdClient`** — devices come, announce, restart, expire; roles are bound and
freed, and listed over a pipe. The list of devices is a sequence of records;
`jd_device_gc` gives the positions one collection frees, which are not all that have
expired: its loop passes over the successor of a device it frees, so a record may
outlive its expiry by several collections. **`JdRegister`** — register queries with values
inline or in buffers. **`JdThreads`** — worker and application threads with
their mutexes; a step goes from one lock operation to the next. `jd_role_alloc` takes
no mutex of the role manager: its `stop_list` is a step of the application thread that
may come anywhere in the worker's loop (`raced`), and `panic` records the assertions it
or the listing meets.

**`JdServices`** — the main loop with two services that sleep in `process()`:
`loop` is the stack of nested loops. **`JdDispatch`** — the table of services,
announcements, the filter of the interrupt handler and the way of each packet.
**`JdControl`** — the walk over a register table by
`service_handle_register`, and the control service on a wrapping clock.

**`JdPower`** — several providers; a step is one turn of `power_process`, a
frame's arrival, or a tick of the clock. **`JdSensors`** — the framework over
one of 19 drivers, with a chip that says when it may be read; `lapsed` is the history of
a sleep function that left the driver and its chip of different minds. **`JdInputs`**,
**`JdLights`**, **`JdDisplay`**, **`JdStrip`**, **`JdActuators`**, **`JdChips`**
— families of services or drivers of the same kind: the variable `kind` says
which one a behaviour is about, and the state of it is a record. **`JdUtil`** —
each function beside a definition of what it stands for, over bounded inputs.

### Composition

`MCJdDevice` puts 22 parts that share no state side by side: a behaviour takes up
one part (`which`) and is a behaviour of its module, instantiated with small
constants. Parts that do not interact need not be interleaved; their interfaces
are modelled on both sides. `JdPhysical` uses the receive and send queues as the
sequences that `FrameFifo` promises; `JdPipe` and `JdEvents` use the bus as one
that loses frames and keeps their order, which `Conservation` and `NoTearing` of
`JdPhysical` give within one device; `JdUsb` uses the queue that `FrameFifo`
promises, and `JdSettings` the store of `JdFstor`. Within a module the parts that
do share state are composed: bus and queues (`JdPhysical`), both ends of a pipe
(`JdPipe`), queue and filter of events (`JdEvents`), devices and roles
(`JdClient`), loop, services and driver (`JdServices`), services, driver and chip
(`JdSensors`).

### Assumptions

- One core; UART handlers run at one level and above the timer callback.
- Queue: one producer asks `jd_queue_will_fit` before its push; every frame is
  at most half of the queue (`HalfAssumption`; frames are at most 252 bytes, all
  queues of `jd_config.h` at least 512).
- Pipe: a reopened pipe gets a port not in use before (1 of 511, by
  `jd_random`); CRCs of different frames differ; fewer packets per frame than the
  counter has values (`FrameCap < CounterMod`). The last one is not enforced: 32
  or more packets *without data* fit in a frame, and a repeated frame would then
  look new. The only caller in the repository, the role manager's
  listing, writes packets with data.
- Settings store: the program of an 8-byte unit is atomic. With `TornWrites =
  FALSE` power does not fail between the program of a value and of its entry;
  the run `fstor_torn` shows why this is needed.
- Log store: `TornWrites = FALSE`: power does not fail within a block's write;
  `SharedTimes = FALSE`: no two consecutive blocks of a generation start in the
  same millisecond. Both can happen on a device. With either set to TRUE, TLC
  finds `LogIsSuffix` violated: a torn block 0 makes the mount start again
  at generation 1, and older blocks then win; blocks with equal times compare
  equal and the newer is overwritten.
- Events: `LastCopiesSuffice` is about behaviours in which no more than `AHEAD` = 5
  events waited in the queue at once (`~ burst`). The code's 128 bytes hold up to 16
  events without data; when a burst of more than five loses its first events, the
  client takes the gap for a restart of the counter, goes on with the later event and
  ignores the missed ones when their copies come, as the comment on its window says.
  `OnceInOrder` and `NoHoles` are about bursts too.
- Client: a device that restarts before the client has heard as many of its
  announcements as fit into an expiry period and the collections that may pass over
  its record, `EXPIRES + MaxId`, may be taken for the old one; `RestartNoticed` is
  about the others. With the code's 4 periods and a counter that stops at 15 a
  device in steady state is among the others on a bus of up to 11 devices.
- Services, sensors, watchdog: the main loop comes round within `SLACK`, at most half
  of the clock's range. The delays of the watchdog are any the clock can tell.
- Byte queue: nothing is followed after a failed assertion, or after a push in the
  middle of `clear` left a ring that fails the next one.
- Frame packing in `device`: no byte of data is 0xff (`Bytes`); `frame_padding`
  shows what such a byte does.
- I2C transfers succeed; a failed one is `JD_PANIC` or ignored by the drivers.

## 3. Runs

All passing runs exhaust their state space. Deadlock is checked in the queue
and bus runs, where the system never stops; where behaviours end when their
bounds are used up the cfg turns it off.

| run | bounds | shows |
|---|---|---|
| `queue` | 56 bytes; frames of 16 and 20 bytes, two of each | `AssertsHold`, `AcceptedIntact`, `HeldIsOldest`, `GrantHolds`, `EmptyAccepts`, and the refinement `FifoSpec`. The queue holds 2 or 3 frames, wraps after every combination, and meets its end exactly (16+20+20) or with a gap. The proofs remove the bounds. |
| `phys` | both builds; 2 packets per frame or a send queue and a receive queue of 2 frames; 3 packets, 2 or 1 receptions, 1 refusal, 1 urgent frame | `NoPanic`, `TimerNeverLost`, `HalfDuplex`, `NoTearing`, `Conservation`, `EventuallySent`, `ReceptionEnds`: three packets fill one buffer while the other is sent, the send queue overflows, loopback competes with reception; each kind of interruption happens at every point of every callback |
| `pipe` | 2 sessions, 3 packets each, counter modulo 3, 2 per frame, 2 retries, 2 frames in flight per direction | `ExactlyOnceInOrder`, `NothingForgotten`, `CloseDelivers`; the counter wraps inside a session, old acks meet new frames, and the second session meets remains of the first |
| `fstor` | 2 keys, 2 large keys, 2 values of sizes 1 and 2, room for a few entries, 4 pages and requests of 1, 2 and 5, 3 generations, 2 crashes | `SettingsSurvive`, `AreasApart`; three generations are enough for a compaction into each half, two crashes for one inside the recovery from another |
| `lstore` | 3 blocks of 2 entries, 6 entries, 2 restarts, times to 3 | `LogIsSuffix`, `BlocksInPlace`; the ring wraps, and the mount sees every rotation |
| `client` | this device and another with two services, one left after its restart; 2 roles of one class, one with a hint; STEADY 4, expiry after 2 periods | `NoDangling`, `FlagsMatchRoles`, `RestartNoticed`: a role is bound while its device restarts with fewer services, expires or is replaced, and by a command to a service that has one. The proofs remove the bounds |
| `sleeping` | 2 Braille cells, 2 patterns, one sensor | `SleepsOnlyInProcess`, `DisplayCatchesUp`, `SensorGetsGoing` |
| `device` | constants of `MCJdDevice`, below | 14 properties, one per family of parts; each is a conjunction of properties of the modules it names |
| `fstor_torn`, `lstore_assert`, `sleep_in_handler`, `frame_padding` | as small as shows it | violations: the findings |

`device` in more detail. `PowerSound`: two providers, one with the hardware
watchdog, two changes of supply, load or permission. `BridgeDelivers`: three
frames with escapes, chunks of 5 bytes, one lost. `CacheInSync`: three registers,
values of three lengths, two changes or losses. `BuffersKeepOrder`: packets of 0,
1, 4 and 5 bytes in buffers of 24; rings of 2 and 4 bytes, a push between any
two assignments; a panic at every point of a flush, and 7 characters printed after it; cards with files in one or several pieces, stale headers
and one power failure; a heap of 4 words. `EventsDelivered`: 4 events, a queue
of 2, the counter from 125 so that it wraps, one expiry; the bursts of more than five
events are left to the proof. `SensorsSound`: 19
drivers, one or two services each. `InputsSound`: 10 kinds, 8 samples.
`LightsSound`, `PicturesRight`, `OutputsRight`: each kind with the commands that
differ in what they do, three for each output. `ConfigSound`: every image of up to two entries out of
seven with every jump table, so that most are damaged somewhere. `Computes`: some
31 000 calls. `ControlSound`: every register table of three types, bytes behind bits
among them, a clock of 16 values that wraps, delays on both sides of half of it and
deadlines on 0. `ThreadsSound`: two application threads, two roles, two
devices; an application thread may create its client at any point of the worker's loop.

### Fairness

`JdPhysical`: weak fairness of the timer, of a started callback and of the end of
a started transmission: hardware does these by itself. Strong fairness of the
main loop's flush steps: it is interrupted again and again, but between
interrupts it runs, and `jd_services_tick` calls `jd_tx_flush` every time round.
Nothing is assumed of other devices: `ReceptionEnds` holds although a sender may
fall silent for ever. `EventuallySent` needs the bounds on foreign frames and
refusals: on a bus that is always busy nothing is ever sent. `JdPipe`: weak
fairness of `jd_opipe_process`, which the owner of a pipe calls from its process
function; nothing is assumed of the bus, so a pipe whose frames are all lost ends
by giving up. `JdServices`: the loop goes on (weak); frames do not come for ever
without a pause, a sleep ends, and the sampling time comes (strong): each is a
matter of the clock, which the model leaves out. The other modules state safety
only.

### Findings

1. `fstor_torn`: a power failure between a value and its entry makes the next
   mount format the store. Formatting always uses half 0 with generation 1: if
   half 1 has a higher one, the mount after that returns to the old half.
2. `lstore_assert`: `find_boundry` compares with the wrong variable; when the
   newest block is the last of the ring, every start leads to a failed
   assertion at the first flush.
3. `sleep_in_handler`: `scd40_sleep` sleeps in the handler of a packet, which
   panics.
4. `frame_padding`: `jd_push_in_frame` leaves old bytes in the padding, and
   `jd_shift_frame` may take one of them for its own mark: the packets behind it
   are not handled.

Other behaviour met while modelling, which the models either reproduce or keep
out of their inputs. Where a property would be broken by it, the property says
exactly when that happens instead of excluding it; no violation run is about it:

- jd_queue.c: `jd_queue_clear`, which nothing calls, leaves `curr_size`.
- jd_bqueue.c: `cont_data_advance` and `clear` are not masked. A push between their
  assignments fails an assertion of `validate`, then or at the next call, unless it
  happens to pass; a ring that passes is in order (`BytesInOrder`).
- jd_fstor.c: `FSTOR_DATA_PAGES - pages` wraps for a request larger than the
  area (an assertion instead of NULL), and the bound excludes the run that ends
  with the last page; `jd_settings_get_bin` copies as many bytes as the buffer
  has, not as the entry has.
- routing.c: an event ignored because it came early is lost if its own last copy
  is; a register's buffer is leaked when its value gets short; a refresh time of
  0 is never asked for again.
- lstore.c: a panic between the write of the last block and the wrap fails the
  assertion of `write_block` in the panic handler, and nothing is saved; a panic
  between the write of a block and its clearing writes the block twice
  (`PanicTextKept` has both); a line end right after the start is stored as a character; a
  crash between making a file and clearing its header leaves a stale first
  sector; `header_blocks` is not validated; `sd_write_sector` returns -r, which
  is 0 for response 0.
- jd_services.c: without a client, a brain whose announcement is not the first
  packet of its frame is not heard; time 0 means never; bytes right
  behind bits in a register table begin in the byte of the bits (`RegistersKept`; no
  table in the repository has this).
- jd_control.c: a watchdog set to the moment 0 is off, and one more than 2^31 us
  ahead resets at the next turn (`ControlKeepsCount`); `set_flood` takes the lock against sleeping in both
  branches.
- jd_dcfg.c: a key is compared by prefix; with several services of one index the
  first is taken. jd_srvcfg.c: `analog_config` reads the scale from the key of
  the offset.
- hclient.c, thr_pthread.c: `pthread_cond_timedwait` is given a relative time;
  `jd_thr_resume` uses the caller's condition; `jdc_get_register` panics,
  `jdc_configure_write` sets the timeout of reads; `jd_service_query` is not
  protected. Nor is `jd_role_alloc`: `stop_list` fails its `JD_ASSERT(!state->locked)`
  when a client is created while the worker has the roles locked, and takes away the
  list's pipe from under `rolemgr_process`, whose write then fails (`AssertionsHold`).
- jd_util.c, jd_numfmt.c, jd_env.c: a carry over all digits prints ':';
  `clamp_double` adds a half before it cuts, so negative numbers come out
  one step too high; `jd_random_around` spreads by 25 to 50 percent either way, where
  its comment says "+/- 25% or so"; the product in `env_absolute_humidity`
  leaves 32 bits in hot humid air. simple_alloc.c: sizes near 2^32 wrap.
- power.c: a provider that is disallowed, or loses its supply, while it ramps
  stays on until the ramp ends; one that gave way before its first ramp and is then
  disallowed keeps its limiter on (`revoked` in `JdPower`; the proof of
  `LimiterFollows` found this case). Writing allowed = 1 where it already is 1 restarts
  a provider that is overloaded or has given way, without its pause.
- Sensors: putting the last service of a scd40 to sleep always panics (the sleep in
  the packet's handler, `sleep_in_handler`); a sgp30 or sgpc3 put to sleep between a
  command and its read panics when next in use; dps310, sgp30 and sgpc3 stay "inited"
  when asleep and are not started again before the device restarts; a lsm6ds is off
  once either of its two services sleeps (`ChipKeepsUp`, `UsedChipRuns`). ads1115
  without an interrupt pin reads the ready bit byte-swapped and takes the old
  conversion; failed writes and check sums are ignored.
- Inputs: an accelerometer that nobody reads goes on with its last sample, which before
  the first reading is zero, a free fall; a field reversed between two samples is told
  as active twice (`GesturesJustified`, `EdgesAlternate`); a swipe may be seen at boot
  (multicaptouch).
- Lights: the end of a blink pattern keeps colour and repetitions; an active-low
  light is lit from its initialisation to its first colour, keeps its PWM on
  when dark, and a light of one colour marks the timer as locked without locking
  it.
- Displays: divisions by zero for empty ranges (`prog_fade`) and budgets
  (`limit_intensity`); the power budget is exceeded by up to 255 uA; the Braille
  display is not refreshed when enabled again.
- Outputs: both channels of a motor are driven between the two writes that reverse it
  one way; a servo divides by zero if its limits are less than 256 (1/256 of a degree)
  apart, and angle + offset may overflow; a lamp whose brightness is below one PWM step
  (64) is on and dark; a key sent while all places are taken drops the one in the first
  place, held or not (`OutputsSafe`, `CommandsKept`); divisions by zero for a buzzer or
  mouse with period 0; the voltage is not clamped again when the limits of a power
  supply are written; a vibration program of 118 steps overruns its buffer; very
  short keys are lost. settings.c does not report a full store.

## 4. Proofs

TLC finds out on a small instance whether a formula holds; the theorems hold for
every value of the constants that the named assumptions of the modules allow.
Every inductive invariant below was checked by TLC on the instance of the
component's run before it was proved, except that of the USB bridge, which is about
sequences TLC cannot enumerate; there TLC checked what is to follow from it,
`BridgeDelivers`, with no, one and two chunks lost.

| module | theorem | statement |
|---|---|---|
| `JdQueue_proofs` | `TypeCorrect`, `NoAssertFails`, `NothingOverwritten`, `ReaderGetsOldest`, `GrantsKept`, `NeverWedged` | `TypeOK`, `AssertsHold`, `AcceptedIntact`, `HeldIsOldest`, `GrantHolds`, `EmptyAccepts` always hold |
| | `RejectionsJustified` | the action property `RejectsOnlyNearlyFull` |
| | `Refinement` | `Spec => FifoSpec` |
| | `BytesStayInOrder` | `BytesInOrder` of `JdBqueue` always holds (`BqSizes`: the size of the ring is not 0), with pushes between the unmasked assignments |
| | `BlocksStayApart` | `BlocksApart` of `JdAlloc` always holds (words of 4 bytes; any heap, stack and sizes) |
| `JdPhysical_proofs` | `NeverPanics`, `TimerAlwaysSet`, `BusIsHalfDuplex`, `FramesAreNotTorn`, `PacketsConserved` | `NoPanic`, `TimerNeverLost`, `HalfDuplex`, `NoTearing`, `Conservation` always hold |
| | `FramesComeApart` | if `NoMarks` (255 is neither a size nor a byte of data): `EveryPacketHandled` of `JdFrame` always holds |
| | `BridgeCarries` | `BridgeDelivers` of `JdUsb` always holds (`UsbSizes`: no chunk is lost, a frame fits in the buffer of the receiver and none is the beginning of another one, a chunk has room for 4 bytes) |
| `JdPipe_proofs` | `DeliversExactlyOnce`, `ForgetsNothing` | `ExactlyOnceInOrder`, `NothingForgotten` always hold |
| | `FreedMeansDelivered` | the action property `FreeMeansDelivered`, the safety half of `CloseDelivers` |
| `JdFstor_proofs` | `SettingsAreKept`, `AreasStayApart` | if `~ TornWrites`: `SettingsSurvive`, `AreasApart` always hold |
| | `SettingsAnswer` | `GetsWhatWasSet` of `JdSettings` always holds, for any payloads |
| `JdLstore_proofs` | `LogKept` | if `~ TornWrites /\ ~ SharedTimes`: `LogIsSuffix` always holds |
| | `BlocksStayInPlace` | under the same hypotheses: the action property `BlocksInPlace` |
| | `LogFilesStayApart` | `FilesApart` and `LogsFound` of `JdLogFile` always hold (`CardSizes`: a block is a power of two of sectors and fits in the buffer, and on a card no two files share a cluster) |
| `JdClient_proofs` | `NothingDangles`, `FlagsAgree`, `RestartsAreNoticed` | `NoDangling`, `FlagsMatchRoles`, `RestartNoticed` always hold |
| | `ThreadsAreSound` | `ThreadsSound` of `JdThreads` always holds (`ThrNames`: the names of threads, roles and devices differ), the role manager's assertions among it |
| | `RegistersInSync` | `CacheInSync` of `JdRegister` always holds (`RgsValues`: values have sizes) |
| | `EventsOnceInOrder` | `OnceInOrder` and `NoHoles` of `JdEvents` always hold, if the queue holds fewer than `BEHIND` = 60 events |
| | `EventsAreDelivered` | `EventsDelivered` always holds, if the queue holds fewer than 60 events; its `LastCopiesSuffice` is about behaviours in which no more than `AHEAD` = 5 have waited at once |
| `JdServices_proofs` | `UpdatesAreNotLost` | `DisplayCatchesUp` always holds |
| | `NeverSleepsElsewhere` | if `0 \notin Intensities`: `SleepsOnlyInProcess` always holds |
| | `BusIsPowered` | `PowerSound` of `JdPower` always holds (`PwrTimes`: each set of times has a largest member, the times are positive, and a pause is shorter than the longest time of the clock) |
| | `LightsObey` | `LightsSound` of `JdLights` always holds (`LtsNumbers`: levels and speeds are natural numbers) |
| | `WatchdogKeepsTime` | `ControlKeepsCount` of `JdControl` always holds (`CtlTimes`: the clock has an even number of values, delays are any of them, and two turns of the loop are at most half the clock apart) |
| | `AnnouncementsCount` | `PacketsTold` of `JdDispatch` always holds, for every size of the counter |

The hypotheses are the ones the code needs: the violation runs `fstor_torn`,
`sleep_in_handler` and `frame_padding` are about what happens without those of the
settings store, of the main loop and of `FramesComeApart`, and section 2 says what
happens without those of the log store. The code's queue of 128 bytes holds at most 16
events, so the theorems about events apply to it. In `JdRegister` nothing happens after an
allocation for which there is no memory (`CanAlloc`): `jd_alloc` panics there.

The parts of `MCJdDevice` are proved about in the modules of the components they
belong to, as instances with constants and variables of their own (`Thr`, `Rgs`, `Evs`,
`Pwr`, `Lts`, `Ctl`, `Dsp`, `Bq`, `Alc`, `Frm`, `Usb`, `Lfs`, `Stg`); the properties of
`device` are those of the instances.

**Frame queue.** The inductive invariant is `IInv = TypeOK /\ IndexInv /\ Layout
/\ AcceptedIntact /\ ReaderInv /\ HeldIsOldest /\ GrantHolds /\ AssertsHold`. None
of the safety properties is inductive alone: that a push overwrites nothing
depends on where the live frames are, which the indices alone do not tell.
`Layout` says so: the live frames lie one after another from `front`, with one
jump to 0 at `curr_size` if the queue has wrapped, and end at `back`; they are
pairwise disjoint. `IndexInv` ties `curr_size` to the wrapped state. From these, a
push lands on free bytes (`PushBehindLayout`, `PushWrappingLayout`), a shift moves
`front` to the end of the first frame and meets `curr_size` exactly
(`ShiftIndices`), and the offset a reader computes in two steps is that of the
oldest frame, since a push changes neither `front` nor, while a frame is queued,
the comparison of `front` with `curr_size`.

**Bus.** `IInv` adds to the types and `NoTearing`: `BusInv`, which context owns the
bus at each step of the callback (a reception is marked exactly while the UART
receives and has a timer of its own or a callback about to set it; a transmission
is marked from the callback's claim to the end of the transfer; a callback that
sets no timer leaves one set); and `OwnerInv`, which says that the state machine
and the transmit queue agree on whose frame `txFrame` is, and that the buffer handed
over is not the one being filled. `Conservation` needs `NumberInv` besides: packets
still to be accepted have larger numbers than all accepted ones.

**Pipes.** The receiver tells packets apart modulo 32 only, and the sender
acknowledgements by their CRC, so what they do is right only because of what can
still be on its way. `Session` says what: of the current port there are copies of
two frames only, the last one acknowledged and the one the sender holds, in this
order along the way from the sender to the receiver, and in this order as
acknowledgements on the way back; once an acknowledgement of the new frame exists,
no copy of the old one is left on the way there. `Reaches` relates the rest of the
frame being handled to what was delivered. `PortInv` says that messages of earlier
ports concern nobody. That a repeated frame is recognized rests on `FrameCap <
CounterMod` (`RemaindersDiffer`).

**Settings store.** All is said about `Live(log)`, the last entry of each key. The
lemmas about the operators show that `find_entry` finds those (`FindLive`), that an
appended entry replaces the one of its key (`LiveAppend`), and that the copying
loop of `jd_fstor_gc` keeps them and takes no more space (`CompactKeeps`). The
invariant: the mounted half is the one with the higher generation, so that a mount
after a failure at any point finds it again, and generations are equal only while
nothing was ever stored (`FlashInv`); what each step of an operation relies on
(`StepInv`: the erased half, the finished copy, the space that was checked);
the newest half holds the stored values (`ValueInv`); large values are apart, their
pages are marked but for those of the key being prepared, and the pages handed out
are nobody else's (`LargeInv`).

**Log store.** `LogIsSuffix` is about sequences, but whether it survives a restart
is a question of order: the mount has only generations and times to tell where the
ring ends. The invariant says that up to the block written last the blocks get newer,
and that none behind it is newer than block 0 (`InOrder`, with an exception for the
block that is being written); what the two buffers and `block_ptr` are at each step of
a flush (`FlushInv`); and that a buffer is newer than the block before it, be that on
the card or in the other buffer (`TimeInv`). A block on the card cannot be compared
with one that is not started yet, so `TimeInv` keeps the header of the last block in
`block_alt`, where the code leaves it too. From `InOrder` the binary search finds the
newest block at every rotation of the ring (`BoundaryFound`, by induction over the
length of the range). For the log itself the ring is read from the next place on: the
write of a block takes away its first part and then changes its last (`RingStarts`,
`RingEnds`). That a restart keeps exactly what was on the card (`SavedPart`) needs the
entries to be in the order of their numbers. The failed assertion of `lstore_assert`
is part of the model and does not affect the log: a panic stops the flush until the
next restart.

**Client.** The list is in the order of the identifiers and names no device twice
(`ListInv`), which the lemmas about `Insert`, `Unlinked` and `jd_device_gc` preserve.
`Bindings` says what the roles and the flags of the services have to do with each
other: roles point to services in the list (`Points`), a flag has a role behind it
(`Flagged`), and unless a command has doubled a role the converse holds (`Exact`).
Each operation of the role manager is shown to keep `Bindings` on any list and set of
roles (`SetKeeps`, `ClearKeeps`, `DestroyedKeeps`), and the loops of
`rolemgr_autobind` then by induction over the roles (`HintsLoop`, `FreeLoop`).
`RestartNoticed` rests on two invariants. `RestartInv`: a record that has heard more
announcements than the bound has met one life of its device only, and if the device
has restarted since, its counter and the time the record has left add up to no more
than an expiry period and one. `PassedOver` bounds how long a record outlives its
expiry: a collection passes over it only by freeing the device before it in the list,
so for every collection there is one identifier less between it and the next device
before it that is left, and at most one for each other device. TLC checked this
invariant also with four devices, and found the bound `EXPIRES + MaxId` to be reached
there.

**Threads.** `ThrLocks`: who owns a mutex follows from where each thread is. `ThrList`:
every bound role has a client in the list, or the thread that makes the client is about
to add it. `ThrBound`: a client has the service its role is bound to, or the worker is on
its way to tell it, so a device is freed only when no client has a service of it any more.
`ThrRaced`: the role manager is locked, or is about to write to its list's pipe, only in
certain places of the main loop, so that an assertion fails only after a client was created
there.

**Register queries.** What a query holds is what the application was last told. Every
buffer of the heap is in one query or among the lost ones, and no two queries have
the same (`RgsHeap`); a value is in a buffer exactly if it is too long to be kept
inline.

**Events.** The queue holds the events sent last, without a gap and in order; the
times of their second copies do not decrease, and an event that waits for its third
copy is in front of one that waits for its second. Therefore the first event is always
the first to be finished, and the state that the code marks with "not sure this can
happen" cannot happen (`NoHoles`). The client's counter is the one of the event handled
last, and every copy on its way is of an event close enough behind it to be told from
a new one modulo 128. The client passes over an event only if one at or before it is no
longer queued, or if more than five have waited at once (`burst`).

**Power.** Three invariants of each provider tie status, ramp and limiter (`StatusInv`,
`DoneInv`, `LimiterInv`). `DarkInv`: no shutdown frame is sent in the dark, so every
provider that gave way comes back, and its remaining pause and the time the bus has been
dark add up to no more than the longest pause. `WakingInv`: a change from outside is
acted on by the next tick. `BothInv`: when two have powered the bus for more than a
tick, either all but the one that sent the last frame are about to give way, or a frame
is due so soon that the time until then and the time that has passed add up to no more
than the longest interval and one.

**Byte queue.** The i-th byte queued is at `front + i - 1`, less the size of the ring
if that is behind its end (`At`); a piece that was lent does not reach behind the end,
so it is the first bytes of the queue, and a push writes behind them. Between two
unmasked assignments (`BqSteps`) the ring will be right once the others are made; a push
there that passes `validate` keeps that, since `validate` then says where its bytes go,
and any other is a fault.

**Allocator.** Blocks lie below `aptr`, none across another or across the end of the
heap (`BlocksInv`); the pattern is wherever neither a block nor the stack has been
(`FillInv`). The number of words of a block covers its bytes (`WordNumbers`).

**Frames.** The places of the packets are a function `off` of their numbers, each
place the aligned end of the packet before it (`Offsets`). The buffer of the sender
holds the packets at these places and what an earlier frame has left between them. In
the receiver's buffer `TakenTo` says which part `jd_shift_frame` has overwritten with
its own mark: no place at which it still looks for a packet.

**USB bridge.** What the receiver makes of a byte depends on all bytes before it, and
half of them are in the chunk or on the line. The invariant says that there is a way of
the receiver through these bytes (`Along`) and that the state it ends in matches what
the sender has still to send (`Sent`): it has the frames that have left the queue, the
part of the front one that was pulled, and all text but the rest of `serial_buf` and
what the ring still holds (`TextLeft`). Every step of `jd_usb_pull` makes the way longer
and keeps the match; a byte pushed takes the first step of it away. A panic leaves a
way, as its end marker closes whatever frame is open; that the part of a frame it closes
is not taken for another frame is where no frame may be the beginning of another one,
which the size in its header sees to.

**Log files.** The chains of clusters of the files are disjoint, and the sectors of the
other file keep their data. `FileOk` says of each log what its step in
`jd_lstore_init` has made sure of: from the opening on the file is large enough and in
one piece, so that its sectors are its offset and what follows (`InARow`), and a file
that was ever mounted has a valid header on the card, which no later step replaces.

**Settings service.** The store holds for each key what the last change of this key
that was taken has left, and nothing for other keys (`Holds`). The lemma `KeyMeant`
says that what `strlen` finds in the cut copy of the payload is the key the client
means, unless both are too long.

**Lights.** The mark `in_tim` and the lock of the timer agree, and after every showing
the mark agrees with the light (`Lit`). The sign of the speed says on which side of the
target the level is (`Moving`); an animation step that would pass it stops there.

**Control service.** The watchdog is the deadline modulo the clock, and at the last
turn of the loop the deadline was not over. While neither is farther away than half the
clock, the signed comparison of the code tells which is first (`ClockDifference`); a
deadline farther away looks over (`Looks`), and one whose remainder is 0 is none.

**Main loop.** `CoreInv` ties `current_service` and the nesting of the loops to the
place a service sleeps at; `DisplayInv` says which cells show their pattern while
the columns are being sent.

**`SequenceFacts`** has what these proofs share: the existence of a least number,
induction, recursive functions, division with remainder, and what `FlattenSeq`
computes. Induction is stated with a set (`SetInduction`), as the provers cannot
instantiate a theorem with an operator parameter; to use it, one names the set of
numbers for which the claim holds. Recursion over sequences is written in the
proved modules as a recursive function (`Used`, `Compact` of `JdFstor`, `Saved` of
`JdLstore`, `Unlinked`, `UseHints` of `JdClient`, `Pass` of `JdEvents`), whose
existence is `Recursion`.

Only model-checked:

- liveness (`EventuallySent`, `ReceptionEnds`, `CloseEnds` in `CloseDelivers`,
  `SensorGetsGoing`): reasoning with fairness is beyond the prover;
- what recursive operators compute (`JdUtil`, `JdStrip`, `JdDcfg`: `Computes`, the
  program of a strip in `PicturesRight`, images in `ConfigSound`): the prover has no
  arithmetic in a module that reaches a `RECURSIVE` declaration;
- what folds over a frame or a table compute: the dispatch of packets and the sign of
  the brain (`Dispatched`, `BrainShown`) and the register tables (`RegistersKept`) in
  `ControlSound`;
- `BridgeDelivers` when chunks are lost, the panic log in `BuffersKeepOrder`, `SensorsSound`, `InputsSound`,
  the displays in `PicturesRight`, `OutputsRight`: nothing stands against a proof, but
  it is not done.

## 5. Not modelled

- FatFs (`storage/ff`), the vendor's drivers under `click/`, generated headers
  and scripts: not this program's logic. `JdLogFile` has FatFs as an allocator of
  clusters, `JdSensors` the color sensor through its glue.
- Handlers that pass bytes to a driver or a display and keep no state of their own
  (`i2cserv.c`, `logger.c`, `lorawan.c`, `oled.c`, `speechsynth.c`), single
  readings (`touch.c`, the voltage and current measurements), code that is
  compiled out (`multitouch.c`), register sequences (`cap1298.c`,
  `mcp41010.c`, `i2c_helpers.c`).
- Of modelled components: bytes of payloads beyond what tells them apart, logging
  and diagnostics counters, conversions and calibration of sensors, the 130 ms limit
  of `tick()`, the bridges' filter `jd_need_to_send`, several readers of the
  console buffer, the part of `hclient.c` that formats requests.

## 6. What remains

Every safety property of a run of its own is proved, and of those of `device` the ones
about events, registers, power, threads, lights, buffers (but the panic log), the files
of the log, settings and the control service, and of the USB bridge as long as no chunk
is lost. To be proved next: the bridge with lost chunks, the panic log, sensors and
inputs.
