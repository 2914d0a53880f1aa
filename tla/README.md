# OpenFlap: specifications, model checks and proofs

OpenFlap is a split-flap display. One **controller** (ESP32, FreeRTOS) serves a
web API and drives a chain of **modules** (PY32 microcontroller, bare metal)
over a daisy-chained UART. Each module turns one wheel of 48 flaps and finds its
position with two infrared sensors.

This directory holds TLA+ specifications of the parts whose correctness depends
on ordering, concurrency or long histories, the TLC configurations that check
them on small instances, and proofs of the most important properties for every
instance.

## 1. The system and its parts

Paths are relative to `src/software/`.

| Part | State it keeps | Operations | Talks to | Module |
|---|---|---|---|---|
| Synchronisation of the module model: `controller/components/openflap_display`, `openflap_mdl_master`, `module_api` | model values of every module, flag words `sync_prop_read_required`, `sync_prop_write_required` (display and module), event bits DESYNCHRONIZED and SYNCHRONIZED | GET and POST handlers, `of_mdl_master_synchronize`, `of_mdl_master_task` | the HTTP task and the master task share everything without a lock; the chain through madelink | DisplaySync |
| Chain length and memory: `of_display_resize`, `openflap_module` | `modules[]`, `module_count`, what each module points to | free, reallocate, create; replace a property | called by madelink when the chain was enumerated, by POSTs and uploads | DisplayMemory |
| Property handlers of the controller: `openflap_property_handlers`, `openflap_module` | the fields of `module_t` | to and from binary, to and from JSON, compare, per property | called by `module_api` (JSON) and by madelink (binary) | PropertyPath, DisplayMemory |
| Module firmware rollout: `module_api_firmware_endpoints.c`, `module/btl`, `module/lib/flash` | pages of two flash partitions, the running image, a reboot command | chunk handler, `property_firmware_set`, boot loader | HTTP upload, chain, flash | FirmwareUpdate |
| Controller startup and OTA: `controller/main`, `controller_ota` | OTA handle, partition, reboot timer | the steps of `app_main`, chunk handler, verification at startup, reboot callback | every service; ESP-IDF OTA API and boot loader | Controller, ControllerOta |
| Web server: `webserver` | upload loop; endpoint list; list of websocket clients, its mutex, a message buffer | body in chunks, endpoint registration, log forwarding | esp_http_server; every task that logs | ChunkUpload, WebsocketLog |
| Networking: `networking` | connection attempts, event group | setup, wait, event handler | ESP-IDF WiFi | Networking |
| Main loop of the module: `module/app/src/main.c` | timers, idle state, flags `store_config`, `reboot` | superloop, idle logic | all module parts | ModuleMain, ModuleLoop |
| Flap motion: `module/app/src/openflap.c` | encoder state, `flap_position`, `flap_setpoint`, `flap_distance`, offset | encoder decoding, distance, motor state | sensors, motor, property handlers | FlapMotion |
| Control: `openflap.c`, `openflap_hal.c`, `module/lib/pid`, `module/lib/interpolation` | measured speed, integral, compare values | speed, wanted speed and decay, PID, interpolation, bridge | flap motion, timers | SpeedControl |
| Property handlers of the module: `module/app/src/property_handlers.c` | `of_config`, setpoint, page | get and set, per property | madelink node | PropertyPath, and the module each one acts on |
| UART driver: `module/lib/uart_driver`, `module/lib/rbuff` | receive ring filled by circular DMA, transmit ring, DMA buffer, `tx_dma_busy` | read, write, transfer-complete interrupt | main loop, DMA | UartDriver |
| Debug terminal: `module/lib/simple_term`, `debug_term.c` | line buffer | commands | RTT | no |
| madelink: `common/madelink` | the chain protocol on both ends | an empty submodule in this repository | seen only through its callers | external |

### What is hard, and what makes each part correct

- **Synchronisation.** Two tasks change the same flag words with `|=` and `&= ~`
  and exchange two event bits; attempts fail and are repeated; a wait may expire
  and leave its request behind. Correct means: an accepted write reaches the
  module or is still due, a module never takes a value nobody asked it to have,
  a GET answers with what the modules hold, and no wake-up is lost.
- **Memory of the display.** One task frees and replaces what another may be
  reading, as the chain grows and shrinks. Correct means: what is allocated is
  what the display points to, and no task follows a pointer to what was freed.
- **Properties.** Two programs convert the same value, with widths, byte orders
  and limits of their own. Correct means: what was posted is what the module
  does, what is shown is what the module has, limits hold, and repeating a write
  costs no flash.
- **Firmware of the modules.** Pages go missing or come twice, have numbers that
  depend on the length of a chunk, uploads break off, the power goes in the
  middle of an erase. Correct means: a module always has an image to boot, gets
  back to it, installs an image once, and keeps its configuration.
- **Firmware of the controller.** A second upload may begin while the restart
  for the first is already scheduled; a new image may fail to start, and a good
  one may fail a step of its startup. Correct means: an image that is known to
  start is kept and reached.
- **Log.** A list of sockets is walked by one task, extended by another, and
  loses nodes to a failing send; both sides give up on its mutex. Correct means:
  the list is always whole, and a line reaches every socket in it.
- **Network.** Events are queued and heard late. Correct means: a station that
  is not connected tries again, and the connected bit tells the truth.
- **Flap motion.** The wheel falls back, coasts, flickers about a mark, and
  setpoints change while it turns. Correct means: the count follows the wheel,
  the distance is never stale, the minimum rotation is turned, the wheel
  arrives.
- **Control.** A speed is measured from positions that jump and times that
  overflow. Correct means: whatever was measured, the bridge turns the wheel the
  way distance and backspin call for.
- **Main loop.** Writes, reboots, motor and clock interleave with a store that
  erases first. Correct means: configuration is in flash or due, a reboot loses
  nothing and comes after the answer to its command.
- **UART driver.** An interrupt and the main loop move bytes through one ring.
  Correct means: one reader at a time, first in first out, nothing left behind.

## 2. The modules

### Which module composes which

    RBuff ─┬─ UartTx ─┬─ UartDriver    ChunkUpload ── ControllerOta ─┬─ Controller
           └─ UartRx ─┘                                  Networking ─┤
    ByteQueue (abstract; implemented                   WebsocketLog ─┤
      by UartTx and by UartRx)                        DisplayMemory ─┘

    ModuleMain ───┐                 DisplaySync       FlapMotion
    SpeedControl ─┴─ ModuleLoop     FirmwareUpdate    PropertyPath ── MCPropertyPath

    A module named X_proofs extends the module X it is about; those of the parts
    are with the whole: UartDriver_proofs has UartTx, UartRx and ByteQueue,
    ModuleLoop_proofs has ModuleMain and SpeedControl, and ControllerServices_proofs,
    which extends Controller_proofs, has what Controller composes besides updates.

The modules for one end-to-end write divide it where the code has a narrow
interface, so that each can be explored exhaustively:

- DisplaySync has the *interleaving* of requests and rounds, with values that
  are only told apart, and DisplayMemory the memory behind them, with the length
  of the chain;
- PropertyPath has the *values* of one property on the same way, with requests,
  rounds and stores in any order but not interleaved;
- FlapMotion has what a character, an offset or a minimum rotation does to the
  wheel, SpeedControl how fast it turns, ModuleMain what a stored property or a
  reboot does to the main loop, and FirmwareUpdate what a page does to the
  flash.

Two modules compose others. **Controller** has `app_main`: it starts the
network, the display, the web server and the endpoints in the order of the code,
any step may fail, and a restart, by a timer, by a loss of power, by a fault or
by a failed startup, empties the RAM of all. Once they are started the services
share no state, so a behaviour uses one of them (`used`) and the others rest
where startup has left them: their interleavings would multiply the states and
tell nothing. **ModuleLoop** puts the arithmetic of SpeedControl into the
loop of ModuleMain: whether the motor counts as running, which keeps a module
awake, is what the compare values of the bridge say.

### How state and actions correspond to the code

PROJECT.json maps every definition to its lines; this is the outline.

**DisplaySync.** `model` is `module_t` (one value per property), `dirty` and
`readRequired`/`writeRequired` are the flag words of `module_t` and
`of_display_t`, `desyncBit`/`syncBit` the event group. `shown` is what the
modules hold. `hpc` walks through the GET and POST handlers, `mpc` through
`of_mdl_master_task`. Every `|=` and `&= ~` on a flag word is two steps, a load
(into `hword`, `mword`) and a store, since the two tasks take no lock. An
attempt puts values on `wire` and then ends: all modules took theirs, or some
did and the attempt counts as failed. `wanted` and `disturbed` are history: the
value accepted last, and the properties for which reads, writes and rounds got
into each other's way: a POST met a running round or a read to come, a GET
flagged what was still to be written, or `set_alt` stored what it then refused.

**DisplayMemory.** Memory is named by what it is for: module `i`, or property
`k` of module `i`. `mods` and `field` are the pointers the display holds, `heap`
is what is allocated, and `hmod`, `hptr`, `mptr` are pointers a task has taken
out of the display; a pointer to what was freed turns into `Freed`. `Resize` is
the whole of `of_display_resize`, `Replaced` the new, store and free of a
property. `Fault` is what a task does that follows a pointer it must not.

**PropertyPath.** A behaviour is about one property. `Post` is `set_alt` of the
controller, `Write` is `get` of the controller and `set` of the module with its
limits, `Read` is `get` of the module and `set` of the controller, and `ToJson`
is `get_alt`. Conversions are modelled byte by byte, with the signedness and
widths of the C types. `store`, `flash` and the erased sector are the module's.

**FlapMotion.** `phys` is the wheel, the rest is `of_ctx_t` and the statics of
`of_encoder_position_update`. `Sample(d)` is one tick of the sense timer after
the wheel moved by `d` pulses, with the whole chain of calls of `main` for it;
`Motor` is one tick of the PWM timer; the other actions are the setters that
move the wheel. History: `origin` is the place of the wheel at which the encoder
was last zeroed, `Lost` after a slip or a rewritten offset; `owed` what is left
of the minimum rotation; `homed` whether the wheel has passed its mark since the
start, or its homing was called off before that.

**SpeedControl.** `SenseMoved` and `SenseStill` are `of_encoder_speed_calc` with
`of_speed_setpoint_set_from_distance`; `ControlLoop` is `motor_control_loop`
with `pid_compute`, both interpolations and `of_hal_motor_control`. The tables
are those of `main.c`. An overflow or a division by zero gives any of the
results that make a difference. `PlannedDrive` is FlapMotion's view of it.

**ModuleMain, ModuleLoop.** `pc` follows the superloop, one step per call.
Messages, the clock and the power act between any two steps. A deadline is kept
as the ticks left to it, `Past` once it has passed, and `toWrap` is the ticks to
the wrap of the 32-bit clock. The code compares with `>`: a deadline beyond the
wrap counts as passed until then, and one that has passed unseen before it
(`Missed`) is 49.7 days away afterwards.

**FirmwareUpdate.** A page holds the version of the image it belongs to, or is
erased, or junk. `Write` is `flash_write` with the erase of a sector at its
first page, and `Torn` what is left of it when the power goes. `SendPage` is an
attempt of the master, which may reach any subset of the modules and fail
although it reached all; `PageNumber` is the division by the length of the
chunk, and a page beyond the partition may hit the configuration (`spared`) or
stop the module. `Check`, `Copy`, `Spend` and `Verify` are the boot loader.

**UartTx, UartRx, UartDriver.** `pc` is the main loop inside `uart_driver_write`
and the update of the DMA buffer; `TransferComplete` is the interrupt handler,
one step that may come between any two steps of the main loop; `DmaSend` is the
DMA channel. `UartRx` has the circular DMA that writes during a read. The two
directions share no state, so a behaviour of UartDriver exercises one of them.

**ChunkUpload, ControllerOta.** `hpc` is in the upload loop, in
`httpd_req_recv_blocking`, or between two calls of the OTA handler; every call
of the OTA API may fail. `cpc` is `app_main`, from the boot loader to the
verification, and `step` of Controller the service it starts. Bytes are named by
upload and position, so that a partition shows what was written to it.

**WebsocketLog.** `next`, `fdOf` and `live` are the memory of the list, `wpc` is
the HTTP task in `log_ws_handler` and `lpc` is `websocket_logger_task`; the two
writes of `SLIST_INSERT_HEAD` are two steps. `got` is history: the last line
each socket got.

**Networking.** `events` is the queue of the default event loop; the driver
posts into it (`Radio`) and `networking_event_handler` takes from it.

## 3. The runs

| Run | Question | Distinct states |
|---|---|---|
| `sync_safety` | do writes survive, are replies fresh, do modules only show accepted values, when attempts fail and waits expire? | 2 153 157 |
| `sync_liveness` | is every flagged write carried out and every waiting GET woken? | 265 036 |
| `sync_ok_violated` | does `ESP_OK` mean synchronized? No | finding |
| `sync_kept_violated` | is every accepted value sent or still flagged? No | finding |
| `uart_driver` | does either direction implement a byte queue, with one reader and nothing stuck? | 158 112 |
| `flap_safety` | where is the position zeroed, and does the count follow the wheel from there? | 4 284 247 |
| `flap_liveness` | does a position zeroed at the mark never step back, and does the wheel arrive? | 42 737 |
| `flap_offset_violated` | is a written offset what the mark will set? No | finding |
| `main_loop` | are stores and reboots safe, does a reboot follow, also when the clock wraps, and does the arithmetic drive the wheel as planned? | 624 801 |
| `firmware_update` | is a module bootable at every loss of power, is an image installed once, is the configuration spared? | 217 400 |
| `property_path` | is a value the same at both ends, in limits, and silent when repeated? | 70 022 |
| `controller` | is an image that works kept and reached; are list and memory whole; does the station try again? | 396 583 |

Each passing run has for each of its properties a mutant of the model, a
plausible slip in the code, under which that property is violated.

### Bounds, and why they are enough

- *DisplaySync*: two modules (a broadcast needs one to copy from and one that
  may differ), two properties (for `sync_safety` one that is only read and one
  that is read and written, for `sync_liveness` one that is only read and one
  that is only written, so that rounds visit both and flag words hold foreign
  bits; the findings need one), two attempts for
  `sync_safety` and the real three for the findings, two values. Requests are
  unbounded. The proof of section 5 has none of these bounds.
- *UartDriver*: a ring of 4 with a DMA buffer of 2, so that a write can exceed
  the free space, a transfer cannot drain the ring, and both pointers wrap at
  every offset. Time is unbounded.
- *FlapMotion*: a wheel of 8 pulses (two quadrature periods) in place of 48, a
  zero window of 3, backspin up to 2 from wherever the wheel is, a backspin
  counter of 20 values (32 in the other runs) in place of 256 for the smaller
  wheel: it still holds more than two turns. The lockout threshold of 5 becomes 2, still between the
  backspin and the mark. An offset of 11 is beyond the wheel, as a byte can be.
  Two property writes at any point of an unbounded turn. Slipping and coasting
  are on in `flap_safety`; in `flap_liveness` the wheel does not coast.
- *ModuleLoop*: three messages suffice for a write, a reboot and one that keeps
  the chain busy; one turn of the motor; timeouts of 1 and 2 ticks keep their
  order. Deadlines are relative, so longer ones add nothing but waiting. The clock
  wraps never, after two ticks or after four: with deadlines still open, about
  to pass, or passed; where the motor is looked at it does not wrap. For the
  motor: the real tables and gains, five ticks of the timers (`MaxTicks`),
  distances of 0 and 3, position differences of 0 and 1, and times of 40 ticks,
  an ordinary speed, and of 268 435 455, whose product with 48 overflows to a
  negative number. A behaviour uses the chain or the motor.
- *FirmwareUpdate*: one module (modules do not share flash, and the subset an
  attempt reaches is then none or all), two sectors of two pages of two bytes,
  files of 3, 5, 7, 8 and 10 bytes: short, exact and too long, with and without
  a short last chunk; two uploads so that one can meet the remains of another,
  three losses of power.
- *PropertyPath*: the real `SYMBOL_CNT` of 48; numbers at the limits of the
  controller, the module and the width of a byte: -1, 20, 48, 255, 256, 1024 and
  1025; colours with a zero byte and with all bytes set; symbols with one that
  is in no set.
- *Controller*, updates: chunks of two bytes with bodies of 0, 2 and 3, so that
  an upload is empty, exact, or ends in a short chunk; two uploads of an image
  that works, one that cannot start, or a file that is no image; one loss of
  power or failed startup of an image that works. Network: two attempts in
  place of ten, three events not yet heard. Log: two sockets and three nodes, so
  that a list has a head, a middle and an end, and malloc fails; one line in the
  buffer and two in all, so that one is dropped. Display: chains of up to two
  modules, one property that is read and replaced by a POST and one that is
  uploaded; the request that overlaps a round is the last.

`CHECK_DEADLOCK FALSE` is set where the system may rest: FirmwareUpdate and
Controller after their last upload, Controller also in the endless loop of
`httpd_req_recv_blocking` (see below).

### Fairness, and why the code has it

- *DisplaySync*: both tasks are scheduled by FreeRTOS as long as they are ready
  (WF); the loop over a request body ends, since a body is finite (SF on its
  end). Liveness is checked with a chain that works and waits that do not
  expire: it is about notifications, not about the chain.
- *UartTx*: the main loop runs on, the DMA sends, and a pending interrupt is
  taken.
- *FlapMotion*: the sense and PWM timers tick, a driven wheel turns by a pulse
  (the flickering and slipping steps are not fair), and the 12 V are there.
- *ModuleLoop*: the loop and the clock go on, an answer leaves the module, and
  the motor does not run for ever (SF on its standing still, which `Arrives` of
  FlapMotion supports). Messages are finitely many: a chain that is never idle
  postpones a store and a reboot for ever, which is how the code is written.
- *FirmwareUpdate*: the boot loader of a module that has power runs on.
- *Controller*: `app_main`, a call of `httpd_req_recv` and the OTA handler go
  on, and the timer fires.

## 4. What the code is assumed to meet, and what was found

### Assumptions about the environment

- madelink, which is not in this repository, calls the handlers as
  `of_mdl_master_init` registers them, and resizes the display before it hands
  over what it has read;
- the wheel falls back no further than the ratchet allows (`MaxBack`), from
  wherever it is;
- the sender on the chain is less than a ring ahead of the reader, which nothing
  in the driver enforces;
- a CRC is valid only for a whole image;
- the partitions and the boot loader of ESP-IDF behave as documented with the
  rollback of `sdkconfig.target` (`sdkconfig` does not enable it), and one
  `httpd_req_recv` waits at least as long as the timeout of
  `httpd_req_recv_blocking`;
- esp_http_server closes the socket of a handler that returns an error.

### Disagreements between the code and its own words, kept as runs

- `sync_ok_violated`: the SYNCHRONIZED bit is also set at the end of a round
  that gave a property up after three failed attempts, so
  `of_mdl_master_synchronize` returns `ESP_OK` for a model that is not
  synchronized and a GET answers with stale values. The run has GET requests only
  (`PostsComing` is FALSE) and no timeouts: the round that wakes the GET is its
  own. With POST requests there is a second way to the same disagreement: a GET
  whose flags go up while the round of a POST is running is woken by the end of
  that round.
- `sync_kept_violated`: a GET right behind a POST flags the posted property for
  reading before its round has begun. The read goes first, replaces the posted
  value in the model, and its end clears the write flags too: the accepted value
  is never sent, without a failed attempt or a timeout. The code says that a
  property cannot be both read and written at the same time. A POST that
  overlaps a round loses its flags to the end of that round in the same way.
- `flap_offset_violated`: `property_offset_set` moves the position by the old
  minus the new offset, the mark sets it to the offset; `CMD_OFFSET_RESET` has
  the sign of the mark.

### Conditions under which properties hold

Some properties are stated for less than all inputs because the code does no
more; each is a hazard in PROJECT.json with its line:

- a minimum rotation of a whole turn or more extends every turn again, so
  `Arrives` is checked for smaller ones;
- `of_encoder_position_update` zeroes the position wherever the zero sensor
  goes off, also where the wheel comes to the first flaps of the sensor's window
  and the backspin takes it back out: nothing in the repository keeps it from
  that. The count is then ahead by the window and one flap, the lockout that is
  set there may still hold when the mark passes, and a character that is asked
  for meanwhile shows another flap. `Tracks` says it as it is: `origin` is the
  place at which the position was zeroed, one of these two, and the count is the
  way of the wheel from there. `NeverBack` is about a position zeroed at the mark
  (`origin = 0`), `homed` needs the mark, and `MinimumKept` calls off what is
  owed when the position jumps;
- the lockout of the zero sensor ends past position 5 whatever the offset, so
  `NeverBack` is checked for offset 0 and proved for the offsets that leave room
  for the backspin (`LockoutCovers`); an offset beyond the wheel is shown as
  position until the next pulse, so `Tracks` compares modulo a revolution;
- a CHARACTER written before the motor is unlocked computes its distance from a
  position that is not yet known and cancels the homing turn (`homed` is then
  "off"): `Arrives` and properties of the position exclude it;
- AcceptedWriteKept is about the properties outside `disturbed`: posted while
  no round was running and no read of them was to come (a GET that timed out
  leaves one behind), and not flagged for reading while a write was due.
  `sync_kept_violated` shows what happens to the others;
- `MemoryIsSafe` asks that no request began while a round was running or due
  (`overlapped`), which nothing enforces: a POST does not wait for its round,
  and a GET that has timed out leaves one behind. Its second half, that no null
  pointer is followed, also excludes a failed malloc, a round that gave up, and
  a chain that changes length between the properties of one round (`starved`);
- a wheel that is to stand is pushed forward when its measured speed is negative
  or absurd, which takes an overflow: the second case of `DrivesAsPlanned`;
- a reboot waits for ever, or 49.7 days, when the loop was kept from the idle
  test from before a deadline until the clock had wrapped: `RebootFollows`
  allows a `DeadlineMissed`;
- files that are not of whole pages, or too large, may program the sector of the
  configuration or stop a module (`misfit`): `ConfigSpared` excludes them,
  `Bootable` does not;
- no module takes a character set, since the handler compares the address of the
  buffer with the number of symbols: `PostedArrives` excludes it;
- values equal to those of an erased sector pass the comparison before the
  limit: properties of the limits exclude a module that runs from an erased
  sector;
- `uart_driver_tx_idle` looks at the ring only, and says idle while the DMA
  still sends;
- `httpd_req_recv_blocking` takes 0, the end of a connection, for progress, and
  spins for ever when the client closes early; on a timeout it adds -3 to an
  unsigned count, which stays harmless as long as one call waits for the whole
  timeout (assumed above);
- an upload that breaks off leaves the OTA handle open until the next begins;
- a page that could not be delivered counts as sent, and the modules are told to
  reboot; the boot loader then keeps the old image;
- when `log_ws_handler` is out of memory it returns with the mutex: the list
  stays whole (`ListLive`), but no line is sent any more, and `LineReachesAll`
  is about lines that are; it leaves out the number of a socket that is just
  being opened again;
- attempts to connect are never given back: ten losses of the network in the
  life of the controller end them, which `NetworkIsKnown` allows.

## 5. What is proved

Every safety invariant and every action property that a passing run checks is
also a theorem; what stays with TLC is liveness (end of this section). The
refinement of ByteQueue and that of ModuleMain by ModuleLoop are proved, too.

TLAPS checks the theorems for every value of the constants that meets the named
assumptions of the modules they are about (`DisplayAssumption`,
`RBuffAssumption`, `TxAssumption`, `RxAssumption`, `MainAssumption`,
`SpeedAssumption`, `UpdateAssumption`, `UploadAssumption`, `OtaAssumption`,
`NetAssumption`, `LogAssumption`, `MemAssumption`, `WheelAssumption`,
`PathAssumption`), which TLC evaluates on every run. Most say no more than that
sizes and bounds are natural numbers, a ring has two slots, a buffer has one, and
so on. Those that say more:

- `MemAssumption`: what a POST replaces is also read (the character set is);
- `WheelAssumption`: the wheel falls back by less than a turn, and half the range
  of the backspin counter is more than one (128 to 48 in the code);
- `UploadAssumption`: one call that receives waits as long as the whole timeout;
- `PathAssumption`: numbers are integers, colours have 24 bits, and a module has
  at most 255 symbols, so that an index is a byte.

`PositionNeverGoesBack` has a hypothesis besides, `LockoutCovers`: it is about
the offsets a module is configured with, and the code does not enforce it.

**UartDriver_proofs**, transmit path. `TypeCorrect`: pointers stay in the ring and updates in the
DMA buffer, for every size of both. `OneReader`: main loop and interrupt never
read the ring at the same time. `SoleReader` alone is not inductive: that the
interrupt cannot come while the main loop is between the busy test and the start
of a transfer depends on the channel being at rest there. `ChannelInv` says so:
it ties `tx_dma_busy` to the state of the channel at every step of the main
loop.

**UartDriver_proofs**, counts. `CountsAreHonoured`: room once reported is still there
when it is written to (`PromiseInv`: the interrupt only frees room), and the
count of unread bytes is right for a reader that keeps up (`UnreadInv`). The
lemmas are the arithmetic of `rbuff_cnt_used` and `rbuff_cnt_free` modulo the
capacity.

**UartDriver_proofs**, queues. `DriverIsByteQueue`: each direction implements ByteQueue,
whose steps put one byte in at the end and take one out at the front. The
mapping reads the queue off the ring and, on the way out, off the DMA buffer:
what the channel has still to send, then what an update has gathered for the
next transfer, then the ring. `QueueInv` says that a byte which has been copied
to the buffer, but is still in the ring, is the same in both, so that advancing
the read pointer is a stutter of the queue. The lemmas say what the
contents of a ring become when a slot is filled, a pointer advances, or both.

**DisplaySync_proofs.** `TypeCorrect`, and `WritesAreKept`: for any number of
modules, properties, values and attempts, no interleaving loses an accepted
write of a property outside `disturbed` (section 4). The inductive invariant
`IInv` strengthens it with

- `ReadIsShown`: where a read is to come, the modules already show what was
  accepted last, so that no round replaces a written value by another;
- `LoadedWords`: a word the HTTP task has loaded is an upper bound of the flags
  it will store over (the master only removes), and one the master has loaded a
  lower bound (the HTTP task only adds): the unlocked updates can bring back a
  cleared flag, and can only drop a flag of a property the POST touched
  meanwhile;
- `ModelIsWanted`: the model has the accepted value;
- `BroadcastAgrees`: modules scanned for a broadcast agree with module 0 until
  it is sent;
- `WireIsWanted`: what is on the wire for a module is what it should get, and a
  module passed over already has it;
- `CarriedIsShown`: once a property counts as carried out, every module has it;
- `KeptSafely`: where a module does not have its value, both flags are up and no
  loaded word is about to drop them, or the POST is still raising them.

One lemma per conjunct shows that a step keeps it, with one step per action that
can disturb it and the others in one leaf.

`RepliesAreFresh` and `OnlyAcceptedIsShown` follow from `FreshInv` and `IInv`
together. `FreshInv` is about a GET that began with the master parked
(`trusted`): until its flags are up and the DESYNC bit is set, the master rests
and no SYNC bit is left (`RoundBits`); from then on what it flagged is still
flagged, or read by the one round it started, and it is woken by the end of
that round only (`RoundOfGet`).

**FirmwareUpdate_proofs.** `TypeCorrect`, `AlwaysBootable`, `InstalledIsSpent`
and `ConfigIsSpared`, for any number of modules, sectors, pages in a sector,
uploads and losses of power. `Bootable` alone is not inductive, since the copy
overwrites the image that is valid. `ModuleInv` says for every step of the boot
loader which image is whole, and for the copy, that the images agree before the
page it has come to (`Copied`) and that the rest of the sector is erased
(`Ready`), so that programming, which can only clear bits, gives the new page.
The lemmas on sectors (`FirstIsLeast`, `SectorGoesOn`) are the arithmetic of it:
erasing at the first page of a sector destroys nothing that was copied.
`ConfigIsSpared` rests on `SpareInv`: for a file of whole pages that fits, the
offset is a multiple of the page, so that its quotient by the length of the
chunk is a page of the partition.

**ModuleLoop_proofs**, the loop of ModuleMain. `TypeCorrect`, `ConfigIsStoredOrDue` and
`RebootLosesNothing`, for all timeouts, wraps and configurations and any number
of messages. `AnswerInv` is the link between the answer and the idle test: while
the message that carried a reboot is on the module, `comms_state_update` has made
the chain active before the loop gets to the idle test.

**ModuleLoop_proofs**, the motor in it. `LoopImplementsMain`: the loop with the motor that
SpeedControl runs refines the loop with a motor that runs at will, so that
`StoredOrDue` and `RebootIsSafe` carry over (`LoopStoresOrMarks`,
`LoopRebootsSafely`). `DriveFollowsPlan`: whatever is measured, with every
overflow and division by zero, a powered and unlocked motor is driven the way
distance and backspin call for. `SpeedInv` is what makes it finite: the wanted
speed is one of 0, 18, 32, 46, 60 and 75, since distances are clamped to five
values. At each, the table gives a pwm above zero, and the sign that counts is
that of the PID's output, which is clamped; the two divisions that make the
compare values round towards each other, so that the difference of the compare
values is the clamped speed itself. `LoopTypes`: the wanted speed, the measured
one (which is a 32-bit quotient, overflow or not), the clamped integral and both
compare values stay in their ranges; for the compare values this takes the
products of `PwmInRange`, which are not linear.

**Controller_proofs.** `HandlerGetsTheBody`: the chunk an upload's handler is
given is the part of the body at its offset, for every size of chunk and body.
`UploadInv` says how far the buffer is filled while a chunk is being received.
`ImageSurvives`: for any number of uploads and losses, a partition keeps an
image that has shown that it starts, and the boot loader gets at it.
`ProvenImageKept` is not inductive. `ImageInv` adds what the code relies on
without saying it: an update goes to the partition that does not run, and only
from an image that is verified; an image on probation has a good one beside it;
and what is to be booted is what runs, or new. `FilesInv` keeps a file that is
still to come out of the partitions. `OtaTypeCorrect` are the types of both.

**ControllerServices_proofs.** What the services promise, through every start,
restart and use of the controller. `StartupInv` says that what `app_main` has not
started yet is as a restart left it; from it a step of Controller is one of the
service, a reset of it, or a stutter.

- `NetworkStaysKnown`, for any number of attempts and any queue. `NetInv`: the last
  event about the address still in the queue tells what the address is, and when
  there is none, the bit does (`AddressKnown`); a station that rests has used up
  its attempts or will hear that it left (`RestIsHeard`).
- `LogListStaysLive` and `LineReachesEvery`, for any number of sockets and nodes.
  `ListShape`: the list is a path, since no link leaves it, no two lead to the
  same node, none leads to the head, and each lowers a rank. For the line this is
  not enough: that a node is not skipped is about being *reachable* from where
  the walk is, which is an induction over the list. `LeadsTo` says it without
  one: a node is led to from another when it is in every set that holds the other
  and is closed under links. `Reached` says that the head leads to every
  node, and `WalkInv` that every node is ahead of the walk or its browser has the line;
  the lemmas `LeadsOn`, `LeadsFromNew` and `LeadsPast` are what a step, an
  insertion at the head and a removal do to being led to.
- `DisplayMemoryStaysSafe`, for chains and property sets of every size.
  `Pointed`: memory is allocated exactly where the display points to it, each at
  its own place; `Held`: what a task has a pointer to the display still points
  to; `Turn`: requests that keep out of rounds are at the display only between
  them. For null pointers, `Marked` and `Filled`: what a round has not read yet
  is still marked as to be read, and the rest is there in every module.
- `ControllerTypes` collects the types of all.

**FlapMotion_proofs.** `MotionTypes`, `CountFollowsWheel`, `DistanceStaysRight` and
`PositionNeverGoesBack`, for a wheel of any number of quadrature periods, any
zero window shorter than a turn, and any backspin, offsets, characters and minima. Most lemmas are
arithmetic modulo the revolution. `Tracks` is not inductive: `TrackInv` adds
that the last sample is of the place the wheel is at (`PatternInv` for the two
encoder bits, so that the sign of the next step is right), and that no more is to
be made up for than the wheel has fallen back. `WindowEnds` says where the sensor
can go off: at the mark on the way forward, or at the place before the window on
the way back, where the count starts anew; nothing is assumed of where the wheel
turns back. `RotationInv`: what the minimum
rotation still asks for is covered by the distance, and a turn that is to be
extended has less left than the minimum. `LockInv` is what keeps the sensor from
firing a second time at a mark the wheel has fallen back over, for a position
that was zeroed at the mark: as long as it is locked out, the furthest the wheel has
come is not past the threshold less the offset, and once it is trusted again,
it is further than the wheel can fall back. That step needs `LockoutCovers`:
the threshold is at least offset and backspin together (and the sensor is off at
more than one place of the wheel). For a wheel that falls
back by less than six flaps this is an offset of at most five less the
backspin; larger ones are the hazard at `openflap.c:87`.

**PropertyPath_proofs.** `PathTypes`, `LimitsHold`, `RequestsArrive`,
`ReadingsAreShown` and `SilentRewrites`, for all numbers, colours, symbols,
versions and checksums. `Conversions` says in six parts what the two programs
must agree on for one property: what is accepted can be sent, the module answers
within its limits and does what was meant, what it has can be read and shown, and
the same again is silent. One lemma for each kind of property shows it
(`OffsetConversions` to `ColorConversions`), from the arithmetic of bytes:
`Digits`, two's complement of 16 bits, the three bytes of a colour. `PathInv`
is then about requests, rounds, stores and losses only: a value that is due is
what the request converts to, and one that is not is what the module has.

**Only model-checked**: liveness, with the ENABLED in its fairness, is beyond the
prover: `WritesDrain`, `WaiterIsWoken`, `RingDrains`, `Arrives`, `RebootFollows`,
`Recovers`, `ComesUp`, `AcceptedStarts`. So are the runs that expect a
violation.

## 6. What is not modelled, and the plan

Most lines of the repository are vendored: drivers, DSP tables, display data and
examples of the chip's maker under `module/lib/puya_libs`, and CMSIS. They are
no part of the program's own logic, and the project says nothing about them.

Of the program itself, not modelled, and not planned: the controller's UART
(thin calls of a driver), the debug terminal (a developer's console), peripheral
set-up, building and parsing of JSON text, static pages and CORS headers, access
point and Ethernet (off in the default configuration), boards and mechanics.
madelink is an empty submodule; it is modelled as far as its callers see it.

What is planned, in order:

1. *Resizing during a POST*, with the flag words of DisplaySync over the memory
   of DisplayMemory: at present each has one half of it.
2. Proofs of the safety that liveness rests on: that no wake-up is lost
   (behind `WritesDrain` and `WaiterIsWoken`), that a ring with bytes in it has a
   transfer under way or to come (behind `RingDrains`), and that an unlocked
   module that is not there drives its motor (behind `Arrives`).

Runs that ask the same question of components that share a module are kept as
one.

## 7. Running

    tlc -workers 2 -config DisplaySync_safety.cfg DisplaySync
    tlapm DisplaySync_proofs.tla

PROJECT.json lists every run with its module and configuration, the mutants, the
map from definitions to source lines, the hazards and the theorems.
