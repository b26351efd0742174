# A formal model of discostick_common

`discostick_common` is the C library that the boards of a flight-stick
project (cyclic, collective, pedals, controller) share on STM32
microcontrollers. This directory holds TLA+ models of the parts of it that keep
state and can go wrong, TLC configurations that check them, and proofs that
TLAPS checks. Sources are under `src/Src` and `src/Inc`; line numbers below are
theirs. `PROJECT.json` maps every definition to the lines it models.

## Inventory

| part | state | operations | talks to | what is hard |
|---|---|---|---|---|
| `fifo.c`, a byte ring | storage, read and write index | write, read, peek (two kinds), push read index, flush | its owner; in `uart.c` an interrupt too | wrap-around, full and empty, an index copied to a local and stored back later |
| `uart.c`, transmitter | `tx_fifo`, `tx_busy`, `tx_waiting`, `tx_remaining`, `tx_size`, the DMA | `uart_write`, `uart_write_packet`, `uart_update`, `HAL_UART_TxCpltCallback` | HAL DMA, `fifo.c` | main program and interrupt share everything without a lock |
| `uart.c`, receiver | `dma_buffer`, `dma_index`, `rxlock`, `rx_fifo`, `unread_bytes` | `HAL_UARTEx_RxEventCallback`, `uart_update`, `uart_read` | HAL circular DMA, `fifo.c` | events dropped by `rxlock`, laps of the DMA, torn reads of the indices |
| `uart.c`, table of instances | `uart_instance_id` (bits), `uart_instances` (pointers) | `uart_init`, `uart_deinit`, `get_uart_handle` | every callback | interrupts between the steps, stale pointers |
| `com_packet.c`, packets | callbacks registered, timeout, source address | `create`, `create_cmd`, `create_special`, `parse`, `clear`, `get_cmd` | crc and tick callbacks; bytes by way of `uart.c` | noise, cut and damaged packets, time-out and tick wrap, size edges |
| `w25qxx.c` over `spi_bus.c`/`qspi_bus.c`, flash chip | none; the chip's | read, page program, erases, status registers, power down, reset | the bus | page boundaries, failing transactions, a busy chip, restart and power loss |
| `lfs_conf.c`, files and calibrations | `fs_initialized`, `flash_config.context`, one `config_file` | `init_flashfs`, `format_flashfs`, `read_file`, `save_file`, `load_calibration`, `save_calibration`, four block device functions | littlefs (third party), `w25qxx.c` | one step of several failing, power loss between them |
| `axis_control.c` | a record of calibration factors | apply, set, get, clear, recalculate, verify | none | int16 overflow, degenerate ranges, ends in either order, zeros at an end |
| `stepper.c` | two enable flags, a mode, pins and timer registers | enable, disable, the master's two, set direction, move | HAL | the master against calls that come before and after it; moves longer than the counter |
| `input_filter.c` | alpha, output | init, set alpha, update | none | alphas out of range, from commands |
| `bitutils.c`, `logger.c`, `dev_id_strings.c`, `nanoprintf.c`, `calibration.h`, `hal_shim.h` | none that a decision rests on | conversions, output, tables | | nothing for a model checker |

How they interact: an application gives the bytes of a packet from `com_packet`
to `uart_write_packet`; the DMA and the transmit interrupt send them. The
receive interrupt fills `rx_fifo`, the application takes bytes out with
`uart_read` and lets `com_packet_parse` search them. Calibrations of
`axis_control` travel as payloads and are kept by `lfs_conf`, through littlefs,
in the flash chip. All hazards we know of, with their lines and the property
that is after each, are in `PROJECT.json`.

Correctness, by part: the ring is a bounded queue that drops its oldest bytes;
either direction of a uart is a reliable channel; an interrupt finds the handle
of its port; an intact packet is received and a damaged one is not mistaken for
it; a call on the flash does what it is for and nothing else; a calibration
reported as saved is there after a power loss; a calibration that passes its
verification gives every input one result on the right side of zero; a motor
that is switched off at the master stays off.

## Modules

| module | models | how |
|---|---|---|
| `Fifo` | `fifo.c` as functions on a record | closed forms of the loops; `x & mask` is `x % Size` because the size is a power of two |
| `LossyQueue` | nothing: the promise of the ring | a queue that drops its oldest element when full |
| `FifoLoop` | `fifo.c`, one loop iteration per step | local index copies are `lr`, `lw`; a call starts with a `...Call` action and ends by storing the indices back |
| `ByteChannel` | nothing: the promise of a uart | in order, once, and in the end; `RestartableSpec` lets it be started again |
| `UartTx` | transmitter | the main program stops between any two accesses to shared state; `TxCplt` may run at the points in `PreemptPoints` |
| `UartRx` | receiver | line and DMA, line errors, the events and the HAL's entry to the callback, the main program, `uart_deinit` and `uart_init` again |
| `UartRegistry` | table of instances | `uart_init` and `uart_deinit` in the steps between which an interrupt looks at the table |
| `ComPacket` | `com_packet.c` | creators are functions; the parser runs one iteration per step while the tick goes on; `Beyond` is the memory behind a packet, which a `payload_length` that is too large sends along |
| `Flash` | `w25qxx.c` over `spi_bus.c` or `qspi_bus.c` (`Bus`), the block device functions of `lfs_conf.c` | one bus transaction per step; `Seen` says where it may break off; the chip is external |
| `LfsConf` | `lfs_conf.c` | one call into littlefs per step, each may fail; the power may go at any step |
| `AxisControl` | `axis_control.c` | an `int16_t` wraps at `IntMod`, a float is a fraction; a conversion that does not fit may give anything |
| `InputFilter` | `input_filter.c` | the output is kept times `Unit`, so that it is exact |
| `Stepper` | `stepper.c` | one write of a pin or register per step |
| `Axis` | `axis_handle_t`, which joins the three | no function touches two of its parts, so `part` says which of the three a behaviour calls |
| `FifoLemmas` | | facts about `Fifo` used by the proofs |
| `FifoLoop_proofs`, `Uart_proofs`, `UartRegistry_proofs`, `ComPacket_proofs`, `Flash_proofs`, `LfsConf_proofs`, `Axis_proofs` | | theorems |
| `MC...` | | the values of the constants for TLC |

A definition that is called a *variant* in its comment is a plausible mistake in
the definition that follows it. Nothing uses it; putting it in the place of the
original must break the property `PROJECT.json` names ("mutants"), which shows
that the property depends on that code.

Details of the correspondence that are not obvious:

- *Bytes.* In `UartTx` and `UartRx` a byte is its serial number, so that a lost,
  repeated or misplaced byte is visible. No code looks at byte values.
- *`uart_write_packet`* decides and computes like `uart_write` (it sets
  `tx_busy` later, which no interrupt can see), so it shares its actions. Over a
  transfer it clamps with `>=` (225) where the other has `>` (162), and so may
  store the size of the ring once more: `Busy` is told from where on (`full`).
- *`tx_remaining += ret`* and its clamp are four actions: `CountBytes` loads and
  adds, `StoreRemaining` stores the sum, which may be above the ring's size,
  `CompareRemaining` compares and `ClampRemaining` stores again. The interrupt may
  come in between any two.
- *Idle transmitter.* `WriteIdle` is one step: no transfer runs, so no transmit
  interrupt can come in.
- *Reloads.* Neither the ring nor the handle is volatile; in
  `UpdateCount` the write index of the comparison may or may not be loaded
  again for the subtraction, and in `CompareRemaining` the sum just stored may
  or may not be loaded again.
- *`get_uart_handle`* dereferences slots that were never filled. The model
  returns `Wild` then; `LookupFinds` says that it does not come to that for a
  port that is in use.
- *Words in packets* are the four bytes that are sent.
- *Two opens*: `load_calibration` opens, for every axis after ROLL, first its
  own file (`lfs_file_open`) and then, into the same `config_file`, ROLL's
  (`lfs_file_opencfg`, `LoadName`). The result of the first is overwritten by
  that of the second (318, 319), so whether it failed shows nowhere. That a
  `config_file` which is still open can be opened again is taken for granted (a
  littlefs with its assertions on may stop there), and what the first open leaks
  is not modelled.
- *Unmounting*: `read_file` and `save_file` unmount also when the file system is
  not initialised (192-194, 221), and `init_flashfs` when the chip is not there. If
  `flash_fs` was never mounted nor formatted (`cfg`), that follows a null
  pointer: the call returns, or the program has ended (`pc = "fault"`).
- *The receiver's packet*: `com_packet_parse` does not clear it. `Again` has the
  receiver clear it, or leave it if it is one of `Reused`; `given` remembers what
  a parse found in it.
- *`stepper_master_disable`* stores the flag and resets the pin (29, 19) in one
  step: nothing runs between the two.
- *Failing transactions.* `spi_bus_write` sends the parts of a command one after
  the other and stops at the first that fails; `qspi_bus.c` hands over a whole
  command and then its data, and stops in a breakpoint (qspi_bus.c:59, 64) when
  that phase fails, which is at worst a `Restart`. The lemma `BusesAlike`
  says that the chip sees the same of a failing transaction on either.
- *`LineError`*: the HAL ends a reception at a framing, noise or overrun error and
  `uart.c` has no error callback, so only `uart_deinit` and `uart_init`
  (`Restart`) bring it back; `uart_init` does not look whether its own start of
  the reception succeeded (uart.c:44), so `receiving'` may be either.
- *Fractions.* A float of `AxisControl` is exact and only its conversion to
  `int16_t` cuts. `0.001`, the guard against a zero at an end, is 1/1000.

## Runs

| run | instance | distinct states | shows |
|---|---|---|---|
| `fifo_loops` | 4 slots, 2 byte values | 40 000 | every position of both indices, every size from 0 to the ring's; loops equal closed forms; the ring is a `LossyQueue`; peeking foretells reading |
| `uart_tx_anywhere` | 4 slots, 12 bytes, sizes 0 to 5, interrupt anywhere, callers overrun the ring | 148 000 | types, `DmaInBounds`, `BusyWhileActive`. The view hides stored bytes, which no guard reads |
| `uart_tx_channel` | 8 slots, 26 bytes (more than three laps), callers fit the ring, interrupt outside the index and count updates | 23 000 | `Ledger`, and the refinement of `ByteChannel` with its liveness |
| `uart_tx_preempted` | 4 slots, interrupt also inside `fifo_write` | violated | see Findings |
| `uart_rx` | buffers of 4, 14 bytes (three laps and a half), line errors and restarts at any time, `unread_bytes` modulo 16 | 77 000 | `EventCatchesUp`, and the refinement of a `ByteChannel` that can be started again, with its liveness |
| `uart_registry` | 3 slots, 4 handles, 4 ports, 2 failed inits, symmetry | 8 300 | table and lookup, more handles than slots |
| `packet` | payload of 8, sizes 0, 3, 4, 7, 9, three kinds of command, sizes whose length is too large, noise of two kinds before, cut anywhere, any one byte damaged, parsed into a cleared packet or over a command, tick modulo 3 | 1 290 000 | reception, integrity, what is handed over, reports, orders, oversized packets, time-out |
| `flash` | SPI; 8 cells, pages of 2, sectors of 4, writes of 0, 3 and 4 bytes across page and sector boundaries, all faults | 259 000 | effects, confinement, waiting, locking, termination |
| `flash_prog_error` | the same over QSPI | violated | see Findings |
| `store` | PITCH, ROLL, THRUST and an axis that does not exist, two contents of different length | 588 000 | durability, faithful loads, reported failures |
| `store_load` | same | violated | see Findings |
| `axis` | an `int16_t` of four bits, a travel between any two of its 16 values, three logical ranges (two-sided, one-sided, senseless), three zeros, flags 0 to 2; five alphas and three inputs; a counter of 8, angles below and above it | 167 000 | calibration, filter and motor |

*Why the bounds are enough.* The behaviour of the rings depends on the
relative position of the indices, the size of the call and the wrap, all of
which occur with 4 slots (8 where several calls must fit); the theorems cover
every size. The sessions of bytes are longer than two laps, so that an index
passes the end more than once. Three slots give a table that is full, has gaps
and is filled again; the theorems cover any number. A page of two cells has
writes that start in, end in, fill and span pages. The tick modulo 3 with a
time-out of 1 lets every parse meet the wrap. Four bits of an `int16_t` have
ranges that fit and ranges that do not, odd and even ones, and a travel on
either side of 0 or on both; since all of them are enumerated, the sign and
overflow cases of `axis_control.c` all occur. Bounds: `MaxBytes`, `MaxArrivals`, `Reused`,
`WordMod`, `MaxLeaks`, `MaxElapsed`, `TickMod`, `IntMod`, `MaxSets` (one set
reaches every calibration; what follows a second is the same),
`MaxUpdates`, `AlphaOne`, `UINT16_T_MAX`, `Capacity`, and the sets of sizes and contents.

`CHECK_DEADLOCK FALSE` stands in the transmitter's configurations only: when all
`MaxBytes` bytes are sent and `tx_remaining` is 0, nothing is left to do.

### What is checked, in words

- `LoopIsClosedForm`, `ImplementsQueue`: above. `PeekForetellsRead`: what
  `fifo_peek_continuous` copies out is what a `fifo_read` would hand over next;
  what `fifo_peek` shows is an unread byte at its distance, or nothing. It does
  show nothing for bytes beyond the end of the storage: fifo.c:95 adds and
  compares indices without the mask, so a caller sees `'\0'` although the
  comment above it speaks of no data to read.
- `TypeOK` of `uart_tx_anywhere`: `tx_remaining`, which two calls and the callback
  change without a lock, stays below two laps of the ring, and below three while
  a write has added to it and not yet clamped it.
- `DmaInBounds`, `BusyWhileActive`: no transfer reads past `tx_buffer`; no
  caller can start one over another.
- `Ledger`: between calls each unread byte is in the transfer or in
  `tx_remaining`, never in both.
- `EventCatchesUp`: a callback that is not dropped leaves in `rx_fifo` all
  that its event is about and nothing twice, whatever was dropped before.
- `ImplementsChannel` of `uart_rx`: what the callback has put into `rx_fifo` comes
  out complete and in order, after a line error too; only `uart_init` may drop
  the rest, and then both sides start from nothing.
- `RegistryInv`, `LookupFinds`, `SlotsAccounted`: one to one; lookups right at
  every step of every call; the slots lost are those of inits without a port.
- `IntactIsReceived`: reports (POS, CAL_FACTOR, DEVICES) are left out because
  the parser compares their crc with 0 (341, 350, 359). `ReportsAreRefused` says
  what comes of it: a report that arrives whole ends the parse as a bad crc, unless
  the crc of its data happens to be 0. Left out, too, are commands whose creator
  was given no `para_data`: they are sealed with a payload length of 0 and their
  command byte is not sent (155, 176). `CommandIsOrdered` says what comes of them:
  a command that is handed over is the one that was ordered; where the parameters
  were missing nothing is copied (67), and `com_packet_get_cmd` returns what the
  receiver's packet held before: 0, if it was cleared, or else the command that
  was taken before it, which is so ordered a second time.
- `AcceptedIsThere`: what a parse hands over is a whole packet of the buffer,
  unchanged, and the crc it carries is that of the payload handed over.
- `AcceptedWasSent`, `TimeoutIsReal`: damage and cuts never yield another
  payload. The header is not covered by the crc: a damaged address or padding is
  accepted, so the property speaks of the payload. It holds when nothing in the
  buffer is a packet but the one sent, or what is left of it, and acknowledgements
  (`Alone`): the parser goes on inside a packet whose header is damaged, and would
  take a packet it finds in the payload. `CommandIsOrdered` and
  `OversizeIsPassedOver` have the same precondition; in the run every
  buffer meets it, because no payload and no noise holds another valid packet.
- `OversizeIsPassedOver`: a command whose padding does not fit (167, 183) and a
  report whose padding counts its data twice (264) get a `payload_length` above
  the payload. The parser takes none of them, copies nothing, and still finds an
  ACK behind them.
- `CallTakesEffect` leaves out `w25q_block_erase_32k` and `_64k`: they do not
  enable the write (164, 177), so unless an enable was left over they do nothing,
  which nobody hears of.
- `CommandsWaitForBusy` allows for what the code cannot know: a poll whose read
  failed returns 0, "not busy" (203-206).
- `WriteConfined`, `NeverLocked`: hold with every fault.
- `SaveIsDurable`, `FailureIsReported` speak of every save and load, by axis and
  by file name, with an exception: `save_file` and `read_file` take a close that
  failed for a good one (214, 251). Calls by axis report that one too.
  `FailureIsReported` has a second: the first of the two opens of an axis after
  ROLL (318, 338, 358, 378). When the axis's own file is missing or cannot be
  opened and ROLL's can, the load returns ROLL's calibration and no error.
- `LoadIsFaithful` is `LoadGetsOwnFile` for the axes where it holds.
- `RecalculatedVerifies`: what `recalculate_calibration` makes of a travel that
  holds 0 and fits an `int16_t` passes `verify_calibration`. The conditions are
  the code's: a travel on one side of 0 never verifies, because
  `verify_calibration` compares the sum of the absolute ends with the range, though
  the comment at axis_control.c:80-81 has inputs all positive; and an axis with
  its own zero gets a `step_size_neg` taken from `physical_max` (262), whose sign
  is wrong, so it does not verify either.
- `AcceptedIsUsable`: after recalculation and a verification that passed, every
  input of the travel has exactly one result (no conversion overflows), the
  results are monotonic, and none is on the wrong side of 0. It leaves out one
  case, `ZeroAtTheTop`: with its own zero at `physical_max` an axis gets steps 1000
  times too large (282), of the right sign, and passes.
- `EndsAreReached`: full travel gives the full deflection, to within a step. On
  an axis in one direction with the default logical range the positive step is
  taken for half the travel, so it saturates half way: that is inside the property.
- `FilterStaysBetween`: the filter never overshoots, whatever alphas are asked for.
- `MotorObeysMaster`, `MoveIsComplete`: a motor is not enabled behind the master's
  back; the loads of the counter add up to the move. `stepper_move` does not
  wait for the timer between loads, so in a move longer than the counter a load
  replaces one that has not run out: the property is about what the code hands over.

### Findings

1. `fifo_write` stores a stale `read_index` over what the transmit interrupt
   pushed (fifo.c:55); bytes are sent twice (`SentOnceInOrder`).
2. `w25q_write` ignores the bus (w25qxx.c:105, 115), `prog_flash_region` reports
   success and littlefs believes it (`ErrorsAreReported`), over either bus.
3. `load_calibration` of THRUST, YAW and both brakes reads ROLL's file
   (lfs_conf.c:319, 339, 359, 379) (`LoadGetsOwnFile`).

## Assumptions and fairness

*UartTx.* `Fairness`: a call that began goes on; the application calls
`uart_update` again and again, as its name and its return of a status ask for;
the DMA sends and its interrupt is taken. No fairness on writes. Zero-length
writes are in the safety run only: they set `tx_busy` for good (uart.c:152).
The channel run keeps the interrupt out of the places where the code is wrong or
where its counts are momentarily so; the run with the interrupt anywhere and the
preempted run say what remains true there and what does not.

*UartRx.* The callback moves whole laps or nothing, and that is right only
under conditions which the hardware and the HAL give in practice: the bytes not
taken out fit the ring (`Room`; with it, less than a lap of bytes comes between
two events that are served); an IDLE interrupt is entered before
the next byte is complete; a pending TC goes before a pending IDLE; the HAL does
not report an IDLE at the very end of the buffer. Outside them bytes are lost or
repeated (uart.c:267, 290). `Fairness`: interrupts are taken; the application
calls `uart_update` and then `uart_read` with room, again and again. The strong
fairness on these two stands for a main loop that is not interrupted at the same
place for ever.

*Flash.* The processor goes on, a poll is repeated, the chip finishes what it
began. A job that is broken off has been done for the cells before some point.
Block erases are given the address of a block. The block protection bits of SR1
do not protect anything here. A chip put to sleep may hold a call
(`EveryCallReturns` says so). The bus matters to `Seen` alone.

*LfsConf.* littlefs is modelled from its use: atomic commits on close, a failed
close that may or may not have committed, a file that exists once it is opened
for creation, no shortening of a file that is overwritten, a file whose write
failed closed without a change, a file object that may be opened while it is open.

*ComPacket.* The receiver's packet is a cleared one at first. The crc of the
instance tells one damaged byte of the payloads that occur (`CrcTells`, which
`MCComPacket` has TLC evaluate, and which is true of every CRC-32). A command is
given the `Parameters` that it can hold: for those from `CMD_GET_CAL` to
`CMD_STEP_OFF` nothing compares the size with the packet (181), and what does not
fit is written past it. Sizes that fit and get a length above the payload are
there. No fairness: a parse is a loop over a finite buffer.

*Axis.* Floats are exact: rounding is left out, so `AcceptedIsUsable` says nothing
about the last unit in the place of a float. `int` is wide enough for what is
computed in it; only what is stored in or converted to an `int16_t` is cut. What
`set_calibration` is given may be any record of `Calibrations`.

The named assumptions of the modules, which TLC evaluates for every instance and
the proofs start from: `SizeAssumption`, `ZeroAssumption` (the size of a ring is
a power of two from 2 up); `ByteNumbers`, `SizesAreSizes`,
`ArrivalNumbers`, `ReadSizesAreSizes`, `WordIsWide` (uart);
`HandleAssumption`, `CountAssumption`, `LeaksAssumption`, `NullAssumption` (the
table: finitely many handles, at least one slot, null is no handle);
`PayloadAssumption` (words, and a longest packet whose length is one byte),
`BytesAssumption`, `BeyondAssumption`, `CommandAssumption` (a command is one byte,
and `NULL`, which stands for missing parameters, is none), `TickAssumption` (what is
modelled of a parse lasts less than a turn of the tick); `BusAssumption`,
`GeometryAssumption` (pages divide sectors, and so on up to the chip),
`WritesAssumption` (writes are inside the chip), `MasksAssumption`;
`AxesAssumption`, `NamesAssumption`, `DataAssumption` (PITCH and ROLL have
files); `IntAssumption` (`IntMod` is even), `LogicalAssumption`,
`AlphaAssumption`, `FilterAssumption`, `MotorAssumption`.

## Proofs

TLAPS checks, for every value of the constants under these assumptions:

- `FifoLoop_proofs`: `TypeInvariant`; `LoopInvariant` (`LoopInv` is inductive
  with `TypeOK`; it says where n iterations have led, relative to the ring at
  the start of the call); from it `ClosedForm` and the refinement `RingIsQueue`.
  The latter shows that each iteration is one `Put`, `Take` or `Drop` of the
  queue and that storing the indices back is not visible. `FifoLemmas` has the
  modular arithmetic and what a put or a take does to the unread bytes.
  `PeeksForetell` follows a peek the same way: what `n` iterations have copied is
  the first `n` unread bytes (`Peeked`), and a byte that `fifo_peek` shows is
  unread (`PeekSeesUnread`).
- `Uart_proofs`, transmitter: `TypeInvariant`, `TransferInBuffer` and
  `BusyCoversTransfer` hold wherever the interrupt comes in, between the stores of
  `tx_remaining` too. The invariant `IInv` joins the three with what the main
  program knows at each of its points; types alone are not inductive because the
  callback takes `tx_size` from `tx_remaining` and the kick in `uart_update`
  relies on `tx_busy`. `LedgerHolds`, `SendsOnceInOrder` and `TransmitsInOrder`,
  the safety half of `ImplementsChannel`, hold when nothing disturbs a write
  (`Undisturbed`: callers do not overrun the ring, and the interrupt keeps out of
  `fifo_write` and of where the count is stored). That is their hypothesis and not
  an assumption of the module, since `uart_tx_preempted` shows what happens
  without it. The invariant `LedgerInv` numbers the bytes: the ring holds those
  from `Sent` to `Committed`, and the transfer and `tx_remaining` divide them up,
  except for those which a write that is under way has still to count.
- `Uart_proofs`, receiver: `RxTypeInvariant`, `EventCatchesUpHolds` and
  `ReceivesInOrder`, the safety half of `ImplementsRxChannel`. `RxInv` says that
  `dma_buffer` holds the last lap of what arrived (`Lap`), `rx_fifo` what was moved
  and has not gone (`Counts`), and that what lies between `dma_index` and the
  DMA's position is owed by the events that are pending (`Events`, `IdleOwes`): a
  dropped event is made up for by the next one.
- `UartRegistry_proofs`: `TypeInvariant`, `RegistryHolds`, `LookupIsRight`,
  `SlotsAreAccounted`. `IInv` adds the types and, for a call that is inside
  `uart_init` or `uart_deinit`, what is already done; without it a handle between
  its two steps would break the correspondence. `Balanced` extends the account
  of slots to the middle of calls, where one slot may be on its way.
- `ComPacket_proofs`: `TimeoutsAreReal`. The parser sees only the difference of
  two ticks modulo `TickMod`; `TickIsElapsed` says that this is the time gone by,
  and the invariant keeps start, elapsed time and tick in step. No packet makes a
  parse end as timed out (`VerdictIsNotTime`). `PacketsAreTyped`,
  `IntactPacketsAreReceived` and `AcceptedPacketsAreThere` take the hypothesis
  `CrcIsWord`, that `crc32_calc` returns four bytes, and nothing else about the check
  sum. `Made` says what a creator leaves: a cleared packet, or one whose size
  and crc are what the parser will compute (`Sealed`). `FrameShape` says where its
  fields are on the line, `FoundAt` that the parser takes it where it lies. The
  invariant of the search, `Search`, is: in time, the search has not come to the
  packet and has taken nothing, or it has received it. That of what is taken,
  `Taken`, keeps where in the buffer the packet in hand lies.
  `ReportsAreAlwaysRefused` rests on the same invariant: `Received` says how the
  search ends at an intact packet of any type.
- `ComPacket_proofs`, damage: `AcceptedPacketsWereSent` and `CommandsAreOrdered`
  add the hypothesis `CrcTells`, that the check sum sees one damaged byte;
  `OversizePacketsArePassedOver` does without. `Left` says what the line leaves of
  a packet, whole, cut or with one byte changed, and `Remains` where in the buffer
  that lies. Where a packet was taken can only be there, since everywhere else the
  search goes on (`OnlyRemains`), and an acknowledgement is not taken. What lies
  there has the payload of what was sent: a damaged payload or crc would be seen,
  and a damaged length leaves words that are not those of the crc
  (`TakenUnaltered`). Behind that payload the packet is what it was before the
  parse, `given`, which is all that a command without a payload shows. `Plain`
  says of a packet that it has such a check sum, which reports have not. For the
  oversized ones the invariant is `Passing`: the search has not yet come to the
  ACK, or it has ended there.
- `Flash_proofs`: `StaysUnlocked`, `CommandsWait`, `ChangesAreConfined`. `IInv`
  says what is still to be sent in a call (`Planned`: only its last transaction
  makes the chip busy, registers get clean bits, programs and erases are about
  the call's cells and stay in a page), what is left of a write (`Remaining`),
  whom the chip's job belongs to (`Owned`) and when the chip may be busy
  (`Waits`). It survives a transaction that fails anywhere, since what the chip
  has then seen is the command, cut short, or nothing. The theorems are about
  `Spec`; the run's `FairSpec` is `Spec` and fairness. `CallsTakeEffect` rests on
  a second invariant, `EffectInv`: the memory that a call is to leave is what the
  cells will be when its remaining transactions, and the job the chip is at, have
  done their work (`OnCourse`); what is left of a call is an end of its plan
  (`Suffix`); calls that are to change nothing send nothing that does
  (`Harmless`). A write is so split at its page boundaries for any geometry.
- `LfsConf_proofs`: `SavesLast`, `LoadsOwnFile`, `FailuresReported`. `IInv`
  follows one call: what `ret` and `result` say at each step about what failed
  before (`Reported`; `Unbroken` is what the code never sees of a failed first
  open), what the close of an open file will put on the flash (`Durable`), and
  that what was read is the file's (`Faithful`). `kept`, the promises made so far,
  is the link to earlier calls.
- `Axis_proofs`: `FieldsFit`, `Verifies`, `FilterIsBetween`, `MasterIsObeyed`,
  `MovesAreComplete`. `Verifies` rests on what a recalculation leaves: the ends
  in order, a zero between them, steps of the right sign. The filter's
  invariant is that a weighted mean stays between its bounds; that of a move is
  that what is loaded and what is left are the steps asked for.
  `UsableWhenAccepted` and `ReachesWhenAccepted` are about axes that
  `verify_calibration` let pass. `AcceptedIsSound` says what that comes to: the
  ranges are the differences of their ends, the zero is where a recalculation
  puts it and both steps are the ratio of the ranges. From there
  `apply_calibration` is a line on either side of the zero (`DeflectionIsLine`),
  monotonic (`LineIsMonotone`, `ClampIsMonotone`), and reaches the ends
  (`UpReaches`). `OwnZeroIsRefused` comes out on the way: an axis that keeps a zero
  of its own never passes, except with the zero at the very top.

Only model-checked:

- what holds under fairness, which this prover does not do: that all bytes come
  out in the end (the liveness of both refinements of `ByteChannel`, whose safety
  halves are proved), and `EveryCallReturns`.

Every other property of a run that passes is stated by a theorem. Neither runs nor
theorems say what a parse makes of a payload or noise that is itself a valid packet
(`Alone` leaves them out), beyond `AcceptedPacketsAreThere`; nor in which order bytes
are sent when callers overrun the transmit ring. There is no order then:
`tx_remaining` counts the bytes that the ring has dropped, and as many older or
newer ones are sent from the slots behind, so that with a ring of 4 `SentOnceInOrder`
already fails after a first write of 5, whose 4 bytes leave as 2, 3, 4, 1.
`DmaInBounds` and `BusyWhileActive` hold there all the same.

## Not modelled

- `bitutils.c`: conversions without state. The two that the library itself uses,
  `u8_to_u32` and `u32_to_u8`, are in `ComPacket` as the four bytes of a word.
- `logger.c`, `nanoprintf.c`: output; the fault handlers of `logger.c` do not return.
- `dev_id_strings.c`: a table of strings and one `switch`.
- littlefs, the HAL, the flash chip: third party, modelled from how they are used.
- The application: nothing under `src/` puts a packet into a uart, hands what a
  uart received to the parser, or calls the files with what an axis was set to.
  Its calls are the nondeterminism of each module; the glue is not invented.
- `register_flashfs_crc32`, the callbacks of `com_packet_init` beyond whether it
  was called, `com_packet_logger_cb`, the init and time-out setters of both buses,
  `get_calibration`, and the reads of the chip's identity: they store or copy
  what they are given.
- Parameters that do not fit a packet, and null handles (`uart_update` follows one,
  uart.c:75-76): the C program is outside its own memory then.
- A receive ring that overflows (`Room`): bytes are lost there and nothing is
  promised.

## Plan

The order was: ring, transmitter, receiver and table (they are concurrent and
everything rests on them), then packets, flash and files, then axes and motors,
the second bus, line errors and oversized packets. What would follow:

1. An overflowing receive ring, with the weaker promise of `LossyQueue`, as a run
   and as a theorem: the callback's `fifo_write` then drops what was not read.
2. `ComPacket` with a payload that can hold a packet, in a run of its own (a
   payload of 16 or more), to show on an instance what `Alone` leaves out.
