------------------------------- MODULE Flash -------------------------------
(***************************************************************************)
(* Src/w25qxx.c over Src/spi_bus.c or Src/qspi_bus.c: the driver of the    *)
(* flash chip, called by the application and by the block device functions *)
(* of Src/lfs_conf.c.                                                      *)
(* A step is one bus transaction, or the chip finishing what it was told,  *)
(* or a restart.  With Faults a transaction may fail at any byte; then the *)
(* chip has seen a part of it.                                             *)
(*                                                                         *)
(* The chip is modelled from what the driver relies on: a program or erase *)
(* needs a write enable, keeps the chip busy and takes the enable back, a  *)
(* program only clears bits and wraps within its page, a busy chip answers *)
(* nothing but a status read or a reset, a sleeping one only its release.  *)
(* A cell stands for a byte; it is TRUE when erased.                       *)
(***************************************************************************)
EXTENDS Integers, Sequences

CONSTANTS
  W25Q_PAGE_SIZE, W25Q_BLOCK_SIZE,   \* the latter is the 4K sector
  Block32K, Block64K, Capacity,
  Writes,          \* what is programmed: records of an addr and data
  Masks,           \* what w25q_write_SRn is given: records of an n and bits
  Bus,             \* "spi" or "qspi"
  Faults           \* whether transactions fail

ASSUME BusAssumption == Bus \in {"spi", "qspi"}
ASSUME GeometryAssumption ==
  /\ {W25Q_PAGE_SIZE, W25Q_BLOCK_SIZE, Block32K, Block64K, Capacity} \subseteq Nat \ {0}
  /\ W25Q_BLOCK_SIZE % W25Q_PAGE_SIZE = 0
  /\ Block32K % W25Q_BLOCK_SIZE = 0 /\ Block64K % Block32K = 0 /\ Capacity % Block64K = 0

Cells == 0 .. Capacity - 1

(* littlefs stays within the chip. *)
ASSUME WritesAssumption ==
  /\ Writes \subseteq [addr : Cells, data : Seq(BOOLEAN)]
  /\ \A w \in Writes : w.addr + Len(w.data) <= Capacity
ASSUME MasksAssumption == \A m \in Masks : m.n \in 1 .. 3

(* The bits that the driver never sets, by register. *)
NeverSet ==
  [n \in 1 .. 3 |->
     CASE n = 1 -> {"SRP"}
       [] n = 2 -> {"LB1", "LB2", "LB3", "SRL", "RESERVED"}
       [] n = 3 -> {"RESERVED1", "RESERVED2", "RESERVED3", "RESERVED4", "RESERVED5"}]

VARIABLES
  mem,                   \* the memory of the chip
  chip,                  \* its latches, its job and its status registers
  pc, op,                \* the call in progress, or the last one
  todo,                  \* its transactions before it polls
  address,               \* of the call
  w, left, ret,          \* of w25q_write: what it was given, what is left of it
  expect,                \* history: what the call leads to, unless something failed
  owner, blind           \* history: the cells that the chip's job is about, and
                         \* whether a poll of it failed

write == <<address, w, left, ret>>
vars == <<mem, chip, pc, op, todo, write, expect, owner, blind>>

Unknown == << >>
NoWrite == [addr |-> 0, data |-> << >>]
NoJob == << >>

Command(opcode, addr, data) == [opcode |-> opcode, addr |-> addr, data |-> data]
Plain(opcode) == Command(opcode, 0, << >>)
w25q_enable_write == Plain("WRITE_ENABLE")
w25q_enable_vsr_write == Plain("WRITE_ENABLE_VSR")
w25q_reset == <<Plain("ENABLE_RESET"), Plain("RESET_DEVICE")>>

-----------------------------------------------------------------------------
(* The chip. *)
AlignedBlock(addr, length) == {a \in Cells : a \div length = addr \div length}

(* Data beyond the end of the page goes to its start, over what was there. *)
Programmed(addr, data) ==
  LET page == addr - (addr % W25Q_PAGE_SIZE)
      Target(i) == page + ((addr - page + i - 1) % W25Q_PAGE_SIZE)
  IN  [a \in {Target(i) : i \in 1 .. Len(data)} |->
         mem[a] /\ \E i \in 1 .. Len(data) :
                      /\ Target(i) = a /\ data[i]
                      /\ \A j \in i + 1 .. Len(data) : Target(j) # a]

Erased(cells) == [a \in cells |-> TRUE]

Job(c) ==
  CASE c.opcode = "PAGE_PROGRAM"    -> Programmed(c.addr, c.data)
    [] c.opcode = "SECTOR_ERASE_4K" -> Erased(AlignedBlock(c.addr, W25Q_BLOCK_SIZE))
    [] c.opcode = "BLOCK_ERASE_32K" -> Erased(AlignedBlock(c.addr, Block32K))
    [] c.opcode = "BLOCK_ERASE_64K" -> Erased(AlignedBlock(c.addr, Block64K))
    [] c.opcode = "CHIP_ERASE"      -> Erased(Cells)
    [] OTHER -> NoJob

Register(c) ==
  CASE c.opcode = "WRITE_SR1" -> 1
    [] c.opcode = "WRITE_SR2" -> 2
    [] c.opcode = "WRITE_SR3" -> 3
    [] OTHER -> 0

(* The chip after a command that it has received. *)
Obeyed(c, ch) ==
  CASE c.opcode = "WRITE_ENABLE"     -> [ch EXCEPT !.wel = TRUE]
    [] c.opcode = "WRITE_ENABLE_VSR" -> [ch EXCEPT !.vsr = TRUE]
    [] c.opcode = "WRITE_DISABLE"    -> [ch EXCEPT !.wel = FALSE]
    [] c.opcode = "PWR_DOWN"         -> [ch EXCEPT !.asleep = TRUE]
    [] ch.wel /\ Job(c) # NoJob      -> [ch EXCEPT !.busy = TRUE, !.job = Job(c)]
    [] (ch.wel \/ ch.vsr) /\ Register(c) # 0 /\ c.data # << >> ->
         [ch EXCEPT !.busy = TRUE, !.sr[Register(c)] = c.data[1]]
    [] OTHER -> ch

Quiet(ch) == [ch EXCEPT !.wel = FALSE, !.vsr = FALSE, !.busy = FALSE, !.job = NoJob, !.armed = FALSE]

Told(c) ==
  LET ch == [chip EXCEPT !.armed = FALSE]
  IN  IF chip.asleep
      THEN [ch EXCEPT !.asleep = (c.opcode # "REL_PWR_DOWN")]
      ELSE IF c.opcode = "ENABLE_RESET" THEN [chip EXCEPT !.armed = TRUE]
      ELSE IF c.opcode = "RESET_DEVICE" /\ chip.armed THEN Quiet(chip)
      ELSE IF chip.busy THEN ch
      ELSE Obeyed(c, ch)

(* The memory when the job has been done for the cells before a point. *)
DoneUpTo(point) ==
  [a \in Cells |-> IF a \in DOMAIN chip.job /\ a < point THEN chip.job[a] ELSE mem[a]]

Abort == \E point \in 0 .. Capacity : mem' = DoneUpTo(point)

Finish ==
  /\ chip.busy
  /\ mem' = DoneUpTo(Capacity)
  /\ chip' = [Quiet(chip) EXCEPT !.armed = chip.armed]
  /\ owner' = {} /\ blind' = FALSE
  /\ UNCHANGED <<pc, op, todo, write, expect>>

-----------------------------------------------------------------------------
(* A transaction of the bus: what the chip has seen of a command, and      *)
(* whether the bus reports that it has seen all of it.                     *)
All(c) == [cmds |-> {c}, ok |-> TRUE]
Nothing == [cmds |-> {}, ok |-> FALSE]
UpTo(c, k) == [cmds |-> {[c EXCEPT !.data = SubSeq(c.data, 1, k)]}, ok |-> FALSE]

(* How the transports fail.  SPI sends opcode, address, dummy bytes and    *)
(* data one after the other, and a failure ends the transaction.  QSPI     *)
(* hands over the command in one phase, which the data starts, and after a *)
(* failure with data it stops in a breakpoint: that is at worst a Restart. *)
spi_bus_write(c) == {Nothing} \cup {UpTo(c, k) : k \in 0 .. Len(c.data)}
spi_bus_read(c) == {Nothing, UpTo(c, 0)}

qspi_bus_write(c) ==
  IF c.data = << >> THEN {Nothing, UpTo(c, 0)}
  ELSE {Nothing} \cup {UpTo(c, k) : k \in 0 .. Len(c.data)}
qspi_bus_read(c) == {Nothing} \cup {UpTo(c, 0)}

Failures(c) ==
  CASE Bus = "spi" /\ c.opcode = "READ_DATA" -> spi_bus_read(c)
    [] Bus = "spi" /\ c.opcode # "READ_DATA" -> spi_bus_write(c)
    [] Bus = "qspi" /\ c.opcode = "READ_DATA" -> qspi_bus_read(c)
    [] Bus = "qspi" /\ c.opcode # "READ_DATA" -> qspi_bus_write(c)

Seen(c) == {All(c)} \cup (IF Faults THEN Failures(c) ELSE {})

(* The calls that end by waiting until the chip is not busy. *)
Polled == {"init", "read", "prog", "sector_erase_4k", "block_erase_32k", "block_erase_64k",
           "chip_erase", "write_SR"}

(* The cells that the call is about. *)
Asked ==
  CASE op = "prog" -> w.addr .. w.addr + Len(w.data) - 1
    [] op = "sector_erase_4k" -> AlignedBlock(address, W25Q_BLOCK_SIZE)
    [] op = "block_erase_32k" -> AlignedBlock(address, Block32K)
    [] op = "block_erase_64k" -> AlignedBlock(address, Block64K)
    [] op = "chip_erase" -> Cells
    [] OTHER -> {}

Transaction ==
  /\ pc = "send"
  /\ \E s \in Seen(Head(todo)) :
       /\ expect' = IF s.ok THEN expect ELSE Unknown
       /\ IF s.cmds = {}
          THEN UNCHANGED <<mem, chip, owner, blind>>
          ELSE \E c \in s.cmds :
                 /\ chip' = Told(c)
                 /\ owner' = IF Told(c).busy = chip.busy THEN owner
                             ELSE IF Told(c).busy THEN Asked ELSE {}
                 /\ blind' = (blind /\ Told(c).busy)
                 /\ IF chip.busy /\ ~Told(c).busy THEN Abort ELSE UNCHANGED mem
  /\ todo' = Tail(todo)
  /\ pc' = IF Tail(todo) # << >> THEN "send" ELSE IF op \in Polled THEN "poll" ELSE "ready"
  /\ UNCHANGED <<op, write>>

-----------------------------------------------------------------------------
Init ==
  /\ mem = Erased(Cells)
  /\ chip = [wel |-> FALSE, vsr |-> FALSE, busy |-> FALSE, job |-> NoJob, armed |-> FALSE,
             asleep |-> FALSE, sr |-> [n \in 1 .. 3 |-> {}]]
  /\ pc = "off" /\ op = "none" /\ todo = << >>
  /\ address = 0 /\ w = NoWrite /\ left = << >> /\ ret = 0
  /\ expect = Unknown /\ owner = {} /\ blind = FALSE

(* Every call starts here: its name, what it should lead to, and whether   *)
(* its first read, if it has one, succeeds.                                *)
Begin(name, memory, registers, ok) ==
  /\ pc = IF name = "init" THEN "off" ELSE "ready"
  /\ op' = name
  /\ expect' = IF ok /\ ~chip.busy /\ ~chip.asleep THEN [mem |-> memory, sr |-> registers]
               ELSE Unknown
  /\ UNCHANGED <<mem, chip, owner, blind>>

Send(commands) == pc' = "send" /\ todo' = commands

At(addr) == address' = addr /\ w' = NoWrite /\ left' = << >> /\ ret' = 0

Simple(name) == Begin(name, mem, chip.sr, TRUE) /\ At(0)

Erase(name, addr, length) ==
  /\ Begin(name, [a \in Cells |-> a \in AlignedBlock(addr, length) \/ mem[a]], chip.sr, TRUE)
  /\ At(addr)

w25q_init == Simple("init") /\ Send(w25q_reset)

(* The driver stops at an address that is not a sector's; callers of the   *)
(* block erases give a block's.  Only the sector erase enables the write.  *)
w25q_sector_erase_4k(a) ==
  /\ Erase("sector_erase_4k", a, W25Q_BLOCK_SIZE)
  /\ Send(<<w25q_enable_write, Command("SECTOR_ERASE_4K", a, << >>)>>)

erase_flash_region ==
  \E block \in 0 .. (Capacity \div W25Q_BLOCK_SIZE) - 1 : w25q_sector_erase_4k(block * W25Q_BLOCK_SIZE)

w25q_block_erase_32k ==
  \E a \in {x \in Cells : x % Block32K = 0} :
    Erase("block_erase_32k", a, Block32K) /\ Send(<<Command("BLOCK_ERASE_32K", a, << >>)>>)

w25q_block_erase_64k ==
  \E a \in {x \in Cells : x % Block64K = 0} :
    Erase("block_erase_64k", a, Block64K) /\ Send(<<Command("BLOCK_ERASE_64K", a, << >>)>>)

w25q_chip_erase ==
  Erase("chip_erase", 0, Capacity) /\ Send(<<w25q_enable_write, Plain("CHIP_ERASE")>>)

w25q_power_down == Simple("command") /\ Send(<<Plain("PWR_DOWN")>>)
w25_release_power_down == Simple("command") /\ Send(<<Plain("REL_PWR_DOWN")>>)
EnableWrite == Simple("command") /\ Send(<<w25q_enable_write>>)
EnableVsrWrite == Simple("command") /\ Send(<<w25q_enable_vsr_write>>)
Reset == Simple("command") /\ Send(w25q_reset)
w25q_disable_write == Simple("command") /\ Send(<<Plain("WRITE_DISABLE")>>)

(* Also as read_flash_region, which returns 0 whatever the bus said. *)
w25q_read == Simple("read") /\ Send(<<Plain("READ_DATA")>>)

-----------------------------------------------------------------------------
(* w25q_write, by way of prog_flash_region. *)
PageBoundary(addr) == addr - (addr % W25Q_PAGE_SIZE) + W25Q_PAGE_SIZE

(* Variant: what would pass the boundary is not held back. *)
ThisWriteUnsplit(addr, data, lastAddr) == Len(data)

ThisWrite(addr, data, lastAddr) ==
  IF lastAddr >= PageBoundary(addr) THEN PageBoundary(addr) - addr ELSE Len(data)

(* Variant: the remaining count is not reduced. *)
NextPageForgets(addr, data, lastAddr, written) ==
  LET n == ThisWrite(addr, data, lastAddr)
  IN  /\ Send(<<w25q_enable_write, Command("PAGE_PROGRAM", addr, SubSeq(data, 1, n))>>)
      /\ ret' = n /\ address' = addr /\ left' = data

(* Variant: the write is enabled once, before the loop. *)
NextPageEnabledOnce(addr, data, lastAddr, written) ==
  LET n == ThisWrite(addr, data, lastAddr)
      program == Command("PAGE_PROGRAM", addr, SubSeq(data, 1, n))
  IN  /\ Send(IF written = 0 THEN <<w25q_enable_write, program>> ELSE <<program>>)
      /\ ret' = written + n
      /\ address' = addr + n
      /\ left' = SubSeq(data, n + 1, Len(data))

(* One turn of the loop, up to its poll. *)
NextPage(addr, data, lastAddr, written) ==
  LET n == ThisWrite(addr, data, lastAddr)
  IN  /\ Send(<<w25q_enable_write, Command("PAGE_PROGRAM", addr, SubSeq(data, 1, n))>>)
      /\ ret' = written + n
      /\ address' = addr + n
      /\ left' = SubSeq(data, n + 1, Len(data))

prog_flash_region ==
  \E x \in Writes :
    LET cells == x.addr .. x.addr + Len(x.data) - 1
    IN  /\ Begin("prog", [a \in Cells |-> mem[a] /\ (a \in cells => x.data[a - x.addr + 1])],
                 chip.sr, TRUE)
        /\ w' = x
        /\ IF x.data # << >>
           THEN NextPage(x.addr, x.data, x.addr + Len(x.data) - 1, 0)
           ELSE address' = x.addr /\ left' = << >> /\ ret' = 0 /\ UNCHANGED <<pc, todo>>

(* What prog_flash_region tells littlefs. *)
prog_result == IF ret # Len(w.data) THEN -5 ELSE 0

-----------------------------------------------------------------------------
(* w25q_write_SR1, _SR2, _SR3, w25q_enable_qspi, w25q_disable_qspi: the    *)
(* register is read, changed and written.  When the read fails the rest    *)
(* goes on with 0.                                                         *)
WriteSr == <<"WRITE_SR1", "WRITE_SR2", "WRITE_SR3">>

(* Variant: only the reserved bit is kept clear. *)
NewValueLockable(n, old, state, bits) ==
  (IF state THEN old \cup bits ELSE old \ bits) \ {"RESERVED"}

NewValue(n, old, state, bits) ==
  (IF state THEN old \cup bits ELSE old \ bits) \ NeverSet[n]

ChangeSr(enable, n, state, bits) ==
  \E ok \in {TRUE, ~Faults} :
    LET old == IF ok THEN chip.sr[n] ELSE {}
    IN  /\ Begin("write_SR", mem, [chip.sr EXCEPT ![n] = NewValue(n, @, state, bits)], ok)
        /\ Send(<<enable, Command(WriteSr[n], 0, <<NewValue(n, old, state, bits)>>)>>)
        /\ At(0)

w25q_write_SR ==
  \E m \in Masks, state \in BOOLEAN :
    ChangeSr(w25q_enable_vsr_write, m.n, state, m.bits)

w25q_enable_qspi == ChangeSr(w25q_enable_write, 2, TRUE, {"QE"})
w25q_disable_qspi == ChangeSr(w25q_enable_write, 2, FALSE, {"QE"})

-----------------------------------------------------------------------------
(* while(w25q_busy(flash_dev)) has ended. *)
AfterPoll ==
  /\ IF op = "prog" /\ left # << >>
     THEN NextPage(address, left, w.addr + Len(w.data) - 1, ret) /\ UNCHANGED w
     ELSE /\ pc' = IF op = "init" THEN "id" ELSE "ready"
          /\ address' = 0
          /\ UNCHANGED <<todo, w, left, ret>>
  /\ UNCHANGED <<mem, chip, op, owner>>

(* Variant: the busy bit is not looked at. *)
PollIdleAlways ==
  /\ pc = "poll" /\ ~chip.asleep
  /\ AfterPoll /\ UNCHANGED <<expect, blind>>

PollIdle ==
  /\ pc = "poll" /\ ~chip.busy /\ ~chip.asleep
  /\ AfterPoll /\ UNCHANGED <<expect, blind>>

(* The read of the status register fails and leaves the 0 it started with. *)
PollFails ==
  /\ pc = "poll" /\ Faults
  /\ AfterPoll /\ expect' = Unknown /\ blind' = (blind \/ chip.busy)

(* Nobody drives the line: any value may be read. *)
PollAsleep ==
  /\ pc = "poll" /\ chip.asleep
  /\ AfterPoll /\ UNCHANGED <<expect, blind>>

(* The id that w25q_init asks for; without it nothing else is called. *)
CheckId ==
  /\ pc = "id"
  /\ \/ ~chip.busy /\ ~chip.asleep /\ pc' = "ready" /\ UNCHANGED expect
     \/ (Faults \/ chip.busy \/ chip.asleep) /\ pc' = "off" /\ expect' = Unknown
  /\ UNCHANGED <<mem, chip, op, todo, write, owner, blind>>

Off ==
  /\ pc # "off" /\ pc' = "off" /\ op' = "none" /\ todo' = << >>
  /\ At(0) /\ expect' = Unknown

(* The processor restarts and the chip goes on, or both lose their power. *)
Restart == Off /\ UNCHANGED <<mem, chip, owner, blind>>

PowerLoss ==
  /\ Off /\ Abort
  /\ chip' = [Quiet(chip) EXCEPT !.asleep = FALSE]
  /\ owner' = {} /\ blind' = FALSE

Next ==
  \/ Finish \/ Transaction
  \/ w25q_init \/ w25q_read \/ prog_flash_region
  \/ erase_flash_region \/ w25q_block_erase_32k \/ w25q_block_erase_64k \/ w25q_chip_erase
  \/ w25q_power_down \/ w25_release_power_down \/ w25q_disable_write
  \/ EnableWrite \/ EnableVsrWrite \/ Reset
  \/ w25q_write_SR \/ w25q_enable_qspi \/ w25q_disable_qspi
  \/ PollIdle \/ PollFails \/ PollAsleep \/ CheckId
  \/ Restart \/ PowerLoss

Spec == Init /\ [][Next]_vars

(* The processor runs on, and the chip finishes what it has begun. *)
FairSpec == Spec /\ WF_vars(Transaction) /\ WF_vars(PollIdle) /\ WF_vars(CheckId) /\ WF_vars(Finish)

-----------------------------------------------------------------------------
(* CallTakesEffect: a call during which no transaction failed has done to  *)
(* every cell and every status register what it is for and nothing else,   *)
(* and leaves the chip idle.  The block erases are left out: they do not   *)
(* enable the write (see the README).                                      *)
CallTakesEffect ==
  pc = "ready" /\ expect # Unknown /\ op \notin {"block_erase_32k", "block_erase_64k"} =>
    mem = expect.mem /\ chip.sr = expect.sr /\ ~chip.busy

(* CommandsWaitForBusy: nothing is sent to a busy chip, after a restart    *)
(* and after failed calls too, unless a poll of this very job failed.      *)
CommandsWaitForBusy ==
  pc \in {"ready", "send"} /\ op # "init" /\ chip.busy => blind

(* WriteConfined: whatever fails or is broken off, a cell changes only if  *)
(* the call that started the chip's job was about it.                      *)
WriteConfined == [][\A a \in Cells : mem'[a] # mem[a] => a \in owner]_vars

(* NeverLocked: no sequence of calls, with transactions failing, sets a    *)
(* bit that cannot be cleared again or that locks the registers            *)
(* (the comment at w25qxx.c:252).                                          *)
NeverLocked == \A n \in 1 .. 3 : chip.sr[n] \cap NeverSet[n] = {}

(* EveryCallReturns: a call ends, unless the chip was put to sleep.        *)
EveryCallReturns == pc \in {"send", "poll", "id"} ~> pc \in {"ready", "off"} \/ chip.asleep

(* ErrorsAreReported: prog_flash_region returns "0 unless there was an     *)
(* error" (lfs_conf.c:138): when it returns 0 the data is on the chip.     *)
ErrorsAreReported ==
  pc = "ready" /\ op = "prog" /\ prog_result = 0 =>
    \A i \in 1 .. Len(w.data) : ~w.data[i] => ~mem[w.addr + i - 1]

=============================================================================
